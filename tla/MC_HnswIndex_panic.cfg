\* Inserts and Updates with levels 0 and 1 (m_max large): an Update that
\* lowers a node's level, then an insert whose zoom-in hops onto it.  The
\* writer stops after MaxOps operations, so the final states are not
\* deadlocks.
CONSTANTS
    n1 = n1
    n2 = n2
    n3 = n3
    s1 = s1
    NoId = NoId
    Ids <- MCIds
    Vals <- MCVals
    Searchers <- MCNoSearchers
    MMax = 3
    MaxLevel = 1
    MaxOps = 4
    WriterOps <- MCInsertUpdate
SYMMETRY MCSymmetry
SPECIFICATION Spec
CHECK_DEADLOCK FALSE
INVARIANT
    NoPanic
