\* Fresh inserts only, m_max 1, no levels: the third node loses its
\* back link to pruning.  The writer stops after MaxOps operations and
\* nothing else runs, so the final states are not deadlocks.
CONSTANTS
    n1 = n1
    n2 = n2
    n3 = n3
    s1 = s1
    NoId = NoId
    Ids <- MCIds
    Vals <- MCVals
    Searchers <- MCNoSearchers
    MMax = 1
    MaxLevel = 0
    MaxOps = 3
    WriterOps <- MCInsertOnly
SYMMETRY MCSymmetry
SPECIFICATION Spec
CHECK_DEADLOCK FALSE
INVARIANT
    Retrievable
