\* All writer operations and a concurrent searcher, m_max 1 so pruning
\* happens.  Deadlock is not checked: insert and search take the three
\* locks in opposite orders and really can stop each other (see
\* MC_HnswIndex_deadlock.cfg).
CONSTANTS
    n1 = n1
    n2 = n2
    n3 = n3
    s1 = s1
    NoId = NoId
    Ids <- MCIds
    Vals <- MCVals
    Searchers <- MCSearchers
    MMax = 1
    MaxLevel = 1
    MaxOps = 3
    WriterOps <- MCAllOps
SYMMETRY MCSymmetry
SPECIFICATION Spec
CHECK_DEADLOCK FALSE
INVARIANTS
    TypeOK
    SearchMatchesReference
