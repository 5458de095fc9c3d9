\* One insert at a time against one searcher: the lock orders of insert
\* and search.
CONSTANTS
    n1 = n1
    n2 = n2
    n3 = n3
    s1 = s1
    NoId = NoId
    Ids <- MCIds
    Vals <- MCVals
    Searchers <- MCSearchers
    MMax = 3
    MaxLevel = 0
    MaxOps = 2
    WriterOps <- MCInsertOnly
SYMMETRY MCSymmetry
SPECIFICATION Spec
INVARIANT
    NoLockCycle
