\* Insert racing the GC thread: the offset appended before compaction is
\* pushed into the compacted index afterwards.
CONSTANTS
    k1 = k1
    k2 = k2
    r1 = r1
    b1 = b1
    gc = gc
    admin = admin
    Keys <- MCKeys
    CompactLimits <- MCLimitsFull
    Hole = Hole
    NoRec = NoRec
    NoFile = NoFile
    Readers <- MCNoReaders
    Builders <- MCNoBuilders
    Compactors <- MCOnlyGc
    MaxOps = 3
    MaxCompactions = 1
    FsFaults = FALSE
SPECIFICATION Spec
INVARIANTS
    OffsetsUnique
