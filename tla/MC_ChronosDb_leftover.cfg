\* Two compactions, the first failing part-way through its copy and
\* leaving a .compacted file behind.
CONSTANTS
    k1 = k1
    k2 = k2
    r1 = r1
    b1 = b1
    gc = gc
    admin = admin
    Keys <- MCKeys
    CompactLimits <- MCLimitsFull
    Hole = Hole
    NoRec = NoRec
    NoFile = NoFile
    Readers <- MCNoReaders
    Builders <- MCNoBuilders
    Compactors <- MCOnlyGc
    MaxOps = 2
    MaxCompactions = 2
    FsFaults = TRUE
SPECIFICATION Spec
PROPERTIES
    CompactionRetains
