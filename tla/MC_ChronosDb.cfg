\* ChronosDb without filesystem faults: what get_latest returns across
\* two compactions (GC with limit 10, COMPACT with limit 1) racing a reader
\* and the writer.
CONSTANTS
    k1 = k1
    k2 = k2
    r1 = r1
    b1 = b1
    gc = gc
    admin = admin
    Keys <- MCKeys
    Readers <- MCReaders
    Builders <- MCNoBuilders
    Compactors <- MCCompactors
    CompactLimits <- MCLimitsFull
    MaxOps = 3
    MaxCompactions = 2
    FsFaults = FALSE
    Hole = Hole
    NoRec = NoRec
    NoFile = NoFile
SPECIFICATION Spec
INVARIANTS
    TypeOK
PROPERTIES
    CompactionRetains
