\* P1 round trip with one writer and one reader and no compaction: a read
\* moves the shared cursor, so the next append overwrites a record.
CONSTANTS
    k1 = k1
    k2 = k2
    r1 = r1
    b1 = b1
    gc = gc
    admin = admin
    Keys <- MCKeys
    CompactLimits <- MCLimitsFull
    Hole = Hole
    NoRec = NoRec
    NoFile = NoFile
    Readers <- MCReaders
    Builders <- MCNoBuilders
    Compactors <- MCNoCompactors
    MaxOps = 3
    MaxCompactions = 0
    FsFaults = FALSE
SPECIFICATION Spec
PROPERTIES
    RoundTrip
