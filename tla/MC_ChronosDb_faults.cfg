\* ChronosDb with open/append/remove/rename failures: snapshot, restore
\* and two GC compactions, each of which may fail at any step.
CONSTANTS
    k1 = k1
    k2 = k2
    r1 = r1
    b1 = b1
    gc = gc
    admin = admin
    Keys <- MCKeys
    Readers <- MCNoReaders
    Builders <- MCBuilders
    Compactors <- MCOnlyGc
    CompactLimits <- MCLimitsFull
    MaxOps = 3
    MaxCompactions = 2
    FsFaults = TRUE
    Hole = Hole
    NoRec = NoRec
    NoFile = NoFile
SPECIFICATION Spec
INVARIANTS
    BloomCoversIndex
