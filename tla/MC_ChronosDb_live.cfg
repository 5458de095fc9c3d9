\* Every started operation completes under weak fairness of the threads.
CONSTANTS
    k1 = k1
    k2 = k2
    r1 = r1
    b1 = b1
    gc = gc
    admin = admin
    Keys <- MCOneKey
    CompactLimits <- MCLimitsFull
    Hole = Hole
    NoRec = NoRec
    NoFile = NoFile
    Readers <- MCNoReaders
    Builders <- MCBuilders
    Compactors <- MCOnlyGc
    MaxOps = 2
    MaxCompactions = 1
    FsFaults = FALSE
SPECIFICATION FairSpec
PROPERTIES
    OpsComplete
