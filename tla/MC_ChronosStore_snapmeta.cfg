\* build_snapshot beside apply: the snapshot's metadata against the data it
\* holds.
CONSTANTS
    k1 = k1
    c1 = c1
    NoCfg = NoCfg
    NoLog = NoLog
    NoSnap = NoSnap
    Ids <- MCIds
    Cmds <- MCCmds
    MaxTerm = 2
    MaxIndex = 2
    MaxRestarts = 1
SPECIFICATION Spec
INVARIANT
    SnapshotMatchesMeta
