\* One node's Raft storage: log store, apply, snapshot build and install,
\* the admin /build-snapshot request and one restart, over two terms and
\* two indices, under openraft's fairness.
CONSTANTS
    k1 = k1
    c1 = c1
    NoCfg = NoCfg
    NoLog = NoLog
    NoSnap = NoSnap
    Ids <- MCIds
    Cmds <- MCCmds
    MaxTerm = 2
    MaxIndex = 2
    MaxRestarts = 1
SPECIFICATION FairSpec
INVARIANT
    TypeOK
PROPERTY
    CommittedApplied
