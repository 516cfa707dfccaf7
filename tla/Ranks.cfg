\* All formats, with partners that agree and partners that do not.
SPECIFICATION FairRanksSpec
CONSTANTS
    Instances <- AllInstances
    Coupled <- CoupledScripts
    Setting = {"s", "t"}
    MaxRanks = 3
    SocketBuffer = 1
INVARIANTS
    RanksMeet
    NoHalfConnection
    MatchingNeverThrows
    ImportsFromTwin
PROPERTY MatchingRanksEnd
\* Programs may not match, and rank 0 may throw while others wait for its broadcast.
CHECK_DEADLOCK FALSE
