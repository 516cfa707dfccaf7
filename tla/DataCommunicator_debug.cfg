\* DataCommunicator_debug
SPECIFICATION FairDataCommunicatorSpec
CONSTANTS
    N = 2
    Root = 1
    MaxLen = 2
    MaxPart = 1
    Ops <- AllOps
    Roots <- AllRoots
    LocalErrors = FALSE
INVARIANTS BuffersFit SameOutcome
PROPERTY EveryRankEnds
CHECK_DEADLOCK FALSE
