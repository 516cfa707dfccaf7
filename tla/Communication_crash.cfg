\* Three executions: the first two may be killed anywhere, the primary is started
\* first after that and removes what they left.
CONSTANTS
    Setting = {s1, s2}
    Trace = {t1, t2}
    CommInFolder = TRUE
    SafeStart = TRUE
    MaxRun = 3
    MaxSession = 2
    Absent = Absent
    DataFile = {}
    DataContent = {}
SPECIFICATION FairSpec
INVARIANTS
    OnlyMismatchFails
    FreshPartnerInfo
    ConnectedTogether
    SameVerdict
    NothingLeftOver
    IInv
PROPERTIES
    ImplementsRendezvous
    LastRunEnds
