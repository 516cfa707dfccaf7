\* All short programs, the ones that do not fit together included, in both modes.
\* The first execution may be killed anywhere, and nobody takes care that the
\* primary is started first after that.
CONSTANTS
    Setting = {s1}
    Trace = {t1, t2}
    CommInFolder = TRUE
    SafeStart = FALSE
    MaxRun = 2
    MaxSession = 2
    Absent = Absent
    Id <- MCId
    DataFile <- MCDataFile
    DataContent <- MCDataContent
    AuxModes = {TRUE, FALSE}
    Scripts <- ScriptsAll
    MaxOps = 4
SPECIFICATION FileSpec
INVARIANTS
    ImportsMatchExports
    FreshPartnerInfo
    ConnectedTogether
\* A program may import what is never exported, and a partner whose signal was
\* consumed by mistake waits forever.
CHECK_DEADLOCK FALSE
