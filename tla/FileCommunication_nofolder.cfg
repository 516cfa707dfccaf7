\* Files in the working directory: nobody removes files but the one that reads them.
CONSTANTS
    Setting = {s1, s2}
    Trace = {t1, t2}
    CommInFolder = FALSE
    SafeStart = TRUE
    MaxRun = 1
    MaxSession = 3
    Absent = Absent
    Id <- MCId
    DataFile <- MCDataFile
    DataContent <- MCDataContent
    AuxModes = {TRUE, FALSE}
    Scripts <- ScriptsMatched
    MaxOps = 4
SPECIFICATION FileSpec
INVARIANTS
    FileInv
    NothingLeftOver
PROPERTIES
    ImplementsMailbox
