\* One identifier for both directions.
CONSTANTS
    Setting = {s1}
    Trace = {t1}
    CommInFolder = TRUE
    SafeStart = TRUE
    MaxRun = 1
    MaxSession = 1
    Absent = Absent
    Id <- MCId
    DataFile <- MCDataFile
    DataContent <- MCDataContent
    AuxModes = {FALSE}
    Scripts <- ScriptsEcho
    MaxOps = 4
SPECIFICATION FileSpec
INVARIANT
    ImportsComeFromPartner
