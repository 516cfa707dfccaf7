\* The default: the buffer is as large as the pipe.
CONSTANTS
    Setting = {s1}
    Trace = {t1}
    CommInFolder = TRUE
    SafeStart = TRUE
    MaxRun = 1
    MaxSession = 2
    Absent = Absent
    DataFile <- MCDataFile
    DataContent <- MCDataContent
    BufferSize = 4
    Capacity = 4
    PipeBuf = 2
    PipeScripts <- ScriptsMatched
    Coupled <- ScriptsMatched
    MaxSize = 3
SPECIFICATION PipeSpec
INVARIANT
    PipeDelivers


