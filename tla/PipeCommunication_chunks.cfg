\* Chunks that the kernel writes atomically; programs that fit together and others.
CONSTANTS
    Setting = {s1}
    Trace = {t1}
    CommInFolder = TRUE
    SafeStart = TRUE
    MaxRun = 1
    MaxSession = 2
    Absent = Absent
    DataFile <- MCDataFile
    DataContent <- MCDataContent
    BufferSize = 2
    Capacity = 4
    PipeBuf = 2
    PipeScripts <- ScriptsAll
    Coupled <- ScriptsMatched
    MaxSize = 3
SPECIFICATION PipeSpec
INVARIANTS
    PipeDelivers
    PipeNeverFails
    NoStaleBytes
PROPERTY
    PipeRunEnds
\* A program may import what is never exported.
CHECK_DEADLOCK FALSE
