SPECIFICATION Spec
CONSTANTS
    w1 = w1
    w2 = w2
    w3 = w3
    NoJob = NoJob
    Nobody = Nobody
    NoEvent = NoEvent
    Workers <- WorkersDef
    Host <- HostDef
    Lists <- ListsDef
    DataBank <- DataBankDef
    IndexedData <- IndexedDataDef
    Packets <- PacketsDef
    Mixes <- OneReader
    SeqMax = 255
    MaxUnderWay = 1
    MaxAbandoned = 0
    JobIds = 3
    DIAG_JOB_OFFSET = 1
    MaxJobs = 3
    Capacity = 3
    MaxTime = 2
INVARIANT SameUnit
