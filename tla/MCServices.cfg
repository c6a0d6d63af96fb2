SPECIFICATION FairSpec
CONSTANTS
    w1 = w1
    w2 = w2
    w3 = w3
    NoJob = NoJob
    Nobody = Nobody
    NoEvent = NoEvent
    Workers <- WorkersDef
    Host <- HostDef
    Lists <- ListsDef
    DataBank <- DataBankDef
    IndexedData <- IndexedDataDef
    Packets <- PacketsDef
    Mixes <- MixesDef
    SeqMax = 3
    MaxUnderWay = 2
    MaxAbandoned = 2
    JobIds = 3
    DIAG_JOB_OFFSET = 1
    MaxJobs = 3
    Capacity = 3
    MaxTime = 2
INVARIANTS Continues InTurn NoDanglingJob AloneKeeps EarliestKept
PROPERTY SearchEnds
