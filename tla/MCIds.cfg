SPECIFICATION DetectionSpec
CONSTANTS
    Addrs = {101, 102}
    OwnAddress = 102
    DatabaseHost = {}
    RECOGNIZE_THRESHOLD = 2
    STORAGE_WINDOW = 1
    MEMORY_TIMEOUT = 1
    MEMORY_USED_TO_TIMEOUT = 1
    MaxDelay = 1
    MaxTime = 3
    MaxPackets = 4
INVARIANTS
    OneOwner
    CountedOnce
    RowsFollowMemory
CHECK_DEADLOCK FALSE
