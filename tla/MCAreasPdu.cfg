\* One S7 client that reads more than its PDU.
SPECIFICATION Spec
CONSTANTS
    S7Workers = {s1}
    ModbusWorkers = {}
    AreaSize <- MCAreaSize
    S7Requests <- PduRequestsOfReads
    ModbusRequests <- NoRequests
    PduRequests = {1, 4}
    MinPduSize = 2
    IsoPayload_Size = 4
    DefaultPDULength = 3
    None = None
INVARIANTS
    SumWithinPDU
CHECK_DEADLOCK FALSE
