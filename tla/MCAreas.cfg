\* Two S7 clients and a Modbus client on the same areas.
SPECIFICATION FairSpec
CONSTANTS
    S7Workers = {s1, s2}
    ModbusWorkers = {m1}
    AreaSize <- MCAreaSize
    S7Requests <- MCS7Requests
    ModbusRequests <- MCModbusRequests
    PduRequests = {1}
    MinPduSize = 3
    IsoPayload_Size = 3
    DefaultPDULength = 3
    None = None
INVARIANTS
    CopyIsWhole
    ReportedAsAnswered
PROPERTY Answered
CHECK_DEADLOCK FALSE
