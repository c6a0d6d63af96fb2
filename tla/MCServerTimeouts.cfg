SPECIFICATION Spec
CONSTANTS
    Conns = {c1, c2, c3}
    Main = main
    Listener = listener
    Nobody = nobody
    MaxWorkers = 3
    MaxClients = 2
    Prompt = FALSE
SYMMETRY ConnSymmetry
INVARIANTS
    TypeOK
    CountMatchesList
    WithinCapacity
    OwnSlot
    QuietAfterStop
    ReportedOnce
CHECK_DEADLOCK FALSE
