SPECIFICATION FairSpec
CONSTANTS
    Conns = {c1, c2}
    Main = main
    Listener = listener
    Nobody = nobody
    MaxWorkers = 2
    MaxClients = 0
    Prompt = TRUE
INVARIANT SessionsBalance
PROPERTIES
    ImplementsRegistry
    StopCompletes
    SlotReturned
CHECK_DEADLOCK FALSE
