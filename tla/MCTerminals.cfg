SPECIFICATION PagodaFairSpec
CONSTANTS
    Processes = 2
    Producers = {0, 1, 2, 3}
    MaxStatements = 2
    Indices = {0, 1}
    PipeSize = 1
    Mixes <- MixesDef
INVARIANTS LinesWhole Numbered StatementUsable InOrder
PROPERTIES Freed Exits Drained Disconnects
CHECK_DEADLOCK FALSE
