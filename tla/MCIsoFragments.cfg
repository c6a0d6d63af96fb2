SPECIFICATION FairSpec
CONSTANTS
    TrashSize = 3
    IsoPayload_Size = 4
    IsoMaxFragments = 3
    AnswerSize = 1
    Fragments = 2
    MostIso = 1
    MostModbus = 1
    Misread <- MisreadDef
    Kind <- KindDef
    IsoScripts <- IsoScriptsDef
    ModbusScripts <- ModbusScriptsDef
CHECK_DEADLOCK FALSE
INVARIANT Whole
