SPECIFICATION FairSpec
CONSTANTS
    TrashSize = 3
    IsoPayload_Size = 4
    IsoMaxFragments = 2
    AnswerSize = 1
    Fragments = 1
    MostIso = 2
    MostModbus = 2
    Misread <- MisreadDef
    Kind <- KindDef
    IsoScripts <- IsoScriptsDef
    ModbusScripts <- ModbusScriptsDef
CHECK_DEADLOCK FALSE
INVARIANTS Whole InOrder NothingLost AnswersBelong
PROPERTY Ends
