\* A client that downloads blocks and one that reads them.
SPECIFICATION Spec
CONSTANTS
    Readers = {w2}
    Programmers = {w1}
    WordSize = 8
    Numbers = {1, 2, 3, 9}
    Capacity = 4
    PointerSize = 2
    Loaded <- MCLoaded
    LoadedSize = 3
    Lengths = {2}
    Fragments = {1, 2}
    maxDataSize = 2
    InfoSize = 3
    LenLoadSize = 2
    Null = Null
    Wild = Wild
INVARIANTS
    Packed
    InstalledIsWhole
    RefusedKeepsBlock
    ListExact
    UploadIsWhole
CHECK_DEADLOCK FALSE
CONSTRAINT Followed
