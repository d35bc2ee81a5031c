SPECIFICATION BothSpec
CONSTANTS
    NRoots = 2
    NControl = 3
    TableSize = 8
    HashSize = 11
    Home <- MCHome
    InitBits = 3
    MaxBits = 4
    HighUnit = 2
INVARIANTS
    IInv
    WrittenIsEntry
    SameDictionary
    SameOutput
PROPERTIES
    MeaningKept
CHECK_DEADLOCK FALSE
