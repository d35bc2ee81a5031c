SPECIFICATION FairSpec
CONSTANTS
    W = 3
    BufSize = 2
    FileLens <- MCFileLens
INVARIANTS
    IInv
    LimitIsMemberEnd
PROPERTIES
    SkipEnds
    Implements
