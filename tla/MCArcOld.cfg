SPECIFICATION Spec
CONSTANTS
    LzwByte = 2
    LzwBlock = 2
    LzwWrap = 4
    LzwInitBits = 3
    LzwMaxBits = {3, 4}
    LzwOldBits = 3
    SquashBits = 5
    LzwLeft = {0}
    LzwUsed = {0, 1}
    LzwSize = 11
    V1Bits = 3
    V1Shift = 3
    V1Bytes = 3
    V1Probe = 3
    N = 8
    F = 4
    THRESHOLD = 2
    LzhUsed = {0, 1}
    Space = 2
    LzhByte = 2
    CodeLen <- MCCodeLen
    LowBits <- MCLowBits
    LzhOut = 8
    BasSizes = {}
    BasBuf = 13
    NameField = 2
INVARIANTS
    SameOutput
CHECK_DEADLOCK FALSE
