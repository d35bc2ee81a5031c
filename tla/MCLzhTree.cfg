SPECIFICATION FairSpec
CONSTANTS
    NChar = 4
    MaxFreq = 11
INVARIANTS
    TypeOK
    Ordered
    Linked
PROPERTIES
    CountsOne
    Returns
