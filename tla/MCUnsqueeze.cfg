SPECIFICATION FairSpec
CONSTANTS
    RecSize = 2
    BufRecs = 2
    Pad = 1
    ByteBits = 2
    Marker = 2
    Streams <- MCStreams
    Trees <- MCTrees
INVARIANTS
    TypeOK
    PrefixOfPython
    WholeOrRefused
PROPERTIES
    Terminates
