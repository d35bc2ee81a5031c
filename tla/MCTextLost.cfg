SPECIFICATION Spec
CONSTANTS
    Stored <- MCStored
    PyStored <- MCPyStored
    Embedded <- MCEmbedded
    ArchiveName <- MCArchiveName
    Before <- MCBefore
    Squeezed = {"Q"}
    TextFirst = {"A"}
    Out <- MCOut
    Cpm <- MCCpm
    Safe <- MCSafe
    Fold <- MCFold
    Devices <- MCDevices
    NameLen = 5
    TypeLen = 1
    TableCap = 4
    Base = 2
    MaxSuffix = 7
    PyMax = 5
    PyExtMax = 2
    Own <- MCOwn
    MaxMembers = 4
    MaxResults = 3
INVARIANTS
    TextConverts
CHECK_DEADLOCK FALSE
