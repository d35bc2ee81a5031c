SPECIFICATION FairSpec
CONSTANTS
    Archives <- MCArchives
    PerSector = 2
    MaxDirSectors = 2
    TextEntries <- MCTextEntries
    StringEntries = 2
INVARIANTS
    IInv
    EveryMemberOnce
    StoredWhole
    SameMembersUnlessHole
PROPERTIES
    Terminates
