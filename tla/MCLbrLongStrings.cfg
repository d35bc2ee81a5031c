SPECIFICATION Spec
CONSTANTS
    Archives <- MCArchives
    PerSector = 2
    MaxDirSectors = 2
    TextEntries <- MCTextEntries
    StringEntries = 3
INVARIANTS
    DirectoryKept
