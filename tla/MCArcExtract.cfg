SPECIFICATION Spec
CONSTANTS
    Members <- MCMembers
    Archives <- MCArchives
    Huge = 20
INVARIANTS
    TypeOK
    Aligned
    NoMemberLost
    WholeArchiveAgrees
PROPERTIES
    Terminates
