SPECIFICATION Spec
CONSTANTS
    Enabled <- TwoFolders
    MaxFiles = 4
    MaxMounts = 3
INVARIANTS
    TypeOK
    FootageReachesShare
    MountsGivenUp
    FilesGivenUp
