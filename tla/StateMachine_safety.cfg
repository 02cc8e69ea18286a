SPECIFICATION Spec
CONSTANTS
    p5 = p5
    p6 = p6
    p7 = p7
    z0 = z0
    z1 = z1
    Cam = p5
    NoPart = none
    NoZram = nozram
    Media <- TwoMedia
    Present <- AllParts
    Enabled <- TwoMedia
    Zram <- TwoZram
    Faults <- AllFaults
INVARIANTS
    TypeOK
    SnapshotBacksHandle
    MediaExclusive
    FsckOffline
    CleanBetweenCycles
    DriveBackBetweenCycles
PROPERTIES
    DrivePulledOnPurpose
    LeaksAccounted
    ImplementsSnapshot
    ImplementsDrive
