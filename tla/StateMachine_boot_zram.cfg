SPECIFICATION Spec
CONSTANTS
    p5 = p5
    p6 = p6
    p7 = p7
    z0 = z0
    z1 = z1
    Cam = p5
    NoPart = none
    NoZram = nozram
    Media <- OneMedia
    Present <- TwoParts
    Enabled <- OneMedia
    Zram <- OneZram
    Faults <- AllFaults
INVARIANT BootFreesZram
