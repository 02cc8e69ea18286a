\* Boot and rebind with every fault at every step.
SPECIFICATION Spec
CONSTANTS
    p5 = p5
    p6 = p6
    p7 = p7
    NoPart = none
    Parts <- AllParts
    Faults <- AllFaults
INVARIANTS TypeOK HandleMatchesTree OneLunEach CamIsLun0
PROPERTY ImplementsDrive
