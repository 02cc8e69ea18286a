------------------------------ MODULE MCGadget ------------------------------
(* Gadget with the three partitions boot looks for.                         *)
EXTENDS Gadget

CONSTANTS p5, p6, p7

AllParts  == <<p5, p6, p7>>
AllFaults == FaultKinds
=============================================================================
