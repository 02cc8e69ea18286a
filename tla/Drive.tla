-------------------------------- MODULE Drive --------------------------------
(***************************************************************************)
(* What the USB gadget promises the car: a drive is there or not, and the   *)
(* partitions on it change only while it is not there. StateMachine and     *)
(* Gadget implement it.                                                     *)
(***************************************************************************)
CONSTANT Partitions

VARIABLES
    bound,  \* the car sees the drive
    luns    \* the partitions on it

vars == <<bound, luns>>

Init == bound = FALSE /\ luns = {}

Appear == ~bound /\ bound' = TRUE /\ UNCHANGED luns

(* A drive that is taken away may lose its partitions at the same moment.   *)
Vanish == bound /\ bound' = FALSE /\ luns' \in {luns, {}}

Rebuild == ~bound /\ bound' = FALSE /\ luns' \in SUBSET Partitions

Next == Appear \/ Vanish \/ Rebuild

Spec == Init /\ [][Next]_vars
=============================================================================
