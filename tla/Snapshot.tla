------------------------------ MODULE Snapshot ------------------------------
(***************************************************************************)
(* What the snapshot promises to those who archive from it: it is taken     *)
(* while the car cannot write, one at a time; as long as somebody uses it   *)
(* it is neither given up nor replaced; and until the drive is back nobody  *)
(* but fsck changes what it shows. StateMachine implements it.              *)
(***************************************************************************)
CONSTANTS
    Devices,    \* what may hold the blocks that a snapshot keeps
    NoDevice

VARIABLES
    bound,      \* the car sees the drive
    image,      \* the device of the snapshot there is
    inUse,      \* a file system on the snapshot is mounted, or still in use
    torn        \* who wrote the partition since the snapshot was taken

vars == <<bound, image, inUse, torn>>

Init == bound = FALSE /\ image = NoDevice /\ inUse = FALSE /\ torn = {}

Take ==
    /\ ~bound /\ image = NoDevice /\ ~inUse
    /\ image' \in Devices /\ torn' = {}
    /\ UNCHANGED <<bound, inUse>>

Repair ==
    /\ ~bound /\ image # NoDevice
    /\ torn' = torn \cup {"fsck"}
    /\ UNCHANGED <<bound, image, inUse>>

(* The car writes the partition below the snapshot.                         *)
Tear ==
    /\ bound /\ image # NoDevice
    /\ torn' = torn \cup {"car"}
    /\ UNCHANGED <<bound, image, inUse>>

Open ==
    /\ image # NoDevice
    /\ inUse' = TRUE
    /\ UNCHANGED <<bound, image, torn>>

(* The last user is gone; where he died, the drive may go with him.         *)
Leave ==
    /\ inUse' = FALSE /\ bound' \in {bound, FALSE}
    /\ UNCHANGED <<image, torn>>

GiveUp ==
    /\ image # NoDevice /\ ~inUse
    /\ image' = NoDevice /\ torn' = {}
    /\ UNCHANGED <<bound, inUse>>

(* The drive is taken from the car, or given back.                          *)
Drive == bound' \in BOOLEAN /\ UNCHANGED <<image, inUse, torn>>

PowerLoss == bound' = FALSE /\ image' = NoDevice /\ inUse' = FALSE /\ torn' = {}

Next ==
    \/ Take \/ Repair \/ Tear \/ Open \/ Leave \/ GiveUp \/ Drive \/ PowerLoss

Spec == Init /\ [][Next]_vars
=============================================================================
