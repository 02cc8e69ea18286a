--------------------------- MODULE MCStateMachine ---------------------------
(***************************************************************************)
(* Instances of StateMachine for TLC: two media partitions and two zram     *)
(* devices (one leaked by a crash, one to go on with) for safety, one of    *)
(* each for liveness.                                                       *)
(***************************************************************************)
EXTENDS StateMachine

CONSTANTS p5, p6, p7, z0, z1

TwoMedia  == {p6, p7}
OneMedia  == {p6}
AllParts  == {p5, p6, p7}
TwoParts  == {p5, p6}
TwoZram   == {z0, z1}
OneZram   == {z0}
AllFaults == FaultKinds
NoFaults  == {}
(* The faults among which the daemon must make progress: a power cut only   *)
(* repeats what a crash does to it, and a stale file system what a dmsetup  *)
(* remove that fails does.                                                  *)
LiveFaults == FaultKinds \ {"power", "umount"}
=============================================================================
