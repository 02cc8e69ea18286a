-------------------------- MODULE MCArchiveSession --------------------------
(***************************************************************************)
(* Instances of ArchiveSession for TLC.                                     *)
(***************************************************************************)
EXTENDS ArchiveSession, TLC

CONSTANTS e1, e2, e3

TwoEntries   == {e1, e2}
ThreeEntries == {e1, e2, e3}
Symmetry     == Permutations(ThreeEntries)
AllFaults    == FaultKinds
CopyFaults   == {"copy"}
=============================================================================
