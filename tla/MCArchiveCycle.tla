--------------------------- MODULE MCArchiveCycle ---------------------------
(***************************************************************************)
(* Instances of ArchiveCycle for TLC.                                       *)
(***************************************************************************)
EXTENDS ArchiveCycle

CONSTANT e1

OneEntry   == {e1}
CycleFaults == {"crash", "copy"}
AllSystems == {"cifs", "nfs", "remote"}
Music      == {"Music"}
=============================================================================
