--------------------------- MODULE Gadget_proofs ---------------------------
(***************************************************************************)
(* The safety of Gadget for any list of partitions and any faults.          *)
(***************************************************************************)
EXTENDS Gadget, TLAPS

(* The tree: what stands on what, and when nobody sees it.                  *)
TreeInv ==
    /\ udc => linked
    /\ linked => tree
    /\ ~tree => \A i \in Index : file[i] = NoPart
    /\ pc \in {"add", "nofua", "link", "bind", "up"} => tree
    /\ pc \in {"clear", "unlink", "remove", "make"} => LUNs = <<>> /\ next = 1 /\ ~booted
    /\ pc \in {"add", "nofua"} => ~udc
    /\ pc \in {"link", "bind"} /\ ~booted => ~udc
    /\ pc = "bind" => linked
    /\ pc = "up" => booted

(* The LUNs: a clean tree has those of the partitions gone through, the     *)
(* first of them first.                                                     *)
LunInv ==
    /\ pc = "make" /\ ~kept => \A i \in Index : file[i] = NoPart
    /\ pc = "add" /\ ~kept =>
           \A i \in Index : file[i] = NoPart \/ \E k \in 1 .. next - 1 : file[i] = Parts[k]
    /\ pc = "add" /\ next = 1 => LUNs = <<>>
    /\ Parts[1] \in present /\ ~missed =>
           /\ pc = "add" /\ next > 1 => Len(LUNs) > 0 /\ file[0] = Parts[1]
           /\ udc \/ pc \in {"nofua", "link", "bind", "up"} => file[0] = Parts[1]

-----------------------------------------------------------------------------
(* There is a first partition, and a LUN for each.                          *)
LEMMA PartsFacts ==
    /\ Len(Parts) \in Nat /\ Len(Parts) > 0 /\ 0 \in Index
    /\ \A i \in 1 .. Len(Parts) : Parts[i] \in Range(Parts) /\ Parts[i] # NoPart
<1>1. Len(Parts) \in Nat /\ Len(Parts) > 0 /\ DOMAIN Parts = 1 .. Len(Parts)
  BY PartsAssumption
<1>2. \A i \in 1 .. Len(Parts) : Parts[i] \in Range(Parts)
  BY <1>1 DEF Range
<1> QED BY <1>1, <1>2, PartsAssumption DEF Index

(* The partitions are different ones.                                       *)
LEMMA PartsDiffer == \A i, j \in 1 .. Len(Parts) : Parts[i] = Parts[j] => i = j
  BY PartsAssumption

(* A gadget without LUNs.                                                   *)
LEMMA NoLUNs == \A S : <<>> \in Seq(S) /\ Len(<<>>) = 0
  OBVIOUS

(* Every variable keeps its type.                                           *)
THEOREM TypeCorrect == Spec => []TypeOK
<1>1. Init => TypeOK
  BY PartsFacts, NoLUNs DEF Init, TypeOK, Steps
<1>2. TypeOK /\ [Next]_vars => TypeOK'
  <2> SUFFICES ASSUME TypeOK, [Next]_vars PROVE TypeOK'
    OBVIOUS
  <2> USE PartsFacts, NoLUNs DEF TypeOK, Steps, proc, dirs, past
  <2>1. CASE Configure
    <3>1. CASE Boot BY <3>1 DEF Boot
    <3>2. CASE ClearUDC BY <3>2 DEF ClearUDC
    <3>3. CASE Unlink BY <3>3 DEF Unlink
    <3>4. CASE RemoveTree BY <3>4 DEF RemoveTree
    <3>5. CASE \E ok \in BOOLEAN : MakeTree(ok) BY <3>5 DEF MakeTree
    <3> QED BY <2>1, <3>1, <3>2, <3>3, <3>4, <3>5 DEF Configure
  <2>2. CASE AddLUN
    <3>1. Len(LUNs) \in Nat /\ Len(LUNs) < next /\ next \in 1 .. Len(Parts)
      BY <2>2 DEF AddLUN
    <3>2. Len(LUNs) \in Index
      BY <3>1 DEF Index
    <3>3. LUNs' \in Seq(present) /\ Len(LUNs') < next + 1
      BY <2>2, <3>1 DEF AddLUN
    <3>4. file' \in [Index -> Range(Parts) \cup {NoPart}] /\ nofua' \subseteq Index
      BY <2>2, <3>1, <3>2 DEF AddLUN, SetFile
    <3>5. next' = next + 1 /\ next' \in 1 .. Len(Parts) + 1
      BY <2>2, <3>1 DEF AddLUN
    <3>6. missed' \in BOOLEAN
      BY <2>2 DEF AddLUN
    <3> QED BY <2>2, <3>3, <3>4, <3>5, <3>6 DEF AddLUN
  <2>3. CASE SkipAbsent BY <2>3 DEF SkipAbsent
  <2>4. CASE AllAdded BY <2>4 DEF AllAdded
  <2>5. CASE SetNofua BY <2>5 DEF SetNofua, Index
  <2>6. CASE ActivateFails BY <2>6 DEF ActivateFails
  <2>7. CASE Link BY <2>7 DEF Link
  <2>8. CASE Bind BY <2>8 DEF Bind
  <2>9. CASE Activate BY <2>9 DEF Activate
  <2>10. CASE Deactivate BY <2>10 DEF Deactivate
  <2>11. CASE Crash BY <2>11 DEF Crash
  <2>12. CASE PowerLoss BY <2>12 DEF PowerLoss
  <2>13. CASE UNCHANGED vars BY <2>13 DEF vars
  <2> QED
    BY <2>1, <2>2, <2>3, <2>4, <2>5, <2>6, <2>7, <2>8, <2>9, <2>10, <2>11,
       <2>12, <2>13 DEF Next
<1> QED BY <1>1, <1>2, PTL DEF Spec

(* The tree: LUNs and directories change only under a drive nobody sees.    *)
LEMMA TreeInvariant == Spec => []TreeInv
<1>1. Init => TreeInv
  BY DEF Init, TreeInv
<1>2. TypeOK /\ TreeInv /\ [Next]_vars => TreeInv'
  <2> SUFFICES ASSUME TypeOK, TreeInv, [Next]_vars PROVE TreeInv'
    OBVIOUS
  <2> USE DEF TypeOK, TreeInv, Steps, proc, dirs, past
  <2>1. CASE Configure
    <3>1. CASE Boot BY <3>1 DEF Boot
    <3>2. CASE ClearUDC BY <3>2 DEF ClearUDC
    <3>3. CASE Unlink BY <3>3 DEF Unlink
    <3>4. CASE RemoveTree BY <3>4 DEF RemoveTree
    <3>5. CASE \E ok \in BOOLEAN : MakeTree(ok)
      <4>1. CASE MakeTree(TRUE) BY <4>1 DEF MakeTree
      <4>2. CASE MakeTree(FALSE) BY <4>2 DEF MakeTree
      <4> QED BY <3>5, <4>1, <4>2
    <3> QED BY <2>1, <3>1, <3>2, <3>3, <3>4, <3>5 DEF Configure
  <2>2. CASE AddLUN BY <2>2 DEF AddLUN
  <2>3. CASE SkipAbsent BY <2>3 DEF SkipAbsent
  <2>4. CASE AllAdded BY <2>4 DEF AllAdded
  <2>5. CASE SetNofua BY <2>5 DEF SetNofua
  <2>6. CASE ActivateFails BY <2>6 DEF ActivateFails
  <2>7. CASE Link BY <2>7 DEF Link
  <2>8. CASE Bind
    BY <2>8 DEF Bind
  <2>9. CASE Activate BY <2>9 DEF Activate
  <2>10. CASE Deactivate BY <2>10 DEF Deactivate
  <2>11. CASE Crash BY <2>11 DEF Crash
  <2>12. CASE PowerLoss BY <2>12 DEF PowerLoss
  <2>13. CASE UNCHANGED vars BY <2>13 DEF vars
  <2> QED
    BY <2>1, <2>2, <2>3, <2>4, <2>5, <2>6, <2>7, <2>8, <2>9, <2>10, <2>11,
       <2>12, <2>13 DEF Next
<1> QED BY <1>1, <1>2, TypeCorrect, PTL DEF Spec

(* The kernel's LUN i has the device that the handle has at i.              *)
THEOREM HandleMatches == Spec => []HandleMatchesTree
<1>1. Init => HandleMatchesTree
  BY NoLUNs DEF Init, HandleMatchesTree
<1>2. TypeOK /\ TreeInv /\ HandleMatchesTree /\ [Next]_vars => HandleMatchesTree'
  <2> SUFFICES ASSUME TypeOK, TreeInv, HandleMatchesTree, [Next]_vars
               PROVE  \A i \in 1 .. Len(LUNs') : file'[i - 1] = LUNs'[i]
    BY DEF HandleMatchesTree
  <2> USE DEF proc, dirs, past
  <2>1. CASE UNCHANGED <<LUNs, file>>
    BY <2>1 DEF HandleMatchesTree
  <2>2. CASE LUNs' = <<>>
    BY <2>2, NoLUNs
  <2>3. CASE AddLUN
    <3>1. Len(LUNs) \in Nat /\ Len(LUNs) \in Index /\ \A i \in 1 .. Len(LUNs) : i - 1 \in Index
      BY <2>3, PartsFacts DEF AddLUN, TypeOK, Index
    <3>2. \A i \in 1 .. Len(LUNs) : file'[i - 1] = file[i - 1]
      BY <2>3, <3>1 DEF AddLUN, SetFile, TypeOK
    <3>3. CASE LUNs' = LUNs
      BY <3>2, <3>3 DEF HandleMatchesTree
    <3>4. CASE LUNs' = Append(LUNs, Parts[next]) /\ file'[Len(LUNs)] = Parts[next]
      <4>1. Len(LUNs') = Len(LUNs) + 1 /\ LUNs'[Len(LUNs) + 1] = Parts[next]
               /\ \A i \in 1 .. Len(LUNs) : LUNs'[i] = LUNs[i]
        BY <3>1, <3>4 DEF TypeOK
      <4> QED BY <3>1, <3>2, <3>4, <4>1 DEF HandleMatchesTree
    <3> QED BY <2>3, <3>1, <3>3, <3>4 DEF AddLUN, SetFile, TypeOK
  <2>4. Next => AddLUN \/ UNCHANGED <<LUNs, file>> \/ LUNs' = <<>>
    <3>1. Configure => UNCHANGED <<LUNs, file>> \/ LUNs' = <<>>
      BY DEF Configure, Boot, ClearUDC, Unlink, RemoveTree, MakeTree, TreeInv
    <3> QED
      BY <3>1 DEF Next, SkipAbsent, AllAdded, SetNofua, ActivateFails, Link, Bind,
                  Activate, Deactivate, Crash, PowerLoss
  <2> QED BY <2>1, <2>2, <2>3, <2>4 DEF vars
<1> QED BY <1>1, <1>2, TypeCorrect, TreeInvariant, PTL DEF Spec

(* What the tree's LUNs are, the first above all.                           *)
LEMMA LunInvariant == Spec => []LunInv
<1>1. Init => LunInv
  BY DEF Init, LunInv
<1>2. TypeOK /\ TreeInv /\ LunInv /\ HandleMatchesTree /\ [Next]_vars => LunInv'
  <2> SUFFICES ASSUME TypeOK, TreeInv, LunInv, HandleMatchesTree, [Next]_vars
               PROVE  LunInv'
    OBVIOUS
  <2> USE PartsFacts DEF TypeOK, TreeInv, LunInv, Steps, proc, dirs, past
  <2>1. CASE Configure
    <3>1. CASE Boot BY <3>1 DEF Boot
    <3>2. CASE ClearUDC BY <3>2 DEF ClearUDC
    <3>3. CASE Unlink BY <3>3 DEF Unlink
    <3>4. CASE RemoveTree BY <3>4 DEF RemoveTree
    <3>5. CASE \E ok \in BOOLEAN : MakeTree(ok)
      <4>1. CASE MakeTree(TRUE) BY <4>1 DEF MakeTree
      <4>2. CASE MakeTree(FALSE) BY <4>2 DEF MakeTree
      <4> QED BY <3>5, <4>1, <4>2
    <3> QED BY <2>1, <3>1, <3>2, <3>3, <3>4, <3>5 DEF Configure
  <2>2. CASE AddLUN
    <3>1. Len(LUNs) \in Nat /\ Len(LUNs) < next /\ next \in 1 .. Len(Parts)
      BY <2>2 DEF AddLUN
    <3>2. Len(LUNs) \in Index
      BY <3>1 DEF Index
    <3>3. UNCHANGED <<present, pc, udc, kept>> /\ pc = "add" /\ next' = next + 1 /\ next' # 1
      BY <2>2, <3>1 DEF AddLUN
    <3>4. \A i \in Index : file'[i] = file[i] \/ file'[i] = Parts[next]
      BY <2>2, <3>2 DEF AddLUN, SetFile
    <3>5. ASSUME ~kept, NEW i \in Index, file'[i] # NoPart
          PROVE  \E k \in 1 .. next' - 1 : file'[i] = Parts[k]
      <4>1. CASE file'[i] = Parts[next]
        BY <4>1, <3>1, <3>3
      <4>2. CASE file'[i] = file[i]
        <5>1. PICK k \in 1 .. next - 1 : file[i] = Parts[k]
          BY <4>2, <3>3, <3>5
        <5> QED BY <5>1, <4>2, <3>1, <3>3
      <4> QED BY <3>4, <4>1, <4>2
    <3>6. ASSUME Parts[1] \in present, ~missed'
          PROVE  Len(LUNs') > 0 /\ file'[0] = Parts[1]
      <4>1. ~missed /\ LUNs' = Append(LUNs, Parts[next])
               /\ file' = [file EXCEPT ![Len(LUNs)] = Parts[next]]
        BY <2>2, <3>6 DEF AddLUN, SetFile
      <4>2. Len(LUNs') = Len(LUNs) + 1
        BY <4>1
      <4>3. CASE next = 1
        <5>1. Len(LUNs) = 0
          BY <3>3, <4>3
        <5> QED BY <4>1, <4>2, <4>3, <5>1
      <4>4. CASE next # 1
        <5>1. Len(LUNs) > 0 /\ file[0] = Parts[1]
          BY <3>1, <3>3, <3>6, <4>1, <4>4
        <5> QED BY <4>1, <4>2, <5>1, <3>1
      <4> QED BY <4>3, <4>4
    <3> QED BY <3>3, <3>5, <3>6
  <2>3. CASE SkipAbsent
    <3>1. UNCHANGED <<present, pc, udc, kept, missed, file, LUNs>> /\ pc = "add"
             /\ next' = next + 1 /\ next \in 1 .. Len(Parts) /\ Parts[next] \notin present
      BY <2>3 DEF SkipAbsent
    <3>2. Parts[1] \in present => next > 1
      BY <3>1
    <3> QED BY <3>1, <3>2
  <2>4. CASE AllAdded BY <2>4 DEF AllAdded
  <2>5. CASE SetNofua BY <2>5 DEF SetNofua
  <2>6. CASE ActivateFails BY <2>6 DEF ActivateFails
  <2>7. CASE Link BY <2>7 DEF Link
  <2>8. CASE Bind BY <2>8 DEF Bind
  <2>9. CASE Activate BY <2>9 DEF Activate
  <2>10. CASE Deactivate BY <2>10 DEF Deactivate
  <2>11. CASE Crash BY <2>11 DEF Crash
  <2>12. CASE PowerLoss BY <2>12 DEF PowerLoss
  <2>13. CASE UNCHANGED vars BY <2>13 DEF vars
  <2> QED
    BY <2>1, <2>2, <2>3, <2>4, <2>5, <2>6, <2>7, <2>8, <2>9, <2>10, <2>11,
       <2>12, <2>13 DEF Next
<1> QED BY <1>1, <1>2, TypeCorrect, TreeInvariant, HandleMatches, PTL DEF Spec

(* LUN 0 is the cam partition whenever the car sees a drive, if that        *)
(* partition exists and no AddLUN failed.                                   *)
THEOREM CamIsFirst == Spec => []CamIsLun0
<1>1. LunInv => CamIsLun0
  BY DEF LunInv, CamIsLun0
<1> QED BY <1>1, LunInvariant, PTL

(* No partition is behind two LUNs unless the removal of an old tree failed.*)
THEOREM OneLunForEach == Spec => []OneLunEach
<1>1. Init => OneLunEach
  BY DEF Init, OneLunEach
<1>2. TypeOK /\ LunInv /\ OneLunEach /\ [Next]_vars => OneLunEach'
  <2> SUFFICES ASSUME TypeOK, LunInv, OneLunEach, [Next]_vars, ~kept'
               PROVE  \A i, j \in Index :
                          i # j /\ file'[i] = file'[j] => file'[i] = NoPart
    BY DEF OneLunEach
  <2> USE DEF proc, dirs, past
  <2>1. CASE UNCHANGED <<file, kept>>
    BY <2>1 DEF OneLunEach
  <2>2. CASE \A i \in Index : file'[i] = NoPart
    BY <2>2
  <2>3. CASE AddLUN
    <3>1. Len(LUNs) \in Nat /\ next \in 1 .. Len(Parts) /\ pc = "add" /\ ~kept
      BY <2>3, PartsFacts DEF AddLUN, TypeOK
    <3>2. \A i \in Index : file[i] # Parts[next]
      <4> SUFFICES ASSUME NEW i \in Index, file[i] = Parts[next] PROVE FALSE
        OBVIOUS
      <4>1. PICK k \in 1 .. next - 1 : file[i] = Parts[k]
        BY <3>1, PartsFacts DEF LunInv
      <4>2. k \in 1 .. Len(Parts) /\ k # next
        BY <3>1, PartsFacts
      <4> QED BY <3>1, <4>1, <4>2, PartsDiffer
    <3>3. file' \in {file, [file EXCEPT ![Len(LUNs)] = Parts[next]]}
      BY <2>3 DEF AddLUN, SetFile
    <3>4. \A i \in Index : file'[i] = file[i] \/ (i = Len(LUNs) /\ file'[i] = Parts[next])
      BY <3>3 DEF TypeOK
    <3> QED BY <3>1, <3>2, <3>4 DEF OneLunEach
  <2>4. Next => AddLUN \/ UNCHANGED <<file, kept>> \/ \A i \in Index : file'[i] = NoPart
    <3>1. RemoveTree => UNCHANGED <<file, kept>> \/ \A i \in Index : file'[i] = NoPart
      BY DEF RemoveTree
    <3>2. Configure => UNCHANGED <<file, kept>> \/ \A i \in Index : file'[i] = NoPart
      BY <3>1 DEF Configure, Boot, ClearUDC, Unlink, MakeTree
    <3> QED
      BY <3>2 DEF Next, SkipAbsent, AllAdded, SetNofua, ActivateFails, Link, Bind,
                  Activate, Deactivate, Crash, PowerLoss
  <2> QED BY <2>1, <2>2, <2>3, <2>4 DEF vars
<1> QED BY <1>1, <1>2, TypeCorrect, LunInvariant, PTL DEF Spec

(* The gadget implements Drive: what the car sees never changes under it.   *)
THEOREM RefinesDrive == Spec => ImplementsDrive
<1>1. Init => View!Init
  BY DEF Init, View!Init, Exported
<1>2. TypeOK /\ TypeOK' /\ TreeInv /\ [Next]_vars => [View!Next]_(View!vars)
  <2> SUFFICES ASSUME TypeOK, TypeOK', TreeInv, [Next]_vars
               PROVE  View!Next \/ UNCHANGED <<udc, Exported>>
    BY DEF View!vars
  <2> USE DEF proc, dirs, past
  <2>a. udc \in BOOLEAN /\ udc' \in BOOLEAN /\ Exported' \in SUBSET Range(Parts)
    <3>1. \A i \in Index : file'[i] \in Range(Parts) \cup {NoPart}
      BY DEF TypeOK
    <3> QED BY <3>1 DEF TypeOK, Exported, Index
  <2>b. file' = file => View!Next \/ UNCHANGED <<udc, Exported>>
    <3> SUFFICES ASSUME file' = file PROVE View!Next \/ UNCHANGED <<udc, Exported>>
      OBVIOUS
    <3>1. Exported' = Exported
      BY DEF Exported, Index
    <3> QED BY <2>a, <3>1 DEF View!Next, View!Appear, View!Vanish
  <2>c. ~udc /\ ~udc' => View!Next
    BY <2>a DEF View!Next, View!Rebuild
  <2>1. CASE Configure
    <3>1. CASE RemoveTree
      <4>1. CASE udc BY <2>b, <3>1, <4>1 DEF RemoveTree, TreeInv
      <4>2. CASE ~udc BY <2>c, <3>1, <4>2 DEF RemoveTree
      <4> QED BY <4>1, <4>2
    <3> QED BY <2>1, <2>b, <3>1 DEF Configure, Boot, ClearUDC, Unlink, MakeTree
  <2>2. CASE AddLUN
    BY <2>2, <2>c DEF AddLUN, TreeInv
  <2>3. CASE PowerLoss
    <3>1. Exported' = {} /\ udc' = FALSE
      BY <2>3 DEF PowerLoss, Exported, Index
    <3> QED BY <2>a, <2>c, <3>1 DEF View!Next, View!Vanish
  <2>4. CASE SkipAbsent \/ AllAdded \/ SetNofua \/ ActivateFails \/ Link \/ Bind
    BY <2>4, <2>b DEF SkipAbsent, AllAdded, SetNofua, ActivateFails, Link, Bind
  <2>5. CASE Activate \/ Deactivate \/ Crash \/ UNCHANGED vars
    BY <2>5, <2>b DEF Activate, Deactivate, Crash, vars
  <2> QED BY <2>1, <2>2, <2>3, <2>4, <2>5 DEF Next
<1> QED BY <1>1, <1>2, TypeCorrect, TreeInvariant, PTL
       DEF Spec, ImplementsDrive, View!Spec
=============================================================================
