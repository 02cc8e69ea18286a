------------------------------- MODULE Gadget -------------------------------
(***************************************************************************)
(* The USB gadget (internal/gadget/gadget.go) and the configfs tree it      *)
(* keeps: built by boot from whatever an earlier process left, then bound   *)
(* to the UDC and unbound again by the control loop.                        *)
(***************************************************************************)
EXTENDS Naturals, Sequences, Functions

CONSTANTS
    Parts,    \* the partitions in the order boot adds them; Parts[1]: cam
    NoPart,   \* no backing file
    Faults    \* the kinds of failure that may happen

(* The process dies, the power is cut, a configfs mkdir, write or symlink   *)
(* fails, a removal fails.                                                  *)
FaultKinds == {"crash", "power", "write", "remove"}

ASSUME PartsAssumption ==
    /\ Parts \in Seq(Range(Parts)) /\ Len(Parts) > 0
    /\ \A i, j \in 1 .. Len(Parts) : Parts[i] = Parts[j] => i = j
    /\ NoPart \notin Range(Parts)

VARIABLES
    present, \* the partitions whose device node exists
    pc,      \* the next step of Configure, AddLUN, SetNofua or Activate;
             \* "up": boot is over and no call is in progress
    booted,  \* boot is over
    next,    \* boot: the partition to add next
    LUNs,    \* g.LUNs, the devices
    udc,     \* configfs: the UDC attribute is set, the car sees the drive
    linked,  \* configfs: the function is linked into the configuration
    tree,    \* configfs: the gadget's directory exists
    file,    \* configfs: the backing file of each lun.N
    nofua,   \* configfs: the LUNs whose nofua is 1
    kept,    \* history: the last removal of a tree failed in part
    missed   \* history: an AddLUN failed since the tree was built

vars == <<present, pc, booted, next, LUNs, udc, linked, tree, file, nofua,
          kept, missed>>

proc == <<present, booted, next, LUNs>>
dirs == <<linked, tree, file, nofua>>
past == <<kept, missed>>

Index == 0 .. Len(Parts) - 1
Steps == {"boot", "clear", "unlink", "remove", "make", "add", "nofua",
          "link", "bind", "up"}
Fails(kind) == kind \in Faults

Init ==
    /\ present \in SUBSET Range(Parts)
    /\ pc = "boot" /\ booted = FALSE /\ next = 1 /\ LUNs = <<>>
    /\ udc = FALSE /\ linked = FALSE /\ tree = FALSE
    /\ file = [i \in Index |-> NoPart] /\ nofua = {}
    /\ kept = FALSE /\ missed = FALSE

-----------------------------------------------------------------------------
(* Configure                                                                *)

(* boot makes a new Gadget; teardownExisting has nothing to do if there is  *)
(* no tree.                                                                 *)
Boot ==
    /\ pc = "boot"
    /\ booted' = FALSE /\ next' = 1 /\ LUNs' = <<>>
    /\ pc' = IF tree THEN "clear" ELSE "make"
    /\ UNCHANGED <<present, udc, dirs, past>>

ClearUDC ==
    /\ pc = "clear" /\ pc' = "unlink"
    /\ udc' \in IF Fails("write") THEN {FALSE, udc} ELSE {FALSE}
    /\ UNCHANGED <<proc, dirs, past>>

(* The unlink of a bound function unbinds it, or fails.                     *)
Unlink ==
    /\ pc = "unlink" /\ pc' = "remove"
    /\ \/ linked' = FALSE /\ udc' = FALSE
       \/ (udc \/ Fails("remove")) /\ UNCHANGED <<linked, udc>>
    /\ UNCHANGED <<proc, tree, file, nofua, past>>

(* Mutant: only the LUNs of this process are removed; there are none.       *)
RemoveTree_Tracked ==
    /\ pc = "remove" /\ pc' = "make"
    /\ UNCHANGED <<proc, udc, dirs, past>>

(* The LUNs, then the directories. A linked function and all above it stay, *)
(* a bound one keeps its LUNs, too.                                         *)
RemoveTree ==
    /\ pc = "remove" /\ pc' = "make"
    /\ \/ /\ ~linked
          /\ tree' = FALSE /\ nofua' = {}
          /\ file' = [i \in Index |-> NoPart]
          /\ kept' = FALSE
       \/ /\ ~udc /\ (linked \/ Fails("remove"))
          /\ \E left \in SUBSET Index :
                /\ file' = [i \in Index |-> IF i \in left THEN file[i] ELSE NoPart]
                /\ nofua' = nofua \cap left
          /\ kept' = TRUE
          /\ UNCHANGED tree
       \/ udc /\ kept' = TRUE /\ UNCHANGED <<tree, file, nofua>>
    /\ UNCHANGED <<proc, udc, linked, missed>>

(* Mutant: the attributes are not written again, so a bound gadget does not *)
(* make Configure fail.                                                     *)
MakeTree_Bound(ok) ==
    /\ pc = "make"
    /\ ok \/ Fails("write")
    /\ tree' \in IF ok THEN {TRUE} ELSE {tree, TRUE}
    /\ missed' = (~ok /\ missed)
    /\ pc' = IF ok THEN "add" ELSE "boot"
    /\ UNCHANGED <<proc, udc, linked, file, nofua, kept>>

(* The directories and attributes up to "stall", which is not writable      *)
(* while the gadget is bound. On error boot starts again.                   *)
MakeTree(ok) ==
    /\ pc = "make"
    /\ IF ok THEN ~udc ELSE udc \/ Fails("write")
    /\ tree' \in IF ok THEN {TRUE} ELSE {tree, TRUE}
    /\ missed' = (~ok /\ missed)
    /\ pc' = IF ok THEN "add" ELSE "boot"
    /\ UNCHANGED <<proc, udc, linked, file, nofua, kept>>

-----------------------------------------------------------------------------
(* boot: AddLUN for each partition, then SetNofua for each LUN              *)

(* The backing file is written, after which lun.i starts with nofua 0.      *)
SetFile(i, p) == file' = [file EXCEPT ![i] = p] /\ nofua' = nofua \ {i}

(* Mutant: the new LUN gets the number of its partition.                    *)
AddLUN_Fixed ==
    /\ pc = "add" /\ next <= Len(Parts) /\ Parts[next] \in present
    /\ next' = next + 1
    /\ \/ /\ SetFile(next - 1, Parts[next])
          /\ LUNs' = Append(LUNs, Parts[next])
          /\ UNCHANGED missed
       \/ /\ Fails("write")
          /\ SetFile(next - 1, Parts[next]) \/ UNCHANGED <<file, nofua>>
          /\ missed' = TRUE
          /\ UNCHANGED LUNs
    /\ UNCHANGED <<present, pc, booted, udc, linked, tree, kept>>

(* The new LUN gets the number of LUNs there are. An error before or after  *)
(* the backing file is written is only logged, and leaves what was written. *)
AddLUN ==
    /\ pc = "add" /\ next <= Len(Parts) /\ Parts[next] \in present
    /\ next' = next + 1
    /\ \/ /\ SetFile(Len(LUNs), Parts[next])
          /\ LUNs' = Append(LUNs, Parts[next])
          /\ UNCHANGED missed
       \/ /\ Fails("write")
          /\ SetFile(Len(LUNs), Parts[next]) \/ UNCHANGED <<file, nofua>>
          /\ missed' = TRUE
          /\ UNCHANGED LUNs
    /\ UNCHANGED <<present, pc, booted, udc, linked, tree, kept>>

(* Mutant: a partition is added without a look at its device node.          *)
SkipAbsent_Adds ==
    /\ pc = "add" /\ next <= Len(Parts) /\ Parts[next] \notin present
    /\ next' = next + 1
    /\ SetFile(Len(LUNs), Parts[next])
    /\ LUNs' = Append(LUNs, Parts[next])
    /\ UNCHANGED <<present, pc, booted, udc, linked, tree, past>>

SkipAbsent ==
    /\ pc = "add" /\ next <= Len(Parts) /\ Parts[next] \notin present
    /\ next' = next + 1
    /\ UNCHANGED <<present, pc, booted, LUNs, udc, dirs, past>>

AllAdded ==
    /\ pc = "add" /\ next > Len(Parts)
    /\ pc' = "nofua"
    /\ UNCHANGED <<proc, udc, dirs, past>>

SetNofua ==
    /\ pc = "nofua" /\ pc' = "link"
    /\ \E set \in SUBSET (0 .. Len(LUNs) - 1) :
          /\ Fails("write") \/ set = 0 .. Len(LUNs) - 1
          /\ nofua' = nofua \cup set
    /\ UNCHANGED <<proc, udc, linked, tree, file, past>>

-----------------------------------------------------------------------------
(* Activate, by boot or by the loop, and Deactivate                         *)

(* An error of boot's Activate starts boot again.                           *)
ActivateFails ==
    /\ pc \in {"link", "bind"} /\ Fails("write")
    /\ pc' = IF booted THEN "up" ELSE "boot"
    /\ UNCHANGED <<proc, udc, dirs, past>>

Link ==
    /\ pc = "link" /\ pc' = "bind"
    /\ linked' = TRUE
    /\ UNCHANGED <<proc, udc, tree, file, nofua, past>>

(* The UDC is written, or is set already.                                   *)
Bind ==
    /\ pc = "bind" /\ pc' = "up"
    /\ udc' = TRUE /\ booted' = TRUE
    /\ UNCHANGED <<present, next, LUNs, dirs, past>>

Activate ==
    /\ pc = "up" /\ pc' = "link"
    /\ UNCHANGED <<proc, udc, dirs, past>>

Deactivate ==
    /\ pc = "up"
    /\ udc' \in IF Fails("write") THEN {FALSE, udc} ELSE {FALSE}
    /\ UNCHANGED <<pc, proc, dirs, past>>

-----------------------------------------------------------------------------
(* The tree outlives the process, nothing outlives the power.               *)
Crash ==
    /\ Fails("crash")
    /\ pc' = "boot" /\ booted' = FALSE /\ next' = 1 /\ LUNs' = <<>>
    /\ UNCHANGED <<present, udc, dirs, past>>

PowerLoss ==
    /\ Fails("power")
    /\ pc' = "boot" /\ booted' = FALSE /\ next' = 1 /\ LUNs' = <<>>
    /\ udc' = FALSE /\ linked' = FALSE /\ tree' = FALSE
    /\ file' = [i \in Index |-> NoPart] /\ nofua' = {}
    /\ kept' = FALSE /\ missed' = FALSE
    /\ UNCHANGED present

Configure ==
    \/ Boot \/ ClearUDC \/ Unlink \/ RemoveTree
    \/ \E ok \in BOOLEAN : MakeTree(ok)

Next ==
    \/ Configure \/ AddLUN \/ SkipAbsent \/ AllAdded \/ SetNofua
    \/ ActivateFails \/ Link \/ Bind \/ Activate \/ Deactivate
    \/ Crash \/ PowerLoss

Spec == Init /\ [][Next]_vars

-----------------------------------------------------------------------------
(* Every variable has its type.                                             *)
TypeOK ==
    /\ present \subseteq Range(Parts)
    /\ pc \in Steps /\ booted \in BOOLEAN
    /\ next \in 1 .. Len(Parts) + 1
    /\ LUNs \in Seq(present) /\ Len(LUNs) < next
    /\ udc \in BOOLEAN /\ linked \in BOOLEAN /\ tree \in BOOLEAN
    /\ file \in [Index -> Range(Parts) \cup {NoPart}] /\ nofua \subseteq Index
    /\ kept \in BOOLEAN /\ missed \in BOOLEAN

(* The kernel's LUN i has the device that the handle has at i, which        *)
(* SetNofua relies on, whichever AddLUN failed half-way (gadget.go:123-174).*)
HandleMatchesTree == \A i \in 1 .. Len(LUNs) : file[i - 1] = LUNs[i]

(* No partition is behind two LUNs, where the car would mount it twice: not *)
(* after AddLUN failed half-way, not after a death in the middle of boot;   *)
(* unless the removal of the old tree failed (gadget.go:123-154, 239-286).  *)
OneLunEach ==
    ~kept => \A i, j \in Index : i # j /\ file[i] = file[j] => file[i] = NoPart

(* LUN 0 is the cam partition whenever the car sees a drive, if the         *)
(* partition exists and no AddLUN failed (README.md:25-27, main.go:220-234).*)
CamIsLun0 ==
    udc /\ Parts[1] \in present /\ ~missed => file[0] = Parts[1]

Exported == {file[i] : i \in Index} \ {NoPart}
View == INSTANCE Drive WITH Partitions <- Range(Parts), bound <- udc, luns <- Exported

(* The tree is never changed under a car that sees it: Configure fails      *)
(* rather than build on a gadget it could not unbind (gadget.go:55-63).     *)
ImplementsDrive == View!Spec
=============================================================================
