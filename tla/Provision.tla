------------------------------ MODULE Provision ------------------------------
(***************************************************************************)
(* First-boot provisioning of the Buildroot image: teslausb-provision.sh    *)
(* and the unit that runs it before the daemon. The script makes an         *)
(* extended partition (4) and in it the cam, music and light show           *)
(* partitions (5, 6, 7), and formats them, one command after the other      *)
(* under "set -e". What it wrote to the card stays when the power goes.     *)
(***************************************************************************)
EXTENDS Naturals

VARIABLES
    parts,      \* the partitions in the table of the card
    formatted,  \* those with an exFAT file system
    unit        \* what the provisioning unit does in this boot

vars == <<parts, formatted, unit>>

Volumes == 5 .. 7

(* "off": not started in this boot; a number: the next thing the script     *)
(* makes; "settle": it waits for the device nodes; "ok", "failed": over.    *)
MakeSteps   == {"mk4", "mk5", "mk6", "mk7"}
FormatSteps == {"fmt5", "fmt6", "fmt7"}
Steps == {"off", "check", "settle", "ok", "failed"} \cup MakeSteps \cup FormatSteps

(* The flashed image has the partitions 1 to 3 only.                        *)
Init == parts = {} /\ formatted = {} /\ unit = "off"

(* setup.sh has made and formatted all partitions, and adds no unit for it. *)
SetUp == parts = 4 .. 7 /\ formatted = Volumes /\ unit = "off"

(* ConditionPathExists: the unit is skipped, which counts as success, once  *)
(* the cam partition exists; where there is no unit there is none to wait   *)
(* for.                                                                     *)
UnitStarts ==
    /\ unit = "off"
    /\ unit' = IF 5 \in parts THEN "ok" ELSE "check"
    /\ UNCHANGED <<parts, formatted>>

(* The script stops at a command that fails.                                *)
Aborts ==
    /\ unit \in Steps \ {"off", "ok", "failed"}
    /\ unit' = "failed"
    /\ UNCHANGED <<parts, formatted>>

(* The partitions are looked for and the geometry is read: with an extended *)
(* partition that reaches to the end of the card there is no room left.     *)
Check ==
    /\ unit = "check"
    /\ unit' = IF Volumes \subseteq parts THEN "ok"
               ELSE IF 4 \in parts THEN "failed" ELSE "mk4"
    /\ UNCHANGED <<parts, formatted>>

Step(from, to) == unit = from /\ unit' = to

(* parted mkpart, four times.                                               *)
Mkpart ==
    /\ \/ Step("mk4", "mk5")    /\ parts' = parts \cup {4}
       \/ Step("mk5", "mk6")    /\ parts' = parts \cup {5}
       \/ Step("mk6", "mk7")    /\ parts' = parts \cup {6}
       \/ Step("mk7", "settle") /\ parts' = parts \cup {7}
    /\ UNCHANGED formatted

(* partprobe, udevadm settle, and the wait for the three device nodes.      *)
Settle ==
    /\ Step("settle", "fmt5")
    /\ UNCHANGED <<parts, formatted>>

(* mkfs.exfat, three times; the folders for the clips that come after it    *)
(* are best effort.                                                         *)
Mkfs ==
    /\ \/ Step("fmt5", "fmt6") /\ formatted' = formatted \cup {5}
       \/ Step("fmt6", "fmt7") /\ formatted' = formatted \cup {6}
       \/ Step("fmt7", "ok")   /\ formatted' = formatted \cup {7}
    /\ UNCHANGED parts

Script == Check \/ Mkpart \/ Settle \/ Mkfs

(* The next boot starts the unit anew.                                      *)
NextBoot == unit' = "off" /\ UNCHANGED <<parts, formatted>>

TypeOK ==
    /\ parts \subseteq 4 .. 7
    /\ formatted \subseteq Volumes
    /\ unit \in Steps

(* The unit let the daemon start.                                           *)
Done == unit = "ok"

(* The unit is at work, or gave up.                                         *)
Unfinished == unit \notin {"off", "ok"}
=============================================================================
