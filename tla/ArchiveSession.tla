--------------------------- MODULE ArchiveSession ---------------------------
(***************************************************************************)
(* One archive session after another: the part of runArchive between the    *)
(* connection and the deferred Disconnect (cmd/teslausb/main.go:377-421),   *)
(* the ArchiveFiles loop every backend has (internal/archive), and the      *)
(* session and file tables of the SQLite database (internal/state).         *)
(* An entry is what scanFilesForArchive lists: one name in a clip folder,   *)
(* in practice the directory of an event, to which the car may add files.   *)
(***************************************************************************)
EXTENDS FiniteSets, Naturals

CONSTANTS
    Entries,      \* the names the car ever creates in the clip folders
    MaxFiles,     \* BOUND: the files of one entry
    MaxSessions,  \* BOUND: the sessions the database ever holds
    NoEntry,
    Faults        \* the kinds of failure that may happen

(* The process dies, a copy fails, a database statement fails, a clip       *)
(* folder cannot be read.                                                   *)
FaultKinds == {"crash", "copy", "db", "read"}

ASSUME BoundsAssumption == MaxFiles \in Nat /\ MaxSessions \in Nat
ASSUME EntriesAssumption == NoEntry \notin Entries
ASSUME SessionFaultsAssumption == Faults \subseteq FaultKinds

VARIABLES
    cam,      \* the number of files of each entry on the cam partition
    remote,   \* the number of files of each entry on the server
    row,      \* archived_files: the session_id of each path, 0: no row
    status,   \* archive_sessions: the status of each session
    counted,  \* archive_sessions: files_archived
    last,     \* the last session id the database gave out
    pc,       \* the step of runArchive
    todo,     \* newFiles that ArchiveFiles has still to do
    index,    \* ArchiveFiles: i
    cur,      \* ArchiveFiles: f
    archived, \* runArchive: the local archived
    shot,     \* the files of each entry when the last session scanned them
    cut,      \* history: sessions that died or whose last UPDATE failed
    slips     \* history: entries a statement of the database failed for

vars == <<cam, remote, row, status, counted, last, pc, todo, index, cur,
          archived, shot, cut, slips>>

db    == <<row, status, counted, last>>
local == <<todo, index, cur, archived>>

Sessions == 1 .. MaxSessions
Statuses == {"none", "running", "completed", "failed"}
Fails(kind) == kind \in Faults
Marked(f) == row[f] # 0

Init ==
    /\ cam = [f \in Entries |-> 0] /\ remote = [f \in Entries |-> 0]
    /\ row = [f \in Entries |-> 0]
    /\ status = [s \in Sessions |-> "none"]
    /\ counted = [s \in Sessions |-> 0] /\ last = 0
    /\ pc = "idle" /\ todo = {} /\ index = 0 /\ cur = NoEntry /\ archived = 0
    /\ shot = [f \in Entries |-> 0] /\ cut = {} /\ slips = {}

(* runArchive returns; its locals are gone.                                 *)
Return == pc' = "idle" /\ todo' = {} /\ index' = 0 /\ cur' = NoEntry /\ archived' = 0

(* CompleteSession and FailSession; callers ignore their error.             *)
Close(outcome, n) ==
    \/ /\ status' = [status EXCEPT ![last] = outcome]
       /\ counted' = [counted EXCEPT ![last] = n]
       /\ UNCHANGED cut
    \/ /\ Fails("db")
       /\ cut' = cut \cup {last}
       /\ UNCHANGED <<status, counted>>

-----------------------------------------------------------------------------
(* CreateSession; if it fails, or the server or the free space does not     *)
(* allow it, runArchive returns before anything changed.                    *)
CreateSession ==
    /\ pc = "idle" /\ last < MaxSessions
    /\ last' = last + 1
    /\ status' = [status EXCEPT ![last + 1] = "running"]
    /\ pc' = "scan"
    /\ UNCHANGED <<cam, remote, row, counted, local, shot, cut, slips>>

(* scanFilesForArchive: the entries of the clip folders; a folder it cannot *)
(* read is skipped.                                                         *)
OnCam == {f \in Entries : cam[f] > 0}
Listings == {found \in SUBSET OnCam : Fails("read") \/ found = OnCam}

(* ListUnarchived: a query that fails counts as "not archived".             *)
Unarchived(found) ==
    {new \in SUBSET found :
        /\ {f \in found : ~Marked(f)} \subseteq new
        /\ Fails("db") \/ \A f \in new : ~Marked(f)}

(* Mutant: archived files are not filtered out.                             *)
Scan_All ==
    /\ pc = "scan"
    /\ shot' = cam
    /\ todo' = OnCam
    /\ IF todo' = {}
       THEN Close("completed", 0) /\ pc' = "idle"
       ELSE pc' = "mark" /\ UNCHANGED <<status, counted, cut>>
    /\ UNCHANGED <<cam, remote, row, last, index, cur, archived, slips>>

Scan ==
    /\ pc = "scan"
    /\ shot' = cam
    /\ \E found \in Listings : todo' \in Unarchived(found)
    /\ slips' = slips \cup {f \in todo' : Marked(f)}
    /\ IF todo' = {}
       THEN /\ Close("completed", 0)
            /\ pc' = "idle"
       ELSE /\ pc' = "mark"
            /\ UNCHANGED <<status, counted, cut>>
    /\ UNCHANGED <<cam, remote, row, last, index, cur, archived>>

(* INSERT OR REPLACE; an error is only logged.                              *)
MarkArchived(f) ==
    \/ row' = [row EXCEPT ![f] = last] /\ UNCHANGED slips
    \/ Fails("db") /\ slips' = slips \cup {f} /\ UNCHANGED row

(* Mutant: every path of the list is marked when the first one is.          *)
Progress_All(f) ==
    /\ pc = "mark" /\ f \in todo
    /\ archived' = index
    /\ row' = [g \in Entries |-> IF g \in todo THEN last ELSE row[g]]
    /\ cur' = f
    /\ pc' = "copy"
    /\ UNCHANGED <<cam, remote, status, counted, last, todo, index, shot, cut, slips>>

(* Mutant: the count is taken one index too early.                          *)
Progress_Early(f) ==
    /\ pc = "mark" /\ f \in todo
    /\ archived' = index - 1
    /\ row' = [row EXCEPT ![f] = last]
    /\ cur' = f
    /\ pc' = "copy"
    /\ UNCHANGED <<cam, remote, status, counted, last, todo, index, shot, cut, slips>>

(* progressFn(i, total, f): the path is marked, and archived is the index.  *)
Progress(f) ==
    /\ pc = "mark" /\ f \in todo
    /\ archived' = index
    /\ MarkArchived(f)
    /\ cur' = f
    /\ pc' = "copy"
    /\ UNCHANGED <<cam, remote, status, counted, last, todo, index, shot, cut>>

(* rsync or rclone brings every file of f over; what the car adds meanwhile *)
(* may show in the snapshot (StateMachine, torn) and come along. What goes  *)
(* below a mountpoint with no share on it gets to nobody.                   *)
BringOver(reaches) ==
    IF reaches
    THEN \E n \in shot[cur] .. cam[cur] : remote' = [remote EXCEPT ![cur] = n]
    ELSE UNCHANGED remote

Copied(reaches) ==
    /\ pc = "copy"
    /\ BringOver(reaches)
    /\ todo' = todo \ {cur} /\ index' = index + 1 /\ cur' = NoEntry
    /\ pc' = IF todo' = {} THEN "done" ELSE "mark"
    /\ UNCHANGED <<cam, db, archived, shot, cut, slips>>

(* Mutant: the session is not closed when ArchiveFiles fails.               *)
CopyFailed_Open(reaches) ==
    /\ pc = "copy" /\ Fails("copy")
    /\ Return
    /\ UNCHANGED <<cam, remote, db, shot, cut, slips>>

(* Mutant: an error of one file is logged and the loop goes on.             *)
CopyFailed_GoesOn(reaches) ==
    /\ pc = "copy" /\ Fails("copy")
    /\ todo' = todo \ {cur} /\ index' = index + 1 /\ cur' = NoEntry
    /\ pc' = IF todo' = {} THEN "done" ELSE "mark"
    /\ UNCHANGED <<cam, remote, db, archived, shot, cut, slips>>

(* It fails, before or after the files arrived (the removal of the source   *)
(* from the read-only mount comes last); ArchiveFiles returns at once.      *)
CopyFailed(reaches) ==
    /\ pc = "copy" /\ Fails("copy")
    /\ BringOver(reaches) \/ UNCHANGED remote
    /\ Close("failed", counted[last])
    /\ Return
    /\ UNCHANGED <<cam, row, last, shot, slips>>

Complete ==
    /\ pc = "done"
    /\ Close("completed", archived)
    /\ Return
    /\ UNCHANGED <<cam, remote, row, last, shot, slips>>

(* The database survives, the session stays "running".                      *)
Crash ==
    /\ Fails("crash") /\ pc # "idle"
    /\ cut' = cut \cup {last}
    /\ Return
    /\ UNCHANGED <<cam, remote, db, shot, slips>>

(* The car writes a new file, to a new entry or to one it has.              *)
CarWrites(f) ==
    /\ cam[f] < MaxFiles
    /\ cam' = [cam EXCEPT ![f] = @ + 1]
    /\ UNCHANGED <<remote, db, pc, local, shot, cut, slips>>

(* The session goes on or ends; reaches: what ArchiveFiles writes gets to   *)
(* the server.                                                              *)
Session(reaches) ==
    \/ Scan \/ Copied(reaches) \/ CopyFailed(reaches) \/ Complete
    \/ \E f \in Entries : Progress(f)

(* A session by itself, as it is with a connection (ArchiveCycle).          *)
Next ==
    \/ CreateSession \/ Session(TRUE) \/ Crash
    \/ \E f \in Entries : CarWrites(f)

Spec == Init /\ [][Next]_vars

-----------------------------------------------------------------------------
(* Every variable has its type.                                             *)
TypeOK ==
    /\ cam \in [Entries -> 0 .. MaxFiles]
    /\ shot \in [Entries -> 0 .. MaxFiles]
    /\ remote \in [Entries -> 0 .. MaxFiles]
    /\ last \in 0 .. MaxSessions
    /\ row \in [Entries -> 0 .. MaxSessions]
    /\ status \in [Sessions -> Statuses] /\ counted \in [Sessions -> Nat]
    /\ pc \in {"idle", "scan", "mark", "copy", "done"}
    /\ todo \subseteq Entries /\ index \in Nat /\ archived \in Nat
    /\ cur \in Entries \cup {NoEntry}
    /\ cut \subseteq Sessions /\ slips \subseteq Entries

(* A session recorded as completed delivered: every path the database holds *)
(* for it is on the server, although each path is marked before it is       *)
(* copied, and whatever else failed (main.go:405-419).                      *)
CompletedSessionDelivers ==
    \A f \in Entries :
        Marked(f) /\ status[row[f]] = "completed" => remote[f] > 0

(* What marking before copying can cost: one entry for each session that    *)
(* did not complete, never two (archive/rsync.go:47-66 and the others).     *)
LossBounded ==
    Cardinality({f \in Entries : Marked(f) /\ remote[f] = 0}) <=
        Cardinality({s \in Sessions : status[s] \in {"running", "failed"}})

(* No outcome of runArchive leaves its session "running": one that is, is   *)
(* in flight, or the process died in it, or its last UPDATE failed          *)
(* (main.go:381-419).                                                       *)
RunningMeansInFlight ==
    \A s \in Sessions :
        status[s] = "running" => (s = last /\ pc # "idle") \/ s \in cut

(* Nothing is sent twice: an entry that is on the server is picked again by *)
(* a later session only if a statement of the database failed for it, the   *)
(* mark or the query (main.go:388-410, state/archive.go:10-45).             *)
SentOnce ==
    [][pc = "mark" /\ pc' = "copy" => remote[cur'] = 0 \/ cur' \in slips]_vars

(* "MarkArchived records that a file has been successfully archived"        *)
(* (internal/state/archive.go:8).                                           *)
MarkedMeansArchived ==
    \A f \in Entries : pc = "idle" /\ Marked(f) => remote[f] > 0
=============================================================================
