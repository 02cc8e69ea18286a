-------------------------------- MODULE Share --------------------------------
(***************************************************************************)
(* The connections of the archive backends (internal/archive): the share    *)
(* that CIFS and NFS mount in Connect and unmount in Disconnect, the        *)
(* credentials file of CIFS, and what is copied over a connection by        *)
(* runArchive and runMediaSync (cmd/teslausb/main.go). rsync and rclone     *)
(* connect in each command ("remote").                                      *)
(***************************************************************************)
EXTENDS Naturals, Sequences

CONSTANTS
    Enabled,     \* the folders the configuration has synchronised
    MaxFiles,    \* bound: credentials files made
    MaxMounts    \* bound: mounts of the share, one on the other

Folders == {"Music", "LightShow", "Boombox"}
Backends == {"cifs", "nfs", "remote"}

ASSUME ShareAssumption ==
    /\ Enabled \subseteq Folders
    /\ MaxFiles \in Nat /\ MaxMounts \in Nat

VARIABLES
    backend,    \* cfg.Archive.System
    pc,         \* the next step of Connect, of the work, or of Disconnect
    todo,       \* runMediaSync: the folders to do; {} in runArchive
    cancelled,  \* the context is cancelled
    mounts,     \* mounts of the share at b.mountpoint
    credentialsFile, \* b.credentialsFile; 0: ""
    files,      \* the credentials files that exist
    made,       \* names taken by CreateTemp, 1 .. made
    places,     \* where folders were synchronised to: <<folder, path>>
    local,      \* footage was written below b.mountpoint with no share there
    stuck,      \* history: mounts that an umount or a dead process left
    lost        \* history: files that a Connect or a dead process left

vars == <<backend, pc, todo, cancelled, mounts, credentialsFile, files, made,
          places, local, stuck, lost>>

share == <<mounts, stuck>>
creds == <<credentialsFile, files, made, lost>>
copies == <<places, local>>

Steps == {"idle", "connect", "mount", "archive", "media", "umount"}

Init ==
    /\ backend \in Backends
    /\ pc = "idle" /\ todo = {} /\ cancelled = FALSE
    /\ mounts = 0 /\ credentialsFile = 0 /\ files = {} /\ made = 0
    /\ places = {} /\ local = FALSE
    /\ stuck = 0 /\ lost = {}

-----------------------------------------------------------------------------
(* Mutant: the settings that switch the folders on are not looked at.       *)
IsReachable_All ==
    /\ pc = "idle" /\ pc' = "connect" /\ ~cancelled
    /\ todo' \in {{}, Folders}
    /\ UNCHANGED <<backend, cancelled, share, creds, copies>>

(* runArchive or runMediaSync, if a folder is enabled, finds the backend    *)
(* reachable. If it does not, it has done nothing.                          *)
IsReachable ==
    /\ pc = "idle" /\ pc' = "connect" /\ ~cancelled
    /\ todo' \in {{}, Enabled}
    /\ UNCHANGED <<backend, cancelled, share, creds, copies>>

-----------------------------------------------------------------------------
(* Connect                                                                  *)

Connected == pc' = IF todo = {} THEN "archive" ELSE "media"

(* Without a connection both return at once: no Disconnect is deferred yet. *)
NotConnected == pc' = "idle" /\ todo' = {}

ConnectRemote ==
    /\ pc = "connect" /\ backend = "remote"
    /\ Connected
    /\ UNCHANGED <<backend, todo, cancelled, share, creds, copies>>

(* MkdirAll of the mountpoint, and the credentials file of CIFS.            *)
MkdirAll(ok) ==
    /\ pc = "connect" /\ backend = "nfs"
    /\ IF ok THEN pc' = "mount" /\ UNCHANGED todo ELSE NotConnected
    /\ UNCHANGED <<backend, cancelled, share, creds, copies>>

(* The file is made and named, then written; the write may fail.            *)
CreateTemp ==
    /\ pc = "connect" /\ backend = "cifs" /\ made < MaxFiles
    /\ made' = made + 1
    /\ credentialsFile' = made' /\ files' = files \cup {made'}
    /\ \/ pc' = "mount" /\ UNCHANGED <<todo, lost>>
       \/ NotConnected /\ lost' = lost \cup {made'}
    /\ UNCHANGED <<backend, cancelled, share, copies>>

CreateTempFails ==
    /\ pc = "connect" /\ backend = "cifs"
    /\ NotConnected
    /\ UNCHANGED <<backend, cancelled, share, creds, copies>>

(* Mutant: an error of the mount command is only logged.                    *)
MountFails_GoesOn ==
    /\ pc = "mount"
    /\ Connected
    /\ UNCHANGED <<backend, todo, cancelled, share, creds, copies>>

(* A share that is mounted there already may make the mount fail, too.      *)
MountFails ==
    /\ pc = "mount"
    /\ NotConnected
    /\ lost' = IF backend = "cifs" THEN lost \cup {credentialsFile} ELSE lost
    /\ UNCHANGED <<backend, cancelled, share, credentialsFile, files, made,
                   copies>>

MountShare ==
    /\ pc = "mount" /\ ~cancelled /\ mounts < MaxMounts
    /\ mounts' = mounts + 1
    /\ Connected
    /\ UNCHANGED <<backend, todo, cancelled, stuck, creds, copies>>

-----------------------------------------------------------------------------
(* The work                                                                 *)

(* ArchiveFiles or ArchiveLog: the directory is made, then rsync may fail.  *)
ArchiveFiles ==
    /\ pc = "archive"
    /\ local' = (local \/ (backend # "remote" /\ mounts = 0))
    /\ UNCHANGED <<backend, pc, todo, cancelled, share, creds, places>>

(* The subdirectory that runMediaSync makes on the partition.               *)
Subdir(folder) == IF folder = "Boombox" THEN <<"Boombox">> ELSE <<>>

(* The folder of the share goes to the folder of its name in dest. A mount  *)
(* or a copy that fails is only logged.                                     *)
SyncMedia(folder) ==
    /\ pc = "media" /\ folder \in todo
    /\ todo' = todo \ {folder}
    /\ \/ /\ ~cancelled /\ (backend = "remote" \/ mounts > 0)
          /\ places' = places \cup {<<folder, Append(Subdir(folder), folder)>>}
       \/ UNCHANGED places
    /\ UNCHANGED <<backend, pc, cancelled, share, creds, local>>

(* Mutant: Disconnect is not deferred, an error path goes past it.          *)
Return_Early ==
    /\ pc \in {"archive", "media"}
    /\ pc' \in {"idle", "umount"} /\ todo' = {}
    /\ UNCHANGED <<backend, cancelled, share, creds, copies>>

(* The work is done or given up: whichever, Disconnect is deferred.         *)
Return ==
    /\ pc \in {"archive", "media"}
    /\ pc' = "umount" /\ todo' = {}
    /\ UNCHANGED <<backend, cancelled, share, creds, copies>>

-----------------------------------------------------------------------------
(* Disconnect                                                               *)

(* Mutant: an umount that fails returns before the file is removed.         *)
Disconnect_KeepsFile ==
    /\ pc = "umount" /\ pc' = "idle"
    /\ \/ /\ backend # "remote" /\ ~cancelled /\ mounts > 0
          /\ mounts' = mounts - 1 /\ UNCHANGED stuck
          /\ files' = files \ {credentialsFile} /\ credentialsFile' = 0
       \/ /\ stuck' = IF backend = "remote" THEN stuck ELSE stuck + 1
          /\ UNCHANGED <<mounts, files, credentialsFile>>
    /\ UNCHANGED <<backend, todo, cancelled, made, lost, copies>>

(* umount fails, or is never started once the context is cancelled; the     *)
(* credentials file goes in either case.                                    *)
Disconnect ==
    /\ pc = "umount" /\ pc' = "idle"
    /\ \/ /\ backend # "remote" /\ ~cancelled /\ mounts > 0
          /\ mounts' = mounts - 1 /\ UNCHANGED stuck
       \/ /\ stuck' = IF backend = "remote" THEN stuck ELSE stuck + 1
          /\ UNCHANGED mounts
    /\ files' = files \ {credentialsFile} /\ credentialsFile' = 0
    /\ UNCHANGED <<backend, todo, cancelled, made, lost, copies>>

-----------------------------------------------------------------------------
(* The signal handler. Every command under the context fails from now on.   *)
Cancel ==
    /\ ~cancelled /\ cancelled' = TRUE
    /\ UNCHANGED <<backend, pc, todo, share, creds, copies>>

(* The process ends, by itself or killed. Its mounts and its /tmp go with   *)
(* it where they are private to the unit.                                   *)
Die ==
    /\ pc' = "idle" /\ todo' = {} /\ cancelled' = FALSE
    /\ credentialsFile' = 0
    /\ mounts' \in {0, mounts} /\ stuck' = mounts'
    /\ files' \in {{}, files} /\ lost' = files'
    /\ UNCHANGED <<backend, made, copies>>

Next ==
    \/ IsReachable
    \/ ConnectRemote \/ CreateTemp \/ CreateTempFails
    \/ \E ok \in BOOLEAN : MkdirAll(ok)
    \/ MountFails \/ MountShare
    \/ ArchiveFiles \/ Return
    \/ \E folder \in Folders : SyncMedia(folder)
    \/ Disconnect \/ Cancel \/ Die

Spec == Init /\ [][Next]_vars

-----------------------------------------------------------------------------
(* Every variable has its type; with no share connected the mounts are      *)
(* bounded, and so is the name of the credentials file.                     *)
TypeOK ==
    /\ backend \in Backends /\ pc \in Steps
    /\ todo \subseteq Enabled /\ cancelled \in BOOLEAN
    /\ mounts \in 0 .. MaxMounts /\ stuck \in Nat
    /\ made \in 0 .. MaxFiles /\ credentialsFile \in 0 .. made
    /\ files \subseteq 1 .. made /\ lost \subseteq 1 .. made
    /\ places \subseteq Folders \X Seq(Folders)
    /\ local \in BOOLEAN

(* Footage that counts as archived is never written to the Pi's own /tmp,   *)
(* below a mountpoint with no share, whichever step of Connect failed and   *)
(* whatever an earlier run left there (cifs.go:100-121, nfs.go:69-90).      *)
FootageReachesShare == ~local

(* With no connection the mounts of the share are at most those that a      *)
(* failed umount or a dead process left: no error path of runArchive or     *)
(* runMediaSync skips Disconnect (main.go:345-355, 479-489).                *)
MountsGivenUp == pc = "idle" => mounts <= stuck

(* With no connection the only credentials files are those that a failed    *)
(* Connect or a dead process left: Disconnect always removes the file of    *)
(* its own connection, the failed umount included (cifs.go:84-98).          *)
FilesGivenUp == pc = "idle" => files \subseteq lost
=============================================================================
