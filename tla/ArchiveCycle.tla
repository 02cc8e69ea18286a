---------------------------- MODULE ArchiveCycle ----------------------------
(***************************************************************************)
(* runArchive as a whole (cmd/teslausb/main.go:315-439), and runMediaSync   *)
(* as far as it uses the connection: the session of ArchiveSession, inside  *)
(* a connection of Share, inside the governor and the wake keeper, inside   *)
(* the mounted snapshot. One context and one process is common to them.     *)
(***************************************************************************)
EXTENDS ArchiveSession

CONSTANTS
    Systems,     \* the backends a configuration may name
    Enabled,     \* the folders it has synchronised
    MaxCreds,    \* BOUND: credentials files made
    MaxMounts    \* BOUND: mounts of the share, one on the other

ASSUME CycleAssumption ==
    /\ Systems \subseteq {"cifs", "nfs", "remote"}
    /\ Enabled \subseteq {"Music", "LightShow", "Boombox"}
    /\ MaxCreds \in Nat /\ MaxMounts \in Nat

VARIABLES
    backend, link, folders, cancelled, mounts, credentialsFile, files, made,
    places, astray, stuck, lost,                      \* Share
    method, running, loop, loopCtxDone, told,         \* WakeKeeper
    step,       \* the statement of runArchive or runMediaSync
    mounted,    \* the snapshot is mounted on /mnt/snap
    governor,   \* the CPU governor of the kernel
    slack       \* history: what a statement that failed, or a death, left held

H == INSTANCE Share WITH pc <- link, todo <- folders, local <- astray,
                         MaxFiles <- MaxCreds
K == INSTANCE WakeKeeper

session == <<cam, remote, row, status, counted, last, pc, todo, index, cur,
             archived, shot, cut, slips>>
share   == <<backend, link, folders, cancelled, mounts, credentialsFile, files,
             made, places, astray, stuck, lost>>
wake    == <<method, running, loop, loopCtxDone, told>>
system  == <<mounted, governor, slack>>
cycleVars == <<session, share, wake, system, step>>

CycleSteps == {"down", "idle", "wake", "governor", "reach", "connect", "space",
               "session", "log", "return", "disconnect", "restore", "stop",
               "stopping", "unmount", "media"}
Held == {"snapshot", "governor", "wake"}
Governors == {"kernel", "base", "archiving"}

At(s) == step = s
Goto(s) == step' = s

CycleInit ==
    /\ Init /\ H!Init /\ K!Init /\ backend \in Systems
    /\ step = "down" /\ mounted = FALSE /\ governor = "kernel" /\ slack = {}

(* What a cycle takes of the system, and outlives the process.              *)
Holds(r) ==
    \/ r = "snapshot" /\ mounted
    \/ r = "governor" /\ governor = "archiving"
    \/ r = "wake" /\ told

(* The statement that gives r back was reached.                             *)
GivenBack(r) == slack' = IF Holds(r)' THEN slack \cup {r} ELSE slack \ {r}

-----------------------------------------------------------------------------
(* Taking what the cycle needs                                              *)

(* snap.Mount. If it fails, perhaps after it cleared a stale mount,         *)
(* runArchive returns.                                                      *)
MountSnapshot ==
    /\ At("idle") /\ ~cancelled
    /\ mounted' = TRUE /\ Goto("wake")
    /\ UNCHANGED <<session, share, wake, governor, slack>>

MountFails ==
    /\ At("idle") /\ ~cancelled
    /\ mounted /\ mounted' = FALSE
    /\ UNCHANGED <<session, share, wake, governor, slack, step>>

WakeStart ==
    /\ At("wake") /\ Goto("governor")
    /\ K!Start(cancelled)
    /\ UNCHANGED <<session, share, system>>

(* SetCPUGovernor; its error is not looked at.                              *)
GovernorUp ==
    /\ At("governor") /\ Goto("reach")
    /\ governor' \in {governor, "archiving"}
    /\ UNCHANGED <<session, share, wake, mounted, slack>>

(* Mutant: nothing is deferred before the backend is known to be there.     *)
Unreachable_Returns ==
    /\ At("reach") /\ Goto("unmount")
    /\ UNCHANGED <<session, share, wake, system>>

(* IsReachable says no: what was taken is given back.                       *)
Unreachable ==
    /\ At("reach") /\ Goto("restore")
    /\ UNCHANGED <<session, share, wake, system>>

Reachable ==
    /\ At("reach") /\ Goto("connect")
    /\ H!IsReachable /\ folders' = {}
    /\ UNCHANGED <<session, wake, system>>

Connecting ==
    \/ H!ConnectRemote \/ H!CreateTemp \/ H!CreateTempFails
    \/ \E ok \in BOOLEAN : H!MkdirAll(ok)
    \/ H!MountFails \/ H!MountShare

Connect ==
    /\ At("connect")
    /\ Connecting
    /\ step' = CASE link' = "idle"    -> "restore"
                 [] link' = "archive" -> "space"
                 [] OTHER             -> "connect"
    /\ UNCHANGED <<session, wake, system>>

-----------------------------------------------------------------------------
(* The session                                                              *)

(* The free space is below the reserve, or CreateSession fails.             *)
Skip ==
    /\ At("space") /\ Goto("return")
    /\ UNCHANGED <<session, share, wake, system>>

Begin ==
    /\ At("space") /\ Goto("session")
    /\ CreateSession
    /\ UNCHANGED <<share, wake, system>>

(* Where rsync or the copy of a mounted share writes to.                    *)
Reaches == backend = "remote" \/ mounts > 0

(* A command does not succeed under a context that is done; the commands    *)
(* of ArchiveFiles touch the share.                                         *)
Work ==
    /\ At("session") /\ Session(Reaches)
    /\ cancelled /\ pc = "copy" => pc' = "idle"
    /\ IF pc = "copy" THEN H!ArchiveFiles ELSE UNCHANGED share
    /\ step' = IF pc' # "idle" THEN "session"
               ELSE IF pc = "done" THEN "log" ELSE "return"
    /\ UNCHANGED <<wake, system>>

(* ArchiveLog, where archive_logs is on and the backend has it.             *)
ArchiveLog ==
    /\ At("log") /\ Goto("return")
    /\ H!ArchiveFiles \/ UNCHANGED share
    /\ UNCHANGED <<session, wake, system>>

-----------------------------------------------------------------------------
(* What is deferred, last in, first out                                     *)

WorkOver ==
    /\ At("return") /\ Goto("disconnect")
    /\ H!Return
    /\ UNCHANGED <<session, wake, system>>

Disconnect ==
    /\ At("disconnect") /\ Goto("restore")
    /\ H!Disconnect
    /\ UNCHANGED <<session, wake, system>>

(* SetCPUGovernor again, its error not looked at either.                    *)
GovernorBack ==
    /\ At("restore") /\ Goto("stop")
    /\ governor' \in {"base", governor}
    /\ UNCHANGED <<session, share, wake, mounted>>
    /\ GivenBack("governor")

WakeStop ==
    /\ At("stop") /\ Goto("stopping")
    /\ K!Stop(cancelled)
    /\ UNCHANGED <<session, share, mounted, governor>>
    /\ GivenBack("wake")

WakeStopped ==
    /\ At("stopping") /\ Goto("unmount")
    /\ K!Stopped
    /\ UNCHANGED <<session, share, system>>

UnmountSnapshot ==
    /\ At("unmount") /\ Goto("idle")
    /\ mounted' \in {FALSE, mounted}
    /\ UNCHANGED <<session, share, wake, governor>>
    /\ GivenBack("snapshot")

-----------------------------------------------------------------------------
(* runMediaSync                                                             *)

MediaSync ==
    /\ At("idle") /\ Goto("media")
    /\ H!IsReachable /\ folders' # {}
    /\ UNCHANGED <<session, wake, system>>

Media ==
    /\ At("media")
    /\ \/ Connecting
       \/ \E folder \in Enabled : H!SyncMedia(folder)
       \/ H!Return \/ H!Disconnect
    /\ step' = IF link' = "idle" THEN "idle" ELSE "media"
    /\ UNCHANGED <<session, wake, system>>

-----------------------------------------------------------------------------
(* The process, the goroutine, the car                                      *)

(* main: ApplyAll writes the governor unless a statement before it failed;  *)
(* boot unmounts a stale snapshot, which may fail.                          *)
Start ==
    /\ At("down") /\ Goto("idle")
    /\ governor' \in {"base", governor} /\ mounted' \in {FALSE, mounted}
    /\ UNCHANGED <<session, share, wake>>
    /\ slack' = {r \in slack : Holds(r)'}

(* Killed, or over because ctx is done: what it holds stays held, but for   *)
(* the goroutine.                                                           *)
Die ==
    /\ ~At("down") /\ Goto("down")
    /\ H!Die /\ K!Gone
    /\ IF pc = "idle" THEN UNCHANGED session ELSE Crash
    /\ slack' = slack \cup {r \in Held : Holds(r)}
    /\ UNCHANGED <<mounted, governor>>

Cancel ==
    /\ ~At("down")
    /\ H!Cancel
    /\ UNCHANGED <<session, wake, system, step>>

LoopRuns ==
    /\ K!Nudged \/ K!Ticks \/ K!LoopReturns(cancelled)
    /\ UNCHANGED <<session, share, system, step>>

Car ==
    /\ \E f \in Entries : CarWrites(f)
    /\ UNCHANGED <<share, wake, system, step>>

RunArchive ==
    \/ WakeStart \/ GovernorUp \/ Unreachable \/ Reachable \/ Connect
    \/ Skip \/ Begin \/ Work \/ ArchiveLog
    \/ WorkOver \/ Disconnect \/ GovernorBack \/ WakeStop \/ WakeStopped
    \/ UnmountSnapshot

CycleNext ==
    \/ MountSnapshot \/ MountFails \/ RunArchive \/ MediaSync \/ Media
    \/ Start \/ Die \/ Cancel \/ LoopRuns \/ Car

CycleSpec == CycleInit /\ [][CycleNext]_cycleVars

(* The commands return; of two channels that are ready, select takes either *)
(* one again and again.                                                     *)
CycleFairness ==
    /\ WF_cycleVars(RunArchive \/ Media)
    /\ WF_cycleVars(LoopRuns)
    /\ SF_cycleVars(K!LoopReturns(cancelled) /\ LoopRuns)

CycleFairSpec == CycleSpec /\ CycleFairness

-----------------------------------------------------------------------------
(* Every variable has its type.                                             *)
CycleTypeOK ==
    /\ TypeOK /\ H!TypeOK /\ K!TypeOK
    /\ step \in CycleSteps /\ mounted \in BOOLEAN
    /\ governor \in Governors /\ slack \subseteq Held

(* Between cycles nothing of a cycle is held: the snapshot is not mounted,  *)
(* the governor is not that of archiving, no goroutine nudges the car and   *)
(* the receiver of the webhook was told to stop; but for what a failed      *)
(* statement or a death left (main.go:321-355).                             *)
NothingHeld ==
    step = "idle" =>
        /\ K!Quiet /\ link = "idle" /\ pc = "idle"
        /\ \A r \in Held : Holds(r) => r \in slack

(* Clips are copied from a mounted snapshot and, unless the daemon is to    *)
(* stop, while the goroutine keeps the car awake, in every cycle and        *)
(* whatever became of the ones before (main.go:320-338, ble.go:36-64).      *)
ArchivesAwake == pc # "idle" => mounted /\ (cancelled \/ K!Nudging)

(* Every cycle ends, with the goroutine, whichever statement failed and     *)
(* whenever the signal came (ble.go:49-94).                                 *)
CycleEnds == step \notin {"idle", "down"} ~> step \in {"idle", "down"}

(* In the cycle the sessions are those of ArchiveSession, where what is     *)
(* copied gets to the server, and the connections are those of Share.       *)
ImplementsParts == Spec /\ H!Spec
=============================================================================
