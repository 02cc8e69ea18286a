------------------------ MODULE ArchiveCycle_proofs ------------------------
(***************************************************************************)
(* The cycle as a whole, for every set of entries and folders, every bound  *)
(* and every set of faults.                                                 *)
(***************************************************************************)
EXTENDS ArchiveCycle, ArchiveSession_proofs, TLAPS

(* The theorems about Share, on the variables its connections have here.    *)
HP == INSTANCE Share_proofs WITH pc <- link, todo <- folders, local <- astray,
                                 MaxFiles <- MaxCreds

-----------------------------------------------------------------------------
(* The inductive invariants, one for each part.                             *)

(* The statement the cycle is at says how far the connection is, there is a *)
(* session only where there is one, and what is connected is mounted.       *)
Apart     == {"down", "idle", "wake", "governor", "reach", "restore", "stop",
              "stopping", "unmount"}
Connected == {"space", "session", "log", "return"}

LinkInv ==
    /\ mounts \in Nat
    /\ step \in Apart => link = "idle"
    /\ step \in Connected => link = "archive"
    /\ link \in {"archive", "media"} => Reaches
    /\ pc # "idle" => step = "session"

(* Lemmas on the actions of Share: what they do to the two variables that   *)
(* LinkInv speaks of.                                                       *)
LEMMA ConnectingLinks ==
    ASSUME mounts \in Nat, Connecting
    PROVE  /\ mounts' \in Nat /\ backend' = backend
           /\ link' \in {"archive", "media"} => backend = "remote" \/ mounts' > 0
<1> USE DEF H!Connected, H!NotConnected, H!share, H!creds, H!copies
<1>1. CASE H!ConnectRemote
  BY <1>1 DEF H!ConnectRemote
<1>2. CASE H!CreateTemp \/ H!CreateTempFails
  BY <1>2 DEF H!CreateTemp, H!CreateTempFails
<1>3. CASE \E ok \in BOOLEAN : H!MkdirAll(ok)
  BY <1>3 DEF H!MkdirAll
<1>4. CASE H!MountFails
  BY <1>4 DEF H!MountFails
<1>5. CASE H!MountShare
  BY <1>5 DEF H!MountShare
<1> QED BY <1>1, <1>2, <1>3, <1>4, <1>5 DEF Connecting

LEMMA Linking == CycleSpec => []LinkInv
<1> USE DEF LinkInv, Apart, Connected, Reaches, At, Goto
<1>1. CycleInit => LinkInv
  BY DEF CycleInit, H!Init, Init
<1>2. LinkInv /\ [CycleNext]_cycleVars => LinkInv'
  <2> SUFFICES ASSUME LinkInv, [CycleNext]_cycleVars PROVE LinkInv'
    OBVIOUS
  <2> USE DEF session, share, H!share, H!creds, H!copies
  <2>1. CASE MountSnapshot \/ MountFails
    BY <2>1 DEF MountSnapshot, MountFails
  <2>2. CASE WakeStart \/ GovernorUp \/ Unreachable
    BY <2>2 DEF WakeStart, GovernorUp, Unreachable
  <2>3. CASE Reachable
    BY <2>3 DEF Reachable, H!IsReachable
  <2>4. CASE Connect
    <3>1. /\ mounts' \in Nat /\ backend' = backend
          /\ link' \in {"archive", "media"} => backend = "remote" \/ mounts' > 0
      BY <2>4, ConnectingLinks DEF Connect
    <3> QED BY <2>4, <3>1 DEF Connect
  <2>5. CASE Skip
    BY <2>5 DEF Skip
  <2>6. CASE Begin
    BY <2>6 DEF Begin
  <2>7. CASE Work
    <3>1. step = "session" /\ step' \in Connected
      BY <2>7 DEF Work
    <3>2. H!ArchiveFiles \/ UNCHANGED share
      BY <2>7 DEF Work
    <3>3. link' = link /\ mounts' = mounts /\ backend' = backend
      BY <3>2 DEF H!ArchiveFiles
    <3>4. pc' # "idle" => step' = "session"
      BY <2>7 DEF Work
    <3> QED BY <3>1, <3>3, <3>4
  <2>8. CASE ArchiveLog
    BY <2>8 DEF ArchiveLog, H!ArchiveFiles
  <2>9. CASE WorkOver
    BY <2>9 DEF WorkOver, H!Return
  <2>10. CASE Disconnect
    BY <2>10 DEF Disconnect, H!Disconnect
  <2>11. CASE GovernorBack \/ WakeStop \/ WakeStopped \/ UnmountSnapshot
    BY <2>11 DEF GovernorBack, WakeStop, WakeStopped, UnmountSnapshot
  <2>12. CASE MediaSync
    BY <2>12 DEF MediaSync, H!IsReachable
  <2>13. CASE Media
    <3>1. CASE Connecting
      BY <2>13, <3>1, ConnectingLinks DEF Media
    <3>2. CASE \E folder \in Enabled : H!SyncMedia(folder)
      BY <2>13, <3>2 DEF Media, H!SyncMedia
    <3>3. CASE H!Return \/ H!Disconnect
      BY <2>13, <3>3 DEF Media, H!Return, H!Disconnect
    <3> QED BY <2>13, <3>1, <3>2, <3>3 DEF Media
  <2>14. CASE Start
    BY <2>14 DEF Start
  <2>15. CASE Die
    BY <2>15 DEF Die, H!Die, Crash, Return
  <2>16. CASE Cancel
    BY <2>16 DEF Cancel, H!Cancel
  <2>17. CASE LoopRuns
    BY <2>17 DEF LoopRuns
  <2>18. CASE Car
    BY <2>18 DEF Car, CarWrites
  <2>19. CASE UNCHANGED cycleVars
    BY <2>19 DEF cycleVars
  <2> QED
    BY <2>1, <2>2, <2>3, <2>4, <2>5, <2>6, <2>7, <2>8, <2>9, <2>10, <2>11, <2>12,
       <2>13, <2>14, <2>15, <2>16, <2>17, <2>18, <2>19 DEF CycleNext, RunArchive
<1> QED BY <1>1, <1>2, PTL DEF CycleSpec

-----------------------------------------------------------------------------
(* A cycle is sessions of ArchiveSession, whose files all get to the        *)
(* server, in connections of Share.                                         *)
THEOREM RefinesParts == CycleSpec => ImplementsParts
<1>1. CycleInit => Init /\ H!Init
  BY DEF CycleInit
<1>2. LinkInv /\ [CycleNext]_cycleVars => [Next]_vars
  <2> SUFFICES ASSUME LinkInv, [CycleNext]_cycleVars PROVE Next \/ UNCHANGED vars
    OBVIOUS
  <2>1. CASE Work
    <3>1. step = "session" /\ Session(Reaches)
      BY <2>1 DEF Work, At
    <3>2. Reaches
      BY <3>1 DEF LinkInv, Connected
    <3>3. Session(TRUE)
      BY <3>1, <3>2 DEF Session, Copied, CopyFailed, BringOver
    <3> QED BY <3>3 DEF Next
  <2>2. CASE Begin
    BY <2>2 DEF Begin, Next
  <2>3. CASE Die
    BY <2>3 DEF Die, Next, session, vars
  <2>4. CASE Car
    BY <2>4 DEF Car, Next
  <2>5. UNCHANGED session => UNCHANGED vars
    BY DEF session, vars
  <2>6. ASSUME CycleNext, ~Work, ~Begin, ~Die, ~Car
        PROVE  UNCHANGED session
    BY <2>6 DEF CycleNext, RunArchive, MountSnapshot, MountFails, WakeStart, GovernorUp,
                Unreachable, Reachable, Connect, Skip, ArchiveLog, WorkOver, Disconnect,
                GovernorBack, WakeStop, WakeStopped, UnmountSnapshot, MediaSync, Media,
                Start, Cancel, LoopRuns
  <2> QED BY <2>1, <2>2, <2>3, <2>4, <2>5, <2>6 DEF cycleVars
<1>3. [CycleNext]_cycleVars => [H!Next]_(H!vars)
  <2> SUFFICES ASSUME [CycleNext]_cycleVars PROVE H!Next \/ UNCHANGED H!vars
    OBVIOUS
  <2>1. UNCHANGED share => UNCHANGED H!vars
    BY DEF share, H!vars
  <2>2. Connecting => H!Next
    BY DEF Connecting, H!Next
  <2>3. CASE Connect \/ Media
    <3>1. CASE \E folder \in Enabled : H!SyncMedia(folder)
      <4>1. Enabled \subseteq H!Folders
        BY CycleAssumption DEF H!Folders
      <4> QED BY <3>1, <4>1 DEF H!Next
    <3> QED BY <2>2, <2>3, <3>1 DEF Connect, Media, H!Next
  <2>4. CASE Work \/ ArchiveLog
    BY <2>1, <2>4 DEF Work, ArchiveLog, H!Next
  <2>5. CASE Reachable \/ MediaSync
    BY <2>5 DEF Reachable, MediaSync, H!Next
  <2>6. CASE WorkOver \/ Disconnect \/ Die \/ Cancel
    BY <2>6 DEF WorkOver, Disconnect, Die, Cancel, H!Next
  <2>7. CASE MountSnapshot \/ MountFails \/ WakeStart \/ GovernorUp \/ Unreachable
             \/ Skip \/ Begin \/ GovernorBack \/ WakeStop \/ WakeStopped
             \/ UnmountSnapshot \/ Start \/ LoopRuns \/ Car
    BY <2>1, <2>7 DEF MountSnapshot, MountFails, WakeStart, GovernorUp, Unreachable,
                      Skip, Begin, GovernorBack, WakeStop, WakeStopped,
                      UnmountSnapshot, Start, LoopRuns, Car
  <2>8. CASE UNCHANGED cycleVars
    BY <2>1, <2>8 DEF cycleVars
  <2> QED BY <2>3, <2>4, <2>5, <2>6, <2>7, <2>8 DEF CycleNext, RunArchive
<1> QED BY <1>1, <1>2, <1>3, Linking, PTL DEF CycleSpec, ImplementsParts, Spec, H!Spec

(* The instance of Share and that of its theorems are the same module on    *)
(* the same variables.                                                      *)
LEMMA SameShare == H!Spec => HP!Spec
<1>1. H!Init => HP!Init
  BY DEF H!Init, HP!Init, H!Backends, HP!Backends
<1>2. [H!Next]_(H!vars) => [HP!Next]_(HP!vars)
  <2> SUFFICES ASSUME [H!Next]_(H!vars) PROVE [HP!Next]_(HP!vars)
    OBVIOUS
  <2> USE DEF H!share, HP!share, H!creds, HP!creds, H!copies, HP!copies,
              H!Connected, HP!Connected, H!NotConnected, HP!NotConnected
  <2>1. CASE H!IsReachable
    BY <2>1 DEF H!IsReachable, HP!IsReachable, HP!Next
  <2>2. CASE H!ConnectRemote
    BY <2>2 DEF H!ConnectRemote, HP!ConnectRemote, HP!Next
  <2>3. CASE H!CreateTemp
    <3>1. HP!CreateTemp
      BY <2>3, Zenon DEF H!CreateTemp, HP!CreateTemp
    <3> QED BY <3>1 DEF HP!Next
  <2>4. CASE H!CreateTempFails
    BY <2>4 DEF H!CreateTempFails, HP!CreateTempFails, HP!Next
  <2>5. CASE \E ok \in BOOLEAN : H!MkdirAll(ok)
    <3> PICK ok \in BOOLEAN : H!MkdirAll(ok)
      BY <2>5
    <3>1. HP!MkdirAll(ok)
      BY Zenon DEF H!MkdirAll, HP!MkdirAll
    <3> QED BY <3>1 DEF HP!Next
  <2>6. CASE H!MountFails
    BY <2>6 DEF H!MountFails, HP!MountFails, HP!Next
  <2>7. CASE H!MountShare
    BY <2>7 DEF H!MountShare, HP!MountShare, HP!Next
  <2>8. CASE H!ArchiveFiles
    BY <2>8 DEF H!ArchiveFiles, HP!ArchiveFiles, HP!Next
  <2>9. CASE H!Return
    BY <2>9 DEF H!Return, HP!Return, HP!Next
  <2>10. CASE \E folder \in H!Folders : H!SyncMedia(folder)
    <3> PICK folder \in H!Folders : H!SyncMedia(folder)
      BY <2>10
    <3>1. HP!SyncMedia(folder)
      BY Zenon DEF H!SyncMedia, HP!SyncMedia, H!Subdir, HP!Subdir
    <3>2. folder \in HP!Folders
      BY DEF H!Folders, HP!Folders
    <3> QED BY <3>1, <3>2 DEF HP!Next
  <2>11. CASE H!Disconnect
    BY <2>11 DEF H!Disconnect, HP!Disconnect, HP!Next
  <2>12. CASE H!Cancel
    BY <2>12 DEF H!Cancel, HP!Cancel, HP!Next
  <2>13. CASE H!Die
    BY <2>13 DEF H!Die, HP!Die, HP!Next
  <2>14. CASE UNCHANGED H!vars
    BY <2>14 DEF H!vars, HP!vars
  <2> QED
    BY <2>1, <2>2, <2>3, <2>4, <2>5, <2>6, <2>7, <2>8, <2>9, <2>10, <2>11, <2>12,
       <2>13, <2>14 DEF H!Next
<1> QED BY <1>1, <1>2, PTL DEF H!Spec, HP!Spec

(* What Share promises holds of the connections that the cycles make and    *)
(* give up: footage goes to a share that is mounted, and with no connection *)
(* there is no mount and no credentials file but those that a failed call   *)
(* or a death left.                                                         *)
THEOREM CycleConnects ==
    CycleSpec => [](H!FootageReachesShare /\ H!MountsGivenUp /\ H!FilesGivenUp)
<1>0. HP!ShareAssumption
  BY CycleAssumption DEF HP!ShareAssumption, HP!Folders
<1>1. HP!FootageReachesShare => H!FootageReachesShare
  BY DEF HP!FootageReachesShare, H!FootageReachesShare
<1>2. HP!MountsGivenUp => H!MountsGivenUp
  BY DEF HP!MountsGivenUp, H!MountsGivenUp
<1>3. HP!FilesGivenUp => H!FilesGivenUp
  BY DEF HP!FilesGivenUp, H!FilesGivenUp
<1>4. HP!Spec => []HP!FootageReachesShare
  BY <1>0, HP!ReachesShare
<1>5. HP!Spec => []HP!MountsGivenUp
  BY <1>0, HP!MountsAreGivenUp
<1>6. HP!Spec => []HP!FilesGivenUp
  BY <1>0, HP!FilesAreGivenUp
<1> QED
  BY <1>1, <1>2, <1>3, <1>4, <1>5, <1>6, SameShare, RefinesParts, PTL DEF ImplementsParts

-----------------------------------------------------------------------------
(* The keeper and what the cycle holds.                                     *)

Between == {"down", "idle", "media"}
Awake   == {"governor", "reach", "connect", "space", "session", "log",
            "return", "disconnect", "restore", "stop"}

(* From Start to Stop the goroutine of a BLE keeper runs; it returned by    *)
(* itself only because the daemon is to stop. With another method there is  *)
(* none.                                                                    *)
Keeping ==
    IF method = "ble"
    THEN running /\ ~loopCtxDone /\ loop # "none" /\ (loop = "closed" => cancelled)
    ELSE ~running /\ loop = "none"

AwakeInv ==
    /\ loop \in K!LoopSteps
    /\ step \in Awake => Keeping
    /\ step \notin Awake => ~running
    /\ step \notin Awake \cup {"stopping"} => loop = "none"
    /\ step \notin Between => mounted

LEMMA KeepingAwake == CycleSpec => []AwakeInv
<1> USE DEF AwakeInv, Between, Awake, Keeping, K!LoopSteps, At, Goto
<1>1. CycleInit => AwakeInv
  BY DEF CycleInit, K!Init
<1>2. AwakeInv /\ [CycleNext]_cycleVars => AwakeInv'
  <2> SUFFICES ASSUME AwakeInv, [CycleNext]_cycleVars PROVE AwakeInv'
    OBVIOUS
  <2> USE DEF wake, system
  <2>1. CASE MountSnapshot \/ MountFails
    BY <2>1 DEF MountSnapshot, MountFails, share
  <2>2. CASE WakeStart
    BY <2>2 DEF WakeStart, K!Start, K!Post, share
  <2>3. CASE GovernorUp \/ Unreachable \/ Skip
    BY <2>3 DEF GovernorUp, Unreachable, Skip, share
  <2>4. CASE Reachable
    BY <2>4 DEF Reachable, H!IsReachable
  <2>5. CASE Connect
    <3>1. cancelled' = cancelled
      BY <2>5 DEF Connect, Connecting, H!ConnectRemote, H!CreateTemp, H!CreateTempFails,
                  H!MkdirAll, H!MountFails, H!MountShare
    <3>2. step = "connect" /\ step' \in {"restore", "space", "connect"}
      BY <2>5 DEF Connect
    <3> QED BY <2>5, <3>1, <3>2 DEF Connect
  <2>6. CASE Begin
    BY <2>6 DEF Begin, share
  <2>7. CASE Work
    <3>1. cancelled' = cancelled
      BY <2>7 DEF Work, H!ArchiveFiles, share
    <3>2. step = "session" /\ step' \in {"session", "log", "return"}
      BY <2>7 DEF Work
    <3> QED BY <2>7, <3>1, <3>2 DEF Work
  <2>8. CASE ArchiveLog
    BY <2>8 DEF ArchiveLog, H!ArchiveFiles, share
  <2>9. CASE WorkOver
    BY <2>9 DEF WorkOver, H!Return
  <2>10. CASE Disconnect
    BY <2>10 DEF Disconnect, H!Disconnect
  <2>11. CASE GovernorBack
    BY <2>11 DEF GovernorBack, share
  <2>12. CASE WakeStop
    BY <2>12 DEF WakeStop, K!Stop, K!Post, share
  <2>13. CASE WakeStopped
    BY <2>13 DEF WakeStopped, K!Stopped, share
  <2>14. CASE UnmountSnapshot
    BY <2>14 DEF UnmountSnapshot, share
  <2>15. CASE MediaSync
    BY <2>15 DEF MediaSync, H!IsReachable
  <2>16. CASE Media
    <3>1. step = "media" /\ step' \in {"idle", "media"}
      BY <2>16 DEF Media
    <3> QED BY <2>16, <3>1 DEF Media
  <2>17. CASE Start
    BY <2>17 DEF Start, share
  <2>18. CASE Die
    BY <2>18 DEF Die, K!Gone
  <2>19. CASE Cancel
    BY <2>19 DEF Cancel, H!Cancel
  <2>20. CASE LoopRuns
    BY <2>20 DEF LoopRuns, K!Nudged, K!Ticks, K!LoopReturns, share
  <2>21. CASE Car
    BY <2>21 DEF Car, share
  <2>22. CASE UNCHANGED cycleVars
    BY <2>22 DEF cycleVars, share
  <2> QED
    BY <2>1, <2>2, <2>3, <2>4, <2>5, <2>6, <2>7, <2>8, <2>9, <2>10, <2>11, <2>12,
       <2>13, <2>14, <2>15, <2>16, <2>17, <2>18, <2>19, <2>20, <2>21, <2>22
       DEF CycleNext, RunArchive
<1> QED BY <1>1, <1>2, PTL DEF CycleSpec

(* Clips are copied from a mounted snapshot while the car is kept awake,    *)
(* whatever the cycles before came to, for every bound and every fault.     *)
THEOREM KeptAwake == CycleSpec => []ArchivesAwake
<1>1. LinkInv /\ AwakeInv => ArchivesAwake
  <2> SUFFICES ASSUME LinkInv, AwakeInv, pc # "idle"
               PROVE  mounted /\ (cancelled \/ K!Nudging)
    BY DEF ArchivesAwake
  <2>1. step = "session"
    BY DEF LinkInv
  <2>2. mounted /\ Keeping
    BY <2>1 DEF AwakeInv, Between, Awake
  <2>3. loop \in K!LoopSteps
    BY DEF AwakeInv
  <2> QED BY <2>2, <2>3 DEF Keeping, K!Nudging, K!LoopSteps
<1> QED BY <1>1, Linking, KeepingAwake, PTL

-----------------------------------------------------------------------------
(* What is held outside its own statements was left by one that failed or   *)
(* by a death.                                                              *)
SlackInv ==
    /\ mounted /\ step \in Between => "snapshot" \in slack
    /\ governor = "archiving" =>
          step \in Awake \ {"governor", "stop"} \/ "governor" \in slack
    /\ told => step \in Awake \/ "wake" \in slack

LEMMA Slackening == CycleSpec => []SlackInv
<1> USE DEF SlackInv, Between, Awake, At, Goto, Holds, Held
<1>1. CycleInit => SlackInv
  BY DEF CycleInit, K!Init
<1>2. SlackInv /\ [CycleNext]_cycleVars => SlackInv'
  <2> SUFFICES ASSUME SlackInv, [CycleNext]_cycleVars PROVE SlackInv'
    OBVIOUS
  <2> USE DEF wake, system
  <2>1. CASE MountSnapshot \/ MountFails
    BY <2>1 DEF MountSnapshot, MountFails
  <2>2. CASE WakeStart
    BY <2>2 DEF WakeStart, K!Start, K!Post
  <2>3. CASE GovernorUp \/ Unreachable \/ Skip \/ Begin \/ ArchiveLog
    BY <2>3 DEF GovernorUp, Unreachable, Skip, Begin, ArchiveLog
  <2>4. CASE Reachable \/ WorkOver \/ Disconnect \/ MediaSync
    BY <2>4 DEF Reachable, WorkOver, Disconnect, MediaSync
  <2>5. CASE Connect
    <3>1. step = "connect" /\ step' \in {"restore", "space", "connect"}
      BY <2>5 DEF Connect
    <3> QED BY <2>5, <3>1 DEF Connect
  <2>6. CASE Work
    <3>1. step = "session" /\ step' \in {"session", "log", "return"}
      BY <2>6 DEF Work
    <3> QED BY <2>6, <3>1 DEF Work
  <2>7. CASE GovernorBack
    <3>1. governor' = "archiving" => "governor" \in slack'
      BY <2>7 DEF GovernorBack, GivenBack
    <3>2. slack' \in {slack \cup {"governor"}, slack \ {"governor"}}
      BY <2>7 DEF GovernorBack, GivenBack
    <3>3. "snapshot" \in slack => "snapshot" \in slack'
      BY <3>2
    <3>4. "wake" \in slack => "wake" \in slack'
      BY <3>2
    <3> QED BY <2>7, <3>1, <3>3, <3>4 DEF GovernorBack
  <2>8. CASE WakeStop
    <3>1. told' => "wake" \in slack'
      BY <2>8 DEF WakeStop, GivenBack
    <3>2. slack' \in {slack \cup {"wake"}, slack \ {"wake"}}
      BY <2>8 DEF WakeStop, GivenBack
    <3>3. "governor" \in slack => "governor" \in slack'
      BY <3>2
    <3> QED BY <2>8, <3>1, <3>3 DEF WakeStop
  <2>9. CASE WakeStopped
    BY <2>9 DEF WakeStopped, K!Stopped
  <2>10. CASE UnmountSnapshot
    <3>1. mounted' => "snapshot" \in slack'
      BY <2>10 DEF UnmountSnapshot, GivenBack
    <3>2. slack' \in {slack \cup {"snapshot"}, slack \ {"snapshot"}}
      BY <2>10 DEF UnmountSnapshot, GivenBack
    <3>3. "governor" \in slack => "governor" \in slack'
      BY <3>2
    <3>4. "wake" \in slack => "wake" \in slack'
      BY <3>2
    <3> QED BY <2>10, <3>1, <3>3, <3>4 DEF UnmountSnapshot
  <2>11. CASE Media
    <3>1. step = "media" /\ step' \in {"idle", "media"}
      BY <2>11 DEF Media
    <3> QED BY <2>11, <3>1 DEF Media
  <2>12. CASE Start
    <3>1. mounted' => mounted
      BY <2>12 DEF Start
    <3>2. governor' = "archiving" => governor = "archiving"
      BY <2>12 DEF Start
    <3>3. told' = told
      BY <2>12 DEF Start
    <3>4. step = "down" /\ step' = "idle"
      BY <2>12 DEF Start
    <3>5. \A r \in slack : Holds(r)' => r \in slack'
      BY <2>12 DEF Start
    <3> QED BY <3>1, <3>2, <3>3, <3>4, <3>5
  <2>13. CASE Die
    BY <2>13 DEF Die, K!Gone
  <2>14. CASE Cancel \/ Car
    BY <2>14 DEF Cancel, Car
  <2>15. CASE LoopRuns
    BY <2>15 DEF LoopRuns, K!Nudged, K!Ticks, K!LoopReturns
  <2>16. CASE UNCHANGED cycleVars
    BY <2>16 DEF cycleVars
  <2> QED
    BY <2>1, <2>2, <2>3, <2>4, <2>5, <2>6, <2>7, <2>8, <2>9, <2>10, <2>11, <2>12,
       <2>13, <2>14, <2>15, <2>16 DEF CycleNext, RunArchive
<1> QED BY <1>1, <1>2, PTL DEF CycleSpec

(* Between cycles nothing of a cycle is held but what a failed statement or *)
(* a death left, for every bound and every fault.                           *)
THEOREM GivesBack == CycleSpec => []NothingHeld
<1>1. LinkInv /\ AwakeInv /\ SlackInv => NothingHeld
  <2> SUFFICES ASSUME LinkInv, AwakeInv, SlackInv, step = "idle"
               PROVE  /\ K!Quiet /\ link = "idle" /\ pc = "idle"
                      /\ \A r \in Held : Holds(r) => r \in slack
    BY DEF NothingHeld
  <2>1. link = "idle" /\ pc = "idle"
    BY DEF LinkInv, Apart
  <2>2. K!Quiet
    BY DEF AwakeInv, Awake, K!Quiet
  <2>3. \A r \in Held : Holds(r) => r \in slack
    BY DEF SlackInv, Between, Awake, Holds, Held
  <2> QED BY <2>1, <2>2, <2>3
<1> QED BY <1>1, Linking, KeepingAwake, Slackening, PTL

(* What ArchiveSession promises holds of the sessions that a cycle runs     *)
(* between its mounts, its keep-awake and its clean-up: every path marked   *)
(* for a completed session is on the server, no more paths are marked and   *)
(* missing than there are sessions that did not complete, a session that is *)
(* "running" is in flight or was cut off, and nothing is sent twice.        *)
THEOREM CycleDelivers ==
    CycleSpec => /\ [](CompletedSessionDelivers /\ LossBounded /\ RunningMeansInFlight)
                 /\ SentOnce
BY RefinesParts, CompletedDelivers, LossIsBounded, RunningIsInFlight, SentOnlyOnce, PTL
   DEF ImplementsParts

-----------------------------------------------------------------------------
(* Every variable of the cycle keeps its type: those of the parts because   *)
(* the cycle implements them.                                               *)
LEMMA KeeperTypes == CycleSpec => []K!TypeOK
<1> USE DEF K!TypeOK, K!LoopSteps
<1>1. CycleInit => K!TypeOK
  BY DEF CycleInit, K!Init
<1>2. K!TypeOK /\ [CycleNext]_cycleVars => K!TypeOK'
  <2> SUFFICES ASSUME K!TypeOK, [CycleNext]_cycleVars PROVE K!TypeOK'
    OBVIOUS
  <2>1. CASE WakeStart
    BY <2>1 DEF WakeStart, K!Start, K!Post
  <2>2. CASE WakeStop
    BY <2>2 DEF WakeStop, K!Stop, K!Post
  <2>3. CASE WakeStopped
    BY <2>3 DEF WakeStopped, K!Stopped
  <2>4. CASE Die
    BY <2>4 DEF Die, K!Gone
  <2>5. CASE LoopRuns
    BY <2>5 DEF LoopRuns, K!Nudged, K!Ticks, K!LoopReturns
  <2>6. ASSUME UNCHANGED wake PROVE K!TypeOK'
    BY <2>6 DEF wake
  <2>7. ASSUME CycleNext, ~WakeStart, ~WakeStop, ~WakeStopped, ~Die, ~LoopRuns
        PROVE  UNCHANGED wake
    BY <2>7 DEF CycleNext, RunArchive, MountSnapshot, MountFails, GovernorUp,
                Unreachable, Reachable, Connect, Skip, Begin, Work, ArchiveLog,
                WorkOver, Disconnect, GovernorBack, UnmountSnapshot, MediaSync,
                Media, Start, Cancel, Car
  <2> QED BY <2>1, <2>2, <2>3, <2>4, <2>5, <2>6, <2>7 DEF cycleVars
<1> QED BY <1>1, <1>2, PTL DEF CycleSpec

SystemTypeOK ==
    /\ step \in CycleSteps /\ mounted \in BOOLEAN
    /\ governor \in Governors /\ slack \subseteq Held

LEMMA SystemTypes == CycleSpec => []SystemTypeOK
<1> USE DEF SystemTypeOK, CycleSteps, Governors, At, Goto
<1>1. CycleInit => SystemTypeOK
  BY DEF CycleInit
<1>2. SystemTypeOK /\ [CycleNext]_cycleVars => SystemTypeOK'
  <2> SUFFICES ASSUME SystemTypeOK, [CycleNext]_cycleVars PROVE SystemTypeOK'
    OBVIOUS
  <2> USE DEF system
  <2>1. CASE MountSnapshot \/ MountFails \/ GovernorUp
    BY <2>1 DEF MountSnapshot, MountFails, GovernorUp
  <2>2. CASE WakeStart \/ Unreachable \/ Reachable \/ Skip \/ Begin \/ ArchiveLog
             \/ WorkOver \/ Disconnect \/ WakeStopped \/ MediaSync \/ Cancel
             \/ LoopRuns \/ Car
    BY <2>2 DEF WakeStart, Unreachable, Reachable, Skip, Begin, ArchiveLog, WorkOver,
                Disconnect, WakeStopped, MediaSync, Cancel, LoopRuns, Car
  <2>3. CASE Connect
    <3>1. step' \in {"restore", "space", "connect"}
      BY <2>3 DEF Connect
    <3> QED BY <2>3, <3>1 DEF Connect
  <2>4. CASE Work
    <3>1. step' \in {"session", "log", "return"}
      BY <2>4 DEF Work
    <3> QED BY <2>4, <3>1 DEF Work
  <2>5. CASE GovernorBack \/ WakeStop \/ UnmountSnapshot
    <3>1. slack' \subseteq Held
      BY <2>5 DEF GovernorBack, WakeStop, UnmountSnapshot, GivenBack, Held
    <3>2. governor' \in Governors /\ mounted' \in BOOLEAN /\ step' \in CycleSteps
      BY <2>5 DEF GovernorBack, WakeStop, UnmountSnapshot
    <3> QED BY <3>1, <3>2
  <2>6. CASE Media
    <3>1. step' \in {"idle", "media"}
      BY <2>6 DEF Media
    <3> QED BY <2>6, <3>1 DEF Media
  <2>7. CASE Start
    BY <2>7 DEF Start
  <2>8. CASE Die
    BY <2>8 DEF Die
  <2>9. CASE UNCHANGED cycleVars
    BY <2>9 DEF cycleVars
  <2> QED
    BY <2>1, <2>2, <2>3, <2>4, <2>5, <2>6, <2>7, <2>8, <2>9 DEF CycleNext, RunArchive
<1> QED BY <1>1, <1>2, PTL DEF CycleSpec

THEOREM CycleTypeCorrect == CycleSpec => []CycleTypeOK
<1>0. HP!ShareAssumption
  BY CycleAssumption DEF HP!ShareAssumption, HP!Folders
<1>1. HP!TypeOK => H!TypeOK
  BY DEF HP!TypeOK, H!TypeOK, HP!Backends, H!Backends, HP!Steps, H!Steps,
         HP!Folders, H!Folders
<1>2. HP!Spec => []HP!TypeOK
  BY <1>0, HP!TypeCorrect
<1>3. TypeOK /\ H!TypeOK /\ K!TypeOK /\ SystemTypeOK => CycleTypeOK
  BY DEF SystemTypeOK, CycleTypeOK
<1> QED
  BY <1>1, <1>2, <1>3, TypeCorrect, SameShare, RefinesParts, KeeperTypes, SystemTypes, PTL
  DEF ImplementsParts

-----------------------------------------------------------------------------
(* How many statements a cycle has left: what its session has still to do,  *)
(* and what runArchive or runMediaSync does before and after it.            *)
MediaLeft ==
    CASE link = "connect"              -> Cardinality(Enabled) + 4
      [] link = "mount"                -> Cardinality(Enabled) + 3
      [] link \in {"archive", "media"} -> Cardinality(folders) + 2
      [] link = "umount"               -> 1
      [] OTHER                         -> 0

StatementsLeft ==
    LET all == 2 * Cardinality(Entries) + 2
    IN  CASE step = "wake"       -> all + 13
          [] step = "governor"   -> all + 12
          [] step = "reach"      -> all + 11
          [] step = "connect"    -> IF link = "mount" THEN all + 9 ELSE all + 10
          [] step = "space"      -> all + 8
          [] step = "session"    -> SessionLeft + 7
          [] step = "log"        -> 7
          [] step = "return"     -> 6
          [] step = "disconnect" -> 5
          [] step = "restore"    -> 4
          [] step = "stop"       -> 3
          [] step = "stopping"   -> 2
          [] step = "unmount"    -> 1
          [] step = "media"      -> MediaLeft
          [] OTHER               -> 0

(* Where the steps of a connection and of a session stand in the cycle.     *)
AdvanceInv ==
    /\ step = "connect" => link \in {"connect", "mount"} /\ folders = {}
    /\ step = "media" => link # "idle"
    /\ step = "session" => pc # "idle"
    /\ pc = "copy" => cur \in todo
    /\ folders \subseteq Enabled

LEMMA Enabling == IsFiniteSet(Enabled)
<1>1. IsFiniteSet({"Music"} \cup {"LightShow"} \cup {"Boombox"})
  BY FS_Singleton, FS_AddElement
<1>2. Enabled \in SUBSET ({"Music"} \cup {"LightShow"} \cup {"Boombox"})
  BY CycleAssumption
<1> QED BY <1>1, <1>2, FS_Subset

LEMMA Advancing == CycleSpec => []AdvanceInv
<1> USE DEF AdvanceInv, At, Goto
<1>1. CycleInit => AdvanceInv
  BY DEF CycleInit, Init, H!Init
<1>2. LinkInv /\ AdvanceInv /\ [CycleNext]_cycleVars => AdvanceInv'
  <2> SUFFICES ASSUME LinkInv, AdvanceInv, [CycleNext]_cycleVars PROVE AdvanceInv'
    OBVIOUS
  <2> USE DEF session, share, H!share, H!creds, H!copies, LinkInv, Apart, Connected
  <2>0. Connecting =>
          /\ link' \in {"idle", "connect", "mount", "archive", "media"}
          /\ folders' \in {folders, {}}
          /\ link' = "media" => folders # {}
    BY DEF Connecting, H!ConnectRemote, H!CreateTemp, H!CreateTempFails, H!MkdirAll,
           H!MountFails, H!MountShare, H!Connected, H!NotConnected
  <2>1. CASE MountSnapshot \/ MountFails \/ WakeStart \/ GovernorUp \/ Unreachable
             \/ Skip \/ GovernorBack \/ WakeStop \/ WakeStopped \/ UnmountSnapshot
             \/ Start
    BY <2>1 DEF MountSnapshot, MountFails, WakeStart, GovernorUp, Unreachable, Skip,
                GovernorBack, WakeStop, WakeStopped, UnmountSnapshot, Start
  <2>2. CASE Reachable
    BY <2>2 DEF Reachable, H!IsReachable
  <2>3. CASE Connect
    BY <2>0, <2>3 DEF Connect
  <2>4. CASE Begin
    BY <2>4 DEF Begin, CreateSession
  <2>5. CASE Work
    <3>1. pc' = "copy" => cur' \in todo'
      BY <2>5 DEF Work, Session, Scan, Copied, CopyFailed, Complete, Progress, Return
    <3>2. folders' = folders
      BY <2>5 DEF Work, H!ArchiveFiles
    <3>3. step' \in {"session", "log", "return"} /\ (step' = "session" => pc' # "idle")
      BY <2>5 DEF Work
    <3> QED BY <3>1, <3>2, <3>3
  <2>6. CASE ArchiveLog
    BY <2>6 DEF ArchiveLog, H!ArchiveFiles
  <2>7. CASE WorkOver \/ Disconnect
    BY <2>7 DEF WorkOver, Disconnect, H!Return, H!Disconnect
  <2>8. CASE MediaSync
    BY <2>8 DEF MediaSync, H!IsReachable
  <2>9. CASE Media
    <3>1. step = "media" /\ step' \in {"idle", "media"}
      BY <2>9 DEF Media
    <3>2. step' = "media" => link' # "idle"
      BY <2>9 DEF Media
    <3>3. folders' \subseteq Enabled
      BY <2>0, <2>9 DEF Media, H!SyncMedia, H!Return, H!Disconnect
    <3> QED BY <2>9, <3>1, <3>2, <3>3 DEF Media
  <2>10. CASE Die
    BY <2>10 DEF Die, H!Die, Crash, Return
  <2>11. CASE Cancel
    BY <2>11 DEF Cancel, H!Cancel
  <2>12. CASE LoopRuns \/ Car
    BY <2>12 DEF LoopRuns, Car, CarWrites, local
  <2>13. CASE UNCHANGED cycleVars
    BY <2>13 DEF cycleVars
  <2> QED
    BY <2>1, <2>2, <2>3, <2>4, <2>5, <2>6, <2>7, <2>8, <2>9, <2>10, <2>11, <2>12,
       <2>13 DEF CycleNext, RunArchive
<1> QED BY <1>1, <1>2, Linking, PTL DEF CycleSpec

(* The counts are numbers.                                                  *)
LEMMA CycleCounts ==
    ASSUME IsFiniteSet(Entries), TypeOK, AdvanceInv
    PROVE  /\ Cardinality(Entries) \in Nat /\ Cardinality(Enabled) \in Nat
           /\ IsFiniteSet(folders) /\ Cardinality(folders) \in 0 .. Cardinality(Enabled)
           /\ SessionLeft \in 0 .. 2 * Cardinality(Entries) + 2
           /\ MediaLeft \in 0 .. Cardinality(Enabled) + 4
           /\ StatementsLeft \in Nat
<1>1. folders \in SUBSET Enabled
  BY DEF AdvanceInv
<1>2. /\ IsFiniteSet(folders) /\ Cardinality(folders) <= Cardinality(Enabled)
      /\ Cardinality(folders) \in Nat /\ Cardinality(Enabled) \in Nat
  BY <1>1, Enabling, FS_Subset, FS_CardinalityType
<1>3. /\ Cardinality(Entries) \in Nat
      /\ SessionLeft \in 0 .. 2 * Cardinality(Entries) + 2
  BY SessionCounts
<1>4. MediaLeft \in 0 .. Cardinality(Enabled) + 4
  BY <1>2 DEF MediaLeft
<1>5. StatementsLeft \in Nat
  BY <1>3, <1>4 DEF StatementsLeft
<1> QED BY <1>2, <1>3, <1>4, <1>5

(* A step of a connection that media sync makes.                            *)
LEMMA MediaShrinks ==
    ASSUME AdvanceInv, AdvanceInv', IsFiniteSet(folders),
           Cardinality(folders) \in 0 .. Cardinality(Enabled),
           Cardinality(folders') \in 0 .. Cardinality(Enabled),
           Cardinality(Enabled) \in Nat,
           \/ Connecting \/ H!Return \/ H!Disconnect
           \/ \E folder \in Enabled : H!SyncMedia(folder)
    PROVE  MediaLeft' < MediaLeft
<1> DEFINE n == Cardinality(folders)
           m == Cardinality(folders')
           e == Cardinality(Enabled)
<1>1. CASE Connecting
  <2>1. /\ link \in {"connect", "mount"}
        /\ link' \in {"idle", "mount", "archive", "media"}
        /\ link = "mount" => link' # "mount"
    BY <1>1 DEF Connecting, H!ConnectRemote, H!CreateTemp, H!CreateTempFails, H!MkdirAll,
                H!MountFails, H!MountShare, H!Connected, H!NotConnected
  <2>2. MediaLeft = IF link = "connect" THEN e + 4 ELSE e + 3
    BY <2>1 DEF MediaLeft
  <2>3. MediaLeft' = CASE link' = "mount"                -> e + 3
                       [] link' \in {"archive", "media"} -> m + 2
                       [] OTHER                          -> 0
    BY <2>1 DEF MediaLeft
  <2> HIDE DEF m, e
  <2> QED BY <2>1, <2>2, <2>3 DEF m, e
<1>2. CASE H!Return
  <2>1. link \in {"archive", "media"} /\ link' = "umount"
    BY <1>2 DEF H!Return
  <2> QED BY <2>1 DEF MediaLeft
<1>3. CASE H!Disconnect
  BY <1>3 DEF H!Disconnect, MediaLeft
<1>4. CASE \E folder \in Enabled : H!SyncMedia(folder)
  <2> PICK folder \in Enabled : H!SyncMedia(folder)
    BY <1>4
  <2>1. link = "media" /\ link' = "media" /\ folder \in folders /\ folders' = folders \ {folder}
    BY DEF H!SyncMedia
  <2>2. m = n - 1
    BY <2>1, FS_RemoveElement
  <2>3. MediaLeft = n + 2 /\ MediaLeft' = m + 2
    BY <2>1 DEF MediaLeft
  <2> HIDE DEF m, n
  <2>4. n \in Int
    BY DEF n
  <2> QED BY <2>2, <2>3, <2>4
<1> QED BY <1>1, <1>2, <1>3, <1>4

(* Every statement of a cycle leaves fewer.                                 *)
LEMMA CycleShrinks ==
    ASSUME IsFiniteSet(Entries), TypeOK, TypeOK', LinkInv, AdvanceInv, AdvanceInv',
           RunArchive \/ Media
    PROVE  StatementsLeft' < StatementsLeft
<1> DEFINE all == 2 * Cardinality(Entries) + 2
<1>0. all \in Nat /\ all >= 2
  BY CycleCounts
<1> HIDE DEF all
<1> USE <1>0 DEF At, Goto
<1>1. CASE WakeStart \/ GovernorUp \/ Skip \/ ArchiveLog \/ WorkOver \/ Disconnect
           \/ GovernorBack \/ WakeStop \/ WakeStopped \/ UnmountSnapshot
  <2>1. \/ step = "wake" /\ step' = "governor"
        \/ step = "governor" /\ step' = "reach"
        \/ step = "space" /\ step' = "return"
        \/ step = "log" /\ step' = "return"
        \/ step = "return" /\ step' = "disconnect"
        \/ step = "disconnect" /\ step' = "restore"
        \/ step = "restore" /\ step' = "stop"
        \/ step = "stop" /\ step' = "stopping"
        \/ step = "stopping" /\ step' = "unmount"
        \/ step = "unmount" /\ step' = "idle"
    BY <1>1 DEF WakeStart, GovernorUp, Skip, ArchiveLog, WorkOver, Disconnect,
                GovernorBack, WakeStop, WakeStopped, UnmountSnapshot
  <2> QED BY <2>1 DEF all, StatementsLeft
<1>2. CASE Unreachable
  BY <1>2 DEF all, StatementsLeft, Unreachable
<1>3. CASE Reachable
  BY <1>3 DEF all, StatementsLeft, Reachable, H!IsReachable
<1>4. CASE Connect
  <2>1. /\ step = "connect" /\ step' \in {"restore", "space", "connect"}
        /\ link \in {"connect", "mount"}
    BY <1>4 DEF Connect, AdvanceInv
  <2>2. step' = "connect" => link = "connect" /\ link' = "mount"
    BY <1>4 DEF Connect, AdvanceInv, Connecting, H!ConnectRemote, H!CreateTemp,
                H!CreateTempFails, H!MkdirAll, H!MountFails, H!MountShare,
                H!Connected, H!NotConnected
  <2> QED BY <2>1, <2>2 DEF all, StatementsLeft
<1>5. CASE Begin
  <2>1. /\ step = "space" /\ step' = "session" /\ pc' = "scan"
    BY <1>5 DEF Begin, CreateSession
  <2> QED BY <2>1 DEF all, StatementsLeft, SessionLeft
<1>6. CASE Work
  <2>1. /\ step = "session" /\ step' \in {"session", "log", "return"}
        /\ Session(Reaches)
    BY <1>6 DEF Work
  <2>2. SessionLeft' < SessionLeft
    BY <2>1, SessionShrinks DEF AdvanceInv, CopyInv
  <2>3. SessionLeft \in Nat /\ SessionLeft' \in Nat
    <3>1. SessionLeft \in Nat
      BY CycleCounts
    <3>2. /\ Cardinality(Entries) \in Nat /\ todo' \in SUBSET Entries
      BY CycleCounts DEF TypeOK
    <3>3. Cardinality(todo') \in Nat
      BY <3>2, FS_Subset, FS_CardinalityType
    <3> QED BY <3>1, <3>2, <3>3 DEF SessionLeft
  <2>4. StatementsLeft = SessionLeft + 7
    BY <2>1 DEF StatementsLeft
  <2>5. StatementsLeft' = CASE step' = "session" -> SessionLeft' + 7
                            [] step' = "log"     -> 7
                            [] OTHER             -> 6
    BY <2>1 DEF StatementsLeft
  <2> QED BY <2>1, <2>2, <2>3, <2>4, <2>5
<1>7. CASE Media
  <2>1. step = "media" /\ step' \in {"idle", "media"}
    BY <1>7 DEF Media
  <2>2. MediaLeft' < MediaLeft
    <3>1. folders' \in SUBSET Enabled
      BY DEF AdvanceInv
    <3>2. Cardinality(folders') \in 0 .. Cardinality(Enabled)
      BY <3>1, CycleCounts, Enabling, FS_Subset, FS_CardinalityType
    <3>3. \/ Connecting \/ H!Return \/ H!Disconnect
          \/ \E folder \in Enabled : H!SyncMedia(folder)
      BY <1>7 DEF Media
    <3> QED BY <3>2, <3>3, CycleCounts, MediaShrinks
  <2>3. step' = "idle" => link' = "idle"
    BY <1>7 DEF Media
  <2>4. StatementsLeft = MediaLeft /\ StatementsLeft' = MediaLeft'
    BY <2>1, <2>3 DEF StatementsLeft, MediaLeft
  <2> QED BY <2>2, <2>4
<1> QED BY <1>1, <1>2, <1>3, <1>4, <1>5, <1>6, <1>7 DEF RunArchive

(* A cycle is over after at most two statements for each entry and fifteen  *)
(* more, and media sync after one for each enabled folder and four more:    *)
(* each statement leaves fewer, whatever fails, and nothing else adds any   *)
(* but the next cycle. That the statements come is what CycleEnds adds      *)
(* (main.go:315-439, 444-540).                                              *)
THEOREM CycleIsBounded ==
    ASSUME IsFiniteSet(Entries)
    PROVE  CycleSpec =>
             /\ [][RunArchive \/ Media => StatementsLeft' < StatementsLeft]_cycleVars
             /\ [][StatementsLeft' > StatementsLeft =>
                      \/ MountSnapshot /\ StatementsLeft' = 2 * Cardinality(Entries) + 15
                      \/ MediaSync /\ StatementsLeft' = Cardinality(Enabled) + 4]_cycleVars
<1> DEFINE Inv == TypeOK /\ LinkInv /\ AdvanceInv
<1>1. CycleSpec => []Inv
  BY RefinesParts, TypeCorrect, Linking, Advancing, PTL DEF ImplementsParts
<1>2. Inv /\ Inv' => (RunArchive \/ Media => StatementsLeft' < StatementsLeft)
  BY CycleShrinks
<1>3. ASSUME Inv, Inv', [CycleNext]_cycleVars, StatementsLeft' > StatementsLeft
      PROVE  \/ MountSnapshot /\ StatementsLeft' = 2 * Cardinality(Entries) + 15
             \/ MediaSync /\ StatementsLeft' = Cardinality(Enabled) + 4
  <2>0. StatementsLeft \in Nat
    BY <1>3, CycleCounts
  <2>1. StatementsLeft' # StatementsLeft
    BY <1>3, <2>0
  <2> USE DEF At, Goto
  <2>2. CASE RunArchive \/ Media
    <3>1. StatementsLeft' < StatementsLeft
      BY <1>2, <1>3, <2>2
    <3>2. StatementsLeft' \in Int
      <4>1. /\ todo' \in SUBSET Entries /\ folders' \in SUBSET Enabled
            /\ Cardinality(Entries) \in Nat /\ Cardinality(Enabled) \in Nat
        BY <1>3, CycleCounts DEF TypeOK, AdvanceInv
      <4>2. Cardinality(todo') \in Nat /\ Cardinality(folders') \in Nat
        BY <4>1, Enabling, FS_Subset, FS_CardinalityType
      <4>3. SessionLeft' \in Int
        BY <4>1, <4>2 DEF SessionLeft
      <4>4. MediaLeft' \in Int
        BY <4>1, <4>2 DEF MediaLeft
      <4> QED BY <4>1, <4>3, <4>4 DEF StatementsLeft
    <3> QED BY <1>3, <2>0, <3>1, <3>2
  <2>3. CASE MountSnapshot
    <3>1. step' = "wake"
      BY <2>3 DEF MountSnapshot
    <3>2. Cardinality(Entries) \in Nat
      BY <1>3, CycleCounts
    <3> QED BY <2>3, <3>1, <3>2 DEF StatementsLeft
  <2>4. CASE MediaSync
    <3>1. step' = "media" /\ link' = "connect"
      BY <2>4 DEF MediaSync, H!IsReachable
    <3> QED BY <2>4, <3>1 DEF StatementsLeft, MediaLeft
  <2>5. CASE MountFails
    BY <2>1, <2>5 DEF MountFails, session, share, StatementsLeft, SessionLeft, MediaLeft
  <2>6. CASE Start
    BY <2>1, <2>6 DEF Start, StatementsLeft
  <2>7. CASE Die
    <3>1. step' = "down"
      BY <2>7 DEF Die
    <3>2. StatementsLeft' = 0
      BY <3>1 DEF StatementsLeft
    <3> QED BY <1>3, <2>0, <3>2
  <2>8. ASSUME UNCHANGED <<step, pc, todo, link, folders>> PROVE FALSE
    BY <2>1, <2>8 DEF StatementsLeft, SessionLeft, MediaLeft
  <2>9. CASE Cancel \/ LoopRuns \/ Car \/ UNCHANGED cycleVars
    BY <2>8, <2>9 DEF Cancel, H!Cancel, LoopRuns, Car, CarWrites, local, session, share,
                      cycleVars
  <2> QED BY <1>3, <2>2, <2>3, <2>4, <2>5, <2>6, <2>7, <2>9 DEF CycleNext
<1> QED BY <1>1, <1>2, <1>3, PTL DEF CycleSpec
=============================================================================
