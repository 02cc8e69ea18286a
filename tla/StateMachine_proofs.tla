------------------------ MODULE StateMachine_proofs ------------------------
(***************************************************************************)
(* The safety of StateMachine for every set of partitions, zram devices and *)
(* faults. Each theorem proves one part of the inductive invariant and, at   *)
(* its end, the property of StateMachine that follows from it.              *)
(***************************************************************************)
EXTENDS StateMachine, FiniteSetTheorems, TLAPS

-----------------------------------------------------------------------------
(* The inductive invariant, in parts.                                       *)

(* Each state's handler has its own steps.                                  *)
Coherent ==
    /\ state \in {"gadget_up", "reconnect"} => pc = "run"
    /\ state = "booting" =>
           pc \in {"down", "run", "boot_dm", "configure", "add_luns", "activate"}
    /\ state = "waiting_for_wifi" => pc \in {"run", "wifi", "pause"}
    /\ state = "pre_archive" => pc \in {"run", "idle", "delay"}
    /\ state = "snapshot" =>
           pc \in {"run", "stale_dm", "hot_add", "cow_size", "dm_origin",
                   "dm_snap", "release_dm", "release_zram", "reactivate"}
    /\ state = "fsck" => pc \in {"run", "fsck"}
    /\ state = "archiving" => pc \in {"run", "copy", "unmount_snap"}
    /\ state = "media_sync" => pc \in {"run", "media", "media_copy", "media_unmount"}
    /\ state = "cleanup" => pc \in {"run", "release_mnt", "release_dm", "release_zram"}

(* The steps between a successful Deactivate and the next Activate.         *)
Offline ==
    \/ state = "snapshot" /\ pc # "run"
    \/ state \in {"fsck", "reconnect"}
    \/ state = "media_sync" /\ pc # "run"

(* There the drive is gone, and elsewhere only because an Activate failed.  *)
DriveInv ==
    /\ Offline => ~bound
    /\ ~bound => actFailed \/ state = "booting" \/ Offline

(* LUNs are added to a gadget Configure has just unbound.                   *)
BuildInv == pc = "add_luns" => ~bound

(* What was written below the snapshot goes with it.                       *)
TornInv == cow = NoZram => torn = {}

(* Until the drive is back the snapshot shows the partition as it was, but  *)
(* for what fsck repaired: ArchivesFrozenImage holds until the reconnect.   *)
FrozenUntilReconnect == state \in {"fsck", "reconnect"} => torn \subseteq {"fsck"}

(* A media partition in use was left so, or is the one being synced.        *)
MediaInv ==
    \A p \in Media : InUse(p) =>
        p \in orphans \/ (p = cur /\ pc \in {"media_copy", "media_unmount"})

(* What the kernel keeps alive, and what the handle stands for on the way   *)
(* from Create to Release.                                                  *)
SnapInv ==
    /\ InUse(Cam) => cow # NoZram
    /\ cow # NoZram => origin
    /\ snap => state \in {"fsck", "reconnect", "archiving", "media_sync", "cleanup"}
    /\ state \in {"fsck", "reconnect", "archiving", "media_sync"} => snap
    /\ state = "cleanup" /\ pc # "run" => snap
    /\ snap /\ pc \notin {"release_dm", "release_zram"} => cow = szram /\ szram \in zram
    /\ pc \in {"cow_size", "dm_origin", "dm_snap"} => szram \in zram
    /\ pc = "dm_snap" => origin
    /\ pc = "copy" => Cam \in mnt

(* No Snapshot is being built, held or released.                            *)
Idle ==
    \/ state \in {"booting", "gadget_up", "waiting_for_wifi", "pre_archive"}
    \/ state = "snapshot" /\ pc \in {"run", "stale_dm", "hot_add", "reactivate"}
    \/ state = "cleanup" /\ ~snap

(* Then it has no zram device; and while all releases worked, what it has   *)
(* is all there is.                                                         *)
CleanInv ==
    /\ Idle => szram = NoZram
    /\ clean => zram \subseteq {szram}
    /\ clean /\ (Idle \/ state = "snapshot" \/ pc = "release_zram") => cow = NoZram
    /\ clean /\ (Idle \/ pc = "release_zram") => ~origin

-----------------------------------------------------------------------------
(* Every variable keeps its type.                                           *)
THEOREM TypeCorrect == Spec => []TypeOK
<1>1. Init => TypeOK
  BY DEF Init, TypeOK, States, Steps
<1>2. TypeOK /\ [Next]_vars => TypeOK'
  <2> SUFFICES ASSUME TypeOK, [Next]_vars PROVE TypeOK'
    OBVIOUS
  <2> USE PartitionsAssumption, ZramAssumption
      DEF TypeOK, Goto, At, Enter, ctx, mem, sync, usb, dm, fs, devices,
          States, Steps
  <2>1. CASE Boot
    <3>1. CASE BootUnmount
      BY <3>1 DEF BootUnmount, Unmount
    <3>2. CASE BootCleanup
      <4>1. cow' \in Zram \cup {NoZram} /\ origin' \in BOOLEAN /\ torn' \subseteq {"car", "fsck"}
        BY <3>2 DEF BootCleanup, RemoveDm
      <4> QED BY <3>2, <4>1 DEF BootCleanup, RemoveDm
    <3>3. CASE BootAddLUNs
      BY <3>3 DEF BootAddLUNs
    <3>4. CASE \E ok \in BOOLEAN : BootConfigure(ok)
      <4> PICK ok \in BOOLEAN : BootConfigure(ok) BY <3>4
      <4>1. bound' \in BOOLEAN /\ luns' \subseteq Partitions
        BY DEF BootConfigure, TearDown
      <4>2. state' \in States /\ pc' \in Steps
        BY DEF BootConfigure
      <4> QED BY <4>1, <4>2 DEF BootConfigure
    <3>5. CASE \E ok \in BOOLEAN : BootActivate(ok)
      BY <3>5 DEF BootActivate, Activate
    <3> QED BY <2>1, <3>1, <3>2, <3>3, <3>4, <3>5 DEF Boot
  <2>2. CASE Waiting
    <3>1. state' \in States /\ pc' \in Steps
      BY <2>2 DEF Waiting, GadgetUp, WaitForWifi, WifiConnected, WaitForIdle,
                  IdleReturned, DelayOver
    <3>2. UNCHANGED <<ctx, mem, sync, devices>>
      BY <2>2 DEF Waiting, GadgetUp, WaitForWifi, WifiConnected, WaitForIdle,
                  IdleReturned, DelayOver
    <3> QED BY <3>1, <3>2
  <2>3. CASE Snapshotting
    <3>1. CASE CreateCleanup
      <4>1. cow' \in Zram \cup {NoZram} /\ origin' \in BOOLEAN /\ torn' \subseteq {"car", "fsck"}
        BY <3>1 DEF CreateCleanup, RemoveDm
      <4> QED BY <3>1, <4>1 DEF CreateCleanup, RemoveDm
    <3>2. CASE CreateFails
      BY <3>2 DEF CreateFails
    <3>3. CASE HotAdd
      BY <3>3 DEF HotAdd
    <3>4. CASE SizeCow
      BY <3>4 DEF SizeCow
    <3>5. CASE CreateOrigin
      BY <3>5 DEF CreateOrigin
    <3>6. CASE CreateSnapshot
      BY <3>6 DEF CreateSnapshot
    <3>7. CASE \E ok \in BOOLEAN : SnapshotDeactivate(ok)
      BY <3>7 DEF SnapshotDeactivate, Deactivate
    <3>8. CASE \E ok \in BOOLEAN : SnapshotReactivate(ok)
      BY <3>8 DEF SnapshotReactivate, Activate
    <3> QED BY <2>3, <3>1, <3>2, <3>3, <3>4, <3>5, <3>6, <3>7, <3>8 DEF Snapshotting
  <2>4. CASE Releasing
    <3>1. CASE Cleanup
      BY <3>1 DEF Cleanup
    <3>2. CASE ReleaseUmount
      BY <3>2 DEF ReleaseUmount, Unmount
    <3>3. CASE ReleaseDm
      <4>1. clean' \in BOOLEAN
        BY <3>3, Zenon DEF ReleaseDm
      <4>2. cow' \in Zram \cup {NoZram} /\ origin' \in BOOLEAN /\ torn' \subseteq {"car", "fsck"}
        BY <3>3 DEF ReleaseDm, RemoveDm
      <4> QED BY <3>3, <4>1, <4>2 DEF ReleaseDm, RemoveDm
    <3>4. CASE ReleaseZram
      <4>1. clean' \in BOOLEAN
        BY <3>4, Zenon DEF ReleaseZram
      <4>2. zram' \subseteq Zram
        BY <3>4 DEF ReleaseZram
      <4>3. state' \in States /\ pc' \in Steps
        BY <3>4 DEF ReleaseZram
      <4>4. UNCHANGED <<ctx, gad, sync, usb, origin, cow, torn, fs>> /\ szram' = NoZram /\ snap' \in BOOLEAN
        BY <3>4, Zenon DEF TypeOK, ReleaseZram
      <4> QED BY <4>1, <4>2, <4>3, <4>4
    <3>5. CASE PauseOver
      BY <3>5 DEF PauseOver
    <3> QED BY <2>4, <3>1, <3>2, <3>3, <3>4, <3>5 DEF Releasing
  <2>5. CASE Archiving
    <3>1. CASE FsckStart
      BY <3>1 DEF FsckStart
    <3>2. CASE FsckDone
      BY <3>2 DEF FsckDone, Written
    <3>3. CASE MountSnapshot
      BY <3>3 DEF MountSnapshot, Partitions
    <3>4. CASE ArchiveReturns
      BY <3>4 DEF ArchiveReturns
    <3>5. CASE UnmountSnapshot
      BY <3>5 DEF UnmountSnapshot, Unmount
    <3>6. CASE \E ok \in BOOLEAN : Reconnect(ok)
      BY <3>6 DEF Reconnect, Activate
    <3> QED BY <2>5, <3>1, <3>2, <3>3, <3>4, <3>5, <3>6 DEF Archiving
  <2>6. CASE MediaSyncing
    <3>1. CASE MediaSkip
      BY <3>1 DEF MediaSkip
    <3>2. CASE MediaCopied
      BY <3>2 DEF MediaCopied
    <3>3. CASE MediaUnmount
      BY <3>3 DEF MediaUnmount, Unmount
    <3>4. CASE \E p \in Media : MediaMount(p)
      BY <3>4 DEF MediaMount, Mount, MountFails, Unmount, Partitions
    <3>5. CASE \E ok \in BOOLEAN : MediaDeactivate(ok)
      BY <3>5 DEF MediaDeactivate, Deactivate
    <3>6. CASE \E ok \in BOOLEAN : MediaReactivate(ok)
      BY <3>6 DEF MediaReactivate, Activate
    <3> QED BY <2>6, <3>1, <3>2, <3>3, <3>4, <3>5, <3>6 DEF MediaSyncing
  <2>7. CASE Environment
    <3>1. CASE Cancel
      BY <3>1 DEF Cancel
    <3>2. CASE Crash
      BY <3>2 DEF Crash, Die
    <3>3. CASE PowerLoss
      BY <3>3 DEF PowerLoss, Partitions
    <3>4. CASE CarWrites
      <4>1. torn' \subseteq {"car", "fsck"}
        BY <3>4 DEF CarWrites, Written
      <4> QED BY <3>4, <4>1 DEF CarWrites
    <3>5. CASE Move
      BY <3>5 DEF Move
    <3>6. CASE \E p \in Partitions : Drain(p)
      BY <3>6 DEF Drain
    <3> QED BY <2>7, <3>1, <3>2, <3>3, <3>4, <3>5, <3>6 DEF Environment
  <2>8. CASE Start
    BY <2>8 DEF Start
  <2>9. CASE Shutdown
    BY <2>9 DEF Shutdown, Die, Deactivate
  <2>10. CASE ShutdownInWait
    BY <2>10 DEF ShutdownInWait, Die
  <2>11. CASE UNCHANGED vars
    BY <2>11 DEF vars
  <2> QED
    BY <2>1, <2>2, <2>3, <2>4, <2>5, <2>6,
       <2>7, <2>8, <2>9, <2>10, <2>11 DEF Next, Handlers
<1> QED BY <1>1, <1>2, PTL DEF Spec

(* Where the drive is gone and why.                                         *)
LEMMA DriveInvariant == Spec => [](TypeOK /\ Coherent /\ DriveInv)
<1>1. Init => Coherent /\ DriveInv
  BY DEF Init, Coherent, DriveInv, Offline
<1>2. TypeOK /\ Coherent /\ DriveInv /\ [Next]_vars => Coherent' /\ DriveInv'
  <2> SUFFICES ASSUME TypeOK, Coherent, DriveInv, [Next]_vars
               PROVE  Coherent' /\ DriveInv'
    OBVIOUS
  <2>a. state \in States /\ bound \in BOOLEAN /\ actFailed \in BOOLEAN
    BY DEF TypeOK
  <2> USE <2>a DEF States, Coherent, DriveInv, Offline, Goto, At, Enter, ctx, mem, sync, usb,
             dm, fs, devices
  <2>1. CASE Boot
    <3>1. CASE BootUnmount
      BY <3>1 DEF BootUnmount, Unmount
    <3>2. CASE BootCleanup
      BY <3>2 DEF BootCleanup, RemoveDm
    <3>3. CASE BootAddLUNs
      BY <3>3 DEF BootAddLUNs
    <3>4. CASE \E ok \in BOOLEAN : BootConfigure(ok)
      BY <3>4 DEF BootConfigure, TearDown
    <3>5. CASE \E ok \in BOOLEAN : BootActivate(ok)
      BY <3>5 DEF BootActivate, Activate
    <3> QED BY <2>1, <3>1, <3>2, <3>3, <3>4, <3>5 DEF Boot
  <2>2. CASE Waiting
    BY <2>2 DEF Waiting, GadgetUp, WaitForWifi, WifiConnected, WaitForIdle,
                IdleReturned, DelayOver
  <2>3. CASE Snapshotting
    <3>1. CASE CreateCleanup
      BY <3>1 DEF CreateCleanup, RemoveDm
    <3>2. CASE CreateFails
      BY <3>2 DEF CreateFails
    <3>3. CASE HotAdd
      BY <3>3 DEF HotAdd
    <3>4. CASE SizeCow
      BY <3>4 DEF SizeCow
    <3>5. CASE CreateOrigin
      BY <3>5 DEF CreateOrigin
    <3>6. CASE CreateSnapshot
      BY <3>6 DEF CreateSnapshot
    <3>7. CASE \E ok \in BOOLEAN : SnapshotDeactivate(ok)
      <4>1. CASE SnapshotDeactivate(TRUE)
        BY <4>1 DEF SnapshotDeactivate, Deactivate
      <4>2. CASE SnapshotDeactivate(FALSE)
        BY <4>2 DEF SnapshotDeactivate, Deactivate
      <4> QED BY <3>7, <4>1, <4>2
    <3>8. CASE \E ok \in BOOLEAN : SnapshotReactivate(ok)
      BY <3>8 DEF SnapshotReactivate, Activate
    <3> QED BY <2>3, <3>1, <3>2, <3>3, <3>4, <3>5, <3>6, <3>7, <3>8 DEF Snapshotting
  <2>4. CASE Releasing
    <3>1. CASE Cleanup
      BY <3>1 DEF Cleanup
    <3>2. CASE ReleaseUmount
      BY <3>2 DEF ReleaseUmount, Unmount
    <3>3. CASE ReleaseDm
      BY <3>3 DEF ReleaseDm, RemoveDm
    <3>4. CASE ReleaseZram
      BY <3>4 DEF ReleaseZram
    <3>5. CASE PauseOver
      BY <3>5 DEF PauseOver
    <3> QED BY <2>4, <3>1, <3>2, <3>3, <3>4, <3>5 DEF Releasing
  <2>5. CASE Archiving
    <3>1. CASE FsckStart
      BY <3>1 DEF FsckStart
    <3>2. CASE FsckDone
      BY <3>2 DEF FsckDone, Written
    <3>3. CASE MountSnapshot
      BY <3>3 DEF MountSnapshot
    <3>4. CASE ArchiveReturns
      BY <3>4 DEF ArchiveReturns
    <3>5. CASE UnmountSnapshot
      BY <3>5 DEF UnmountSnapshot, Unmount
    <3>6. CASE \E ok \in BOOLEAN : Reconnect(ok)
      BY <3>6 DEF Reconnect, Activate
    <3> QED BY <2>5, <3>1, <3>2, <3>3, <3>4, <3>5, <3>6 DEF Archiving
  <2>6. CASE MediaSyncing
    <3>1. CASE MediaSkip
      BY <3>1 DEF MediaSkip
    <3>2. CASE MediaCopied
      BY <3>2 DEF MediaCopied
    <3>3. CASE MediaUnmount
      BY <3>3 DEF MediaUnmount, Unmount
    <3>4. CASE \E p \in Media : MediaMount(p)
      BY <3>4 DEF MediaMount, Mount, MountFails, Unmount
    <3>5. CASE \E ok \in BOOLEAN : MediaDeactivate(ok)
      <4>1. CASE MediaDeactivate(TRUE)
        BY <4>1 DEF MediaDeactivate, Deactivate
      <4>2. CASE MediaDeactivate(FALSE)
        BY <4>2 DEF MediaDeactivate, Deactivate
      <4> QED BY <3>5, <4>1, <4>2
    <3>6. CASE \E ok \in BOOLEAN : MediaReactivate(ok)
      BY <3>6 DEF MediaReactivate, Activate
    <3> QED BY <2>6, <3>1, <3>2, <3>3, <3>4, <3>5, <3>6 DEF MediaSyncing
  <2>7. CASE Environment
    <3>1. CASE Cancel
      BY <3>1 DEF Cancel
    <3>2. CASE Crash
      BY <3>2 DEF Crash, Die
    <3>3. CASE PowerLoss
      BY <3>3 DEF PowerLoss
    <3>4. CASE CarWrites
      BY <3>4 DEF CarWrites, Written
    <3>5. CASE Move
      BY <3>5 DEF Move
    <3>6. CASE \E p \in Partitions : Drain(p)
      BY <3>6 DEF Drain
    <3> QED BY <2>7, <3>1, <3>2, <3>3, <3>4, <3>5, <3>6 DEF Environment
  <2>8. CASE Start
    BY <2>8 DEF Start
  <2>9. CASE Shutdown
    BY <2>9 DEF Shutdown, Die, Deactivate
  <2>10. CASE ShutdownInWait
    BY <2>10 DEF ShutdownInWait, Die
  <2>11. CASE UNCHANGED vars
    BY <2>11 DEF vars
  <2> QED
    BY <2>1, <2>2, <2>3, <2>4, <2>5, <2>6,
       <2>7, <2>8, <2>9, <2>10, <2>11 DEF Next, Handlers
<1> QED BY <1>1, <1>2, TypeCorrect, PTL DEF Spec

(* fsck runs on p5 only while the car cannot write it (main.go:162-174).    *)
THEOREM FsckIsOffline == Spec => []FsckOffline
<1>1. TypeOK /\ Coherent /\ DriveInv => FsckOffline
  BY DEF TypeOK, States, Coherent, DriveInv, Offline, FsckOffline
<1> QED BY <1>1, DriveInvariant, PTL

(* When the loop waits without the drive, the last Activate failed: every   *)
(* path that takes the drive tries to bring it back.                        *)
THEOREM DriveIsBack == Spec => []DriveBackBetweenCycles
<1>1. TypeOK /\ Coherent /\ DriveInv => DriveBackBetweenCycles
  BY DEF DriveInv, Offline, DriveBackBetweenCycles
<1> QED BY <1>1, DriveInvariant, PTL

(* A snapshot is created only while the car cannot write the partition.     *)
THEOREM SnapshotIsTakenOffline == Spec => SnapshotTakenOffline
<1>1. TypeOK /\ Coherent /\ DriveInv /\ [Next]_vars
        => [cow' \notin {cow, NoZram} => ~bound /\ ~bound']_vars
  <2> SUFFICES ASSUME TypeOK, Coherent, DriveInv, [Next]_vars,
                      cow' \notin {cow, NoZram}
               PROVE  ~bound /\ ~bound'
    OBVIOUS
  <2> USE DEF Goto, At, Enter, ctx, mem, sync, usb, dm, fs, devices
  <2>1. CASE Boot
    BY <2>1
    DEF Boot, BootUnmount, Unmount, BootCleanup, RemoveDm,
             BootAddLUNs, BootConfigure, TearDown, BootActivate,
             Activate
  <2>2. CASE Waiting
    BY <2>2
    DEF Waiting, GadgetUp, WaitForWifi, WifiConnected, WaitForIdle,
             IdleReturned, DelayOver
  <2>3. CASE Snapshotting
    BY <2>3
    DEF DriveInv, Offline, Snapshotting, CreateCleanup, RemoveDm, CreateFails, HotAdd,
             SizeCow, CreateOrigin, CreateSnapshot, SnapshotDeactivate,
             Deactivate, SnapshotReactivate, Activate
  <2>4. CASE Releasing
    BY <2>4
    DEF Releasing, Cleanup, ReleaseUmount, Unmount, ReleaseDm,
             RemoveDm, ReleaseZram, PauseOver
  <2>5. CASE Archiving
    BY <2>5
    DEF Archiving, FsckStart, FsckDone, Written, MountSnapshot,
             ArchiveReturns, UnmountSnapshot, Unmount, Reconnect,
             Activate
  <2>6. CASE MediaSyncing
    BY <2>6
    DEF MediaSyncing, MediaSkip, MediaCopied, MediaUnmount,
             Unmount, MediaMount, Mount, MountFails, MediaDeactivate,
             Deactivate, MediaReactivate, Activate
  <2>7. CASE Environment
    BY <2>7
    DEF Environment, Cancel, Crash, Die, PowerLoss, CarWrites,
             Written, Move, Drain
  <2>8. CASE Start
    BY <2>8 DEF Start
  <2>9. CASE Shutdown
    BY <2>9 DEF Shutdown, Die, Deactivate
  <2>10. CASE ShutdownInWait
    BY <2>10 DEF ShutdownInWait, Die
  <2>11. CASE UNCHANGED vars
    BY <2>11 DEF vars
  <2> QED
    BY <2>1, <2>2, <2>3, <2>4, <2>5, <2>6,
       <2>7, <2>8, <2>9, <2>10, <2>11 DEF Next, Handlers
<1> QED BY <1>1, DriveInvariant, PTL DEF Spec, SnapshotTakenOffline

(* A media partition in use on the Pi is an orphan or the one being synced. *)
LEMMA MediaInvariant == Spec => []MediaInv
<1>1. Init => MediaInv
  BY DEF Init, MediaInv, InUse
<1>2. TypeOK /\ Coherent /\ MediaInv /\ [Next]_vars => MediaInv'
  <2> SUFFICES ASSUME TypeOK, Coherent, MediaInv, [Next]_vars,
                      NEW m \in Media, InUse(m)'
               PROVE  m \in orphans' \/ (m = cur' /\ pc' \in {"media_copy", "media_unmount"})
    BY DEF MediaInv
  <2>a. /\ InUse(m) => m \in orphans \/ (m = cur /\ pc \in {"media_copy", "media_unmount"})
        /\ m # Cam /\ state \in States
    BY PartitionsAssumption DEF MediaInv, TypeOK
  <2> USE <2>a DEF InUse, States, Coherent, Goto, At, Enter, ctx, mem, sync, usb, dm, fs, devices
  <2>1. CASE Boot
    <3>1. CASE BootUnmount
      BY <3>1 DEF BootUnmount, Unmount
    <3>2. CASE BootCleanup
      BY <3>2 DEF BootCleanup, RemoveDm
    <3>3. CASE BootAddLUNs
      BY <3>3 DEF BootAddLUNs
    <3>4. CASE \E ok \in BOOLEAN : BootConfigure(ok)
      BY <3>4 DEF BootConfigure, TearDown
    <3>5. CASE \E ok \in BOOLEAN : BootActivate(ok)
      BY <3>5 DEF BootActivate, Activate
    <3> QED BY <2>1, <3>1, <3>2, <3>3, <3>4, <3>5 DEF Boot
  <2>2. CASE Waiting
    BY <2>2 DEF Waiting, GadgetUp, WaitForWifi, WifiConnected, WaitForIdle,
                IdleReturned, DelayOver
  <2>3. CASE Snapshotting
    <3>1. CASE CreateCleanup
      BY <3>1 DEF CreateCleanup, RemoveDm
    <3>2. CASE CreateFails
      BY <3>2 DEF CreateFails
    <3>3. CASE HotAdd
      BY <3>3 DEF HotAdd
    <3>4. CASE SizeCow
      BY <3>4 DEF SizeCow
    <3>5. CASE CreateOrigin
      BY <3>5 DEF CreateOrigin
    <3>6. CASE CreateSnapshot
      BY <3>6 DEF CreateSnapshot
    <3>7. CASE \E ok \in BOOLEAN : SnapshotDeactivate(ok)
      BY <3>7 DEF SnapshotDeactivate, Deactivate
    <3>8. CASE \E ok \in BOOLEAN : SnapshotReactivate(ok)
      BY <3>8 DEF SnapshotReactivate, Activate
    <3> QED BY <2>3, <3>1, <3>2, <3>3, <3>4, <3>5, <3>6, <3>7, <3>8 DEF Snapshotting
  <2>4. CASE Releasing
    <3>1. CASE Cleanup
      BY <3>1 DEF Cleanup
    <3>2. CASE ReleaseUmount
      BY <3>2 DEF ReleaseUmount, Unmount
    <3>3. CASE ReleaseDm
      BY <3>3 DEF ReleaseDm, RemoveDm
    <3>4. CASE ReleaseZram
      BY <3>4 DEF ReleaseZram
    <3>5. CASE PauseOver
      BY <3>5 DEF PauseOver
    <3> QED BY <2>4, <3>1, <3>2, <3>3, <3>4, <3>5 DEF Releasing
  <2>5. CASE Archiving
    <3>1. CASE FsckStart
      BY <3>1 DEF FsckStart
    <3>2. CASE FsckDone
      BY <3>2 DEF FsckDone, Written
    <3>3. CASE MountSnapshot
      BY <3>3 DEF MountSnapshot
    <3>4. CASE ArchiveReturns
      BY <3>4 DEF ArchiveReturns
    <3>5. CASE UnmountSnapshot
      BY <3>5 DEF UnmountSnapshot, Unmount
    <3>6. CASE \E ok \in BOOLEAN : Reconnect(ok)
      BY <3>6 DEF Reconnect, Activate
    <3> QED BY <2>5, <3>1, <3>2, <3>3, <3>4, <3>5, <3>6 DEF Archiving
  <2>6. CASE MediaSyncing
    <3>1. CASE MediaSkip
      BY <3>1 DEF MediaSkip
    <3>2. CASE MediaCopied
      BY <3>2 DEF MediaCopied
    <3>3. CASE MediaUnmount
      BY <3>3 DEF MediaUnmount, Unmount
    <3>4. CASE \E p \in Media : MediaMount(p)
      BY <3>4 DEF MediaMount, Mount, MountFails, Unmount
    <3>5. CASE \E ok \in BOOLEAN : MediaDeactivate(ok)
      BY <3>5 DEF MediaDeactivate, Deactivate
    <3>6. CASE \E ok \in BOOLEAN : MediaReactivate(ok)
      BY <3>6 DEF MediaReactivate, Activate
    <3> QED BY <2>6, <3>1, <3>2, <3>3, <3>4, <3>5, <3>6 DEF MediaSyncing
  <2>7. CASE Environment
    <3>1. CASE Cancel
      BY <3>1 DEF Cancel
    <3>2. CASE Crash
      BY <3>2 DEF Crash, Die
    <3>3. CASE PowerLoss
      BY <3>3 DEF PowerLoss
    <3>4. CASE CarWrites
      BY <3>4 DEF CarWrites, Written
    <3>5. CASE Move
      BY <3>5 DEF Move
    <3>6. CASE \E p \in Partitions : Drain(p)
      BY <3>6 DEF Drain
    <3> QED BY <2>7, <3>1, <3>2, <3>3, <3>4, <3>5, <3>6 DEF Environment
  <2>8. CASE Start
    BY <2>8 DEF Start
  <2>9. CASE Shutdown
    BY <2>9 DEF Shutdown, Die, Deactivate
  <2>10. CASE ShutdownInWait
    BY <2>10 DEF ShutdownInWait, Die
  <2>11. CASE UNCHANGED vars
    BY <2>11 DEF vars
  <2> QED
    BY <2>1, <2>2, <2>3, <2>4, <2>5, <2>6,
       <2>7, <2>8, <2>9, <2>10, <2>11 DEF Next, Handlers
<1> QED BY <1>1, <1>2, TypeCorrect, DriveInvariant, PTL DEF Spec

(* The car and the Pi never share a media partition, unless a failed umount *)
(* or a death of the process left it in use.                                *)
THEOREM MediaIsExclusive == Spec => []MediaExclusive
<1>1. TypeOK /\ Coherent /\ DriveInv /\ MediaInv => MediaExclusive
  BY DEF TypeOK, States, Coherent, DriveInv, Offline, MediaInv, MediaExclusive
<1> QED BY <1>1, DriveInvariant, MediaInvariant, PTL

(* What the snapshot handle of the loop stands for.                         *)
LEMMA SnapInvariant == Spec => []SnapInv
<1>1. Init => SnapInv
  BY DEF Init, SnapInv, InUse
<1>2. TypeOK /\ Coherent /\ SnapInv /\ [Next]_vars => SnapInv'
  <2> SUFFICES ASSUME TypeOK, Coherent, SnapInv, [Next]_vars PROVE SnapInv'
    OBVIOUS
  <2>a. state \in States /\ snap \in BOOLEAN /\ origin \in BOOLEAN /\ Cam \notin Media
        /\ cur \in Media \cup {NoPart} /\ Cam # NoPart
    BY PartitionsAssumption DEF TypeOK, Partitions
  <2> USE <2>a, ZramAssumption
      DEF SnapInv, InUse, States, Coherent, Goto, At, Enter, ctx, mem, sync, usb, dm, fs, devices
  <2>1. CASE Boot
    <3>1. CASE BootUnmount
      BY <3>1 DEF BootUnmount, Unmount
    <3>2. CASE BootCleanup
      BY <3>2 DEF BootCleanup, RemoveDm
    <3>3. CASE BootAddLUNs
      BY <3>3 DEF BootAddLUNs
    <3>4. CASE \E ok \in BOOLEAN : BootConfigure(ok)
      BY <3>4 DEF BootConfigure, TearDown
    <3>5. CASE \E ok \in BOOLEAN : BootActivate(ok)
      BY <3>5 DEF BootActivate, Activate
    <3> QED BY <2>1, <3>1, <3>2, <3>3, <3>4, <3>5 DEF Boot
  <2>2. CASE Waiting
    BY <2>2 DEF Waiting, GadgetUp, WaitForWifi, WifiConnected, WaitForIdle,
                IdleReturned, DelayOver
  <2>3. CASE Snapshotting
    <3>1. CASE CreateCleanup
      BY <3>1 DEF CreateCleanup, RemoveDm
    <3>2. CASE CreateFails
      BY <3>2 DEF CreateFails
    <3>3. CASE HotAdd
      BY <3>3 DEF HotAdd
    <3>4. CASE SizeCow
      BY <3>4 DEF SizeCow
    <3>5. CASE CreateOrigin
      BY <3>5 DEF CreateOrigin
    <3>6. CASE CreateSnapshot
      BY <3>6 DEF CreateSnapshot
    <3>7. CASE \E ok \in BOOLEAN : SnapshotDeactivate(ok)
      BY <3>7 DEF SnapshotDeactivate, Deactivate
    <3>8. CASE \E ok \in BOOLEAN : SnapshotReactivate(ok)
      BY <3>8 DEF SnapshotReactivate, Activate
    <3> QED BY <2>3, <3>1, <3>2, <3>3, <3>4, <3>5, <3>6, <3>7, <3>8 DEF Snapshotting
  <2>4. CASE Releasing
    <3>1. CASE Cleanup
      BY <3>1 DEF Cleanup
    <3>2. CASE ReleaseUmount
      BY <3>2 DEF ReleaseUmount, Unmount
    <3>3. CASE ReleaseDm
      BY <3>3 DEF ReleaseDm, RemoveDm
    <3>4. CASE ReleaseZram
      BY <3>4 DEF ReleaseZram
    <3>5. CASE PauseOver
      BY <3>5 DEF PauseOver
    <3> QED BY <2>4, <3>1, <3>2, <3>3, <3>4, <3>5 DEF Releasing
  <2>5. CASE Archiving
    <3>1. CASE FsckStart
      BY <3>1 DEF FsckStart
    <3>2. CASE FsckDone
      BY <3>2 DEF FsckDone, Written
    <3>3. CASE MountSnapshot
      BY <3>3 DEF MountSnapshot
    <3>4. CASE ArchiveReturns
      BY <3>4 DEF ArchiveReturns
    <3>5. CASE UnmountSnapshot
      BY <3>5 DEF UnmountSnapshot, Unmount
    <3>6. CASE \E ok \in BOOLEAN : Reconnect(ok)
      BY <3>6 DEF Reconnect, Activate
    <3> QED BY <2>5, <3>1, <3>2, <3>3, <3>4, <3>5, <3>6 DEF Archiving
  <2>6. CASE MediaSyncing
    <3>1. CASE MediaSkip
      BY <3>1 DEF MediaSkip
    <3>2. CASE MediaCopied
      BY <3>2 DEF MediaCopied
    <3>3. CASE MediaUnmount
      BY <3>3 DEF MediaUnmount, Unmount
    <3>4. CASE \E p \in Media : MediaMount(p)
      BY <3>4 DEF MediaMount, Mount, MountFails, Unmount
    <3>5. CASE \E ok \in BOOLEAN : MediaDeactivate(ok)
      BY <3>5 DEF MediaDeactivate, Deactivate
    <3>6. CASE \E ok \in BOOLEAN : MediaReactivate(ok)
      BY <3>6 DEF MediaReactivate, Activate
    <3> QED BY <2>6, <3>1, <3>2, <3>3, <3>4, <3>5, <3>6 DEF MediaSyncing
  <2>7. CASE Environment
    <3>1. CASE Cancel
      BY <3>1 DEF Cancel
    <3>2. CASE Crash
      BY <3>2 DEF Crash, Die
    <3>3. CASE PowerLoss
      BY <3>3 DEF PowerLoss
    <3>4. CASE CarWrites
      BY <3>4 DEF CarWrites, Written
    <3>5. CASE Move
      BY <3>5 DEF Move
    <3>6. CASE \E p \in Partitions : Drain(p)
      BY <3>6 DEF Drain
    <3> QED BY <2>7, <3>1, <3>2, <3>3, <3>4, <3>5, <3>6 DEF Environment
  <2>8. CASE Start
    BY <2>8 DEF Start
  <2>9. CASE Shutdown
    BY <2>9 DEF Shutdown, Die, Deactivate
  <2>10. CASE ShutdownInWait
    BY <2>10 DEF ShutdownInWait, Die
  <2>11. CASE UNCHANGED vars
    BY <2>11 DEF vars
  <2> QED
    BY <2>1, <2>2, <2>3, <2>4, <2>5, <2>6,
       <2>7, <2>8, <2>9, <2>10, <2>11 DEF Next, Handlers
<1> QED BY <1>1, <1>2, TypeCorrect, DriveInvariant, PTL DEF Spec

(* While the loop holds a snapshot, the devices behind it are its own and   *)
(* complete, and what is copied from /mnt/snap is this cycle's snapshot.    *)
THEOREM SnapshotIsBacked == Spec => []SnapshotBacksHandle
<1>1. TypeOK /\ Coherent /\ SnapInv => SnapshotBacksHandle
  BY ZramAssumption DEF TypeOK, States, Coherent, SnapInv, SnapshotBacksHandle
<1> QED BY <1>1, DriveInvariant, SnapInvariant, PTL

(* A death that leaves no device and no mount behind keeps clean.           *)
LEMMA DeathLeavesNothing ==
    ASSUME SnapInv, Die, clean'
    PROVE  clean /\ zram' = {} /\ ~origin' /\ cow' = NoZram
<1>1. clean /\ zram = {} /\ ~origin
  BY Zenon DEF Die
<1>2. UNCHANGED <<zram, origin, cow>>
  BY DEF Die, dm
<1> QED BY <1>1, <1>2 DEF SnapInv

(* Whose the devices are while every release worked.                        *)
LEMMA CleanInvariant == Spec => []CleanInv
<1>1. Init => CleanInv
  BY DEF Init, CleanInv, Idle
<1>2. TypeOK /\ Coherent /\ SnapInv /\ CleanInv /\ [Next]_vars => CleanInv'
  <2> SUFFICES ASSUME TypeOK, Coherent, SnapInv, CleanInv, [Next]_vars PROVE CleanInv'
    OBVIOUS
  <2>a. /\ state \in States /\ snap \in BOOLEAN /\ origin \in BOOLEAN
        /\ clean \in BOOLEAN /\ szram \in Zram \cup {NoZram}
        /\ zram \subseteq Zram
    BY DEF TypeOK
  <2> USE <2>a, ZramAssumption
      DEF CleanInv, Idle, SnapInv, InUse, States, Coherent, Goto, At, Enter, ctx, mem, sync, usb,
          dm, fs, devices
  <2>1. CASE Boot
    <3>1. CASE BootUnmount
      BY <3>1 DEF BootUnmount, Unmount
    <3>2. CASE BootCleanup
      BY <3>2 DEF BootCleanup, RemoveDm
    <3>3. CASE BootAddLUNs
      BY <3>3 DEF BootAddLUNs
    <3>4. CASE \E ok \in BOOLEAN : BootConfigure(ok)
      BY <3>4 DEF BootConfigure, TearDown
    <3>5. CASE \E ok \in BOOLEAN : BootActivate(ok)
      BY <3>5 DEF BootActivate, Activate
    <3> QED BY <2>1, <3>1, <3>2, <3>3, <3>4, <3>5 DEF Boot
  <2>2. CASE Waiting
    BY <2>2 DEF Waiting, GadgetUp, WaitForWifi, WifiConnected, WaitForIdle,
                IdleReturned, DelayOver
  <2>3. CASE Snapshotting
    <3>1. CASE CreateCleanup
      BY <3>1 DEF CreateCleanup, RemoveDm
    <3>2. CASE CreateFails
      BY <3>2 DEF CreateFails
    <3>3. CASE HotAdd
      BY <3>3 DEF HotAdd
    <3>4. CASE SizeCow
      BY <3>4 DEF SizeCow
    <3>5. CASE CreateOrigin
      BY <3>5 DEF CreateOrigin
    <3>6. CASE CreateSnapshot
      BY <3>6 DEF CreateSnapshot
    <3>7. CASE \E ok \in BOOLEAN : SnapshotDeactivate(ok)
      BY <3>7 DEF SnapshotDeactivate, Deactivate
    <3>8. CASE \E ok \in BOOLEAN : SnapshotReactivate(ok)
      BY <3>8 DEF SnapshotReactivate, Activate
    <3> QED BY <2>3, <3>1, <3>2, <3>3, <3>4, <3>5, <3>6, <3>7, <3>8 DEF Snapshotting
  <2>4. CASE Releasing
    <3>1. CASE Cleanup
      BY <3>1 DEF Cleanup
    <3>2. CASE ReleaseUmount
      BY <3>2 DEF ReleaseUmount, Unmount
    <3>3. CASE ReleaseDm
      <4>1. clean' => clean /\ cow' = NoZram /\ ~origin'
        BY <3>3, Zenon DEF ReleaseDm
      <4>2. pc' = "release_zram" /\ UNCHANGED <<state, mem, zram>>
        BY <3>3 DEF ReleaseDm, RemoveDm
      <4> QED BY <3>3, <4>1, <4>2 DEF ReleaseDm
    <3>4. CASE ReleaseZram
      <4>1. clean' => clean /\ szram \notin zram'
        BY <3>4, Zenon DEF ReleaseZram
      <4>2. zram' \subseteq zram /\ UNCHANGED <<origin, cow>>
        BY <3>4 DEF ReleaseZram
      <4>3. szram' = NoZram /\ pc = "release_zram"
        BY <3>4 DEF ReleaseZram
      <4> QED BY <4>1, <4>2, <4>3
    <3>5. CASE PauseOver
      BY <3>5 DEF PauseOver
    <3> QED BY <2>4, <3>1, <3>2, <3>3, <3>4, <3>5 DEF Releasing
  <2>5. CASE Archiving
    <3>1. CASE FsckStart
      BY <3>1 DEF FsckStart
    <3>2. CASE FsckDone
      BY <3>2 DEF FsckDone, Written
    <3>3. CASE MountSnapshot
      BY <3>3 DEF MountSnapshot
    <3>4. CASE ArchiveReturns
      BY <3>4 DEF ArchiveReturns
    <3>5. CASE UnmountSnapshot
      BY <3>5 DEF UnmountSnapshot, Unmount
    <3>6. CASE \E ok \in BOOLEAN : Reconnect(ok)
      BY <3>6 DEF Reconnect, Activate
    <3> QED BY <2>5, <3>1, <3>2, <3>3, <3>4, <3>5, <3>6 DEF Archiving
  <2>6. CASE MediaSyncing
    <3>1. CASE MediaSkip
      BY <3>1 DEF MediaSkip
    <3>2. CASE MediaCopied
      BY <3>2 DEF MediaCopied
    <3>3. CASE MediaUnmount
      BY <3>3 DEF MediaUnmount, Unmount
    <3>4. CASE \E p \in Media : MediaMount(p)
      BY <3>4 DEF MediaMount, Mount, MountFails, Unmount
    <3>5. CASE \E ok \in BOOLEAN : MediaDeactivate(ok)
      BY <3>5 DEF MediaDeactivate, Deactivate
    <3>6. CASE \E ok \in BOOLEAN : MediaReactivate(ok)
      BY <3>6 DEF MediaReactivate, Activate
    <3> QED BY <2>6, <3>1, <3>2, <3>3, <3>4, <3>5, <3>6 DEF MediaSyncing
  <2>7. CASE Environment
    <3>1. CASE Cancel
      BY <3>1 DEF Cancel
    <3>2. CASE Crash
      <4>1. Die
        BY <3>2 DEF Crash
      <4> QED BY <4>1, DeathLeavesNothing DEF Die
    <3>3. CASE PowerLoss
      BY <3>3 DEF PowerLoss
    <3>4. CASE CarWrites
      BY <3>4 DEF CarWrites, Written
    <3>5. CASE Move
      BY <3>5 DEF Move
    <3>6. CASE \E p \in Partitions : Drain(p)
      BY <3>6 DEF Drain
    <3> QED BY <2>7, <3>1, <3>2, <3>3, <3>4, <3>5, <3>6 DEF Environment
  <2>8. CASE Start
    BY <2>8 DEF Start
  <2>9. CASE Shutdown
    <3>1. Die
      BY <2>9 DEF Shutdown
    <3> QED BY <3>1, DeathLeavesNothing DEF Die
  <2>10. CASE ShutdownInWait
    <3>1. Die
      BY <2>10 DEF ShutdownInWait
    <3> QED BY <3>1, DeathLeavesNothing DEF Die
  <2>11. CASE UNCHANGED vars
    BY <2>11 DEF vars
  <2> QED
    BY <2>1, <2>2, <2>3, <2>4, <2>5, <2>6,
       <2>7, <2>8, <2>9, <2>10, <2>11 DEF Next, Handlers
<1> QED BY <1>1, <1>2, TypeCorrect, DriveInvariant, SnapInvariant, PTL DEF Spec

(* Between cycles nothing of a snapshot is left, whichever command failed,  *)
(* unless one of a release did or a process died with devices.              *)
THEOREM CleanIsClean == Spec => []CleanBetweenCycles
<1>1. TypeOK /\ Coherent /\ SnapInv /\ CleanInv => CleanBetweenCycles
  BY ZramAssumption DEF TypeOK, SnapInv, CleanInv, Idle, CleanBetweenCycles
<1> QED BY <1>1, DriveInvariant, SnapInvariant, CleanInvariant, PTL

(* The drive is pulled only to boot, to take a snapshot, to sync media or   *)
(* to stop.                                                                 *)
THEOREM DriveIsPulledOnPurpose == Spec => DrivePulledOnPurpose
<1>1. TypeOK /\ Coherent /\ [Next]_vars
        => [bound /\ ~bound' =>
               state \in {"booting", "snapshot", "media_sync"} \/ pc' = "down"]_vars
  <2> SUFFICES ASSUME TypeOK, [Next]_vars, bound, ~bound'
               PROVE  state \in {"booting", "snapshot", "media_sync"} \/ pc' = "down"
    OBVIOUS
  <2> USE DEF Goto, At, Enter, ctx, mem, sync, usb, dm, fs, devices
  <2>1. CASE Boot
    BY <2>1
    DEF Boot, BootUnmount, Unmount, BootCleanup, RemoveDm,
             BootAddLUNs, BootConfigure, TearDown, BootActivate,
             Activate
  <2>2. CASE Waiting
    BY <2>2
    DEF Waiting, GadgetUp, WaitForWifi, WifiConnected, WaitForIdle,
             IdleReturned, DelayOver
  <2>3. CASE Snapshotting
    BY <2>3
    DEF Snapshotting, CreateCleanup, RemoveDm, CreateFails, HotAdd,
             SizeCow, CreateOrigin, CreateSnapshot, SnapshotDeactivate,
             Deactivate, SnapshotReactivate, Activate
  <2>4. CASE Releasing
    BY <2>4
    DEF Releasing, Cleanup, ReleaseUmount, Unmount, ReleaseDm,
             RemoveDm, ReleaseZram, PauseOver
  <2>5. CASE Archiving
    BY <2>5
    DEF Archiving, FsckStart, FsckDone, Written, MountSnapshot,
             ArchiveReturns, UnmountSnapshot, Unmount, Reconnect,
             Activate
  <2>6. CASE MediaSyncing
    BY <2>6
    DEF MediaSyncing, MediaSkip, MediaCopied, MediaUnmount,
             Unmount, MediaMount, Mount, MountFails, MediaDeactivate,
             Deactivate, MediaReactivate, Activate
  <2>7. CASE Environment
    BY <2>7
    DEF Environment, Cancel, Crash, Die, PowerLoss, CarWrites,
             Written, Move, Drain
  <2>8. CASE Start
    BY <2>8 DEF Start
  <2>9. CASE Shutdown
    BY <2>9 DEF Shutdown, Die, Deactivate
  <2>10. CASE ShutdownInWait
    BY <2>10 DEF ShutdownInWait, Die
  <2>11. CASE UNCHANGED vars
    BY <2>11 DEF vars
  <2> QED
    BY <2>1, <2>2, <2>3, <2>4, <2>5, <2>6,
       <2>7, <2>8, <2>9, <2>10, <2>11 DEF Next, Handlers
<1> QED BY <1>1, DriveInvariant, PTL DEF Spec, DrivePulledOnPurpose

(* Boot's LUNs are added only while the drive is gone.                      *)
LEMMA BuildInvariant == Spec => []BuildInv
<1>1. Init => BuildInv
  BY DEF Init, BuildInv
<1>2. TypeOK /\ Coherent /\ BuildInv /\ [Next]_vars => BuildInv'
  <2> SUFFICES ASSUME TypeOK, Coherent, BuildInv, [Next]_vars, pc' = "add_luns"
               PROVE  ~bound'
    BY DEF BuildInv
  <2> USE DEF Goto, At, Enter, ctx, mem, sync, usb, dm, fs, devices
  <2>1. CASE Boot
    BY <2>1
    DEF BuildInv, Boot, BootUnmount, Unmount, BootCleanup, RemoveDm,
             BootAddLUNs, BootConfigure, TearDown, BootActivate,
             Activate
  <2>2. CASE Waiting
    BY <2>2
    DEF Waiting, GadgetUp, WaitForWifi, WifiConnected, WaitForIdle,
             IdleReturned, DelayOver
  <2>3. CASE Snapshotting
    BY <2>3
    DEF Snapshotting, CreateCleanup, RemoveDm, CreateFails, HotAdd,
             SizeCow, CreateOrigin, CreateSnapshot, SnapshotDeactivate,
             Deactivate, SnapshotReactivate, Activate
  <2>4. CASE Releasing
    BY <2>4
    DEF Releasing, Cleanup, ReleaseUmount, Unmount, ReleaseDm,
             RemoveDm, ReleaseZram, PauseOver
  <2>5. CASE Archiving
    BY <2>5
    DEF Archiving, FsckStart, FsckDone, Written, MountSnapshot,
             ArchiveReturns, UnmountSnapshot, Unmount, Reconnect,
             Activate
  <2>6. CASE MediaSyncing
    BY <2>6
    DEF MediaSyncing, MediaSkip, MediaCopied, MediaUnmount,
             Unmount, MediaMount, Mount, MountFails, MediaDeactivate,
             Deactivate, MediaReactivate, Activate
  <2>7. CASE Environment
    BY <2>7
    DEF BuildInv, Environment, Cancel, Crash, Die, PowerLoss, CarWrites,
             Written, Move, Drain
  <2>8. CASE Start
    BY <2>8 DEF Start
  <2>9. CASE Shutdown
    BY <2>9 DEF Shutdown, Die, Deactivate
  <2>10. CASE ShutdownInWait
    BY <2>10 DEF ShutdownInWait, Die
  <2>11. CASE UNCHANGED vars
    BY <2>11 DEF vars, BuildInv
  <2> QED
    BY <2>1, <2>2, <2>3, <2>4, <2>5, <2>6,
       <2>7, <2>8, <2>9, <2>10, <2>11 DEF Next, Handlers
<1> QED BY <1>1, <1>2, TypeCorrect, DriveInvariant, PTL DEF Spec

(* The loop implements Drive: the partitions on the drive change only while *)
(* the car does not see it.                                                 *)
THEOREM RefinesDrive == Spec => ImplementsDrive
<1>1. Init => View!Init
  BY DEF Init, View!Init
<1>2. TypeOK /\ TypeOK' /\ BuildInv /\ [Next]_vars => [View!Next]_(View!vars)
  <2> SUFFICES ASSUME TypeOK, TypeOK', BuildInv, [Next]_vars
               PROVE  View!Next \/ UNCHANGED <<bound, luns>>
    BY DEF View!vars
  <2> USE DEF Goto, At, Enter, ctx, mem, sync, usb, dm, fs, devices
  <2>a. bound \in BOOLEAN /\ bound' \in BOOLEAN /\ luns' \in SUBSET Partitions
    BY DEF TypeOK
  <2>b. luns' = luns => View!Next \/ UNCHANGED <<bound, luns>>
    BY <2>a DEF View!Next, View!Appear, View!Vanish
  <2>c. bound' = FALSE /\ luns' = {} => View!Next \/ UNCHANGED <<bound, luns>>
    BY <2>a DEF View!Next, View!Vanish, View!Rebuild
  <2>1. CASE Boot
    <3>1. CASE BootUnmount \/ BootCleanup
      BY <2>b, <3>1 DEF BootUnmount, BootCleanup
    <3>2. CASE BootAddLUNs
      BY <2>a, <3>2 DEF BootAddLUNs, BuildInv, View!Next, View!Rebuild
    <3>3. CASE \E ok \in BOOLEAN : BootConfigure(ok)
      <4>1. PICK ok \in BOOLEAN : BootConfigure(ok)
        BY <3>3
      <4>2. CASE bound'
        BY <2>b, <4>1, <4>2 DEF BootConfigure, TearDown
      <4>3. CASE ~bound'
        BY <2>a, <2>c, <4>1, <4>3 DEF BootConfigure, TearDown
      <4> QED BY <4>2, <4>3
    <3>4. CASE \E ok \in BOOLEAN : BootActivate(ok)
      BY <2>b, <3>4 DEF BootActivate, Activate
    <3> QED BY <2>1, <3>1, <3>2, <3>3, <3>4 DEF Boot
  <2>2. CASE Waiting
    BY <2>2, <2>b
    DEF Waiting, GadgetUp, WaitForWifi, WifiConnected, WaitForIdle,
             IdleReturned, DelayOver
  <2>3. CASE Snapshotting
    BY <2>3, <2>b
    DEF Snapshotting, CreateCleanup, RemoveDm, CreateFails, HotAdd,
             SizeCow, CreateOrigin, CreateSnapshot, SnapshotDeactivate,
             Deactivate, SnapshotReactivate, Activate
  <2>4. CASE Releasing
    BY <2>4, <2>b
    DEF Releasing, Cleanup, ReleaseUmount, Unmount, ReleaseDm,
             RemoveDm, ReleaseZram, PauseOver
  <2>5. CASE Archiving
    BY <2>5, <2>b
    DEF Archiving, FsckStart, FsckDone, Written, MountSnapshot,
             ArchiveReturns, UnmountSnapshot, Unmount, Reconnect,
             Activate
  <2>6. CASE MediaSyncing
    BY <2>6, <2>b
    DEF MediaSyncing, MediaSkip, MediaCopied, MediaUnmount,
             Unmount, MediaMount, Mount, MountFails, MediaDeactivate,
             Deactivate, MediaReactivate, Activate
  <2>7. CASE Environment
    BY <2>7, <2>b, <2>c
    DEF Environment, Cancel, Crash, Die, PowerLoss, CarWrites,
             Written, Move, Drain
  <2>8. CASE Start
    BY <2>8, <2>b DEF Start
  <2>9. CASE Shutdown
    BY <2>9, <2>b DEF Shutdown, Die, Deactivate
  <2>10. CASE ShutdownInWait
    BY <2>10, <2>b DEF ShutdownInWait, Die
  <2>11. CASE UNCHANGED vars
    BY <2>11 DEF vars
  <2> QED
    BY <2>1, <2>2, <2>3, <2>4, <2>5, <2>6,
       <2>7, <2>8, <2>9, <2>10, <2>11 DEF Next, Handlers
<1> QED BY <1>1, <1>2, TypeCorrect, BuildInvariant, PTL
       DEF Spec, ImplementsDrive, View!Spec

(* Nobody has written below a snapshot that does not exist.                 *)
LEMMA TornInvariant == Spec => []TornInv
<1>1. Init => TornInv
  BY DEF Init, TornInv
<1>2. TornInv /\ [Next]_vars => TornInv'
  <2> SUFFICES ASSUME TornInv, [Next]_vars PROVE TornInv'
    OBVIOUS
  <2> USE DEF TornInv, Goto, At, Enter, ctx, mem, sync, usb, dm, fs, devices
  <2>r. ASSUME RemoveDm PROVE TornInv'
    BY <2>r DEF RemoveDm
  <2>1. CASE Boot
    BY <2>1, <2>r
    DEF Boot, BootUnmount, BootCleanup, BootAddLUNs, BootConfigure, BootActivate
  <2>2. CASE Waiting
    BY <2>2
    DEF Waiting, GadgetUp, WaitForWifi, WifiConnected, WaitForIdle,
             IdleReturned, DelayOver
  <2>3. CASE Snapshotting
    BY <2>3, <2>r
    DEF Snapshotting, CreateCleanup, CreateFails, HotAdd, SizeCow, CreateOrigin,
             CreateSnapshot, SnapshotDeactivate, SnapshotReactivate
  <2>4. CASE Releasing
    BY <2>4, <2>r
    DEF Releasing, Cleanup, ReleaseUmount, ReleaseDm, ReleaseZram, PauseOver
  <2>5. CASE Archiving
    BY <2>5
    DEF Archiving, FsckStart, FsckDone, Written, MountSnapshot,
             ArchiveReturns, UnmountSnapshot, Reconnect
  <2>6. CASE MediaSyncing
    BY <2>6
    DEF MediaSyncing, MediaSkip, MediaCopied, MediaUnmount, MediaMount,
             MediaDeactivate, MediaReactivate
  <2>7. CASE Environment
    BY <2>7
    DEF Environment, Cancel, Crash, Die, PowerLoss, CarWrites,
             Written, Move, Drain
  <2>8. CASE Start \/ Shutdown \/ ShutdownInWait
    BY <2>8 DEF Start, Shutdown, ShutdownInWait, Die
  <2>9. CASE UNCHANGED vars
    BY <2>9 DEF vars
  <2> QED
    BY <2>1, <2>2, <2>3, <2>4, <2>5, <2>6, <2>7, <2>8, <2>9 DEF Next, Handlers
<1> QED BY <1>1, <1>2, PTL DEF Spec

(* The loop implements Snapshot: the snapshot is taken while the car is cut *)
(* off and there is no other, is not given up while it is in use, and is    *)
(* written below by nobody but fsck until the drive is back.                *)
THEOREM RefinesSnapshot == Spec => ImplementsSnapshot
<1>1. Init => Image!Init
  BY DEF Init, Image!Init, InUse
<1>2. TypeOK /\ TypeOK' /\ Coherent /\ DriveInv /\ SnapInv /\ TornInv /\ [Next]_vars
        => [Image!Next]_(Image!vars)
  <2> SUFFICES ASSUME TypeOK, TypeOK', Coherent, DriveInv, SnapInv, TornInv, [Next]_vars
               PROVE  [Image!Next]_(Image!vars)
    OBVIOUS
  <2> DEFINE Kept == InUse(Cam)' <=> InUse(Cam)
  <2>t. bound \in BOOLEAN /\ bound' \in BOOLEAN /\ Cam \notin Media
    BY PartitionsAssumption DEF TypeOK
  <2>d. ASSUME Kept, UNCHANGED <<cow, torn>> PROVE [Image!Next]_(Image!vars)
    BY <2>d, <2>t DEF Image!Next, Image!Drive, InUse
  <2>l. ASSUME Unmount(Cam), UNCHANGED <<bound, cow, torn>>
        PROVE  [Image!Next]_(Image!vars)
    <3>1. CASE InUse(Cam)'
      BY <2>l, <2>d, <3>1 DEF Unmount, InUse
    <3>2. CASE ~InUse(Cam)'
      BY <2>l, <3>2 DEF Image!Next, Image!Leave
    <3> QED BY <3>1, <3>2
  <2>r. ASSUME RemoveDm, UNCHANGED <<bound, mnt, busy>>
        PROVE  [Image!Next]_(Image!vars)
    <3>1. CASE cow' = cow
      BY <2>r, <2>d, <3>1 DEF RemoveDm, TornInv, InUse
    <3>2. CASE cow' # cow
      <4>1. cow # NoZram /\ ~InUse(Cam) /\ cow' = NoZram /\ torn' = {}
        BY <2>r, <3>2, ZramAssumption DEF RemoveDm, TypeOK
      <4> QED BY <2>r, <4>1 DEF Image!Next, Image!GiveUp, InUse
    <3> QED BY <3>1, <3>2
  <2>x. ASSUME Die, bound' = bound \/ bound' = FALSE PROVE [Image!Next]_(Image!vars)
    <3>1. CASE InUse(Cam)'
      BY <2>x, <2>d, <3>1 DEF Die, InUse, dm
    <3>2. CASE ~InUse(Cam)'
      <4>1. UNCHANGED <<cow, torn>>
        BY <2>x DEF Die, dm
      <4>2. bound' \in {bound, FALSE}
        BY <2>x
      <4>3. InUse(Cam)' = FALSE
        BY <3>2 DEF InUse
      <4> QED BY <4>1, <4>2, <4>3, Zenon DEF Image!Next, Image!Leave
    <3> QED BY <3>1, <3>2
  <2> USE DEF Goto, At, Enter, ctx, mem, sync, usb, dm, fs, devices
  <2>1. CASE Boot
    <3>1. CASE BootUnmount
      BY <2>l, <3>1 DEF BootUnmount
    <3>2. CASE BootCleanup
      BY <2>r, <3>2 DEF BootCleanup
    <3>3. CASE BootAddLUNs \/ \E ok \in BOOLEAN : BootConfigure(ok) \/ BootActivate(ok)
      BY <2>d, <3>3 DEF BootAddLUNs, BootConfigure, BootActivate, InUse
    <3> QED BY <2>1, <3>1, <3>2, <3>3 DEF Boot
  <2>2. CASE Waiting
    BY <2>2, <2>d
    DEF Waiting, GadgetUp, WaitForWifi, WifiConnected, WaitForIdle,
             IdleReturned, DelayOver, InUse
  <2>3. CASE Snapshotting
    <3>1. CASE CreateCleanup
      BY <2>r, <3>1 DEF CreateCleanup
    <3>2. CASE CreateSnapshot
      <4>1. ~bound /\ UNCHANGED <<bound, mnt, busy>>
        BY <3>2 DEF CreateSnapshot, DriveInv, Offline
      <4>2. cow = NoZram /\ ~InUse(Cam) /\ cow' \in Zram /\ torn' = {}
        BY <3>2 DEF CreateSnapshot, SnapInv, TypeOK
      <4> QED BY <4>1, <4>2 DEF Image!Next, Image!Take, InUse
    <3>3. CASE CreateFails \/ HotAdd \/ SizeCow \/ CreateOrigin
      BY <2>d, <3>3 DEF CreateFails, HotAdd, SizeCow, CreateOrigin, InUse
    <3>4. CASE \E ok \in BOOLEAN : SnapshotDeactivate(ok) \/ SnapshotReactivate(ok)
      BY <2>d, <3>4 DEF SnapshotDeactivate, SnapshotReactivate, InUse
    <3> QED BY <2>3, <3>1, <3>2, <3>3, <3>4 DEF Snapshotting
  <2>4. CASE Releasing
    <3>1. CASE ReleaseUmount
      BY <2>l, <3>1 DEF ReleaseUmount
    <3>2. CASE ReleaseDm
      BY <2>r, <3>2 DEF ReleaseDm
    <3>3. CASE Cleanup \/ ReleaseZram \/ PauseOver
      BY <2>d, <3>3 DEF Cleanup, ReleaseZram, PauseOver, InUse
    <3> QED BY <2>4, <3>1, <3>2, <3>3 DEF Releasing
  <2>5. CASE Archiving
    <3>1. CASE FsckDone
      <4>1. ~bound /\ UNCHANGED <<bound, cow, mnt, busy>>
        BY <3>1 DEF FsckDone, DriveInv, Offline
      <4>2. CASE torn' = torn
        BY <2>d, <4>1, <4>2 DEF InUse
      <4>3. CASE cow # NoZram /\ torn' = torn \cup {"fsck"}
        BY <4>1, <4>3 DEF Image!Next, Image!Repair, InUse
      <4> QED BY <3>1, <4>2, <4>3 DEF FsckDone, Written, TornInv
    <3>2. CASE MountSnapshot
      <4>1. CASE cow # NoZram /\ mnt' = mnt \cup {Cam}
        BY <3>2, <4>1 DEF MountSnapshot, Image!Next, Image!Open, InUse
      <4>2. CASE mnt' = mnt
        BY <2>d, <3>2, <4>2 DEF MountSnapshot, InUse
      <4> QED BY <3>2, <4>1, <4>2 DEF MountSnapshot
    <3>3. CASE UnmountSnapshot
      BY <2>l, <3>3 DEF UnmountSnapshot
    <3>4. CASE FsckStart \/ ArchiveReturns \/ \E ok \in BOOLEAN : Reconnect(ok)
      BY <2>d, <3>4 DEF FsckStart, ArchiveReturns, Reconnect, InUse
    <3> QED BY <2>5, <3>1, <3>2, <3>3, <3>4 DEF Archiving
  <2>6. CASE MediaSyncing
    <3>1. CASE MediaUnmount
      <4>1. cur # Cam
        BY <3>1, PartitionsAssumption DEF MediaUnmount, TypeOK, Partitions
      <4>2. Kept
        BY <3>1, <4>1 DEF MediaUnmount, Unmount, InUse
      <4> QED BY <2>d, <3>1, <4>2 DEF MediaUnmount
    <3>2. CASE \E p \in Media : MediaMount(p)
      <4>1. PICK p \in Media : MediaMount(p)
        BY <3>2
      <4>2. p # Cam
        BY <2>t
      <4>3. Kept
        BY <4>1, <4>2 DEF MediaMount, Mount, MountFails, Unmount, InUse
      <4> QED BY <2>d, <4>1, <4>3 DEF MediaMount
    <3>3. CASE MediaSkip \/ MediaCopied
      BY <2>d, <3>3 DEF MediaSkip, MediaCopied, InUse
    <3>4. CASE \E ok \in BOOLEAN : MediaDeactivate(ok) \/ MediaReactivate(ok)
      BY <2>d, <3>4 DEF MediaDeactivate, MediaReactivate, InUse
    <3> QED BY <2>6, <3>1, <3>2, <3>3, <3>4 DEF MediaSyncing
  <2>7. CASE Environment
    <3>1. CASE Crash
      BY <2>x, <3>1 DEF Crash
    <3>2. CASE PowerLoss
      BY <3>2 DEF PowerLoss, Image!Next, Image!PowerLoss, InUse
    <3>3. CASE CarWrites
      <4>1. bound /\ UNCHANGED <<bound, cow, mnt, busy>>
        BY <3>3 DEF CarWrites
      <4>2. CASE cow = NoZram
        BY <2>d, <3>3, <4>1, <4>2 DEF CarWrites, Written, TornInv, InUse
      <4>3. CASE cow # NoZram
        BY <3>3, <4>1, <4>3 DEF CarWrites, Written, Image!Next, Image!Tear, InUse
      <4> QED BY <4>2, <4>3
    <3>4. CASE \E p \in Partitions : Drain(p)
      <4>1. CASE InUse(Cam)'
        BY <2>d, <3>4, <4>1 DEF Drain, InUse
      <4>2. CASE ~InUse(Cam)'
        BY <3>4, <4>2 DEF Drain, Image!Next, Image!Leave
      <4> QED BY <4>1, <4>2
    <3>5. CASE Cancel \/ Move
      BY <2>d, <3>5 DEF Cancel, Move, InUse
    <3> QED BY <2>7, <3>1, <3>2, <3>3, <3>4, <3>5 DEF Environment
  <2>8. CASE Start
    BY <2>8, <2>d DEF Start, InUse
  <2>9. CASE Shutdown
    <3>1. bound' = bound \/ bound' = FALSE
      BY <2>9, <2>t DEF Shutdown, Deactivate
    <3> QED BY <2>9, <2>x, <3>1 DEF Shutdown
  <2>10. CASE ShutdownInWait
    BY <2>10, <2>x DEF ShutdownInWait
  <2>11. CASE UNCHANGED vars
    BY <2>11, <2>d DEF vars, InUse
  <2> QED
    BY <2>1, <2>2, <2>3, <2>4, <2>5, <2>6,
       <2>7, <2>8, <2>9, <2>10, <2>11 DEF Next, Handlers
<1> QED BY <1>1, <1>2, TypeCorrect, DriveInvariant, SnapInvariant, TornInvariant, PTL
       DEF Spec, ImplementsSnapshot, Image!Spec

(* What the comment of the reconnect says of the snapshot holds up to there:*)
(* the car has not written below it (main.go:162-174, finding "frozen").    *)
THEOREM FrozenWhileOffline == Spec => []FrozenUntilReconnect
<1>1. Init => FrozenUntilReconnect
  BY DEF Init, FrozenUntilReconnect
<1>2. TypeOK /\ Coherent /\ DriveInv /\ FrozenUntilReconnect /\ [Next]_vars
        => FrozenUntilReconnect'
  <2> SUFFICES ASSUME TypeOK, Coherent, DriveInv, FrozenUntilReconnect, [Next]_vars,
                      state' \in {"fsck", "reconnect"}
               PROVE  torn' \subseteq {"fsck"}
    BY DEF FrozenUntilReconnect
  <2> USE DEF FrozenUntilReconnect, Goto, At, Enter, ctx, mem, sync, usb, dm, fs, devices
  <2>1. CASE Boot
    BY <2>1
    DEF Boot, BootUnmount, BootCleanup, BootAddLUNs, BootConfigure, BootActivate
  <2>2. CASE Waiting
    BY <2>2
    DEF Waiting, GadgetUp, WaitForWifi, WifiConnected, WaitForIdle,
             IdleReturned, DelayOver
  <2>3. CASE Snapshotting
    BY <2>3
    DEF Snapshotting, CreateCleanup, CreateFails, HotAdd, SizeCow, CreateOrigin,
             CreateSnapshot, SnapshotDeactivate, SnapshotReactivate
  <2>4. CASE Releasing
    BY <2>4
    DEF Coherent, Releasing, Cleanup, ReleaseUmount, ReleaseDm, ReleaseZram, PauseOver
  <2>5. CASE Archiving
    BY <2>5
    DEF Archiving, FsckStart, FsckDone, Written, MountSnapshot,
             ArchiveReturns, UnmountSnapshot, Reconnect
  <2>6. CASE MediaSyncing
    BY <2>6
    DEF MediaSyncing, MediaSkip, MediaCopied, MediaUnmount, MediaMount,
             MediaDeactivate, MediaReactivate
  <2>7. CASE Environment
    BY <2>7
    DEF DriveInv, Offline, Environment, Cancel, Crash, Die, PowerLoss, CarWrites,
             Move, Drain
  <2>8. CASE Start \/ Shutdown \/ ShutdownInWait
    BY <2>8 DEF Start, Shutdown, ShutdownInWait, Die
  <2>9. CASE UNCHANGED vars
    BY <2>9 DEF vars
  <2> QED
    BY <2>1, <2>2, <2>3, <2>4, <2>5, <2>6, <2>7, <2>8, <2>9 DEF Next, Handlers
<1> QED BY <1>1, <1>2, DriveInvariant, TypeCorrect, PTL DEF Spec

(* What boot does not reconcile comes from two places only: a death leaks   *)
(* the device of the handle it had, a failed hot_remove the one it was to   *)
(* free, and no other step any (snapshot.go:39-70, 149-160, finding         *)
(* "boot_zram").                                                            *)
THEOREM LeaksAreAccounted == Spec => LeaksAccounted
<1>1. TypeOK /\ CleanInv /\ [Next]_vars
        => [\/ Leaked' \subseteq Leaked
            \/ /\ pc' = "down" \/ pc = "release_zram"
               /\ Leaked' \subseteq Leaked \cup {szram}]_vars
  <2> SUFFICES ASSUME TypeOK, CleanInv, [Next]_vars
               PROVE  \/ Leaked' \subseteq Leaked
                      \/ /\ pc' = "down" \/ pc = "release_zram"
                         /\ Leaked' \subseteq Leaked \cup {szram}
    OBVIOUS
  <2> USE DEF Leaked, Goto, At, Enter, ctx, mem, sync, usb, dm, fs, devices
  <2>1. CASE Boot
    BY <2>1
    DEF Boot, BootUnmount, BootCleanup, RemoveDm, BootAddLUNs, BootConfigure, BootActivate
  <2>2. CASE Waiting
    BY <2>2
    DEF Waiting, GadgetUp, WaitForWifi, WifiConnected, WaitForIdle,
             IdleReturned, DelayOver
  <2>3. CASE Snapshotting
    <3>1. CASE HotAdd
      <4>1. szram = NoZram /\ NoZram \notin zram
        BY <3>1, ZramAssumption DEF HotAdd, CleanInv, Idle, TypeOK
      <4> QED BY <3>1, <4>1 DEF HotAdd
    <3>2. CASE ~HotAdd
      BY <2>3, <3>2
      DEF Snapshotting, CreateCleanup, RemoveDm, CreateFails, SizeCow, CreateOrigin,
               CreateSnapshot, SnapshotDeactivate, SnapshotReactivate
    <3> QED BY <3>1, <3>2
  <2>4. CASE Releasing
    BY <2>4
    DEF Releasing, Cleanup, ReleaseUmount, ReleaseDm, RemoveDm, ReleaseZram, PauseOver
  <2>5. CASE Archiving
    BY <2>5
    DEF Archiving, FsckStart, FsckDone, MountSnapshot, ArchiveReturns,
             UnmountSnapshot, Reconnect
  <2>6. CASE MediaSyncing
    BY <2>6
    DEF MediaSyncing, MediaSkip, MediaCopied, MediaUnmount, MediaMount,
             MediaDeactivate, MediaReactivate
  <2>7. CASE Environment
    BY <2>7
    DEF Environment, Cancel, Crash, Die, PowerLoss, CarWrites, Move, Drain
  <2>8. CASE Start \/ Shutdown \/ ShutdownInWait
    BY <2>8 DEF Start, Shutdown, ShutdownInWait, Die
  <2>9. CASE UNCHANGED vars
    BY <2>9 DEF vars
  <2> QED
    BY <2>1, <2>2, <2>3, <2>4, <2>5, <2>6, <2>7, <2>8, <2>9 DEF Next, Handlers
<1> QED BY <1>1, TypeCorrect, CleanInvariant, PTL DEF Spec, LeaksAccounted

-----------------------------------------------------------------------------
(* How many commands a cycle of the loop has left.                          *)
CommandsLeft ==
    LET media == 3 * Cardinality(Media)
    IN  CASE At("snapshot", "run")             -> media + 18
          [] At("snapshot", "stale_dm")        -> media + 17
          [] At("snapshot", "hot_add")         -> media + 16
          [] At("snapshot", "cow_size")        -> media + 15
          [] At("snapshot", "dm_origin")       -> media + 14
          [] At("snapshot", "dm_snap")         -> media + 13
          [] At("fsck", "run")                 -> media + 12
          [] At("fsck", "fsck")                -> media + 11
          [] At("reconnect", "run")            -> media + 10
          [] At("archiving", "run")            -> media + 9
          [] At("archiving", "copy")           -> media + 8
          [] At("archiving", "unmount_snap")   -> media + 7
          [] At("media_sync", "run")           -> media + 6
          [] At("media_sync", "media_copy")    -> 3 * Cardinality(todo) + 7
          [] At("media_sync", "media_unmount") -> 3 * Cardinality(todo) + 6
          [] At("media_sync", "media")         -> 3 * Cardinality(todo) + 5
          [] At("snapshot", "release_dm")      -> 7
          [] At("snapshot", "release_zram")    -> 6
          [] At("snapshot", "reactivate")      -> 5
          [] At("cleanup", "run")              -> 4
          [] At("cleanup", "release_mnt")      -> 3
          [] At("cleanup", "release_dm")       -> 2
          [] At("cleanup", "release_zram")     -> 1
          [] OTHER                             -> 0

(* The count is a number.                                                   *)
LEMMA CommandCounts ==
    ASSUME IsFiniteSet(Media), TypeOK
    PROVE  /\ Cardinality(Media) \in Nat
           /\ IsFiniteSet(todo) /\ Cardinality(todo) \in 0 .. Cardinality(Media)
           /\ CommandsLeft \in Nat
<1>1. todo \in SUBSET Media
  BY DEF TypeOK
<1>2. /\ IsFiniteSet(todo) /\ Cardinality(todo) <= Cardinality(Media)
      /\ Cardinality(todo) \in Nat /\ Cardinality(Media) \in Nat
  BY <1>1, FS_Subset, FS_CardinalityType
<1> QED BY <1>2 DEF CommandsLeft

(* A handler's command leaves fewer; outside a cycle there is none to leave.*)
LEMMA CommandsShrink ==
    ASSUME IsFiniteSet(Media), TypeOK, TypeOK', Coherent, Handlers
    PROVE  \/ CommandsLeft' < CommandsLeft
           \/ CommandsLeft' = 0 /\ CommandsLeft = 0
           \/ DelayOver /\ CommandsLeft' = 3 * Cardinality(Media) + 18
<1> DEFINE media == Cardinality(Media)
           n     == Cardinality(todo)
           left  == Cardinality(todo')
<1>0. media \in Nat /\ n \in 0 .. media /\ left \in 0 .. media /\ IsFiniteSet(todo)
  <2>1. todo' \in SUBSET Media
    BY DEF TypeOK
  <2>2. Cardinality(todo') \in Nat /\ Cardinality(todo') <= Cardinality(Media)
    BY <2>1, FS_Subset, FS_CardinalityType
  <2> QED BY <2>2, CommandCounts
<1> USE <1>0 DEF Coherent, Goto, At, Enter, sync
<1>1. CASE Boot
  <2>1. state = "booting" /\ state' \in {"booting", "gadget_up"}
    BY <1>1
    DEF Boot, BootUnmount, BootCleanup, BootAddLUNs, BootConfigure, BootActivate
  <2> QED BY <2>1 DEF CommandsLeft
<1>2. CASE Waiting
  <2>1. CASE DelayOver
    BY <2>1 DEF DelayOver, CommandsLeft
  <2>2. CASE ~DelayOver
    <3>1. /\ state \in {"gadget_up", "waiting_for_wifi", "pre_archive"}
          /\ state' \in {"gadget_up", "waiting_for_wifi", "pre_archive"}
      BY <1>2, <2>2 DEF Waiting, GadgetUp, WaitForWifi, WifiConnected, WaitForIdle,
                        IdleReturned
    <3> QED BY <3>1 DEF CommandsLeft
  <2> QED BY <2>1, <2>2
<1>3. CASE Snapshotting
  <2>1. /\ state = "snapshot" /\ todo' = todo
        /\ \/ pc = "run" /\ (At("snapshot", "stale_dm")' \/ At("cleanup", "run")')
           \/ pc = "stale_dm" /\ At("snapshot", "hot_add")'
           \/ pc = "hot_add" /\ At("snapshot", "cow_size")'
           \/ pc = "cow_size" /\ At("snapshot", "dm_origin")'
           \/ pc = "dm_origin" /\ At("snapshot", "dm_snap")'
           \/ pc = "dm_snap" /\ At("fsck", "run")'
           \/ pc \in {"hot_add", "cow_size", "dm_origin", "dm_snap"}
              /\ At("snapshot", "release_dm")'
           \/ pc = "reactivate" /\ At("cleanup", "run")'
    BY <1>3
    DEF Snapshotting, CreateCleanup, CreateFails, HotAdd, SizeCow, CreateOrigin,
             CreateSnapshot, SnapshotDeactivate, SnapshotReactivate
  <2> QED BY <2>1 DEF CommandsLeft
<1>4. CASE Releasing
  <2>1. /\ \/ At("cleanup", "run") /\ At("cleanup", "release_mnt")'
           \/ At("cleanup", "release_mnt") /\ At("cleanup", "release_dm")'
           \/ pc = "release_dm" /\ pc' = "release_zram" /\ state' = state
           \/ At("snapshot", "release_zram") /\ At("snapshot", "reactivate")'
           \/ At("cleanup", "release_zram") /\ At("waiting_for_wifi", "pause")'
           \/ At("cleanup", "run") /\ At("waiting_for_wifi", "pause")'
           \/ At("waiting_for_wifi", "pause") /\ At("waiting_for_wifi", "run")'
        /\ pc \in {"release_dm", "release_zram"} => state \in {"snapshot", "cleanup"}
    BY <1>4 DEF Releasing, Cleanup, ReleaseUmount, ReleaseDm, ReleaseZram, PauseOver,
                TypeOK, States
  <2> QED BY <2>1 DEF CommandsLeft
<1>5. CASE Archiving
  <2>1. \/ At("fsck", "run") /\ At("fsck", "fsck")'
        \/ At("fsck", "fsck") /\ At("reconnect", "run")'
        \/ At("reconnect", "run") /\ At("archiving", "run")'
        \/ At("archiving", "run") /\ (At("archiving", "copy")' \/ At("media_sync", "run")')
        \/ At("archiving", "copy") /\ At("archiving", "unmount_snap")'
        \/ At("archiving", "unmount_snap") /\ At("media_sync", "run")'
    BY <1>5 DEF Archiving, FsckStart, FsckDone, MountSnapshot, ArchiveReturns,
                UnmountSnapshot, Reconnect
  <2> QED BY <2>1 DEF CommandsLeft
<1>6. CASE MediaSyncing
  <2>1. CASE \E p \in Media : MediaMount(p)
    <3> PICK p \in Media : MediaMount(p)
      BY <2>1
    <3>1. p \in todo /\ todo' = todo \ {p}
      BY DEF MediaMount
    <3>2. left = n - 1
      BY <3>1, FS_RemoveElement
    <3>3. /\ At("media_sync", "media")
          /\ At("media_sync", "media_copy")' \/ At("media_sync", "media")'
      BY DEF MediaMount
    <3>4. CommandsLeft = 3 * n + 5 /\ CommandsLeft' \in {3 * left + 7, 3 * left + 5}
      BY <3>3 DEF CommandsLeft
    <3> HIDE DEF n, left
    <3> QED BY <3>2, <3>4
  <2>2. CASE ~ \E p \in Media : MediaMount(p)
    <3>1. \/ /\ At("media_sync", "run")
             /\ At("media_sync", "media")' \/ At("cleanup", "run")'
          \/ /\ todo' = todo
             /\ \/ At("media_sync", "media_copy") /\ At("media_sync", "media_unmount")'
                \/ At("media_sync", "media_unmount") /\ At("media_sync", "media")'
                \/ At("media_sync", "media") /\ At("cleanup", "run")'
      BY <1>6, <2>2 DEF MediaSyncing, MediaSkip, MediaCopied, MediaUnmount,
                        MediaDeactivate, MediaReactivate
    <3> QED BY <3>1 DEF CommandsLeft
  <2> QED BY <2>1, <2>2
<1> QED BY <1>1, <1>2, <1>3, <1>4, <1>5, <1>6 DEF Handlers

(* A cycle of the loop is over after at most three commands for each media  *)
(* partition and eighteen more, whatever fails: each command of a handler   *)
(* leaves fewer, only the next cycle adds any, and where none is left the   *)
(* snapshot is given up and the drive is back, unless the last Activate     *)
(* failed. That the commands come is what SnapshotGivenUp and DriveReturns  *)
(* add (main.go:162-196).                                                   *)
THEOREM LoopIsBounded ==
    ASSUME IsFiniteSet(Media)
    PROVE  Spec =>
             /\ [](CommandsLeft = 0 => ~snap /\ (bound \/ actFailed \/ state = "booting"))
             /\ [][Handlers /\ CommandsLeft > 0 => CommandsLeft' < CommandsLeft]_vars
             /\ [][CommandsLeft' > CommandsLeft =>
                      DelayOver /\ CommandsLeft' = 3 * Cardinality(Media) + 18]_vars
<1> DEFINE Inv == TypeOK /\ Coherent /\ DriveInv /\ SnapInv
<1>1. Inv => (CommandsLeft = 0 => ~snap /\ (bound \/ actFailed \/ state = "booting"))
  <2> SUFFICES ASSUME Inv, CommandsLeft = 0
               PROVE  ~snap /\ (bound \/ actFailed \/ state = "booting")
    OBVIOUS
  <2>1. /\ Cardinality(Media) \in Nat /\ Cardinality(todo) \in Nat
    BY CommandCounts
  <2>2. state \in {"booting", "gadget_up", "waiting_for_wifi", "pre_archive"}
    BY <2>1 DEF CommandsLeft, At, Coherent, TypeOK, States
  <2> QED BY <2>2 DEF DriveInv, SnapInv, Offline
<1>2. Inv /\ Inv' => (Handlers /\ CommandsLeft > 0 => CommandsLeft' < CommandsLeft)
  BY CommandsShrink DEF DelayOver, CommandsLeft, At
<1>3. ASSUME Inv, Inv', [Next]_vars, CommandsLeft' > CommandsLeft
      PROVE  DelayOver /\ CommandsLeft' = 3 * Cardinality(Media) + 18
  <2>0. CommandsLeft \in Nat /\ CommandsLeft' \in Nat
    <3>1. todo' \in SUBSET Media
      BY <1>3 DEF TypeOK
    <3>2. Cardinality(todo') \in Nat /\ Cardinality(Media) \in Nat
      BY <3>1, FS_Subset, FS_CardinalityType
    <3>3. CommandsLeft' \in Nat
      BY <3>2 DEF CommandsLeft
    <3> QED BY <1>3, <3>3, CommandCounts
  <2>1. CASE Handlers
    BY <1>3, <2>0, <2>1, CommandsShrink
  <2>2. CASE UNCHANGED <<state, pc, todo>>
    BY <1>3, <2>0, <2>2 DEF CommandsLeft, At
  <2>3. CASE state' = "booting"
    BY <1>3, <2>0, <2>3 DEF CommandsLeft, At
  <2>4. Handlers \/ UNCHANGED <<state, pc, todo>> \/ state' = "booting"
    BY <1>3
    DEF Next, Start, Shutdown, ShutdownInWait, Environment, Cancel, Crash, Die,
             PowerLoss, CarWrites, Move, Drain, Goto, sync, vars
  <2> QED BY <2>1, <2>2, <2>3, <2>4
<1>4. Spec => []Inv
  BY TypeCorrect, DriveInvariant, SnapInvariant, PTL
<1> QED BY <1>1, <1>2, <1>3, <1>4, PTL DEF Spec
=============================================================================
