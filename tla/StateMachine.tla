---------------------------- MODULE StateMachine ----------------------------
(***************************************************************************)
(* The main control loop of the daemon (cmd/teslausb/main.go, type         *)
(* StateMachine) together with the kernel objects it drives:               *)
(*   - the USB gadget: bound to a UDC or not, and the partitions exported;  *)
(*   - the dm-snapshot of the cam partition: a zram device for the COW, an  *)
(*     origin target, a snapshot target;                                    *)
(*   - mounts: the snapshot on /mnt/snap, media partitions on /mnt/media.   *)
(* One action is one command of a handler that may fail on its own, so a    *)
(* crash, a signal, the car and the network interleave with every command.  *)
(* Kernel objects outlive the process; its memory does not.                 *)
(***************************************************************************)
EXTENDS FiniteSets, Naturals

CONSTANTS
    Cam,        \* the cam partition, p5; in mnt and busy: the snapshot of it
    Media,      \* the media partitions, p6 and p7
    NoPart,     \* no partition
    Present,    \* the partitions whose device node exists
    Enabled,    \* the media partitions some enabled sync target uses
    Zram,       \* BOUND: the zram devices hot_add can allocate
    NoZram,     \* no zram device
    Faults      \* the kinds of failure that may happen

(* What may go wrong: the process is killed, the power is cut, systemd      *)
(* stops the service, a configfs write fails, a command that builds or      *)
(* mounts a device fails, a command that removes one fails, umount fails.   *)
FaultKinds == {"crash", "power", "stop", "gadget", "build", "remove", "umount"}

Partitions == {Cam} \cup Media

ASSUME PartitionsAssumption ==
    /\ Cam \notin Media
    /\ NoPart \notin Partitions
    /\ Present \subseteq Partitions
    /\ Enabled \subseteq Media
ASSUME ZramAssumption == NoZram \notin Zram
ASSUME FaultsAssumption == Faults \subseteq FaultKinds

VARIABLES
    state,      \* sm.state
    pc,         \* the next command of the handler of state; "run": top of Run
    cancelled,  \* ctx is done
    gad,        \* sm.gad # nil
    snap,       \* sm.snap # nil
    szram,      \* zramDevice of the Snapshot being built, held or released
    todo, cur,  \* runMediaSync: the partitions left in order, the mounted one
    bound,      \* kernel: a UDC is bound, the car sees the drive
    luns,       \* kernel: the partitions behind the gadget's LUNs
    zram,       \* kernel: the allocated zram devices
    origin,     \* kernel: /dev/mapper/teslausb-snap-origin exists
    cow,        \* kernel: the COW device of /dev/mapper/teslausb-snap
    mnt,        \* kernel: what is mounted (Cam: the snapshot, on /mnt/snap)
    busy,       \* kernel: lazily unmounted and still in use by someone
    home,       \* the home network is reachable
    orphans,    \* history: media left in use by a failed umount or a death
    clean,      \* history: no release failed and no owner of devices died
    actFailed,  \* history: the last Activate failed
    torn        \* history: who wrote p5 since its snapshot was created

vars == <<state, pc, cancelled, gad, snap, szram, todo, cur, bound, luns,
          zram, origin, cow, mnt, busy, home, orphans, clean, actFailed, torn>>

ctx  == <<cancelled, home>>
mem  == <<gad, snap, szram>>
sync == <<todo, cur>>
usb  == <<bound, luns, actFailed>>
dm   == <<zram, origin, cow, torn>>
fs   == <<mnt, busy, orphans>>

States == {"booting", "gadget_up", "waiting_for_wifi", "pre_archive",
           "snapshot", "fsck", "reconnect", "archiving", "media_sync",
           "cleanup"}
Steps == {"down", "run", "boot_dm", "configure", "add_luns", "activate",
          "wifi", "idle", "delay",
          "stale_dm", "hot_add", "cow_size", "dm_origin", "dm_snap",
          "release_mnt", "release_dm", "release_zram", "reactivate",
          "fsck", "copy", "unmount_snap",
          "media", "media_copy", "media_unmount", "pause"}

Fails(kind) == kind \in Faults
InUse(p) == p \in mnt \cup busy
Goto(s, p) == state' = s /\ pc' = p
At(s, p) == state = s /\ pc = p
\* The next iteration of the loop: ctx is not done and the switch is taken.
Enter(s) == At(s, "run") /\ ~cancelled

Init ==
    /\ state = "booting" /\ pc = "run" /\ cancelled = FALSE
    /\ gad = FALSE /\ snap = FALSE /\ szram = NoZram
    /\ todo = {} /\ cur = NoPart
    /\ bound = FALSE /\ luns = {} /\ zram = {} /\ origin = FALSE
    /\ cow = NoZram /\ mnt = {} /\ busy = {} /\ home = FALSE
    /\ orphans = {} /\ clean = TRUE /\ actFailed = FALSE /\ torn = {}

-----------------------------------------------------------------------------
(* Kernel commands, shared by the handlers.                                 *)

(* Gadget.Activate: bind the one UDC of the Pi, or succeed when it is bound *)
(* already; an error leaves the binding as it was.                          *)
Activate(ok) ==
    /\ ok \/ Fails("gadget")
    /\ bound' = (ok \/ bound)
    /\ actFailed' = ~ok
    /\ UNCHANGED luns

(* Gadget.Deactivate: write "" to the UDC attribute, taken to unbind as the *)
(* comment of clearUDC says.                                                *)
Deactivate(ok) ==
    /\ ok \/ Fails("gadget")
    /\ bound' = (~ok /\ bound)
    /\ UNCHANGED <<luns, actFailed>>

(* fsutil.Unmount, and the umount of Release: nothing to do, done, detached *)
(* lazily from a file system that stays in use, or failed.                  *)
Unmount(p) ==
    \/ /\ p \in mnt
       /\ mnt' = mnt \ {p} /\ UNCHANGED busy
    \/ /\ p \in mnt /\ Fails("umount")
       /\ mnt' = mnt \ {p} /\ busy' = busy \cup {p}
    \/ /\ p \notin mnt \/ Fails("umount")
       /\ UNCHANGED <<mnt, busy>>

(* fsutil.Mount succeeds: a stale mount is unmounted first, perhaps lazily. *)
Mount(p) ==
    \/ p \notin mnt /\ mnt' = mnt \cup {p} /\ UNCHANGED busy
    \/ p \in mnt /\ UNCHANGED <<mnt, busy>>
    \/ p \in mnt /\ Fails("umount") /\ busy' = busy \cup {p} /\ UNCHANGED mnt

(* fsutil.Mount fails: in the mount, or in clearing the stale one.          *)
MountFails(p) ==
    \/ Fails("build") /\ Unmount(p)
    \/ p \in mnt /\ Fails("umount") /\ UNCHANGED <<mnt, busy>>

(* dmsetup remove of the snapshot, then of the origin: the first fails when *)
(* a file system uses it, the second while the snapshot does.               *)
RemoveDm ==
    /\ \/ cow # NoZram /\ ~InUse(Cam) /\ cow' = NoZram
       \/ (cow = NoZram \/ InUse(Cam) \/ Fails("remove")) /\ cow' = cow
    /\ \/ origin /\ cow' = NoZram /\ origin' = FALSE
       \/ (~origin \/ cow' # NoZram \/ Fails("remove")) /\ origin' = origin
    /\ torn' = IF cow' = NoZram THEN {} ELSE torn
    /\ UNCHANGED zram

(* A write to the raw p5, which is what the LUN and fsck open: it does not  *)
(* go through the snapshot-origin target, so it saves nothing to the COW    *)
(* device and the snapshot reads the new data.                              *)
Written(who) == IF cow = NoZram THEN {} ELSE torn \cup {who}

-----------------------------------------------------------------------------
(* boot()                                                                   *)

(* Only /mnt/snap is unmounted.                                             *)
BootUnmount ==
    /\ Enter("booting")
    /\ Unmount(Cam)
    /\ Goto("booting", "boot_dm")
    /\ UNCHANGED <<ctx, mem, sync, usb, dm, orphans, clean>>

BootCleanup ==
    /\ At("booting", "boot_dm")
    /\ RemoveDm
    /\ gad' = TRUE
    /\ Goto("booting", "configure")
    /\ UNCHANGED <<ctx, snap, szram, sync, usb, fs, clean>>

(* teardownExisting unbinds what a previous run left and removes its tree;  *)
(* a gadget that could not be unbound keeps its LUNs.                       *)
TearDown(ok) ==
    /\ bound' \in IF ok THEN {FALSE} ELSE {FALSE, bound}
    /\ luns' = IF bound' THEN luns ELSE {}

(* Mutant: boot goes on when Configure failed.                              *)
BootConfigure_GoesOn(ok) ==
    /\ At("booting", "configure")
    /\ ok \/ Fails("gadget")
    /\ TearDown(ok)
    /\ Goto("booting", "add_luns")
    /\ UNCHANGED <<ctx, mem, sync, actFailed, dm, fs, clean>>

(* Configure tears a stale gadget down and writes a new one, which fails    *)
(* while the old one is bound. On error boot is retried.                    *)
BootConfigure(ok) ==
    /\ At("booting", "configure")
    /\ ok \/ Fails("gadget")
    /\ TearDown(ok)
    /\ Goto("booting", IF ok THEN "add_luns" ELSE "run")
    /\ UNCHANGED <<ctx, mem, sync, actFailed, dm, fs, clean>>

(* Mutant: boot also adds a LUN for a partition boombox does not have.      *)
BootAddLUNs_Boombox ==
    /\ At("booting", "add_luns")
    /\ luns' = Present \cup {NoPart}
    /\ Goto("booting", "activate")
    /\ UNCHANGED <<ctx, mem, sync, bound, actFailed, dm, fs, clean>>

(* A LUN that cannot be added is only logged.                               *)
BootAddLUNs ==
    /\ At("booting", "add_luns")
    /\ luns' \in IF Fails("gadget") THEN SUBSET Present ELSE {Present}
    /\ Goto("booting", "activate")
    /\ UNCHANGED <<ctx, mem, sync, bound, actFailed, dm, fs, clean>>

BootActivate(ok) ==
    /\ At("booting", "activate")
    /\ Activate(ok)
    /\ Goto(IF ok THEN "gadget_up" ELSE "booting", "run")
    /\ UNCHANGED <<ctx, mem, sync, dm, fs, clean>>

Boot ==
    \/ BootUnmount \/ BootCleanup \/ BootAddLUNs
    \/ \E ok \in BOOLEAN : BootConfigure(ok) \/ BootActivate(ok)

-----------------------------------------------------------------------------
(* Waiting: for the home network, for the car to go idle.                   *)

devices == <<usb, dm, fs, clean>>

GadgetUp ==
    /\ Enter("gadget_up")
    /\ Goto("waiting_for_wifi", "run")
    /\ UNCHANGED <<ctx, mem, sync, devices>>

WaitForWifi ==
    /\ Enter("waiting_for_wifi")
    /\ Goto("waiting_for_wifi", "wifi")
    /\ UNCHANGED <<ctx, mem, sync, devices>>

WifiConnected ==
    /\ At("waiting_for_wifi", "wifi") /\ home
    /\ Goto("pre_archive", "run")
    /\ UNCHANGED <<ctx, mem, sync, devices>>

WaitForIdle ==
    /\ Enter("pre_archive")
    /\ Goto("pre_archive", "idle")
    /\ UNCHANGED <<ctx, mem, sync, devices>>

(* WaitForIdle returns: idle, an error or ctx done; all three proceed.      *)
IdleReturned ==
    /\ At("pre_archive", "idle")
    /\ Goto("pre_archive", "delay")
    /\ UNCHANGED <<ctx, mem, sync, devices>>

DelayOver ==
    /\ At("pre_archive", "delay")
    /\ Goto("snapshot", "run")
    /\ UNCHANGED <<ctx, mem, sync, devices>>

Waiting ==
    \/ GadgetUp \/ WaitForWifi \/ WifiConnected
    \/ WaitForIdle \/ IdleReturned \/ DelayOver

-----------------------------------------------------------------------------
(* createSnapshot() and snapshot.CreateWithCOWSize()                        *)

(* Mutant: the error of Deactivate is logged and ignored.                   *)
SnapshotDeactivate_Ignored(ok) ==
    /\ Enter("snapshot")
    /\ Deactivate(ok)
    /\ Goto("snapshot", "stale_dm")
    /\ UNCHANGED <<ctx, mem, sync, dm, fs, clean>>

SnapshotDeactivate(ok) ==
    /\ Enter("snapshot")
    /\ Deactivate(ok)
    /\ IF ok THEN Goto("snapshot", "stale_dm") ELSE Goto("cleanup", "run")
    /\ UNCHANGED <<ctx, mem, sync, dm, fs, clean>>

(* Mutant: the drive is brought back before the snapshot is created.        *)
CreateCleanup_Early ==
    /\ At("snapshot", "stale_dm")
    /\ RemoveDm
    /\ Activate(TRUE)
    /\ Goto("snapshot", "hot_add")
    /\ UNCHANGED <<ctx, mem, sync, fs, clean>>

CreateCleanup ==
    /\ At("snapshot", "stale_dm")
    /\ RemoveDm
    /\ Goto("snapshot", "hot_add")
    /\ UNCHANGED <<ctx, mem, sync, usb, fs, clean>>

(* Mutant: Create without the deferred Release.                             *)
CreateFails_NoUndo ==
    /\ At("snapshot", pc) /\ pc \in {"hot_add", "cow_size", "dm_origin", "dm_snap"}
    /\ Fails("build")
    /\ Goto("snapshot", "reactivate")
    /\ UNCHANGED <<ctx, mem, sync, devices>>

(* An error of any command of Create starts its deferred Release; the new   *)
(* Snapshot has no mountpoint, so that begins with dmsetup remove.          *)
CreateFails ==
    /\ At("snapshot", pc) /\ pc \in {"hot_add", "cow_size", "dm_origin", "dm_snap"}
    /\ \/ Fails("build")
       \/ pc = "hot_add" /\ zram = Zram
       \/ pc = "dm_origin" /\ origin
       \/ pc = "dm_snap" /\ cow # NoZram
    /\ Goto("snapshot", "release_dm")
    /\ UNCHANGED <<ctx, mem, sync, devices>>

HotAdd ==
    /\ At("snapshot", "hot_add")
    /\ \E z \in Zram \ zram : szram' = z /\ zram' = zram \cup {z}
    /\ Goto("snapshot", "cow_size")
    /\ UNCHANGED <<ctx, gad, snap, sync, usb, origin, cow, torn, fs, clean>>

SizeCow ==
    /\ At("snapshot", "cow_size")
    /\ Goto("snapshot", "dm_origin")
    /\ UNCHANGED <<ctx, mem, sync, devices>>

CreateOrigin ==
    /\ At("snapshot", "dm_origin") /\ ~origin
    /\ origin' = TRUE
    /\ Goto("snapshot", "dm_snap")
    /\ UNCHANGED <<ctx, mem, sync, usb, zram, cow, torn, fs, clean>>

(* Mutant: "ok = true" is missing, so the deferred Release runs on success. *)
CreateSnapshot_NotOk ==
    /\ At("snapshot", "dm_snap") /\ cow = NoZram
    /\ cow' = NoZram /\ origin' = FALSE /\ torn' = {}
    /\ zram' = zram \ {szram} /\ szram' = NoZram
    /\ snap' = TRUE
    /\ Goto("fsck", "run")
    /\ UNCHANGED <<ctx, gad, sync, usb, fs, clean>>

CreateSnapshot ==
    /\ At("snapshot", "dm_snap") /\ cow = NoZram
    /\ cow' = szram /\ torn' = {}
    /\ snap' = TRUE
    /\ Goto("fsck", "run")
    /\ UNCHANGED <<ctx, gad, szram, sync, usb, zram, origin, fs, clean>>

(* Mutant: createSnapshot returns its error without reactivating.           *)
SnapshotReactivate_Forgotten(ok) ==
    /\ At("snapshot", "reactivate")
    /\ Goto("cleanup", "run")
    /\ UNCHANGED <<ctx, mem, sync, usb, dm, fs, clean>>

(* "Try to reactivate gadget even if snapshot fails."                       *)
SnapshotReactivate(ok) ==
    /\ At("snapshot", "reactivate")
    /\ Activate(ok)
    /\ Goto("cleanup", "run")
    /\ UNCHANGED <<ctx, mem, sync, dm, fs, clean>>

Snapshotting ==
    \/ CreateCleanup \/ CreateFails \/ HotAdd \/ SizeCow \/ CreateOrigin
    \/ CreateSnapshot
    \/ \E ok \in BOOLEAN : SnapshotDeactivate(ok) \/ SnapshotReactivate(ok)

-----------------------------------------------------------------------------
(* Snapshot.Release(): of a failed Create, or of cleanupSnapshot().         *)

ReleaseUmount ==
    /\ At("cleanup", "release_mnt")
    /\ Unmount(Cam)
    /\ Goto("cleanup", "release_dm")
    /\ UNCHANGED <<ctx, mem, sync, usb, dm, orphans, clean>>

ReleaseDm ==
    /\ pc = "release_dm"
    /\ RemoveDm
    /\ clean' = (clean /\ cow' = NoZram /\ ~origin')
    /\ Goto(state, "release_zram")
    /\ UNCHANGED <<ctx, mem, sync, usb, fs>>

(* hot_remove fails while the device still backs the snapshot. The handle   *)
(* forgets the device either way. cleanupSnapshot drops it, too.            *)
ReleaseZram ==
    /\ pc = "release_zram"
    /\ \/ szram # cow /\ zram' = zram \ {szram}
       \/ (szram \in {cow, NoZram} \/ Fails("remove")) /\ UNCHANGED zram
    /\ clean' = (clean /\ szram \notin zram')
    /\ szram' = NoZram /\ snap' = (snap /\ state = "snapshot")
    /\ IF state = "snapshot" THEN Goto("snapshot", "reactivate")
                             ELSE Goto("waiting_for_wifi", "pause")
    /\ UNCHANGED <<ctx, gad, sync, usb, origin, cow, torn, fs>>

(* Mutant: cleanupSnapshot does not call Release.                           *)
Cleanup_NoRelease ==
    /\ Enter("cleanup")
    /\ Goto("waiting_for_wifi", "pause")
    /\ UNCHANGED <<ctx, mem, sync, devices>>

(* Mutant: the gadget is unbound for the cleanup, too.                      *)
Cleanup_Unbinds ==
    /\ Enter("cleanup")
    /\ Deactivate(TRUE)
    /\ IF snap THEN Goto("cleanup", "release_mnt")
               ELSE Goto("waiting_for_wifi", "pause")
    /\ UNCHANGED <<ctx, mem, sync, dm, fs, clean>>

Cleanup ==
    /\ Enter("cleanup")
    /\ IF snap THEN Goto("cleanup", "release_mnt")
               ELSE Goto("waiting_for_wifi", "pause")
    /\ UNCHANGED <<ctx, mem, sync, devices>>

PauseOver ==
    /\ At("waiting_for_wifi", "pause")
    /\ Goto("waiting_for_wifi", "run")
    /\ UNCHANGED <<ctx, mem, sync, devices>>

Releasing == Cleanup \/ ReleaseUmount \/ ReleaseDm \/ ReleaseZram \/ PauseOver

-----------------------------------------------------------------------------
(* runFsck(), the reconnect, runArchive()                                   *)

FsckStart ==
    /\ Enter("fsck")
    /\ Goto("fsck", "fsck")
    /\ UNCHANGED <<ctx, mem, sync, devices>>

(* fsck.exfat repairs p5 itself; what it reports is only logged.            *)
FsckDone ==
    /\ At("fsck", "fsck")
    /\ torn' \in {torn, Written("fsck")}
    /\ Goto("reconnect", "run")
    /\ UNCHANGED <<ctx, mem, sync, usb, zram, origin, cow, fs, clean>>

Reconnect(ok) ==
    /\ Enter("reconnect")
    /\ Activate(ok)
    /\ Goto("archiving", "run")
    /\ UNCHANGED <<ctx, mem, sync, dm, fs, clean>>

(* Snapshot.Mount; an error leaves runArchive before its defers.            *)
MountSnapshot ==
    /\ Enter("archiving")
    /\ \/ /\ snap /\ cow # NoZram /\ Cam \notin mnt
          /\ mnt' = mnt \cup {Cam}
          /\ Goto("archiving", "copy")
       \/ /\ ~snap \/ Fails("build")
          /\ mnt' = mnt
          /\ Goto("media_sync", "run")
    /\ UNCHANGED <<ctx, mem, sync, usb, dm, busy, orphans, clean>>

(* Everything between the mount and the deferred Unmount; whatever its      *)
(* outcome the handler goes on.                                             *)
ArchiveReturns ==
    /\ At("archiving", "copy")
    /\ Goto("archiving", "unmount_snap")
    /\ UNCHANGED <<ctx, mem, sync, devices>>

UnmountSnapshot ==
    /\ At("archiving", "unmount_snap")
    /\ Unmount(Cam)
    /\ Goto("media_sync", "run")
    /\ UNCHANGED <<ctx, mem, sync, usb, dm, orphans, clean>>

Archiving ==
    \/ FsckStart \/ FsckDone \/ MountSnapshot \/ ArchiveReturns
    \/ UnmountSnapshot \/ \E ok \in BOOLEAN : Reconnect(ok)

-----------------------------------------------------------------------------
(* runMediaSync()                                                           *)

(* Nothing enabled, or the server is unreachable: the gadget is not touched.*)
MediaSkip ==
    /\ Enter("media_sync")
    /\ Goto("cleanup", "run")
    /\ UNCHANGED <<ctx, mem, sync, devices>>

(* Mutant: media sync leaves the gadget bound.                              *)
MediaDeactivate_Skipped(ok) ==
    /\ Enter("media_sync") /\ Enabled # {}
    /\ todo' = Enabled /\ Goto("media_sync", "media")
    /\ UNCHANGED <<ctx, mem, cur, usb, dm, fs, clean>>

MediaDeactivate(ok) ==
    /\ Enter("media_sync") /\ Enabled # {}
    /\ Deactivate(ok)
    /\ IF ok THEN todo' = Enabled /\ Goto("media_sync", "media")
             ELSE todo' = todo /\ Goto("cleanup", "run")
    /\ UNCHANGED <<ctx, mem, cur, dm, fs, clean>>

(* A partition that is absent or cannot be mounted is skipped.              *)
MediaMount(p) ==
    /\ At("media_sync", "media")
    /\ p \in todo
    /\ todo' = todo \ {p}
    /\ \/ /\ p \in Present /\ Mount(p)
          /\ cur' = p
          /\ Goto("media_sync", "media_copy")
          /\ UNCHANGED orphans
       \/ /\ \/ p \in Present /\ MountFails(p)
             \/ p \notin Present /\ UNCHANGED <<mnt, busy>>
          /\ orphans' = {q \in orphans : q \in mnt' \cup busy'}
          /\ Goto("media_sync", "media")
          /\ UNCHANGED cur
    /\ UNCHANGED <<ctx, mem, usb, dm, clean>>

MediaCopied ==
    /\ At("media_sync", "media_copy")
    /\ Goto("media_sync", "media_unmount")
    /\ UNCHANGED <<ctx, mem, sync, devices>>

(* A failed umount is only logged: the partition stays mounted.             *)
MediaUnmount ==
    /\ At("media_sync", "media_unmount")
    /\ Unmount(cur)
    /\ orphans' = {q \in orphans \cup {cur} : q \in mnt' \cup busy'}
    /\ cur' = NoPart
    /\ Goto("media_sync", "media")
    /\ UNCHANGED <<ctx, mem, todo, usb, dm, clean>>

(* The deferred Activate; its error is only logged.                         *)
MediaReactivate(ok) ==
    /\ At("media_sync", "media") /\ todo = {}
    /\ Activate(ok)
    /\ Goto("cleanup", "run")
    /\ UNCHANGED <<ctx, mem, sync, dm, fs, clean>>

MediaSyncing ==
    \/ MediaSkip \/ MediaCopied \/ MediaUnmount
    \/ \E p \in Media : MediaMount(p)
    \/ \E ok \in BOOLEAN : MediaDeactivate(ok) \/ MediaReactivate(ok)

-----------------------------------------------------------------------------
(* The process, and the world around it.                                    *)

(* The process is gone and so is its memory; kernel objects stay. Its       *)
(* mounts stay with the host or go with its mount namespace.                *)
Die ==
    /\ Goto("booting", "down")
    /\ cancelled' = FALSE /\ gad' = FALSE /\ snap' = FALSE /\ szram' = NoZram
    /\ todo' = {} /\ cur' = NoPart
    /\ mnt' \in {mnt, {}} /\ UNCHANGED <<busy, home>>
    /\ orphans' = Media \cap (mnt' \cup busy)
    /\ clean' = (clean /\ zram = {} /\ ~origin /\ mnt' \cup busy = {})
    /\ UNCHANGED dm

(* SIGTERM or SIGINT cancels ctx.                                           *)
Cancel ==
    /\ Fails("stop") /\ pc # "down" /\ ~cancelled
    /\ cancelled' = TRUE
    /\ UNCHANGED <<state, pc, home, mem, sync, devices>>

(* ctx is seen done at the top of the loop: the gadget is unbound, the      *)
(* snapshot is not released.                                                *)
Shutdown ==
    /\ cancelled /\ pc = "run"
    /\ IF gad THEN \E ok \in BOOLEAN : Deactivate(ok) ELSE UNCHANGED usb
    /\ Die

(* ctx is seen done inside a wait: Run returns at once.                     *)
ShutdownInWait ==
    /\ cancelled /\ pc \in {"wifi", "delay", "pause"}
    /\ UNCHANGED usb
    /\ Die

Crash ==
    /\ Fails("crash") /\ pc # "down"
    /\ UNCHANGED usb
    /\ Die

(* Power loss: nothing of the kernel's state is left.                       *)
PowerLoss ==
    /\ Fails("power")
    /\ Goto("booting", "down")
    /\ cancelled' = FALSE /\ gad' = FALSE /\ snap' = FALSE /\ szram' = NoZram
    /\ todo' = {} /\ cur' = NoPart
    /\ bound' = FALSE /\ luns' = {} /\ zram' = {} /\ origin' = FALSE
    /\ cow' = NoZram /\ mnt' = {} /\ busy' = {}
    /\ orphans' = {} /\ clean' = TRUE /\ actFailed' = FALSE /\ torn' = {}
    /\ UNCHANGED home

(* systemd: Restart=always.                                                 *)
Start ==
    /\ pc = "down"
    /\ Goto("booting", "run")
    /\ UNCHANGED <<ctx, mem, sync, devices>>

(* The car writes clips to its cam drive.                                   *)
CarWrites ==
    /\ bound /\ Cam \in luns
    /\ torn' = Written("car")
    /\ UNCHANGED <<state, pc, ctx, mem, sync, usb, zram, origin, cow, fs, clean>>

(* The last user of a lazily unmounted file system closes it.               *)
Drain(p) ==
    /\ p \in busy
    /\ busy' = busy \ {p}
    /\ orphans' = {q \in orphans : q \in mnt \cup busy'}
    /\ UNCHANGED <<state, pc, ctx, mem, sync, usb, dm, mnt, clean>>

Move ==
    /\ home' = ~home
    /\ UNCHANGED <<state, pc, cancelled, mem, sync, devices>>

Environment ==
    \/ Cancel \/ Crash \/ PowerLoss \/ CarWrites \/ Move
    \/ \E p \in Partitions : Drain(p)

Handlers ==
    \/ Boot \/ Waiting \/ Snapshotting \/ Releasing \/ Archiving
    \/ MediaSyncing

Next == Handlers \/ Start \/ Shutdown \/ ShutdownInWait \/ Environment

Spec == Init /\ [][Next]_vars

(* The daemon runs and systemd restarts it; an operation retried forever    *)
(* succeeds in the end; the car keeps coming home.                          *)
Fairness ==
    /\ WF_vars(Handlers \/ Start \/ Shutdown \/ ShutdownInWait)
    /\ SF_vars(BootConfigure(TRUE)) /\ SF_vars(BootActivate(TRUE))
    /\ SF_vars(SnapshotDeactivate(TRUE)) /\ SF_vars(SnapshotReactivate(TRUE))
    /\ SF_vars(Reconnect(TRUE)) /\ SF_vars(WifiConnected)
    /\ WF_vars(~home /\ Move)

FairSpec == Spec /\ Fairness

-----------------------------------------------------------------------------
(* Properties                                                               *)

(* Every variable has its type.                                             *)
TypeOK ==
    /\ state \in States /\ pc \in Steps
    /\ cancelled \in BOOLEAN /\ home \in BOOLEAN
    /\ gad \in BOOLEAN /\ snap \in BOOLEAN /\ szram \in Zram \cup {NoZram}
    /\ todo \subseteq Media /\ cur \in Media \cup {NoPart}
    /\ bound \in BOOLEAN /\ luns \subseteq Partitions /\ actFailed \in BOOLEAN
    /\ zram \subseteq Zram /\ origin \in BOOLEAN /\ cow \in Zram \cup {NoZram}
    /\ torn \subseteq {"car", "fsck"}
    /\ mnt \subseteq Partitions /\ busy \subseteq Partitions
    /\ orphans \subseteq Media /\ clean \in BOOLEAN

(* While the loop holds a snapshot and is not releasing it, all it consists *)
(* of exists: the origin, the snapshot on this very handle's zram device,   *)
(* and that device. What is copied from /mnt/snap is this cycle's snapshot, *)
(* never one a crash or a failed release left there (createSnapshot,        *)
(* Cleanup, Mount and Release, main.go:290-328, snapshot.go:40-160).        *)
SnapshotBacksHandle ==
    /\ snap /\ pc \notin {"release_dm", "release_zram"} =>
           origin /\ cow = szram /\ szram \in zram
    /\ pc = "copy" => snap /\ Cam \in mnt

(* The car and the Pi never both have a media partition's file system: one  *)
(* that is exported and in use on the Pi was left so by a failed umount or  *)
(* by a process that died (runMediaSync, main.go:491-540).                  *)
MediaExclusive ==
    \A p \in Media : bound /\ p \in luns /\ InUse(p) => p \in orphans

(* fsck repairs p5 only while the car cannot write it (main.go:162-174).    *)
FsckOffline == pc = "fsck" => ~bound

(* Between cycles nothing of a snapshot is left: whichever command of       *)
(* Create, Mount or the archive failed, Release gave back the mount, both   *)
(* dm devices and the zram device, unless a command of Release itself       *)
(* failed or a process died holding them (snapshot.go:54-62, 126-160).      *)
CleanBetweenCycles ==
    clean /\ state \in {"gadget_up", "waiting_for_wifi", "pre_archive"} =>
        zram = {} /\ ~origin /\ cow = NoZram /\ ~InUse(Cam)

(* Every path that takes the drive away from the car tries to bring it      *)
(* back: if the loop waits with the drive gone, the last Activate failed    *)
(* (main.go:298-301, 168-174, 496-500).                                     *)
DriveBackBetweenCycles ==
    state \in {"gadget_up", "waiting_for_wifi", "pre_archive", "cleanup"} /\ ~bound
        => actFailed

(* The drive is pulled from the car only to boot, to take a snapshot, to    *)
(* sync media or to stop: never while the loop waits, copies or cleans up.  *)
DrivePulledOnPurpose ==
    [][bound /\ ~bound' =>
          state \in {"booting", "snapshot", "media_sync"} \/ pc' = "down"]_vars

(* The zram devices no handle stands for.                                   *)
Leaked == zram \ {szram}

(* A zram device leaks only when the process dies with it, or when Release  *)
(* drops its handle: one device each, also in the cycles after the first    *)
(* failure, about which "clean" says nothing more (snapshot.go:39-70,       *)
(* 149-160).                                                                *)
LeaksAccounted ==
    [][\/ Leaked' \subseteq Leaked
       \/ /\ pc' = "down" \/ pc = "release_zram"
          /\ Leaked' \subseteq Leaked \cup {szram}]_vars

(* A snapshot is taken only of a partition the car is not writing: the      *)
(* drive is gone when the target is created (main.go:290-303).              *)
SnapshotTakenOffline ==
    [][cow' \notin {cow, NoZram} => ~bound /\ ~bound']_vars

View == INSTANCE Drive

(* The partitions on the drive change only while the car does not see it:   *)
(* boot rebuilds the gadget only after it unbound it (main.go:209-245).     *)
ImplementsDrive == View!Spec

Image == INSTANCE Snapshot
         WITH Devices <- Zram, NoDevice <- NoZram, image <- cow, inUse <- InUse(Cam)

(* The snapshot of a cycle is taken while the car is cut off and there is   *)
(* no other, is not given up or replaced while anybody uses it, and nobody  *)
(* but fsck writes below it before the drive is back (main.go:162-181,      *)
(* snapshot.go:40-160).                                                     *)
ImplementsSnapshot == Image!Spec

(* Once the process stops dying, the car gets its drive back whenever it is *)
(* gone, whatever else fails now and then (main.go:119-125, 298-301).       *)
DriveReturns == <>[](pc # "down") => (~bound ~> bound)

(* A snapshot taken is given up again: no outcome of fsck, the reconnect,   *)
(* the archive or media sync keeps the loop from Release, or the process is *)
(* gone (main.go:162-196).                                                  *)
SnapshotGivenUp == snap ~> ~snap

(* The comment of boot (main.go:203-207): "Reconcile any kernel state left  *)
(* behind by a previous (possibly crashed) run [...] leftover mounts /      *)
(* dm-snapshot devices / zram / a bound gadget": no zram device is left.    *)
BootFreesZram == state = "gadget_up" => zram = {}

(* "We archive from the snapshot, not the live partition" (main.go:170):    *)
(* what is copied is p5 as it was when the snapshot was created.            *)
ArchivesFrozenImage == pc = "copy" => "car" \notin torn
=============================================================================
