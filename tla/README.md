# teslausb-neo: a TLA+ verification project

teslausb-neo is a Go daemon for a Raspberry Pi that poses as a USB drive to a
car. The car records clips on it; when the car is home and idle the daemon takes
the drive away, snapshots the cam partition, gives the drive back, copies the
new clips to a server, synchronises media folders, and starts over. This
directory holds TLA+ modules of the parts of it that keep state and can go wrong
in ways a test hardly reaches, TLC configurations that check them on small
instances, and TLAPS proofs for every value of the constants.

## Inventory

| Part (source) | State | Operations | What is hard | What makes it correct |
|---|---|---|---|---|
| Control loop (`cmd/teslausb/main.go`) | the ten states of `StateMachine`, the gadget and snapshot handles | one handler per state, `boot`, shutdown on a signal | every command can fail, the process can die at any of them (`Restart=always`), the car and the network act meanwhile | the car gets its drive back; nobody else touches a partition the car can write; nothing is left between cycles |
| Snapshot (`internal/snapshot`) | kernel: zram device, two dm targets, a mount | `Create`, `Mount`, `Release`, `Cleanup` | a failing command in the middle, devices a dead process left, removal order | the handle stands for complete devices; a release gives all of them back |
| USB gadget (`internal/gadget`) | kernel: configfs tree, LUNs, UDC binding | `Configure`, `AddLUN`, `SetNofua`, `Activate`, `Deactivate` | a tree a dead process left, a partly built tree | the car sees the right partitions, or none |
| File system helpers (`internal/fsutil`) | mounts | `Mount`, `Unmount` (lazy second try), `RunFsck` | umounts that fail or stay in use | no partition is in use on both sides |
| Archive session (`runArchive`, `internal/state`) | `archive_sessions`, `archived_files` | create, scan, filter, mark, complete, fail | paths are marked before they are copied; statements fail and errors are dropped; crashes | what a completed session recorded is on the server; nothing is sent twice |
| Archive backends (`internal/archive`) | a mount and a credentials file (CIFS, NFS) | `Connect`, `ArchiveFiles`, `SyncMedia`, `Disconnect` | failures half-way, a cancelled context | every connection is closed |
| Idle watcher (`internal/fswatch`) | three local states, a time | `WaitForIdle` | late polls, bursts, a writer that never stops | idle is declared after the whole timeout without writes, and then at once |
| Wifi manager (`internal/wifi`) | the watchdog's failure count; a profile file | `RunWatchdog`, `EnsureHomeConnection` | a failed reboot, a failed scan, a failed reload, a start that dies between two steps | reboot only after the maximum of consecutive failures; home again in the end |
| Wake keepers (`internal/tesla`) | a goroutine and its channel | `Start`, `Stop`, `Nudge` | start and stop against the goroutine, in one cycle after another | the car is kept awake while clips are copied; `Stop` returns and leaves nothing |
| Supervision (`internal/sdnotify`, the systemd unit) | - | `READY=1`, `WATCHDOG=1` on a ticker | the ticker is independent of the loop | a hung daemon is restarted |
| Provisioning (`teslausb-provision.sh` and its unit, `setup.sh`) | the partition table | create, format | power loss in between | the car is only given formatted partitions |
| Start-up (`main`) | - | configuration, database, wifi profile, goroutines, loop | each step may fail or be the last one | the gadget comes up in the end |
| Archive cycle (`runArchive`, `runMediaSync`) | what it has taken: snapshot mount, wake keeper, governor, connection | one `defer` for each | an error, a signal or a death between any two | everything is given back |
| Configuration (`internal/config`) | - | `Load`, `Validate` | settings that silently do nothing | each is warned about |
| Health, notifications, tuning, web (`internal/{health,notify,sys,web}`) | none that a decision rests on (but the CPU governor) | ticks, requests, writes of constants | - | - |

How they meet: the control loop calls all others, one at a time, in one
goroutine. The gadget, the snapshot and the mounts meet in the kernel: what
counts is which of them hold a partition at one moment. The loop waits for the
wifi manager's answer and for the idle watcher. An archive session reads the
mounted snapshot and writes the database and, through a backend, the server. A
signal cancels the context that every wait and every child process watches.
Systemd starts the daemon again when it dies; the kernel's objects, the database
and the files on the server are still there, its memory is not. Background
goroutines (wifi watchdog, health, systemd watchdog, web) share only the context
with the loop.

`PROJECT.json` lists the components with what each module leaves out, and the
hazards of the code, each at its line with the properties that would catch it.

## Modules

| Module | Models |
|---|---|
| `StateMachine` | the control loop, command by command, with the kernel objects it drives |
| `Gadget` | the configfs tree of the USB gadget: built, torn down, bound and unbound |
| `Drive` | the abstract drive the car sees, which `StateMachine` and `Gadget` both implement |
| `Snapshot` | the abstract snapshot the archive reads, which `StateMachine` implements |
| `ArchiveSession` | the sessions of `runArchive`, the `ArchiveFiles` loop, the database |
| `Share` | the connections of the four archive backends and what goes over them |
| `WakeKeeper` | the keepers that `runArchive` starts and stops, with the goroutine of the BLE one |
| `ArchiveCycle` | `runArchive` and `runMediaSync` as a whole: `ArchiveSession`, `Share` and `WakeKeeper` composed, with the snapshot's mount and the governor |
| `IdleWatcher` | `WaitForIdle` |
| `Provision` | `teslausb-provision.sh` and its unit |
| `WifiManager` | the wifi watchdog and `EnsureHomeConnection`, against NetworkManager and the network |
| `Device` | the device from power-on: `Provision` and `WifiManager` composed with the start of the daemon |
| `MC*` | the instances TLC checks: constants, sets of faults, symmetry |
| `*_proofs` | inductive invariants, lemmas and theorems for TLAPS |

### StateMachine

`state` is `sm.state`; `pc` is the next command of the handler of that state, and
`"run"` is the head of the loop, where the context is looked at (`Enter`). One
action is one command that can fail by itself, so that a crash, a signal, the car
and the network come between any two. Commands with an outcome take it as the
parameter `ok`; an error may come only if `Faults` has its kind.

Of the kernel the module keeps what the commands change: `bound` and `luns` (the
gadget), `zram`, `origin`, `cow` (the snapshot's devices; `cow` is the zram device
the snapshot target uses), `mnt` (mounted) and `busy` (unmounted lazily, still in
use). `Die` drops the memory of the process and keeps the kernel; its mounts stay
or go, because the unit runs in a mount namespace of its own. `PowerLoss` drops
both. `todo` is a set: `order` is the order in which two independent partitions
are served.

The history variables: `clean` (no command of a release failed and no process
died with devices), `orphans` (media partitions a failed umount or a death left in
use), `actFailed` (the last `Activate` failed), `torn` (who wrote p5 past the
snapshot).

What is taken from outside the code, and not stated by it:

- an empty write to the `UDC` attribute unbinds (as the comment of `clearUDC`
  says) and the Pi has one UDC, so the branch of `Activate` for another one is
  not taken;
- a write to a device below a snapshot-origin target does not pass through the
  target and saves nothing to the COW store;
- a dm target is not removed while it is in use, a zram device not while a
  target uses it;
- the no-op backend (an unknown `archive.system`) and a COW store that
  overflows are left out.

### Drive and Gadget

`Drive` is what the car relies on: a drive is there or not, and the partitions on
it change only while it is not. The car caches a file system it sees; changing the
backing devices under it would corrupt them. `StateMachine` and `Gadget` state
`ImplementsDrive` (`INSTANCE Drive`) as a property: in the first `bound` and `luns`
are variables of the same names, in the second `bound` is the UDC attribute and
`luns` the set of backing files in the tree.

`Gadget` is `gadget.go` with the part of `boot` that calls it, one action per step
of `Configure`, `AddLUN`, `SetNofua`, `Activate` and `Deactivate`. `LUNs` is the
handle (a sequence of devices), `tree`, `linked`, `udc`, `file` and `nofua` are
configfs, which survives the process. `present` is which of the partitions
have a device node; it is chosen once. Every write may fail, an `AddLUN` before or
after it wrote the backing file; a removal may leave any LUNs behind. `kept` and
`missed` are histories: a removal failed in part, an `AddLUN` failed. The kernel's
part is: a bound gadget refuses writes to `stall` and the removal of its LUNs, a
linked function stays until the link is removed, and the removal of the link
unbinds or fails.

### Snapshot

`Snapshot` is what the archive relies on. A snapshot is taken (`Take`) only where the
car is cut off, there is none and nobody uses one; it is neither given up (`GiveUp`) nor
replaced while a file system on it is mounted or in use; and while the drive is away only
fsck writes below it (`Repair`, `Tear`). That the car may tear it once the drive is back
is the finding `frozen`, and is allowed. `StateMachine` states `ImplementsSnapshot` with
`image <- cow` and `inUse <- InUse(Cam)`: the snapshot exists when its dm target does,
however many devices `Create` has made by then, and it is in use also when its umount was
lazy.

### ArchiveSession

An entry is one name in a clip folder; `cam`, `shot` and `remote` count its files
on the car's drive, at the last scan and on the server. `row` is the table
`archived_files` (which session marked the path), `status` and `counted` are
`archive_sessions`. `pc` is the step of `runArchive`, `index`, `cur` and `todo` the
loop of `ArchiveFiles`; the order of the list does not matter and is left out.
Every statement, every copy and every `ReadDir` may fail; a failed query counts as
"not archived", as `IsArchived` does it. A copy brings over at least what the scan
saw and at most what is on the drive, since the snapshot is not frozen (see the
findings). The session's returns before `CreateSession` change nothing and are
part of "no session starts". `Session(reaches)` is one step of a session; `reaches`
says whether what it writes gets to the server, which depends on the connection and
is TRUE in `ArchiveSession` by itself. That it may be taken for TRUE is a theorem
about `ArchiveCycle`. `slips` is a history: the entries a statement of the database
failed for.

### Share

`backend` is one of `cifs`, `nfs` and `remote` (rsync and rclone, whose `Connect`
and `Disconnect` do nothing). `pc` is the step of `Connect`, of the work of
`runArchive` (`"archive"`) or `runMediaSync` (`"media"`), or of `Disconnect`; the
two callers have the same shape around a connection, and each may run without the
other, since each returns early for its own reasons. `mounts` counts the mounts of
the share, one above the other; whether `mount` accepts a second one or answers
"busy" is left open. Once the context is cancelled no command starts, so `umount`
does not either. `Die` may take mounts and temporary files with it, because the
unit has `PrivateTmp=true`. `places` is where a folder of the server was put on the
car's partition; `local` says that footage went below a mountpoint with no share.
`stuck` and `lost` are histories of what failed calls and dead processes left.

### WakeKeeper and ArchiveCycle

`WakeKeeper` has the state of the keepers: `running` is `b.cancel != nil`, `loop` is
where the goroutine is, `loopCtxDone` that `cancel` was called. `Stop` is two steps,
because it gives up its lock before it waits for `done`. A nudge ends by itself or is
killed with its context, so `Nudged` needs no guard; a `select` with a tick and a
cancelled context may take either. `told` is what the receiver of the webhook
believes. Methods, `ctxDone` and failures of the posts are all combined.

`ArchiveCycle` extends `ArchiveSession` and instantiates `Share` and `WakeKeeper` on
variables of its own. `step` is the statement of `runArchive` (or `"media"` for
`runMediaSync`); each action is a statement of `runArchive`, one of the deferred
functions, or a step of a part that the statement stands for. The parts share one
context (`cancelled`) and one process (`Die` is `H!Die`, `K!Gone` and `Crash` at once). The
deferred calls are the steps `return`, `disconnect`, `restore`, `stop`, `stopping` and
`unmount`, and every early return of the code goes to the one that is due first.
`slack` is a history: what a failed umount, a failed write of the governor, a failed
post or a death left held. `Start` is what `main` and `boot` do about it.

A copy under a cancelled context does not succeed (`Work`). The order of the loop, in
which media sync comes after an archive, is left open: both begin from `idle`.

### Provision, WifiManager and Device

`Provision` has the partitions in the table, those with a file system, and the next
command of the script. Partitions and file systems survive; `unit` is of one boot. The
unit is skipped, which counts as success, when `/dev/mmcblk0p5` exists. With an
extended partition that reaches to the end of the card the script finds no room and
gives up (`Check`).

`WifiManager` has the settings that matter (`password`, `hidden`, `interval`, chosen
once), the profile on disk and the one NetworkManager has loaded, the network, and the
watchdog: `dog` is the step of `watchdogTick`, `failures` its count, `streak` a history
of reconnects that failed in a row. A query, a scan or a reconnect may fail for
reasons of its own; the network comes and goes as it likes.

`Device` composes them: the provisioning unit before the daemon, `main` step by step
(`daemon`), deaths, the panic of `NewTicker`, the reboot the watchdog asks for, power
cuts. `cut` is a history (a boot ended in the middle of provisioning or after it
failed), `skew` another (a start wrote the profile and did not get to the reload).
What is taken from outside the code: Buildroot enables both units, so that
`RequiredBy=` of the provisioning unit counts; the reload by `nmcli` works only while
NetworkManager runs; NetworkManager reads the profiles when it starts, and connects a
profile with `autoconnect` whenever it can.

There are two ways to install the program, and `image` says which one was taken. On the
Buildroot image (`"buildroot"`) the script makes the partitions at the first boot, and
the unit does not let the daemon write below `/etc` (`EtcWritable`; `ProtectSystem=strict`,
teslausb.service:14-18), so that `BeginWrite` is never taken and `WriteFails` always is. On
Raspberry Pi OS (`"raspios"`) `setup.sh` has made all partitions (`SetUp`), there is no
provisioning unit, and the unit it writes protects nothing: the write may succeed or fail.
`Init` chooses, so every run and every theorem has both.

### IdleWatcher

Time is counted in poll intervals, a poll spans 1 to `MaxGap` of them. `busy` says
that the threshold was reached since the last poll, which is all `delta` is used
for. `since` is `time.Since(idleSince)`, `quiet` a history of how long every poll
found less; both stop at `Timeout`.

## Runs

| Run | Instance | Shows |
|---|---|---|
| `loop_safety` | p5, p6, p7; 2 zram devices; every fault | all safety properties of the loop |
| `loop_live` | p5, p6; 1 zram device; no power cut, no failing umount; fair | the drive comes back, a snapshot is given up |
| `session_safety` | 3 entries of up to 2 files, 3 sessions, every fault, symmetric | what a completed session guarantees, what marking early can cost, what is sent twice |
| `cycle` | 1 entry, 1 session, 3 kinds of backend, every method, 1 media folder, 1 credentials file, 1 mount; fair | the car is awake while clips are copied, everything is given back, cycles end, the parts are implemented |
| `idle` | timeout 9, polls up to 3 intervals late, every fault; fair | idle means quiet, quiet returns |
| `gadget` | 3 partitions, any of them missing; every fault | the tree and the handle agree, no partition twice, the cam first, `Drive` |
| `share` | 3 kinds of backend, 2 folders, 4 credentials files, 3 stacked mounts | footage reaches the share, connections are given up |
| `device` | both images, `max_failures` 2, 3 faults, every combination of password, hidden network and interval; fair | formatted partitions, justified reboots, the profile, the gadget and, on Raspberry Pi OS, the way home |
| `boot_zram`, `frozen`, `marked`, `unattended` | the smallest that show it | the findings below |

Why these bounds. A second zram device is needed for the case "one was leaked and
the next cycle succeeds"; a third would only leak again. Two media partitions let
one be stuck while the other is served. Nothing else in `StateMachine` is bounded.
Three sessions of three entries allow: one session loses an entry, the next loses
another, a third completes around both; two files allow an entry to grow after it
was sent. In `IdleWatcher` a timeout of 9 with gaps up to 3 has the timeout reached
exactly, overshot, and interrupted. `Gadget` has the three partitions of the
device and no other bound. In `Share` three mounts and four files allow a leftover of
a failed umount, one of a death and a connection between them; the folders are only
two because they do not interact, and the third one is disabled, which must stay so.
`cycle` has any number of cycles, since nothing in it counts them: the one session and
the one credentials file are used by one of them, and those before and after it go
through every other statement, with everything an earlier one left. Cycles with sessions of several entries are `session_safety`, stacked mounts
`share`. `device` needs three faults for a power cut in provisioning, a failed reload
and a failed reboot request in one behaviour; two failures in a row let the count be
reset in the middle. What the bounds leave open for the safety
properties the proofs close, except where stated.

`ArchiveSession` and `ArchiveCycle` switch TLC's deadlock check off, because there the
bounds on sessions and files end a behaviour, and so does `Device`, whose faults are
bounded and whose daemon may wait for ever for a provisioning that failed. The loop and
the watcher never stop, and are checked for deadlock, `Gadget` and `Share` as well.

### Fairness

- `StateMachine`: weak fairness of the handlers together with the restart
  (commands return; the unit says `Restart=always`, `RestartSec=2`). Strong fairness
  of the successful outcome of the operations that the loop retries for ever or once
  per cycle (`BootConfigure`, `BootActivate`, `SnapshotDeactivate`,
  `SnapshotReactivate`, `Reconnect`): their errors are transient, one that never
  goes away refutes every promise. `WifiConnected` is strongly fair because the
  five-second ticker looks again and again, and the car comes home again and again.
  `IdleReturned` is among the handlers, so a car that writes for ever is excluded
  in `loop_live`; the code does not exclude it (see the observations below). In
  `DriveReturns` this is harmless: with the drive gone nobody writes.
- Power cuts and failing umounts are not among the faults of `loop_live`: a power
  cut repeats what a crash does to progress, and what a failing umount blocks (the
  removal of the dm devices) a failing `dmsetup remove` blocks as well, which is
  among them. This keeps the run small.
- `ArchiveCycle`: the statements of a cycle and the steps of the goroutine are weakly
  fair. `LoopReturns` is strongly fair: a `select` that finds a tick and a cancelled
  context chooses at random, again and again, and does not take the tick for ever. The
  start of a cycle, signals, deaths and the car are not fair. `CycleEnds` rests on
  nothing else.
- `Device`: systemd starts the units that are due, commands return, the ticker ticks,
  NetworkManager starts. `BootLoop(FALSE)` is strongly fair: when the watchdog reboots again
  and again, `boot` is now and then over before the count is full, which takes minutes
  with the intervals of the configuration and seconds for `boot`. Nothing is assumed of
  the network, of `autoconnect` or of faults; `HomeInTheEnd` states as its premise that
  the network stays in range, and is brought about by the watchdog alone. `unattended` has the
  same fairness and no faults, so its counterexample is not one of a system that stops.
- `IdleWatcher`: the ticker fires.

## Properties

Of the loop: `SnapshotBacksHandle` (a snapshot is never another cycle's),
`MediaExclusive` (the car and the Pi do not both use a media partition, except one
that a failed umount or a death of the process left in use), `FsckOffline`,
`CleanBetweenCycles` (whichever command failed, everything was given back),
`DriveBackBetweenCycles`, `DrivePulledOnPurpose`, `LeaksAccounted` (a zram device leaks by a
death or a failed `hot_remove`, one for each, also in the cycles after the first failure, of
which `CleanBetweenCycles` says nothing more), `ImplementsSnapshot` (offline, one at a
time, never from under its reader), `DriveReturns`, `SnapshotGivenUp`. The exceptions in them (`orphans`, `clean`,
`actFailed`) are what the code cannot keep: a release that fails is only logged and
the handle is dropped (snapshot.go:155-156, main.go:549-552).

Of the sessions: `CompletedSessionDelivers` (marking before copying is harmless in a
session that completes), `LossBounded` (and costs at most one entry in one that does
not), `RunningMeansInFlight`, `SentOnce` (only an entry a statement of the database failed
for is sent again). The four say what the sessions keep when statements fail; what the code
gives up there (a row that stays "running", an entry that goes twice) is exempt by name
(`cut`, `slips`).

Of the cycle: `ArchivesAwake` (the handshake of the keeper works in every cycle, not only
in the first), `NothingHeld` (every early return gives back what was taken, and no
more is excused than what failed or died), `CycleEnds` (`Stop` does not wait for a
goroutine that never returns), `ImplementsParts` (the sessions and the connections in it are
those of `ArchiveSession` and `Share`, so that what is shown of these holds here).

Of the device: `PresentsFormatted`, `RebootJustified` (`streak` counts anew what the code's
counter stands for), `LoadedIsCurrent`, `DaemonStaysUp`, `HomeInTheEnd`. The exceptions: once the
power goes in the middle of provisioning, the next boot either skips the unit because
p5 is there, formatted or not, or finds no room because p4 is there, and the daemon
is then never started (`cut`); a profile that was written and not loaded is found up to
date by the next start (`skew`), and is loaded by the reboot that the watchdog asks for
because it cannot reconnect; an interval of 0 panics at every start. `HomeInTheEnd` is
`HomeOn("raspios")`: the Pi gets home if its network stays in range, the password is right, the
watchdog is enabled with a positive interval, and the network is not hidden, since the
scan drops a hidden one (see the observations) and the watchdog then never tries it. The
same of the Buildroot image, `JoinsUnattended`, is what its documents promise, and is false.

Of the watcher: `IdleMeansQuiet`, `QuietReturns`.

Of the gadget: `ImplementsDrive` (also of the loop), `HandleMatchesTree` (the next
LUN number is the number of LUNs so far, so an `AddLUN` that failed after it wrote its
file must be overwritten by the next), `OneLunEach` (also after a death in the
middle of boot, when the handle is empty and the tree is not), `CamIsLun0`. The last two
have exceptions the code cannot keep: a removal that failed in part leaves LUNs with
their files, and after a failed `AddLUN` of the cam the music partition is LUN 0.

Of the connections: `FootageReachesShare`, `MountsGivenUp`, `FilesGivenUp`. A
failed umount leaves a mount, and no step of the code unmounts it later: `Connect`
either mounts above it or fails as long as the process lives.

## Findings

Each is a run of one property that a comment or document of the repository states
and the code does not keep.

1. `boot_zram`: boot's comment names zram among the leftovers it reconciles
   (main.go:203-206); a death with a snapshot leaks one zram device until the next
   power cycle.
2. `frozen`: "We archive from the snapshot, not the live partition" (main.go:170):
   the gadget exports the raw partition, not the snapshot-origin device, so what the
   car writes after the reconnect shows in the snapshot.
3. `marked`: `MarkArchived` "records that a file has been successfully archived"
   (state/archive.go:8) and is called before the copy; an entry whose copy fails is
   never sent again.
4. `unattended`: the daemon "provisions a NetworkManager connection profile" at startup,
   "so the Buildroot image [...] can join the network unattended" (config.go:70-73; also
   main.go:702-705, provision.go:55-57, README.md:208 of the repository). The unit of that
   image has `ProtectSystem=strict` and no `ReadWritePaths=` below `/etc`
   (teslausb.service:14, 18), where the profile goes (provision.go:15, 65): every write fails
   with a log line, and the Pi is never connected. `ImageStaysUnprovisioned` proves it for
   any number of faults and reboots.

Observations made while reading, with no run of their own:

- The scan lists the entries of the clip folders, in practice event directories, not
  files (main.go:583); a file the car adds to a directory that is marked already is not
  sent, though README.md:34 speaks of new files.
- The sounds "live in a Boombox/ folder on the lightshow drive" (main.go:218-219); the
  destination gets the subdirectory from `runMediaSync` and the folder's name from
  `SyncMedia` (main.go:521-523, rsync.go:102 and the others), and they end in
  `Boombox/Boombox/`. The theorem `FoldersButBoombox` states where every folder goes.
- The count of archived files is the index of the last one, one too few (main.go:406).
- boot's comment also names media mounts and boot unmounts only `/mnt/snap`
  (main.go:203-208; `orphans` in `MediaExclusive`).
- With `cpu_governor = ""` the governor of archiving is never given back: the deferred
  `SetCPUGovernor("")` fails, and `ApplyAll` skips it too (main.go:342, tuning.go:136).
- `wake.Stop` gets the context of the loop: once a signal came, the webhook's "stop" is never
  posted (main.go:335, webhook.go:41-49), and the receiver keeps the car awake (`slack` in
  `NothingHeld`).
- `Start` and `Stop` of the Tessie keeper do nothing and nobody calls its `Nudge`
  (tessie.go:25-35): `wake.method = "tessie"` keeps no car awake.
- A hidden network is listed with an empty name, which the scan drops (wifi.go:216), so the
  watchdog takes a hidden home for an absent one. With a wrong password the watchdog
  reboots for ever (`DaemonStaysUp` allows it).
- Power lost in the middle of provisioning is final: no later boot formats what is left.
- README.md:19 promises an "auto-reboot on hang"; the watchdog of systemd is answered by a
  goroutine that does not look at the loop (main.go:744-761).
- README.md:425 calls the idle timeout the maximum wait, which has no maximum
  (fswatch.go:75, 104).
- `NewRclone` wants a remote with its colon (`"gdrive:"`, rclone.go:19-20) and gets
  `"teslausb"` (main.go:597); the topic of ntfy is the constant `"default"` (main.go:610),
  whatever the configuration says; an error of the VM parameters makes `ApplyAll` skip the
  rest (tuning.go:127); `StartAP` has no caller.

## Proofs

`tlapm` checks every leaf; nothing is assumed but the named assumptions on the
constants (`PartitionsAssumption`, `ZramAssumption`, `FaultsAssumption`,
`BoundsAssumption`, `EntriesAssumption`, `SessionFaultsAssumption`,
`IdleTimeAssumption`, `PartsAssumption`, `ShareAssumption`, `CycleAssumption`,
`DeviceAssumption`), which TLC evaluates in the runs. The theorems hold for any number of
partitions, zram devices, entries, files, sessions, mounts and credentials files, for any
timeout and delay, any list of partitions, any enabled folders, any `max_failures`, and
for any set or number of faults. Three of those on bounds state a hypothesis of their own:
the set of media partitions, or of entries, is finite. A partition table and the
directories of a partition are.

`StateMachine_proofs`. None of the properties is inductive; each gets a part of the
strengthening, and each later part uses the earlier ones.

- `TypeCorrect`: every variable keeps its type, and `Coherent`: which `pc` goes with
  which `state`, since the handlers' guards name both.
- `DriveInvariant`: from a successful `Deactivate` to the next `Activate` the drive
  is off, handler by handler (`Offline`), and where the loop waits an unbound drive
  means a failed `Activate`. From it `FsckIsOffline`, `DriveIsBack`,
  `SnapshotIsTakenOffline` and, as every action that unbinds is in one of three
  states, `DriveIsPulledOnPurpose`.
- `MediaInvariant`: a media partition in use is an orphan or the one that
  `runMediaSync` holds (`cur`), and only while the drive is off. From it
  `MediaIsExclusive`.
- `SnapInvariant`: how far the devices of the handle are built at each step of
  `Create` and dismantled at each step of `Release`. From it `SnapshotIsBacked`.
- `CleanInvariant`: while `clean` holds, the devices that exist are exactly those of
  the handle at that step, so none are left where there is none. From it
  `CleanIsClean`. The lemma `DeathLeavesNothing` is the case of the dying process.
- `BuildInvariant`: while boot configures the gadget the drive is off. From it
  `RefinesDrive`: the initial states map to initial states of `Drive`, and every step
  to a step of it or a stutter, action by action.
- `TornInvariant`: nobody has written below a snapshot that does not exist. With
  `DriveInvariant` (the drive is away where `Create` and fsck work) and `SnapInvariant`
  (where `Create` and `Release` are when a command of theirs succeeds) it gives
  `RefinesSnapshot`. Most steps keep the image and move the drive or the users; the
  others are one step of `Snapshot` each.
- `FrozenWhileOffline` and `LeaksAreAccounted` (the property `LeaksAccounted`) say what does
  hold where the findings `frozen` and `boot_zram` say what does not: up to the reconnect the car has written
  nothing below the snapshot, and a zram device leaks only when the process dies with it or
  `hot_remove` fails for it. The second needs `CleanInvariant`, for what a `Release` frees.

`Gadget_proofs`. `TreeInvariant` says what the tree can be at each step of boot: a
gadget that is bound is linked, one that is linked has a tree, and it is not bound
while LUNs are added. `LunInvariant`: without `kept`, a new tree starts without LUNs
and every file in it is of a partition boot has gone through, which is why the next
`AddLUN` makes no second LUN of a partition; and without `missed`, LUN 0 is the cam
from its `AddLUN` on. From them `HandleMatches`, `OneLunForEach`, `CamIsFirst` and
`RefinesDrive`.

`Share_proofs`. A connection owns one mount and one credentials file, and all others
are accounted for by `stuck` and `lost` (`ShareInv`, `FileInv`, inductive together with the
types). From it `ReachesShare`, `MountsAreGivenUp`, `FilesAreGivenUp`. `FoldersButBoombox` says
that every folder of the server but the sounds is at the root of its partition.

`ArchiveSession_proofs`. `TypeCorrect`; `CompletedDelivers` from `DeliveryInv` (a path
marked by the current session has been sent, except the one being copied);
`RunningIsInFlight` from `FlightInv` (later rows are empty, and only the last session
is open); `SentOnlyOnce` (what is on the server is marked or one of the `slips`, and
so is what is left to do). `LossIsBounded` compares two cardinalities: `LossInv` says that no two missing entries
(marked, and not on the server) were marked by one session, so that the session that
marked it is an injection from the missing entries to the sessions that did not
complete; the lemma `NothingMoreMissing` is the case of the steps that mark nothing.

`ArchiveCycle_proofs`. `LinkInv` says how far the connection is at each statement, that
there is a session only where there is a connection, and that one that is connected
reaches the server. From it `RefinesParts`, each step of the cycle being a step or a
stutter of either part: this is where `Session(Reaches)` becomes `Session(TRUE)`. `AwakeInv`: from
`Start` to `Stop` the BLE goroutine runs, or has returned because of a signal, and at all
other statements there is none and `running` is FALSE. From both `KeptAwake`. `SlackInv`: what
is held outside its statements is in `slack`. From the three `GivesBack`. With `RefinesParts`, the theorems of
`ArchiveSession_proofs` and `Share_proofs` hold of the cycle: `CycleDelivers` and
`CycleConnects`. (The second goes through the lemma `SameShare`: the instance of `Share`
in the cycle and the one in the instance of its proofs are two names for the same actions.)
`CycleTypeCorrect` puts the types of the parts together, of which only those of the keeper
(`KeeperTypes`) and of the statements (`SystemTypes`) are left to prove.

`Device_proofs`. `TypeCorrect` in two halves, `CountsOK` (the counters) and `WordsOK` (all
else). `WatchInv`: where the count is looked at it is at most `streak`, or one more
between the scan and the reconnect; hence `RebootIsJustified`. `ProfileInv`: at each step of
`EnsureHomeConnection`, what is on disk against what is loaded; hence
`LoadedStaysCurrent`. `CardInv`: while no boot was cut short, the script's next command
determines what the card has; hence `FormattedIsPresented`. `Unprovisioned` is inductive by
itself: where the profile cannot be written there is none to load or to connect, which is
`ImageStaysUnprovisioned`.

`IdleWatcher_proofs`. `TypeCorrect`, and `IdleIsQuiet` from `CountInv`: `since` never runs
ahead of `quiet`.

Bounds. A liveness property says that something comes; half of its reason is that
the code has no way to go on for ever, and that half is safety. For each such
property a measure counts the commands left, and a theorem says that every
command leaves fewer, whatever fails, and what alone begins anew:

| Measure | Theorem | Its property | Begun anew only by |
|---|---|---|---|
| `CommandsLeft` | `LoopIsBounded` | `SnapshotGivenUp`, `DriveReturns` | the delay that ends the wait for idle |
| `SessionLeft` | `SessionIsBounded` | `CycleEnds`, of the session in it | the next `CreateSession` |
| `StatementsLeft` | `CycleIsBounded` | `CycleEnds` | the next cycle or media sync |
| `PollsLeft` | `WaitIsBounded` | `QuietReturns` | a write of the car, or the next call |
| `StartUpLeft` | `StartUpIsBounded` | `DaemonStaysUp` | a fault, the panic of the ticker, a reboot |
| `WatchLeft` | `WatchIsBounded` | `HomeInTheEnd` | a connection, a network that is not listed, a fault, the panic, a reboot |

`LoopIsBounded` also says that where no command is left the snapshot is given up
and the drive is back, or its last `Activate` failed, or boot is still at work. `WatchIsBounded` is the
first half of `HomeInTheEnd`: a Pi that sees its network and is off it is connected by
the watchdog or reboots; what the boot then loads is `LoadedStaysCurrent`. `boot`
itself is retried for ever and has no bound. The measures need that the sets they count are
right: the entry being copied is still on the list (`CopyInv`), the folders left are
enabled ones (`AdvanceInv`), the media partitions left are some of `Media` (`TypeOK`).

Model-checked only: liveness (`DriveReturns`, `SnapshotGivenUp`,
`QuietReturns`, `CycleEnds`, `DaemonStaysUp`, `HomeInTheEnd`), which TLAPS does not
reach. The table has the safety half of each; that the commands come rests on fairness. Every safety
property that a passing run checks is stated by a theorem.

## Plan

Modelled first was what can damage the car's drive (the loop, the gadget), then what can
lose footage (sessions, connections), then the idle watcher, the cycle that composes
sessions and connections, and the start of the device. `Snapshot`, its refinement, the
types of the cycle and the bounds came with the proofs. What is left:

1. `ArchiveReturns` of `StateMachine` implemented by the steps of `ArchiveCycle`, with one
   crash for the loop and the cycle. What they share is small (the snapshot's mount, the
   signal and the death), and each module leaves open what the other one fixes.

## Not modelled

- The health monitor (one threshold test per tick, which sends a notification), the
  notifications (requests whose errors are dropped), the tables of health and events,
  the web server (it only reads; its status channel is never fed and its database is
  nil): no decision of the program rests on them.
- `Validate`: its warnings are logged and nothing else.
- The no-op backend, `StartAP`, `StopAP`, `Destroy`, `IsValid`: not used, or without effect.
- The pings of the systemd watchdog: they say nothing of the loop, see the observations.
- The steps of `setup.sh`, which runs under the eyes of the person who installs it (what it
  leaves is `SetUp`), and the scripts that build the image, which do not run on the device.
