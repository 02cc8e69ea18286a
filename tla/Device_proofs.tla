--------------------------- MODULE Device_proofs ---------------------------
(***************************************************************************)
(* The device from power-on, for every number of failures and faults the    *)
(* configuration and the environment allow.                                 *)
(***************************************************************************)
EXTENDS Device, TLAPS

-----------------------------------------------------------------------------
(* The inductive invariants, one for each part.                             *)

(* The daemon runs only where the unit let it, and unless a boot ended in   *)
(* the middle of provisioning, what the script did so far is known by the   *)
(* step it is at.                                                           *)
CardInv ==
    /\ daemon # "down" => unit = "ok"
    /\ ~cut =>
        /\ unit = "off" /\ 5 \in parts => formatted = P!Volumes
        /\ unit = "check" => 5 \notin parts
        /\ unit = "fmt6" => 5 \in formatted
        /\ unit = "fmt7" => 5 \in formatted /\ 6 \in formatted
        /\ unit = "ok" => formatted = P!Volumes

(* NetworkManager has what the file says, but while the daemon is between   *)
(* the write and the reload.                                                *)
ProfileInv ==
    nm /\ daemon \notin {"write", "reload"} => loaded = profile \/ skew

(* There is no watchdog before main starts it, and its counter is not ahead *)
(* of the reconnects that failed in a row, but for the one being tried.     *)
WatchInv ==
    /\ daemon \notin {"boot", "up"} => dog = "off"
    /\ failures <= (IF dog = "reconnect" THEN streak + 1 ELSE streak)
    /\ RebootJustified

-----------------------------------------------------------------------------
(* TypeOK in two parts: the counters, and everything that is not counted.   *)
CountsOK ==
    /\ failures \in 0 .. W!Ceiling /\ streak \in 0 .. W!Ceiling
    /\ faults \in 0 .. MaxFaults

WordsOK ==
    /\ P!TypeOK /\ daemon \in DaemonSteps /\ cut \in BOOLEAN /\ skew \in BOOLEAN
    /\ image \in W!Images /\ password \in W!Passwords /\ hidden \in BOOLEAN
    /\ interval \in W!Intervals
    /\ profile \in W!Profiles /\ loaded \in W!Profiles /\ nm \in BOOLEAN
    /\ inRange \in BOOLEAN /\ linked \in BOOLEAN /\ dog \in W!DogSteps

LEMMA Counting == Spec => []CountsOK
<1> USE DeviceAssumption DEF CountsOK, W!Ceiling
<1>1. Init => CountsOK
  BY DEF Init, W!Init
<1>2. CountsOK /\ [Next]_vars => CountsOK'
  <2> SUFFICES ASSUME CountsOK, [Next]_vars PROVE CountsOK'
    OBVIOUS
  <2> USE DEF card, wifi, main, Fault, NoFault
  <2>1. CASE Provisioning \/ ProvisioningAborts
    BY <2>1 DEF Provisioning, ProvisioningAborts
  <2>3. CASE Start
    BY <2>3 DEF Start, DaemonStep
  <2>4. CASE Main
    BY <2>4 DEF Main, OpenDB, BootLoop, Ensured, EnsureFails, BeginWrite, EndWrite,
                WriteFails, Reload, ReloadFails, Proceed
  <2>5. CASE Die \/ Panic
    BY <2>5 DEF Die, Panic, Gone, W!ProcessGone
  <2>6. CASE Surroundings
    BY <2>6 DEF Surroundings, W!NMStarts, W!Arrive, W!Leave, W!Drop, W!AutoConnect,
                W!watch
  <2>7. CASE Watchdog
    BY <2>7 DEF Watchdog, W!NewTicker, W!Probe, W!Scan, W!Reconnected,
                W!SeesHome, W!SeesSSID, W!ReconnectFails, W!RebootFails, W!Reset, W!More
  <2>8. CASE Reboot \/ PowerLoss
    BY <2>8 DEF Reboot, PowerLoss, SystemDown, W!SystemDown, W!ProcessGone
  <2>9. CASE UNCHANGED vars
    BY <2>9 DEF vars
  <2> QED BY <2>1, <2>3, <2>4, <2>5, <2>6, <2>7, <2>8, <2>9 DEF Next
<1> QED BY <1>1, <1>2, PTL DEF Spec

LEMMA Wording == Spec => []WordsOK
<1> USE DEF WordsOK, P!TypeOK
<1>1. Init => WordsOK
  BY DEF Init, P!Init, P!SetUp, W!Init, P!Volumes, P!Steps, W!Profiles, W!Images,
         W!Passwords, W!Intervals, W!DogSteps, DaemonSteps
<1>2. WordsOK /\ [Next]_vars => WordsOK'
  <2> SUFFICES ASSUME WordsOK, [Next]_vars PROVE WordsOK'
    OBVIOUS
  <2> USE DEF card, wifi, main
  <2>1. CASE Provisioning
    <3> USE DEF P!Steps, P!MakeSteps, P!FormatSteps
    <3>1. CASE P!UnitStarts
      BY <2>1, <3>1 DEF Provisioning, P!UnitStarts
    <3>2. CASE P!Check
      BY <2>1, <3>2 DEF Provisioning, P!Check
    <3>3. CASE P!Mkpart
      <4>1. PICK p \in 4 .. 7 : parts' = parts \cup {p}
        BY <3>3 DEF P!Mkpart
      <4>2. unit' \in P!Steps /\ formatted' = formatted
        BY <3>3 DEF P!Mkpart, P!Step
      <4>3. parts' \subseteq 4 .. 7
        BY <4>1
      <4> QED BY <2>1, <4>2, <4>3 DEF Provisioning
    <3>4. CASE P!Settle
      BY <2>1, <3>4 DEF Provisioning, P!Settle, P!Step
    <3>5. CASE P!Mkfs
      <4>1. PICK p \in P!Volumes : formatted' = formatted \cup {p}
        BY <3>5 DEF P!Mkfs, P!Volumes
      <4>2. unit' \in P!Steps /\ parts' = parts
        BY <3>5 DEF P!Mkfs, P!Step
      <4>3. formatted' \subseteq P!Volumes
        BY <4>1
      <4> QED BY <2>1, <4>2, <4>3 DEF Provisioning
    <3> QED BY <2>1, <3>1, <3>2, <3>3, <3>4, <3>5 DEF Provisioning, P!Script
  <2>2. CASE ProvisioningAborts
    BY <2>2 DEF ProvisioningAborts, P!Aborts, P!Steps
  <2>3. CASE Start
    BY <2>3 DEF Start, DaemonStep, DaemonSteps
  <2>4. CASE Main
    <3> USE DEF Proceed, DaemonStep, DaemonSteps, W!GoWatchdog
    <3>1. CASE \E fails \in BOOLEAN : OpenDB(fails) \/ BootLoop(fails)
      <4>1. daemon' \in DaemonSteps /\ UNCHANGED <<card, wifi, cut, skew>>
        BY <3>1 DEF OpenDB, BootLoop
      <4> QED BY <4>1
    <3>2. dog' = dog \/ dog' \in W!DogSteps
      BY <2>4, <3>1 DEF Main, Ensured, EnsureFails, BeginWrite, EndWrite, WriteFails,
                        Reload, ReloadFails, W!DogSteps
    <3>3. CASE Ensured \/ EnsureFails
      BY <3>2, <3>3 DEF Ensured, EnsureFails
    <3>4. CASE BeginWrite \/ EndWrite
      BY <3>4 DEF BeginWrite, EndWrite, W!Truncate, W!Write, W!Profiles
    <3>5. CASE WriteFails \/ ReloadFails
      BY <3>2, <3>5, Zenon DEF WriteFails, ReloadFails
    <3>6. CASE Reload
      BY <3>2, <3>6 DEF Reload, W!Reload
    <3> QED BY <2>4, <3>1, <3>3, <3>4, <3>5, <3>6 DEF Main
  <2>5. CASE Die \/ Panic
    BY <2>5 DEF Die, Panic, Gone, W!ProcessGone, W!DogSteps, DaemonSteps
  <2>6. CASE Surroundings
    <3> USE DEF Surroundings, W!config, W!radio, W!watch
    <3>1. CASE W!NMStarts /\ skew' = FALSE
      BY <2>6, <3>1 DEF W!NMStarts
    <3>2. CASE (W!Arrive \/ W!Leave) /\ UNCHANGED skew
      BY <2>6, <3>2 DEF W!Arrive, W!Leave
    <3>3. CASE (W!Drop \/ W!AutoConnect) /\ UNCHANGED skew
      BY <2>6, <3>3 DEF W!Drop, W!AutoConnect
    <3> QED BY <2>6, <3>1, <3>2, <3>3
  <2>7. CASE Watchdog
    <3>1. /\ dog' \in W!DogSteps /\ linked' \in BOOLEAN
          /\ UNCHANGED <<W!config, profile, loaded, nm, inRange>>
      BY <2>7 DEF Watchdog, W!NewTicker, W!Probe, W!Scan, W!Reconnected,
                  W!SeesHome, W!SeesSSID, W!ReconnectFails, W!RebootFails, W!Reset,
                  W!radio, W!DogSteps
    <3> QED BY <2>7, <3>1 DEF Watchdog, W!config
  <2>8. CASE Reboot \/ PowerLoss
    BY <2>8 DEF Reboot, PowerLoss, SystemDown, P!NextBoot, W!SystemDown,
                W!ProcessGone, W!config, P!Steps, W!Profiles, W!DogSteps, DaemonSteps
  <2>9. CASE UNCHANGED vars
    BY <2>9 DEF vars
  <2> QED BY <2>1, <2>2, <2>3, <2>4, <2>5, <2>6, <2>7, <2>8, <2>9 DEF Next
<1> QED BY <1>1, <1>2, PTL DEF Spec

(* Every variable keeps its type.                                           *)
THEOREM TypeCorrect == Spec => []TypeOK
<1>1. WordsOK /\ CountsOK => TypeOK
  BY DEF WordsOK, CountsOK, TypeOK, W!TypeOK
<1> QED BY <1>1, Wording, Counting, PTL

-----------------------------------------------------------------------------
LEMMA Watching == Spec => []WatchInv
<1> USE DeviceAssumption DEF WatchInv, RebootJustified, CountsOK, W!Ceiling
<1>1. Init => WatchInv
  BY DEF Init, W!Init
<1>2. CountsOK /\ WatchInv /\ [Next]_vars => WatchInv'
  <2> SUFFICES ASSUME CountsOK, WatchInv, [Next]_vars PROVE WatchInv'
    OBVIOUS
  <2> USE DEF card, wifi, main
  <2>1. CASE Provisioning \/ ProvisioningAborts \/ Start
    BY <2>1 DEF Provisioning, ProvisioningAborts, Start, DaemonStep
  <2>2. CASE Main
    <3>1. CASE \E fails \in BOOLEAN : OpenDB(fails) \/ BootLoop(fails)
      BY <3>1 DEF OpenDB, BootLoop
    <3>2. CASE BeginWrite \/ EndWrite
      BY <3>2 DEF BeginWrite, EndWrite, DaemonStep
    <3>3. CASE Ensured \/ EnsureFails \/ WriteFails \/ Reload \/ ReloadFails
      <4>1. dog = "off" /\ daemon' = "boot" /\ dog' \in {"off", "start"}
            /\ failures' = failures /\ streak' = streak
        BY <3>3 DEF Ensured, EnsureFails, WriteFails, Reload, ReloadFails, Proceed,
                    W!GoWatchdog
      <4> QED BY <4>1
    <3> QED BY <2>2, <3>1, <3>2, <3>3 DEF Main
  <2>3. CASE Die \/ Panic \/ Reboot \/ PowerLoss
    BY <2>3 DEF Die, Panic, Gone, Reboot, PowerLoss, SystemDown, W!SystemDown,
                W!ProcessGone
  <2>4. CASE Surroundings
    BY <2>4 DEF Surroundings, W!NMStarts, W!Arrive, W!Leave, W!Drop, W!AutoConnect,
                W!watch
  <2>5. CASE Watchdog
    <3>0. daemon' = daemon
      BY <2>5 DEF Watchdog
    <3>1. CASE W!NewTicker \/ W!RebootFails \/ W!Reconnected
               \/ \E fails \in BOOLEAN : W!Probe(fails)
      BY <3>0, <3>1 DEF W!NewTicker, W!RebootFails, W!Reconnected, W!Probe,
                        W!SeesHome, W!Reset
    <3>2. CASE \E fails \in BOOLEAN : W!Scan(fails)
      BY <3>0, <3>2 DEF W!Scan, W!SeesSSID, W!Reset, W!More
    <3>3. CASE \E fails \in BOOLEAN : W!ReconnectFails(fails)
      BY <3>0, <3>3 DEF W!ReconnectFails, W!More
    <3> QED BY <2>5, <3>1, <3>2, <3>3 DEF Watchdog
  <2>6. CASE UNCHANGED vars
    BY <2>6 DEF vars
  <2> QED BY <2>1, <2>2, <2>3, <2>4, <2>5, <2>6 DEF Next
<1> QED BY <1>1, <1>2, Counting, PTL DEF Spec

(* The watchdog reboots only after max_failures reconnects that failed one  *)
(* after the other, for every max_failures (wifi.go:158-198).               *)
THEOREM RebootIsJustified == Spec => []RebootJustified
<1>1. WatchInv => RebootJustified
  BY DEF WatchInv
<1> QED BY <1>1, Watching, PTL

-----------------------------------------------------------------------------
(* NetworkManager has what the file of the profile says, or an earlier      *)
(* start did not get to the reload (provision.go:64-89).                    *)
THEOREM LoadedStaysCurrent == Spec => []LoadedIsCurrent
<1> USE DEF ProfileInv
<1>1. Init => ProfileInv
  BY DEF Init, W!Init
<1>2. ProfileInv /\ [Next]_vars => ProfileInv'
  <2> SUFFICES ASSUME ProfileInv, [Next]_vars PROVE ProfileInv'
    OBVIOUS
  <2> USE DEF card, wifi, main
  <2>1. CASE Provisioning \/ ProvisioningAborts
    BY <2>1 DEF Provisioning, ProvisioningAborts
  <2>2. CASE Start
    BY <2>2 DEF Start, DaemonStep
  <2>3. CASE Main
    <3>1. CASE \E fails \in BOOLEAN : OpenDB(fails) \/ BootLoop(fails)
      <4>1. daemon \notin {"write", "reload"} /\ UNCHANGED <<wifi, skew>>
        BY <3>1 DEF OpenDB, BootLoop
      <4> QED BY <4>1
    <3>2. CASE Ensured \/ EnsureFails
      BY <3>2 DEF Ensured, EnsureFails, Proceed
    <3>3. CASE BeginWrite \/ EndWrite
      BY <3>3 DEF BeginWrite, EndWrite, DaemonStep
    <3>4. CASE WriteFails \/ ReloadFails
      BY <3>4 DEF WriteFails, ReloadFails
    <3>5. CASE Reload
      BY <3>5 DEF Reload, W!Reload
    <3> QED BY <2>3, <3>1, <3>2, <3>3, <3>4, <3>5 DEF Main
  <2>4. CASE Die \/ Panic
    BY <2>4 DEF Die, Panic, Gone
  <2>5. CASE Surroundings
    BY <2>5 DEF Surroundings, W!NMStarts, W!Arrive, W!Leave, W!Drop, W!AutoConnect
  <2>6. CASE Watchdog
    BY <2>6 DEF Watchdog, W!NewTicker, W!Probe, W!Scan, W!Reconnected,
                W!SeesHome, W!SeesSSID, W!ReconnectFails, W!RebootFails
  <2>7. CASE Reboot \/ PowerLoss
    BY <2>7 DEF Reboot, PowerLoss, SystemDown, W!SystemDown
  <2>8. CASE UNCHANGED vars
    BY <2>8 DEF vars
  <2> QED BY <2>1, <2>2, <2>3, <2>4, <2>5, <2>6, <2>7, <2>8 DEF Next
<1>3. ProfileInv => LoadedIsCurrent
  BY DEF LoadedIsCurrent
<1> QED BY <1>1, <1>2, <1>3, PTL DEF Spec

-----------------------------------------------------------------------------
(* Where the unit lets nothing be written below /etc there is no profile,   *)
(* and so no connection.                                                    *)
Unprovisioned ==
    ~W!EtcWritable =>
        /\ profile = "none" /\ loaded = "none" /\ ~linked
        /\ daemon \notin {"write", "reload"}

(* The Buildroot image never gets home by what the configuration says:      *)
(* whatever happens, and however often it starts, the profile is not        *)
(* written (provision.go:64-77, teslausb.service:14-18, finding             *)
(* "unattended").                                                           *)
THEOREM ImageStaysUnprovisioned == Spec => []Unprovisioned
<1> USE DEF Unprovisioned, W!EtcWritable
<1>1. Init => Unprovisioned
  BY DEF Init, W!Init
<1>2. Unprovisioned /\ [Next]_vars => Unprovisioned'
  <2> SUFFICES ASSUME Unprovisioned, [Next]_vars PROVE Unprovisioned'
    OBVIOUS
  <2> USE DEF card, wifi, main
  <2>1. CASE Provisioning \/ ProvisioningAborts
    BY <2>1 DEF Provisioning, ProvisioningAborts
  <2>2. CASE Start
    BY <2>2 DEF Start, DaemonStep
  <2>3. CASE Main
    <3>1. CASE \E fails \in BOOLEAN : OpenDB(fails) \/ BootLoop(fails)
      BY <3>1 DEF OpenDB, BootLoop
    <3>2. CASE Ensured \/ EnsureFails
      BY <3>2 DEF Ensured, EnsureFails, Proceed
    <3>3. CASE BeginWrite
      BY <3>3 DEF BeginWrite, DaemonStep, W!Truncate
    <3>4. CASE EndWrite
      BY <3>4 DEF EndWrite, DaemonStep, W!Write
    <3>5. CASE WriteFails \/ Reload \/ ReloadFails
      BY <3>5 DEF WriteFails, Reload, ReloadFails, Proceed
    <3> QED BY <2>3, <3>1, <3>2, <3>3, <3>4, <3>5 DEF Main
  <2>4. CASE Die \/ Panic
    BY <2>4 DEF Die, Panic, Gone
  <2>5. CASE Surroundings
    BY <2>5 DEF Surroundings, W!NMStarts, W!Arrive, W!Leave, W!Drop, W!AutoConnect,
                W!Admits, W!config, W!radio, W!watch
  <2>6. CASE Watchdog
    BY <2>6 DEF Watchdog, W!NewTicker, W!Probe, W!Scan, W!Reconnected, W!Admits,
                W!SeesHome, W!SeesSSID, W!ReconnectFails, W!RebootFails, W!config,
                W!radio
  <2>7. CASE Reboot \/ PowerLoss
    BY <2>7 DEF Reboot, PowerLoss, SystemDown, W!SystemDown, W!config
  <2>8. CASE UNCHANGED vars
    BY <2>8 DEF vars
  <2> QED BY <2>1, <2>2, <2>3, <2>4, <2>5, <2>6, <2>7, <2>8 DEF Next
<1> QED BY <1>1, <1>2, PTL DEF Spec

-----------------------------------------------------------------------------
(* The daemon gives the car formatted volumes only, unless a boot ended in  *)
(* the middle of provisioning (teslausb-provision.sh:13-88).                *)
THEOREM FormattedIsPresented == Spec => []PresentsFormatted
<1> USE DEF CardInv
<1>1. Init => CardInv
  BY DEF Init, P!Init, P!SetUp
<1>2. WordsOK /\ CardInv /\ [Next]_vars => CardInv'
  <2> SUFFICES ASSUME WordsOK, CardInv, [Next]_vars PROVE CardInv'
    OBVIOUS
  <2> USE DEF card, wifi, main
  <2>1. CASE Provisioning
    <3>0. daemon' = daemon /\ cut' = cut /\ P!Volumes' = P!Volumes
      BY <2>1 DEF Provisioning, P!Volumes
    <3>1. CASE P!UnitStarts
      BY <3>0, <3>1 DEF P!UnitStarts
    <3>2. CASE P!Check
      <4>1. 5 \in P!Volumes
        BY DEF P!Volumes
      <4> QED BY <3>0, <3>2, <4>1 DEF P!Check
    <3>3. CASE P!Mkpart \/ P!Settle
      BY <3>0, <3>3 DEF P!Mkpart, P!Settle, P!Step
    <3>4. CASE P!Mkfs
      <4>1. P!Volumes = {5, 6, 7}
        BY DEF P!Volumes
      <4>2. formatted \subseteq P!Volumes
        BY DEF WordsOK, P!TypeOK
      <4> QED BY <3>0, <3>4, <4>1, <4>2 DEF P!Mkfs, P!Step
    <3> QED BY <2>1, <3>1, <3>2, <3>3, <3>4 DEF Provisioning, P!Script
  <2>2. CASE ProvisioningAborts
    BY <2>2 DEF ProvisioningAborts, P!Aborts
  <2>3. CASE Start
    BY <2>3 DEF Start, DaemonStep, P!Done
  <2>4. CASE Main
    <3>1. UNCHANGED <<card, cut>> /\ daemon # "down"
      BY <2>4 DEF Main, OpenDB, BootLoop, Ensured, EnsureFails, BeginWrite, EndWrite,
                  WriteFails, Reload, ReloadFails, Proceed, DaemonStep
    <3> QED BY <3>1
  <2>5. CASE Die \/ Panic
    BY <2>5 DEF Die, Panic, Gone
  <2>6. CASE Surroundings \/ Watchdog
    BY <2>6 DEF Surroundings, Watchdog
  <2>7. CASE Reboot \/ PowerLoss
    BY <2>7 DEF Reboot, PowerLoss, SystemDown, P!NextBoot, P!Unfinished
  <2>8. CASE UNCHANGED vars
    BY <2>8 DEF vars
  <2> QED BY <2>1, <2>2, <2>3, <2>4, <2>5, <2>6, <2>7, <2>8 DEF Next
<1>3. CardInv => PresentsFormatted
  BY DEF PresentsFormatted
<1> QED BY <1>1, <1>2, <1>3, Wording, PTL DEF Spec

-----------------------------------------------------------------------------
(* How many steps of the provisioning unit and of main are left until the   *)
(* gadget is up, or the script has given up.                                *)
UnitLeft ==
    CASE unit = "off"    -> 10
      [] unit = "check"  -> 9
      [] unit = "mk4"    -> 8
      [] unit = "mk5"    -> 7
      [] unit = "mk6"    -> 6
      [] unit = "mk7"    -> 5
      [] unit = "settle" -> 4
      [] unit = "fmt5"   -> 3
      [] unit = "fmt6"   -> 2
      [] unit = "fmt7"   -> 1
      [] OTHER           -> 0

MainLeft ==
    CASE daemon = "down"   -> 6
      [] daemon = "open"   -> 5
      [] daemon = "ensure" -> 4
      [] daemon = "write"  -> 3
      [] daemon = "reload" -> 2
      [] daemon = "boot"   -> 1
      [] OTHER             -> 0

StartUpLeft == UnitLeft + MainLeft

(* A sum shrinks with one of its summands.                                  *)
LEMMA SumShrinks ==
    ASSUME NEW m \in Nat, NEW n \in Nat, NEW k \in Nat, k < m
    PROVE  k + n < m + n /\ n + k < n + m
OBVIOUS

(* The start-up is over after at most sixteen steps: each leaves fewer or   *)
(* is one of the faults, and only a fault, the panic of NewTicker or a      *)
(* reboot of the watchdog adds any. That the steps come, and the faults end,*)
(* is what DaemonStaysUp adds (main.go:645-782).                            *)
THEOREM StartUpIsBounded ==
    Spec => /\ [](StartUpLeft \in 0 .. 16)
            /\ [][Provisioning \/ Start \/ Main =>
                     StartUpLeft' < StartUpLeft \/ faults' = faults + 1]_vars
            /\ [][StartUpLeft' > StartUpLeft =>
                     faults' = faults + 1 \/ Panic \/ Reboot]_vars
<1> USE DEF UnitLeft, MainLeft, card, wifi, main, Fault, NoFault
<1>s. StartUpLeft = UnitLeft + MainLeft /\ StartUpLeft' = UnitLeft' + MainLeft'
  BY DEF StartUpLeft
<1>1. StartUpLeft \in 0 .. 16
  <2>1. UnitLeft \in 0 .. 10 /\ MainLeft \in 0 .. 6
    OBVIOUS
  <2> HIDE DEF UnitLeft, MainLeft
  <2> QED BY <1>s, <2>1
<1>2. Provisioning \/ Start \/ Main => StartUpLeft' < StartUpLeft \/ faults' = faults + 1
  <2>1. ASSUME Provisioning PROVE StartUpLeft' < StartUpLeft
    <3>1. daemon' = daemon
      BY <2>1 DEF Provisioning
    <3>2. UnitLeft' < UnitLeft
      BY <2>1 DEF Provisioning, P!UnitStarts, P!Script, P!Check, P!Mkpart, P!Settle,
                  P!Mkfs, P!Step
    <3>3. MainLeft' = MainLeft /\ MainLeft \in Nat /\ UnitLeft \in Nat /\ UnitLeft' \in Nat
      BY <3>1
    <3> HIDE DEF UnitLeft, MainLeft
    <3> QED BY <1>s, <3>2, <3>3, SumShrinks
  <2>2. ASSUME Start \/ Main PROVE StartUpLeft' < StartUpLeft \/ faults' = faults + 1
    <3>1. UNCHANGED unit
      BY <2>2 DEF Start, Main, OpenDB, BootLoop, Ensured, EnsureFails, BeginWrite, EndWrite,
                  WriteFails, Reload, ReloadFails, Proceed
    <3>2. MainLeft' < MainLeft \/ faults' = faults + 1
      BY <2>2 DEF Start, Main, OpenDB, BootLoop, Ensured, EnsureFails, BeginWrite, EndWrite,
                  WriteFails, Reload, ReloadFails, Proceed, DaemonStep
    <3>3. UnitLeft' = UnitLeft /\ MainLeft \in Nat /\ MainLeft' \in Nat /\ UnitLeft \in Nat
      BY <3>1
    <3> HIDE DEF UnitLeft, MainLeft
    <3> QED BY <1>s, <3>2, <3>3, SumShrinks
  <2> QED BY <2>1, <2>2
<1>3. [Next]_vars => (StartUpLeft' > StartUpLeft => faults' = faults + 1 \/ Panic \/ Reboot)
  <2> SUFFICES ASSUME [Next]_vars, faults' # faults + 1, ~Panic, ~Reboot
               PROVE  ~(StartUpLeft' > StartUpLeft)
    OBVIOUS
  <2>0. UnitLeft \in Nat /\ MainLeft \in Nat /\ UnitLeft' \in Nat /\ MainLeft' \in Nat
    OBVIOUS
  <2>1. CASE Provisioning \/ Start \/ Main
    <3> HIDE DEF UnitLeft, MainLeft
    <3>1. \A m, n \in Nat : m + n \in Nat
      OBVIOUS
    <3>2. StartUpLeft' \in Nat
      BY <1>s, <2>0, <3>1
    <3> QED BY <1>1, <1>2, <2>1, <3>2
  <2>2. CASE Surroundings \/ Watchdog \/ UNCHANGED vars
    <3>1. UNCHANGED <<unit, daemon>>
      BY <2>2 DEF Surroundings, Watchdog, vars
    <3>2. UnitLeft' = UnitLeft /\ MainLeft' = MainLeft
      BY <3>1
    <3> HIDE DEF UnitLeft, MainLeft
    <3>3. StartUpLeft' = StartUpLeft
      BY <1>s, <3>2
    <3> QED BY <1>1, <3>3
  <2>3. CASE ProvisioningAborts \/ Die \/ PowerLoss
    BY <2>3 DEF ProvisioningAborts, Die, PowerLoss
  <2> QED BY <2>1, <2>2, <2>3 DEF Next
<1> QED BY <1>1, <1>2, <1>3, PTL DEF Spec

-----------------------------------------------------------------------------
(* The ticks that are left to a count before it asks for a reboot: a tick   *)
(* has to fail also where the count is full already.                        *)
TicksLeft(count) == IF count < MaxFailures THEN MaxFailures - count ELSE 1

(* How many steps of the watchdog are left until it is connected or asks    *)
(* for a reboot: three for each tick.                                       *)
WatchLeft ==
    CASE dog = "off"       -> 3 * TicksLeft(0) + 2
      [] dog = "start"     -> 3 * TicksLeft(0) + 1
      [] dog = "wait"      -> 3 * TicksLeft(failures)
      [] dog = "scan"      -> 3 * TicksLeft(failures) - 1
      [] dog = "reconnect" -> IF failures < MaxFailures
                              THEN 3 * (MaxFailures - failures) + 1 ELSE 1
      [] OTHER             -> 0

(* A scan that works lists the home network.                                *)
HomeListed == nm /\ inRange /\ ~hidden

(* A Pi that is off its home network although it is listed is connected, or *)
(* asks for a reboot, after at most three steps for each failure that is    *)
(* allowed: each step of the watchdog leaves fewer, and only a connection,  *)
(* a network that is not listed, a fault, the panic of NewTicker or the     *)
(* reboot begins anew. That the steps come is what HomeInTheEnd adds        *)
(* (wifi.go:158-200).                                                       *)
THEOREM WatchIsBounded ==
    Spec => /\ [](WatchLeft \in 0 .. 3 * TicksLeft(0) + 2)
            /\ [][Watchdog /\ HomeListed /\ ~linked =>
                     WatchLeft' < WatchLeft \/ linked' \/ faults' = faults + 1]_vars
            /\ [][WatchLeft' > WatchLeft =>
                     \/ linked \/ linked' \/ ~HomeListed
                     \/ faults' = faults + 1 \/ Panic \/ Reboot]_vars
<1>1. CountsOK => WatchLeft \in 0 .. 3 * TicksLeft(0) + 2
  BY DeviceAssumption DEF CountsOK, W!Ceiling, WatchLeft, TicksLeft
<1>2. ASSUME CountsOK, Watchdog, HomeListed, ~linked, ~linked', faults' # faults + 1
      PROVE  WatchLeft' < WatchLeft
  <2>0. failures \in Nat /\ MaxFailures \in Nat
    BY <1>2, DeviceAssumption DEF CountsOK, W!Ceiling
  <2> USE DEF TicksLeft, HomeListed
  <2>1. CASE W!NewTicker
    BY <2>0, <2>1 DEF W!NewTicker, WatchLeft
  <2>2. CASE W!Probe(FALSE)
    BY <1>2, <2>0, <2>2 DEF W!Probe, W!SeesHome, WatchLeft
  <2>3. CASE W!Scan(FALSE)
    <3>1. dog = "scan" /\ dog' = "reconnect" /\ failures' = W!More(failures)
      BY <1>2, <2>3 DEF W!Scan, W!SeesSSID
    <3>2. failures' = IF failures < MaxFailures + 1 THEN failures + 1 ELSE failures
      BY <3>1 DEF W!More, W!Ceiling
    <3> QED BY <2>0, <3>1, <3>2 DEF WatchLeft
  <2>4. CASE W!Reconnected
    BY <1>2, <2>4 DEF W!Reconnected
  <2>5. CASE W!ReconnectFails(FALSE)
    BY <2>0, <2>5 DEF W!ReconnectFails, WatchLeft
  <2> QED BY <1>2, <2>1, <2>2, <2>3, <2>4, <2>5 DEF Watchdog, Fault
<1>3. ASSUME CountsOK, CountsOK', WatchInv, [Next]_vars, ~linked, ~linked', HomeListed,
             faults' # faults + 1, ~Panic, ~Reboot
      PROVE  ~(WatchLeft' > WatchLeft)
  <2>0. WatchLeft \in Nat
    BY <1>1, <1>3, DeviceAssumption DEF TicksLeft
  <2>1. WatchLeft' \in Nat
    BY <1>3, DeviceAssumption DEF CountsOK, W!Ceiling, WatchLeft, TicksLeft
  <2>s. ASSUME UNCHANGED <<dog, failures>> PROVE WatchLeft' = WatchLeft
    BY <2>s DEF WatchLeft
  <2> USE DEF card, wifi, main
  <2>2. CASE Provisioning \/ Start \/ Surroundings \/ UNCHANGED vars
    BY <2>0, <2>2, <2>s DEF Provisioning, Start, Surroundings, vars, W!NMStarts, W!Arrive,
                            W!Leave, W!Drop, W!AutoConnect, W!watch
  <2>3. CASE Main
    <3>1. CASE UNCHANGED <<dog, failures>>
      BY <2>0, <2>s, <3>1
    <3>2. CASE daemon \in {"ensure", "write", "reload"} /\ Proceed
      <4>1. dog = "off" /\ dog' \in {"off", "start"}
        BY <1>3, <3>2 DEF WatchInv, Proceed, W!GoWatchdog
      <4> QED BY <4>1, DeviceAssumption DEF WatchLeft, TicksLeft
    <3> QED BY <2>3, <3>1, <3>2
        DEF Main, OpenDB, BootLoop, Ensured, EnsureFails, BeginWrite, EndWrite,
            WriteFails, Reload, ReloadFails
  <2>4. CASE Watchdog
    <3>1. WatchLeft' < WatchLeft
      BY <1>2, <1>3, <2>4
    <3> QED BY <2>0, <2>1, <3>1
  <2>5. CASE ProvisioningAborts \/ Die \/ PowerLoss
    BY <1>3, <2>5 DEF ProvisioningAborts, Die, PowerLoss, Fault
  <2> QED BY <1>3, <2>2, <2>3, <2>4, <2>5 DEF Next
<1> DEFINE Ticks == Watchdog /\ HomeListed /\ ~linked =>
                       WatchLeft' < WatchLeft \/ linked' \/ faults' = faults + 1
           Anew  == WatchLeft' > WatchLeft =>
                       \/ linked \/ linked' \/ ~HomeListed
                       \/ faults' = faults + 1 \/ Panic \/ Reboot
<1>4. CountsOK => Ticks
  BY <1>2
<1>5. CountsOK /\ CountsOK' /\ WatchInv /\ [Next]_vars => Anew
  BY <1>3
<1>6. Spec => [](WatchLeft \in 0 .. 3 * TicksLeft(0) + 2)
  BY <1>1, Counting, PTL
<1>7. Spec => [][Ticks]_vars /\ [][Anew]_vars
  <2> HIDE DEF Ticks, Anew
  <2> QED BY <1>4, <1>5, Counting, Watching, PTL DEF Spec
<1> QED BY <1>6, <1>7
=============================================================================
