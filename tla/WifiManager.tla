----------------------------- MODULE WifiManager -----------------------------
(***************************************************************************)
(* The wifi manager (internal/wifi): EnsureHomeConnection writes the        *)
(* profile of the home network and makes NetworkManager load it; the        *)
(* watchdog reconnects, and reboots after maxFailures failures in a row.    *)
(* NetworkManager loads the profiles on the disk at its own start.          *)
(***************************************************************************)
EXTENDS Naturals

CONSTANT MaxFailures   \* wifi.watchdog.max_failures

VARIABLES
    image,         \* "buildroot", or "raspios" as setup.sh leaves it
    password,      \* wifi.home_password: "unset", or what it is at home
    hidden,        \* wifi.hidden, and so is the network
    interval,      \* wifi.watchdog: "disabled", or interval_seconds
    profile,       \* the keyfile on the disk
    loaded,        \* the profile NetworkManager has loaded
    nm,            \* NetworkManager runs
    inRange,       \* the home network is in range
    linked,        \* the Pi is connected to it
    dog,           \* the step of watchdogTick; "off": no goroutine
    failures,      \* consecutiveFailures
    streak         \* history: reconnects that failed in a row

config == <<image, password, hidden, interval>>
radio  == <<inRange, linked>>
watch  == <<dog, failures, streak>>
vars   == <<config, profile, loaded, nm, radio, watch>>

(* "old": of an earlier configuration; "torn": WriteFile was cut short.     *)
Profiles  == {"none", "old", "torn", "new"}
Images    == {"buildroot", "raspios"}
Passwords == {"unset", "right", "wrong"}
Intervals == {"disabled", "zero", "positive"}
DogSteps  == {"off", "start", "wait", "scan", "reconnect", "reboot"}

(* Mutant: every failure counts.                                            *)
More_Unbounded(n) == n + 1

(* BOUND: the counters are not counted further than this.                   *)
Ceiling == MaxFailures + 1
More(n) == IF n < Ceiling THEN n + 1 ELSE n

(* The unit of the Buildroot image says ProtectSystem=strict and lists no   *)
(* path below /etc; the unit that setup.sh writes protects nothing.         *)
EtcWritable == image = "raspios"

(* A profile of an earlier configuration is there only where it could be    *)
(* written.                                                                 *)
Init ==
    /\ image \in Images
    /\ password \in Passwords /\ hidden \in BOOLEAN /\ interval \in Intervals
    /\ profile \in {"none", "old"} /\ (profile = "old" => EtcWritable)
    /\ loaded = "none" /\ nm = FALSE
    /\ inRange = FALSE /\ linked = FALSE
    /\ dog = "off" /\ failures = 0 /\ streak = 0

-----------------------------------------------------------------------------
(* EnsureHomeConnection, called once by main. Nothing is done without a     *)
(* password, or when the file has the wanted content already.               *)
NothingToProvision == password = "unset" \/ profile = "new"

(* WriteFile truncates the file, then writes it.                            *)
Truncate == EtcWritable /\ profile' = "torn"
Write    == profile' = "new"

(* nmcli connection reload.                                                 *)
Reload == nm /\ loaded' = profile

NMStarts ==
    /\ ~nm /\ nm' = TRUE
    /\ loaded' = profile
    /\ UNCHANGED <<config, profile, radio, watch>>

-----------------------------------------------------------------------------
(* The network                                                              *)

(* NetworkManager gets into the home network with what it has loaded.       *)
Admits == nm /\ inRange /\ loaded = "new" /\ password = "right"

Arrive ==
    /\ ~inRange /\ inRange' = TRUE
    /\ UNCHANGED <<config, profile, loaded, nm, linked, watch>>

Leave ==
    /\ inRange /\ inRange' = FALSE /\ linked' = FALSE
    /\ UNCHANGED <<config, profile, loaded, nm, watch>>

Drop ==
    /\ linked /\ linked' = FALSE
    /\ UNCHANGED <<config, profile, loaded, nm, inRange, watch>>

(* autoconnect=true                                                         *)
AutoConnect ==
    /\ ~linked /\ Admits /\ linked' = TRUE
    /\ UNCHANGED <<config, profile, loaded, nm, inRange, watch>>

-----------------------------------------------------------------------------
(* The watchdog                                                             *)

(* main starts the goroutine if the watchdog is enabled.                    *)
GoWatchdog == dog' = (IF interval = "disabled" THEN "off" ELSE "start")

(* Mutant: the interval is rounded down to minutes.                         *)
Panics_Rounded == dog = "start"

(* time.NewTicker does not take an interval that is not positive: the       *)
(* process panics.                                                          *)
Panics == dog = "start" /\ interval = "zero"

NewTicker ==
    /\ dog = "start" /\ interval = "positive"
    /\ dog' = "wait"
    /\ UNCHANGED <<config, profile, loaded, nm, radio, failures, streak>>

Reset == dog' = "wait" /\ failures' = 0 /\ streak' = 0

(* IsConnected and IsHomeNetwork; a query that fails says "no".             *)
SeesHome(fails) == linked /\ ~fails

(* IsSSIDVisible: a hidden network is listed without its name, and a scan   *)
(* that fails lists nothing.                                                *)
SeesSSID(fails) == nm /\ inRange /\ ~hidden /\ ~fails

Probe(fails) ==
    /\ dog = "wait"
    /\ IF SeesHome(fails) THEN Reset
       ELSE dog' = "scan" /\ UNCHANGED <<failures, streak>>
    /\ UNCHANGED <<config, profile, loaded, nm, radio>>

(* Mutant: an absent network leaves the counter as it is.                   *)
Scan_NoReset(fails) ==
    /\ dog = "scan"
    /\ IF SeesSSID(fails)
       THEN dog' = "reconnect" /\ failures' = More(failures) /\ UNCHANGED streak
       ELSE dog' = "wait" /\ streak' = 0 /\ UNCHANGED failures
    /\ UNCHANGED <<config, profile, loaded, nm, radio>>

(* A network that is not visible counts as out of range.                    *)
Scan(fails) ==
    /\ dog = "scan"
    /\ IF SeesSSID(fails)
       THEN dog' = "reconnect" /\ failures' = More(failures) /\ UNCHANGED streak
       ELSE Reset
    /\ UNCHANGED <<config, profile, loaded, nm, radio>>

(* Mutant: the count starts anew after every tick.                          *)
ReconnectFails_Forgets(fails) ==
    /\ dog = "reconnect" /\ (fails \/ ~Admits)
    /\ streak' = More(streak) /\ failures' = 0
    /\ dog' = IF failures >= MaxFailures THEN "reboot" ELSE "wait"
    /\ UNCHANGED <<config, profile, loaded, nm, radio>>

(* ConnectToHome                                                            *)
Reconnected ==
    /\ dog = "reconnect" /\ Admits
    /\ linked' = TRUE /\ Reset
    /\ UNCHANGED <<config, profile, loaded, nm, inRange>>

ReconnectFails(fails) ==
    /\ dog = "reconnect" /\ (fails \/ ~Admits)
    /\ streak' = More(streak)
    /\ dog' = IF failures >= MaxFailures THEN "reboot" ELSE "wait"
    /\ UNCHANGED <<config, profile, loaded, nm, radio, failures>>

(* systemctl reboot fails; the count stays where it is.                     *)
RebootFails ==
    /\ dog = "reboot" /\ dog' = "wait"
    /\ UNCHANGED <<config, profile, loaded, nm, radio, failures, streak>>

(* The process is gone, its goroutine and its count with it.                *)
ProcessGone == dog' = "off" /\ failures' = 0 /\ streak' = 0

(* The system goes down: what is on the disk stays.                         *)
SystemDown ==
    /\ nm' = FALSE /\ loaded' = "none" /\ linked' = FALSE
    /\ ProcessGone
    /\ UNCHANGED <<config, profile, inRange>>

TypeOK ==
    /\ image \in Images
    /\ password \in Passwords /\ hidden \in BOOLEAN /\ interval \in Intervals
    /\ profile \in Profiles /\ loaded \in Profiles /\ nm \in BOOLEAN
    /\ inRange \in BOOLEAN /\ linked \in BOOLEAN
    /\ dog \in DogSteps
    /\ failures \in 0 .. Ceiling /\ streak \in 0 .. Ceiling
=============================================================================
