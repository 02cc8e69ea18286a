------------------------------- MODULE Device -------------------------------
(***************************************************************************)
(* The device from power-on: systemd runs the provisioning unit, then the   *)
(* daemon, whose main provisions the wifi profile, starts the watchdog and  *)
(* enters its loop (cmd/teslausb/main.go:645-782). Processes die and are    *)
(* started again, the watchdog reboots the system, the power goes.          *)
(***************************************************************************)
EXTENDS Naturals

CONSTANTS
    MaxFailures,   \* wifi.watchdog.max_failures
    MaxFaults      \* BOUND: the faults of one behaviour

ASSUME DeviceAssumption ==
    MaxFailures \in Nat /\ MaxFaults \in Nat

VARIABLES
    parts, formatted, unit,                               \* Provision
    image, password, hidden, interval,                    \* WifiManager
    profile, loaded, nm, inRange, linked, dog, failures, streak,
    daemon,   \* the step of main
    faults,   \* faults so far
    cut,      \* history: a boot ended while provisioning was not finished
    skew      \* history: a start failed after Truncate and before Reload

P == INSTANCE Provision
W == INSTANCE WifiManager

card == <<parts, formatted, unit>>
wifi == <<image, password, hidden, interval, profile, loaded, nm, inRange,
          linked, dog, failures, streak>>
main == <<daemon, skew>>
vars == <<card, wifi, daemon, faults, cut, skew>>

DaemonSteps == {"down", "open", "ensure", "write", "reload", "boot", "up"}

Init ==
    /\ W!Init /\ (IF image = "buildroot" THEN P!Init ELSE P!SetUp)
    /\ daemon = "down" /\ faults = 0 /\ cut = FALSE /\ skew = FALSE

(* Something goes wrong that does not have to.                              *)
Fault == faults < MaxFaults /\ faults' = faults + 1
NoFault == UNCHANGED faults

-----------------------------------------------------------------------------
(* The provisioning unit                                                    *)

Provisioning ==
    /\ P!UnitStarts \/ P!Script
    /\ UNCHANGED <<wifi, main, faults, cut>>

ProvisioningAborts ==
    /\ Fault /\ P!Aborts
    /\ UNCHANGED <<wifi, main, cut>>

-----------------------------------------------------------------------------
(* The daemon                                                               *)

DaemonStep(from, to) == daemon = from /\ daemon' = to

(* Mutant: the daemon only wants the provisioning unit, and comes after it. *)
Start_Wants ==
    /\ DaemonStep("down", "open") /\ unit \in {"ok", "failed"}
    /\ UNCHANGED <<card, wifi, faults, cut, skew>>

(* Restart=always; the daemon requires the provisioning unit and comes      *)
(* after it.                                                                *)
Start ==
    /\ DaemonStep("down", "open") /\ P!Done
    /\ UNCHANGED <<card, wifi, faults, cut, skew>>

(* The configuration has fallbacks and never ends the process; a database   *)
(* that cannot be opened does.                                              *)
OpenDB(fails) ==
    /\ daemon = "open"
    /\ IF fails THEN Fault /\ daemon' = "down" ELSE NoFault /\ daemon' = "ensure"
    /\ UNCHANGED <<card, wifi, cut, skew>>

(* main goes on: the watchdog gets its goroutine, the loop begins. An error *)
(* of EnsureHomeConnection is only logged.                                  *)
Proceed ==
    /\ daemon' = "boot" /\ W!GoWatchdog
    /\ UNCHANGED <<image, password, hidden, interval, nm, inRange, linked,
                   failures, streak, card, cut>>

Ensured ==
    /\ daemon = "ensure" /\ W!NothingToProvision
    /\ Proceed
    /\ UNCHANGED <<profile, loaded, faults, skew>>

EnsureFails ==
    /\ daemon = "ensure" /\ ~W!NothingToProvision
    /\ IF W!EtcWritable THEN Fault ELSE NoFault
    /\ Proceed
    /\ UNCHANGED <<profile, loaded, skew>>

BeginWrite ==
    /\ DaemonStep("ensure", "write") /\ ~W!NothingToProvision
    /\ W!Truncate
    /\ UNCHANGED <<image, password, hidden, interval, loaded, nm, inRange, linked,
                   dog, failures, streak, card, faults, cut, skew>>

(* Mutant: the profile is left to NetworkManager's next start.              *)
EndWrite_NoReload ==
    /\ daemon = "write"
    /\ W!Write /\ Proceed
    /\ UNCHANGED <<loaded, faults, skew>>

EndWrite ==
    /\ DaemonStep("write", "reload")
    /\ W!Write
    /\ UNCHANGED <<image, password, hidden, interval, loaded, nm, inRange, linked,
                   dog, failures, streak, card, faults, cut, skew>>

WriteFails ==
    /\ daemon = "write" /\ Fault
    /\ Proceed /\ skew' = TRUE
    /\ UNCHANGED <<profile, loaded>>

Reload ==
    /\ daemon = "reload" /\ W!Reload
    /\ Proceed /\ skew' = FALSE
    /\ UNCHANGED <<profile, faults>>

(* chmod or nmcli fails; without NetworkManager nmcli always does.          *)
ReloadFails ==
    /\ daemon = "reload"
    /\ IF nm THEN Fault ELSE NoFault
    /\ Proceed /\ skew' = TRUE
    /\ UNCHANGED <<profile, loaded>>

(* boot is tried again until it has presented the gadget.                   *)
BootLoop(fails) ==
    /\ daemon = "boot"
    /\ IF fails THEN Fault /\ UNCHANGED daemon ELSE NoFault /\ daemon' = "up"
    /\ UNCHANGED <<card, wifi, cut, skew>>

Main ==
    \/ \E fails \in BOOLEAN : OpenDB(fails) \/ BootLoop(fails)
    \/ Ensured \/ EnsureFails \/ BeginWrite \/ EndWrite \/ WriteFails
    \/ Reload \/ ReloadFails

(* The process is gone.                                                     *)
Gone ==
    /\ daemon # "down" /\ daemon' = "down"
    /\ W!ProcessGone
    /\ skew' = (skew \/ daemon \in {"write", "reload"})
    /\ UNCHANGED <<image, password, hidden, interval, profile, loaded, nm, inRange,
                   linked, card, cut>>

Die   == Gone /\ Fault
Panic == Gone /\ W!Panics /\ NoFault

-----------------------------------------------------------------------------
(* NetworkManager, the network, the watchdog                                *)

Surroundings ==
    /\ \/ W!NMStarts /\ skew' = FALSE
       \/ (W!Arrive \/ W!Leave \/ W!Drop \/ W!AutoConnect) /\ UNCHANGED skew
    /\ UNCHANGED <<card, daemon, faults, cut>>

Watchdog ==
    /\ \/ W!NewTicker /\ NoFault
       \/ W!Probe(FALSE) /\ NoFault
       \/ W!Probe(TRUE) /\ Fault
       \/ W!Scan(FALSE) /\ NoFault
       \/ W!Scan(TRUE) /\ Fault
       \/ W!Reconnected /\ NoFault
       \/ W!ReconnectFails(FALSE) /\ NoFault
       \/ W!ReconnectFails(TRUE) /\ Fault
       \/ W!RebootFails /\ Fault
    /\ UNCHANGED <<card, main, cut>>

SystemDown ==
    /\ P!NextBoot /\ W!SystemDown
    /\ daemon' = "down" /\ cut' = (cut \/ P!Unfinished) /\ skew' = FALSE

(* systemctl reboot                                                         *)
Reboot == dog = "reboot" /\ SystemDown /\ NoFault

PowerLoss == unit # "off" /\ Fault /\ SystemDown

-----------------------------------------------------------------------------
Next ==
    \/ Provisioning \/ ProvisioningAborts
    \/ Start \/ Main \/ Die \/ Panic
    \/ Surroundings \/ Watchdog \/ Reboot \/ PowerLoss

Spec == Init /\ [][Next]_vars

(* systemd starts what is due, commands return, the ticker ticks; boot is   *)
(* over before the watchdog has ticked often enough for a reboot, time and  *)
(* again. Nothing is assumed of the network, of NetworkManager's own        *)
(* attempts, of faults.                                                     *)
Fairness ==
    /\ WF_vars(Provisioning) /\ WF_vars(Start) /\ WF_vars(Main) /\ WF_vars(Panic)
    /\ SF_vars(BootLoop(FALSE))
    /\ WF_vars(W!NMStarts /\ Surroundings)
    /\ WF_vars(Watchdog \/ Reboot)

FairSpec == Spec /\ Fairness

-----------------------------------------------------------------------------
(* Every variable has its type.                                             *)
TypeOK ==
    /\ P!TypeOK /\ W!TypeOK
    /\ daemon \in DaemonSteps /\ faults \in 0 .. MaxFaults
    /\ cut \in BOOLEAN /\ skew \in BOOLEAN

(* The watchdog reboots only after max_failures reconnects that failed one  *)
(* after the other, with no tick in between that found the network home,    *)
(* out of range, or again connected, also when an earlier reboot request    *)
(* failed (wifi.go:158-198).                                                *)
RebootJustified == dog = "reboot" => streak >= MaxFailures

(* The daemon never gives the car a card whose volumes are missing or not   *)
(* formatted, unless the power went while the script was at work or after   *)
(* it failed (teslausb-provision.sh, teslausb-provision.service:1-17).      *)
PresentsFormatted == daemon = "up" /\ ~cut => formatted = P!Volumes

(* When EnsureHomeConnection is over, NetworkManager has what the file      *)
(* says, or an earlier start wrote the file and did not get to the reload   *)
(* (provision.go:64-89).                                                    *)
LoadedIsCurrent ==
    daemon \in {"boot", "up"} /\ nm => loaded = profile \/ skew

(* The gadget comes up in the end, whatever statement of the start-up       *)
(* failed, and the daemon goes down for ever again only when the watchdog   *)
(* reboots for ever; unless provisioning was cut short or the watchdog has  *)
(* no positive interval (main.go:645-782, wifi.go:142).                     *)
DaemonStaysUp ==
    <>[](unit # "failed" /\ ~cut) /\ interval # "zero" =>
        /\ []<>(daemon = "up")
        /\ []<>(daemon = "down") => []<>(dog = "reboot")

(* A Pi that stays in range of its home network, and has the right password *)
(* for it, is connected again and again: by the watchdog, and if the        *)
(* profile was never loaded, by the reboot (wifi.go:158-198). The watchdog  *)
(* must be enabled, with a positive interval; the network must not be       *)
(* hidden, since the scan lists a hidden one without its name (wifi.go:216) *)
(* and the watchdog never tries it.                                         *)
HomeOn(system) ==
    (/\ image = system
     /\ <>[](inRange /\ unit # "failed" /\ ~cut)
     /\ password = "right" /\ ~hidden /\ interval = "positive")
        => []<>linked

(* So it is where setup.sh wrote the unit, which may write below /etc.      *)
HomeInTheEnd == HomeOn("raspios")

(* "the daemon provisions a NetworkManager connection profile from them at  *)
(* startup, so the Buildroot image (which has no Raspberry Pi Imager step   *)
(* to pre-seed WiFi) can join the network unattended" (config.go:70-73).    *)
JoinsUnattended == HomeOn("buildroot")
=============================================================================
