----------------------------- MODULE IdleWatcher -----------------------------
(***************************************************************************)
(* Watcher.WaitForIdle (internal/fswatch/fswatch.go), which holds a cycle   *)
(* of the main loop back until the car stops writing: it samples the bytes  *)
(* the file-storage thread wrote once per poll. Time is counted in poll     *)
(* intervals; a poll that comes late spans more than one.                   *)
(***************************************************************************)
EXTENDS Naturals

CONSTANTS
    Timeout,   \* w.Timeout, in poll intervals
    MaxGap,    \* BOUND: the longest time between two polls
    Faults     \* "read": /proc cannot be read; "stop": ctx is cancelled

ASSUME IdleTimeAssumption == Timeout \in Nat /\ MaxGap \in Nat \ {0}

VARIABLES
    pc,     \* "poll": inside the loop; otherwise what WaitForIdle returned
    state,  \* the local state
    since,  \* time.Since(idleSince), up to Timeout
    busy,   \* WriteThreshold bytes or more were written since the last poll
    quiet   \* history: how long every poll has found less, up to Timeout

vars == <<pc, state, since, busy, quiet>>

Returned == {"none", "idle", "error", "cancelled"}
States == {"UNDETERMINED", "WRITING", "IDLE"}
Fails(kind) == kind \in Faults
Cap(n) == IF n > Timeout THEN Timeout ELSE n

Init ==
    /\ pc = "none" /\ state = "UNDETERMINED" /\ since = 0
    /\ busy = FALSE /\ quiet = 0

(* The next cycle calls it; the first read can fail.                        *)
WaitForIdle ==
    /\ pc \in Returned
    /\ pc' \in {"poll"} \cup (IF Fails("read") THEN {"error"} ELSE {})
    /\ state' = "UNDETERMINED" /\ since' = 0
    /\ busy' = FALSE /\ quiet' = 0

(* What every poll does to the history.                                     *)
Sample(gap) ==
    /\ quiet' = IF busy THEN 0 ELSE Cap(quiet + gap)
    /\ busy' = FALSE

(* Mutant: a write does not end the idle state.                             *)
Poll_StaysIdle(gap) ==
    /\ pc = "poll"
    /\ Sample(gap)
    /\ IF busy /\ state # "IDLE"
       THEN state' = "WRITING" /\ UNCHANGED <<pc, since>>
       ELSE /\ state' = "IDLE"
            /\ since' = IF state = "IDLE" THEN Cap(since + gap) ELSE 0
            /\ pc' = IF state = "IDLE" /\ since' >= Timeout THEN "idle" ELSE "poll"

(* Mutant: idleSince is set anew at every quiet poll.                       *)
Poll_SetsAnew(gap) ==
    /\ pc = "poll"
    /\ Sample(gap)
    /\ since' = 0
    /\ state' = IF busy THEN "WRITING" ELSE "IDLE"
    /\ UNCHANGED pc

(* Mutant: time.Until for time.Since.                                       *)
Poll_Until(gap) ==
    /\ pc = "poll"
    /\ Sample(gap)
    /\ since' = IF state = "IDLE" THEN since - gap ELSE 0
    /\ state' = IF busy THEN "WRITING" ELSE "IDLE"
    /\ UNCHANGED pc

(* UNDETERMINED and WRITING treat a poll alike; IDLE counts from the first  *)
(* quiet poll, not from the last write.                                     *)
Poll(gap) ==
    /\ pc = "poll"
    /\ Sample(gap)
    /\ IF busy
       THEN state' = "WRITING" /\ UNCHANGED <<pc, since>>
       ELSE /\ state' = "IDLE"
            /\ since' = IF state = "IDLE" THEN Cap(since + gap) ELSE 0
            /\ pc' = IF state = "IDLE" /\ since' >= Timeout THEN "idle" ELSE "poll"

ReadFails ==
    /\ pc = "poll" /\ Fails("read")
    /\ pc' = "error"
    /\ UNCHANGED <<state, since, busy, quiet>>

Cancelled ==
    /\ pc = "poll" /\ Fails("stop")
    /\ pc' = "cancelled"
    /\ UNCHANGED <<state, since, busy, quiet>>

CarWrites ==
    /\ busy' = TRUE
    /\ UNCHANGED <<pc, state, since, quiet>>

Next ==
    \/ WaitForIdle \/ ReadFails \/ Cancelled \/ CarWrites
    \/ \E gap \in 1 .. MaxGap : Poll(gap)

Spec == Init /\ [][Next]_vars

(* The ticker fires.                                                        *)
FairSpec == Spec /\ WF_vars(\E gap \in 1 .. MaxGap : Poll(gap))

-----------------------------------------------------------------------------
(* Every variable has its type.                                             *)
TypeOK ==
    /\ pc \in {"poll"} \cup Returned /\ state \in States
    /\ since \in 0 .. Timeout /\ quiet \in 0 .. Timeout /\ busy \in BOOLEAN

(* Idle is declared only after Timeout without one poll that found the car  *)
(* writing, however late the polls came (fswatch.go:85-108).                *)
IdleMeansQuiet == pc = "idle" => quiet >= Timeout

(* Once the car stops writing for good, WaitForIdle returns.                *)
QuietReturns == <>[]~busy => (pc = "poll" ~> pc # "poll")
=============================================================================
