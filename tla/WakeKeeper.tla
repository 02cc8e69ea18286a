----------------------------- MODULE WakeKeeper -----------------------------
(***************************************************************************)
(* What keeps the car awake while clips are copied (internal/tesla): the    *)
(* BLE keeper's goroutine, which nudges the car until its context is        *)
(* cancelled, and the webhook, which is told of the start and of the stop.  *)
(* The keepers for "tessie" and for no method do nothing in Start and Stop. *)
(***************************************************************************)

VARIABLES
    method,      \* wake.method
    running,     \* BLE: b.cancel # nil
    loop,        \* BLE: the goroutine; "none": Stop got b.done closed
    loopCtxDone, \* BLE: cancel was called for this goroutine
    told         \* webhook: the receiver has "start" and no "stop"

vars == <<method, running, loop, loopCtxDone, told>>

Methods   == {"none", "ble", "tessie", "webhook"}
LoopSteps == {"none", "nudge", "select", "closed"}

Init ==
    /\ method \in Methods
    /\ running = FALSE /\ loop = "none" /\ loopCtxDone = FALSE
    /\ told = FALSE

(* The post of "start" or "stop" may fail, and does once ctx is done; the   *)
(* callers only log it.                                                     *)
Post(start, ctxDone) ==
    IF method = "webhook" /\ ~ctxDone THEN told' \in {told, start}
                                      ELSE UNCHANGED told

(* BLE: a keeper that runs already is left alone.                           *)
Start(ctxDone) ==
    /\ IF method = "ble" /\ ~running
       THEN running' = TRUE /\ loop' = "nudge" /\ loopCtxDone' = FALSE
       ELSE UNCHANGED <<running, loop, loopCtxDone>>
    /\ Post(TRUE, ctxDone)
    /\ UNCHANGED method

(* Mutant: b.cancel stays set.                                              *)
Stop_KeepsCancel(ctxDone) ==
    /\ IF method = "ble" /\ running
       THEN loopCtxDone' = TRUE /\ UNCHANGED running
       ELSE UNCHANGED <<running, loopCtxDone>>
    /\ Post(FALSE, ctxDone)
    /\ UNCHANGED <<method, loop>>

(* Stop, up to the wait for b.done.                                         *)
Stop(ctxDone) ==
    /\ IF method = "ble" /\ running
       THEN running' = FALSE /\ loopCtxDone' = TRUE
       ELSE UNCHANGED <<running, loopCtxDone>>
    /\ Post(FALSE, ctxDone)
    /\ UNCHANGED <<method, loop>>

(* The wait: b.done is closed, or there was no goroutine to wait for.       *)
Stopped ==
    /\ loop \in {"none", "closed"} /\ loop' = "none"
    /\ loopCtxDone' = FALSE
    /\ UNCHANGED <<method, running, told>>

-----------------------------------------------------------------------------
(* The goroutine                                                            *)

(* tesla-control returns, or is killed with the context.                    *)
Nudged ==
    /\ loop = "nudge" /\ loop' = "select"
    /\ UNCHANGED <<method, running, loopCtxDone, told>>

Ticks ==
    /\ loop = "select" /\ loop' = "nudge"
    /\ UNCHANGED <<method, running, loopCtxDone, told>>

(* Mutant: the goroutine is given ctx and not loopCtx.                      *)
LoopReturns_Parent(ctxDone) ==
    /\ loop = "select" /\ ctxDone
    /\ loop' = "closed"
    /\ UNCHANGED <<method, running, loopCtxDone, told>>

(* ctx.Done of the loop: Stop cancelled it, or the daemon is to stop.       *)
LoopReturns(ctxDone) ==
    /\ loop = "select" /\ (loopCtxDone \/ ctxDone)
    /\ loop' = "closed"
    /\ UNCHANGED <<method, running, loopCtxDone, told>>

(* The process is gone, and the goroutine with it.                          *)
Gone ==
    /\ running' = FALSE /\ loop' = "none" /\ loopCtxDone' = FALSE
    /\ UNCHANGED <<method, told>>

TypeOK ==
    /\ method \in Methods /\ running \in BOOLEAN /\ loop \in LoopSteps
    /\ loopCtxDone \in BOOLEAN /\ told \in BOOLEAN

(* Somebody keeps the car awake, as far as the method has anybody to do it. *)
Nudging == method = "ble" => loop \in {"nudge", "select"}

(* Nothing is left of a keep-awake.                                         *)
Quiet == loop = "none" /\ ~running
=============================================================================
