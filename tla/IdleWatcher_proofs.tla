-------------------------- MODULE IdleWatcher_proofs --------------------------
(***************************************************************************)
(* The idle wait, for every timeout and every delay of the polls.           *)
(***************************************************************************)
EXTENDS IdleWatcher, Integers, TLAPS

(* The times keep their range, and the quiet poll that set idleSince is     *)
(* counted by quiet, not by since.                                          *)
CountInv ==
    /\ since \in 0 .. Timeout /\ quiet \in 0 .. Timeout
    /\ pc = "poll" /\ state = "IDLE" => since <= quiet
    /\ IdleMeansQuiet

(* What the polls count never overtakes how long it has been quiet.         *)
LEMMA Counting == Spec => []CountInv
<1> USE IdleTimeAssumption DEF CountInv, IdleMeansQuiet, Returned
<1>1. Init => CountInv
  BY DEF Init
<1>2. CountInv /\ [Next]_vars => CountInv'
  <2> SUFFICES ASSUME CountInv, [Next]_vars PROVE CountInv'
    OBVIOUS
  <2>1. CASE WaitForIdle
    <3>1. pc' # "idle" /\ state' = "UNDETERMINED" /\ since' = 0 /\ quiet' = 0
      BY <2>1 DEF WaitForIdle
    <3> QED BY <3>1
  <2>2. CASE ReadFails
    BY <2>2 DEF ReadFails
  <2>3. CASE Cancelled
    BY <2>3 DEF Cancelled
  <2>4. CASE CarWrites
    BY <2>4 DEF CarWrites
  <2>5. CASE \E gap \in 1 .. MaxGap : Poll(gap)
    <3> PICK gap \in 1 .. MaxGap : Poll(gap)
      BY <2>5
    <3>0. pc = "poll" /\ gap \in Nat
      BY DEF Poll
    <3>1. CASE busy
      <4>1. quiet' = 0 /\ state' = "WRITING" /\ pc' = pc /\ since' = since
        BY <3>1 DEF Poll, Sample
      <4> QED BY <3>0, <4>1
    <3>2. CASE ~busy
      <4>1. /\ quiet' = Cap(quiet + gap)
            /\ since' = IF state = "IDLE" THEN Cap(since + gap) ELSE 0
            /\ pc' = "idle" => state = "IDLE" /\ since' >= Timeout
        BY <3>2 DEF Poll, Sample
      <4> QED BY <3>0, <4>1 DEF Cap
    <3> QED BY <3>1, <3>2
  <2>6. CASE UNCHANGED vars
    BY <2>6 DEF vars
  <2> QED BY <2>1, <2>2, <2>3, <2>4, <2>5, <2>6 DEF Next
<1> QED BY <1>1, <1>2, PTL DEF Spec

(* Every variable keeps its type.                                           *)
THEOREM TypeCorrect == Spec => []TypeOK
<1> USE DEF TypeOK, Returned, States
<1>1. Init => TypeOK
  <2>1. 0 \in 0 .. Timeout
    BY IdleTimeAssumption
  <2> QED BY <2>1, Zenon DEF Init
<1>2. TypeOK /\ CountInv' /\ [Next]_vars => TypeOK'
  <2> SUFFICES ASSUME TypeOK, CountInv', [Next]_vars
               PROVE  /\ pc' \in {"poll"} \cup Returned
                      /\ state' \in States /\ busy' \in BOOLEAN
    BY DEF CountInv
  <2>1. CASE \E gap \in 1 .. MaxGap : Poll(gap)
    BY <2>1 DEF Poll, Sample
  <2>2. CASE WaitForIdle
    <3>1. pc' \in {"poll"} \cup Returned
      BY <2>2 DEF WaitForIdle
    <3> QED BY <2>2, <3>1 DEF WaitForIdle
  <2>3. CASE ReadFails \/ Cancelled \/ CarWrites \/ UNCHANGED vars
    BY <2>3 DEF ReadFails, Cancelled, CarWrites, vars
  <2> QED BY <2>1, <2>2, <2>3 DEF Next
<1> QED BY <1>1, <1>2, Counting, PTL DEF Spec

(* Idle is declared only after Timeout without one poll that found the car  *)
(* writing (fswatch.go:85-108).                                             *)
THEOREM IdleIsQuiet == Spec => []IdleMeansQuiet
<1>1. CountInv => IdleMeansQuiet
  BY DEF CountInv
<1> QED BY <1>1, Counting, PTL

-----------------------------------------------------------------------------
(* How many quiet polls WaitForIdle still needs at most.                    *)
PollsLeft ==
    CASE pc = "poll" /\ state = "IDLE" -> Timeout - since + 1
      [] pc = "poll" /\ state # "IDLE" -> Timeout + 2
      [] OTHER                         -> 0

(* WaitForIdle is over after at most Timeout + 2 quiet polls: each leaves   *)
(* fewer, however late it came, and only a write of the car or the next     *)
(* call adds any. That the polls come is what QuietReturns adds             *)
(* (fswatch.go:85-108).                                                     *)
THEOREM WaitIsBounded ==
    Spec => /\ [](PollsLeft \in 0 .. Timeout + 2)
            /\ [][\A gap \in 1 .. MaxGap :
                     Poll(gap) /\ ~busy => PollsLeft' < PollsLeft]_vars
            /\ [][PollsLeft' > PollsLeft => busy \/ WaitForIdle]_vars
<1> USE IdleTimeAssumption DEF CountInv, PollsLeft
<1>1. CountInv => PollsLeft \in 0 .. Timeout + 2
  OBVIOUS
<1>2. CountInv => \A gap \in 1 .. MaxGap :
                    Poll(gap) /\ ~busy => PollsLeft' < PollsLeft
  <2> SUFFICES ASSUME CountInv, NEW gap \in 1 .. MaxGap, Poll(gap), ~busy
               PROVE  PollsLeft' < PollsLeft
    OBVIOUS
  <2>1. /\ pc = "poll" /\ state' = "IDLE"
        /\ since' = IF state = "IDLE" THEN Cap(since + gap) ELSE 0
        /\ pc' = IF state = "IDLE" /\ since' >= Timeout THEN "idle" ELSE "poll"
    BY DEF Poll
  <2>2. since \in Nat /\ since <= Timeout /\ gap \in Nat /\ gap > 0
    OBVIOUS
  <2>3. CASE state = "IDLE"
    <3>1. PollsLeft = Timeout - since + 1
      BY <2>1, <2>3
    <3>2. CASE since + gap >= Timeout
      <4>1. since' = Timeout
        BY <2>1, <2>2, <2>3, <3>2 DEF Cap
      <4>2. PollsLeft' = 0
        BY <2>1, <2>3, <4>1
      <4> QED BY <2>2, <3>1, <4>2
    <3>3. CASE since + gap < Timeout
      <4>1. since' = since + gap /\ ~(since' >= Timeout)
        BY <2>1, <2>2, <2>3, <3>3 DEF Cap
      <4>2. PollsLeft' = Timeout - since' + 1
        BY <2>1, <4>1
      <4> QED BY <2>2, <3>1, <4>1, <4>2
    <3> QED BY <2>2, <3>2, <3>3
  <2>4. CASE state # "IDLE"
    <3>1. PollsLeft = Timeout + 2 /\ PollsLeft' = Timeout - 0 + 1
      BY <2>1, <2>4
    <3> QED BY <3>1
  <2> QED BY <2>3, <2>4
<1>3. CountInv /\ [Next]_vars => (PollsLeft' > PollsLeft => busy \/ WaitForIdle)
  <2> SUFFICES ASSUME CountInv, [Next]_vars, ~busy, ~WaitForIdle
               PROVE  ~(PollsLeft' > PollsLeft)
    OBVIOUS
  <2>0. PollsLeft \in Nat
    BY <1>1
  <2>1. CASE ReadFails \/ Cancelled
    <3>1. PollsLeft' = 0
      BY <2>1 DEF ReadFails, Cancelled
    <3> QED BY <2>0, <3>1
  <2>2. CASE CarWrites \/ UNCHANGED vars
    <3>1. PollsLeft' = PollsLeft
      BY <2>2 DEF CarWrites, vars
    <3> QED BY <2>0, <3>1
  <2>3. CASE \E gap \in 1 .. MaxGap : Poll(gap)
    <3>1. PollsLeft' < PollsLeft /\ pc = "poll"
      BY <1>2, <2>3 DEF Poll
    <3>2. PollsLeft' \in Int
      <4>1. since' \in Nat
        BY <2>3 DEF Poll, Cap
      <4> QED BY <4>1
    <3> QED BY <2>0, <3>1, <3>2
  <2> QED BY <2>1, <2>2, <2>3 DEF Next
<1> QED BY <1>1, <1>2, <1>3, Counting, PTL DEF Spec
=============================================================================
