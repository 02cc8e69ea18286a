----------------------- MODULE ArchiveSession_proofs -----------------------
(***************************************************************************)
(* What ArchiveSession promises for every set of entries, every number of   *)
(* sessions and of files, and every set of faults.                          *)
(***************************************************************************)
EXTENDS ArchiveSession, FiniteSetTheorems, TLAPS

-----------------------------------------------------------------------------
(* The inductive invariant, in parts.                                       *)

(* A session in flight is the last one, and its row says "running".         *)
FlightInv ==
    /\ pc # "idle" => last \in Sessions /\ status[last] = "running"
    /\ pc = "copy" => cur \in todo
    /\ \A f \in Entries : row[f] <= last

(* What the session in flight marked is on the server, but for the entry    *)
(* being copied; what it has still to do was there when it looked.          *)
DeliveryInv ==
    /\ \A f \in todo : shot[f] > 0
    /\ \A f \in Entries :
          pc # "idle" /\ row[f] = last => remote[f] > 0 \/ (pc = "copy" /\ f = cur)

(* What is on the server is marked and what is still to be done is not, but *)
(* for the entries a statement of the database failed for.                  *)
OnceInv ==
    /\ \A f \in Entries : remote[f] > 0 => Marked(f) \/ f \in slips
    /\ \A f \in todo : Marked(f) => (pc = "copy" /\ f = cur) \/ f \in slips
    /\ pc = "copy" => Marked(cur) \/ cur \in slips

(* The entries that are marked and not on the server; no two of them were   *)
(* marked by the same session.                                              *)
Missing == {f \in Entries : Marked(f) /\ remote[f] = 0}

LossInv ==
    /\ \A s \in Sessions : s <= last => status[s] # "none"
    /\ \A f, g \in Missing : row[f] = row[g] => f = g

-----------------------------------------------------------------------------
(* Close writes the row of one session.                                     *)
LEMMA ClosingKeepsTypes ==
    ASSUME TypeOK, last \in Sessions,
           NEW outcome \in {"completed", "failed"}, NEW n \in Nat, Close(outcome, n)
    PROVE  /\ status' \in [Sessions -> Statuses]
           /\ counted' \in [Sessions -> Nat]
           /\ cut' \subseteq Sessions
BY DEF TypeOK, Close, Statuses

(* What arrives on the server is not more than the car wrote.               *)
LEMMA BringingKeepsType ==
    ASSUME TypeOK, BringOver(TRUE) \/ UNCHANGED remote
    PROVE  remote' \in [Entries -> 0 .. MaxFiles]
<1>1. CASE UNCHANGED remote
  BY <1>1 DEF TypeOK
<1>2. CASE BringOver(TRUE)
  <2> PICK n \in shot[cur] .. cam[cur] : remote' = [remote EXCEPT ![cur] = n]
    BY <1>2 DEF BringOver
  <2>1. CASE cur \in Entries
    <3>1. n \in 0 .. MaxFiles
      BY <2>1, BoundsAssumption DEF TypeOK
    <3> QED BY <3>1 DEF TypeOK
  <2>2. CASE cur \notin Entries
    BY <2>2 DEF TypeOK
  <2> QED BY <2>1, <2>2
<1> QED BY <1>1, <1>2

(* Every variable keeps its type, and a session in flight is the last one.  *)
LEMMA Typing == Spec => [](TypeOK /\ FlightInv)
<1> USE BoundsAssumption, EntriesAssumption
<1>1. Init => TypeOK /\ FlightInv
  BY DEF Init, TypeOK, FlightInv, Statuses
<1>2. TypeOK /\ FlightInv /\ [Next]_vars => TypeOK' /\ FlightInv'
  <2> SUFFICES ASSUME TypeOK, FlightInv, [Next]_vars PROVE TypeOK' /\ FlightInv'
    OBVIOUS
  <2> USE DEF TypeOK, FlightInv, Sessions, Statuses, db, local, Return
  <2>1. CASE CreateSession
    BY <2>1 DEF CreateSession
  <2>2. CASE Scan
    <3>1. status' \in [Sessions -> Statuses] /\ counted' \in [Sessions -> Nat]
          /\ cut' \subseteq Sessions
      <4>1. CASE UNCHANGED <<status, counted, cut>>
        BY <4>1
      <4>2. CASE Close("completed", 0)
        <5>1. last \in Sessions
          BY <2>2 DEF Scan, Listings, OnCam, Unarchived
        <5> QED BY <4>2, <5>1, ClosingKeepsTypes
      <4> QED BY <2>2, <4>1, <4>2 DEF Scan, Listings, OnCam, Unarchived
    <3>2. todo' \subseteq Entries /\ pc' \in {"idle", "mark"}
      BY <2>2 DEF Scan, Listings, OnCam, Unarchived
    <3>3. pc' # "idle" => status' = status
      BY <2>2 DEF Scan, Listings, OnCam, Unarchived
    <3> QED BY <2>2, <3>1, <3>2, <3>3 DEF Scan, Listings, OnCam, Unarchived
  <2>3. CASE Copied(TRUE)
    <3>1. remote' \in [Entries -> 0 .. MaxFiles]
      BY <2>3, BringingKeepsType DEF Copied
    <3>2. index' \in Nat /\ todo' \subseteq Entries /\ cur' = NoEntry
      BY <2>3 DEF Copied
    <3>3. pc' \in {"mark", "done"} /\ pc = "copy"
      BY <2>3 DEF Copied
    <3>4. UNCHANGED <<cam, db, archived, shot, cut, slips>>
      BY <2>3 DEF Copied
    <3> QED BY <3>1, <3>2, <3>3, <3>4
  <2>4. CASE CopyFailed(TRUE)
    <3>1. remote' \in [Entries -> 0 .. MaxFiles]
      BY <2>4, BringingKeepsType DEF CopyFailed
    <3>2. status' \in [Sessions -> Statuses] /\ counted' \in [Sessions -> Nat]
          /\ cut' \subseteq Sessions
      <4>1. last \in Sessions /\ counted[last] \in Nat
        BY <2>4 DEF CopyFailed
      <4> QED BY <2>4, <4>1, ClosingKeepsTypes DEF CopyFailed
    <3> QED BY <2>4, <3>1, <3>2 DEF CopyFailed
  <2>5. CASE Complete
    BY <2>5 DEF Complete, Close
  <2>6. CASE \E f \in Entries : Progress(f)
    <3> PICK f \in Entries : Progress(f) BY <2>6
    <3>1. row' = row \/ row' = [row EXCEPT ![f] = last]
      BY DEF Progress, MarkArchived
    <3>2. row' \in [Entries -> 0 .. MaxSessions]
      BY <3>1
    <3>3. ASSUME NEW g \in Entries PROVE row'[g] <= last
      <4>1. row'[g] = row[g] \/ row'[g] = last
        BY <3>1
      <4> QED BY <4>1
    <3> QED BY <3>2, <3>3 DEF Progress, MarkArchived
  <2>7. CASE Crash
    BY <2>7 DEF Crash
  <2>8. CASE \E f \in Entries : CarWrites(f)
    <3> PICK f \in Entries : CarWrites(f) BY <2>8
    <3>1. cam' \in [Entries -> 0 .. MaxFiles]
      BY DEF CarWrites
    <3> QED BY <3>1 DEF CarWrites
  <2>9. CASE UNCHANGED vars
    BY <2>9 DEF vars
  <2> QED
    BY <2>1, <2>2, <2>3, <2>4, <2>5, <2>6, <2>7, <2>8, <2>9 DEF Next, Session
<1> QED BY <1>1, <1>2, PTL DEF Spec

(* Every variable keeps its type.                                           *)
THEOREM TypeCorrect == Spec => []TypeOK
BY Typing, PTL

(* What a session marks it delivers before it is recorded as completed.     *)
LEMMA Delivering == Spec => [](DeliveryInv /\ CompletedSessionDelivers)
<1> DEFINE Inv == DeliveryInv /\ CompletedSessionDelivers
<1> USE BoundsAssumption, EntriesAssumption
<1>1. Init => Inv
  BY DEF Init, DeliveryInv, CompletedSessionDelivers, Marked
<1>2. TypeOK /\ FlightInv /\ Inv /\ [Next]_vars => Inv'
  <2> SUFFICES ASSUME TypeOK, FlightInv, Inv, [Next]_vars PROVE Inv'
    OBVIOUS
  <2> USE DEF TypeOK, FlightInv, DeliveryInv, CompletedSessionDelivers, Marked,
              Sessions, Statuses, db, local, Return
  <2>1. CASE CreateSession
    BY <2>1 DEF CreateSession
  <2>2. CASE Scan
    BY <2>2 DEF Scan, Listings, OnCam, Unarchived, Close
  <2>3. CASE Copied(TRUE)
    <3>1. PICK n \in shot[cur] .. cam[cur] : remote' = [remote EXCEPT ![cur] = n]
      BY <2>3 DEF Copied, BringOver
    <3>2. cur \in Entries /\ n > 0
      BY <2>3, <3>1 DEF Copied
    <3>3. \A f \in Entries : remote[f] > 0 => remote'[f] > 0
      BY <3>1, <3>2
    <3>4. remote'[cur] > 0
      BY <3>1, <3>2
    <3> HIDE DEF BringOver
    <3> QED BY <2>3, <3>2, <3>3, <3>4 DEF Copied
  <2>4. CASE CopyFailed(TRUE)
    <3>1. \A f \in Entries : remote[f] > 0 => remote'[f] > 0
      <4>1. CASE UNCHANGED remote
        BY <4>1
      <4>2. CASE BringOver(TRUE)
        BY <2>4, <4>2 DEF CopyFailed, BringOver
      <4> QED BY <2>4, <4>1, <4>2 DEF CopyFailed
    <3>2. /\ status'[last] # "completed"
          /\ \A s \in Sessions : status'[s] = "completed" => status[s] = "completed"
      BY <2>4 DEF CopyFailed, Close
    <3>3. row' = row /\ pc' = "idle" /\ todo' = {}
      BY <2>4 DEF CopyFailed
    <3> QED BY <3>1, <3>2, <3>3
  <2>5. CASE Complete
    BY <2>5 DEF Complete, Close
  <2>6. CASE \E f \in Entries : Progress(f)
    BY <2>6 DEF Progress, MarkArchived
  <2>7. CASE Crash
    BY <2>7 DEF Crash
  <2>8. CASE \E f \in Entries : CarWrites(f)
    BY <2>8 DEF CarWrites
  <2>9. CASE UNCHANGED vars
    BY <2>9 DEF vars
  <2> QED
    BY <2>1, <2>2, <2>3, <2>4, <2>5, <2>6, <2>7, <2>8, <2>9 DEF Next, Session
<1> QED BY <1>1, <1>2, Typing, PTL DEF Spec

(* A session recorded as completed delivered every path it marked.          *)
THEOREM CompletedDelivers == Spec => []CompletedSessionDelivers
BY Delivering, PTL

(* No outcome of runArchive leaves its session "running".                   *)
THEOREM RunningIsInFlight == Spec => []RunningMeansInFlight
<1> USE BoundsAssumption
<1>1. Init => RunningMeansInFlight
  BY DEF Init, RunningMeansInFlight
<1>2. TypeOK /\ FlightInv /\ RunningMeansInFlight /\ [Next]_vars => RunningMeansInFlight'
  <2> SUFFICES ASSUME TypeOK, FlightInv, RunningMeansInFlight, [Next]_vars
               PROVE  RunningMeansInFlight'
    OBVIOUS
  <2> USE DEF TypeOK, FlightInv, RunningMeansInFlight, Sessions, Statuses, db,
              local, Return
  <2>1. CASE CreateSession
    BY <2>1 DEF CreateSession
  <2>2. CASE Scan
    BY <2>2 DEF Scan, Listings, OnCam, Unarchived, Close
  <2>3. CASE Copied(TRUE)
    BY <2>3 DEF Copied, BringOver
  <2>4. CASE CopyFailed(TRUE)
    BY <2>4 DEF CopyFailed, BringOver, Close
  <2>5. CASE Complete
    BY <2>5 DEF Complete, Close
  <2>6. CASE \E f \in Entries : Progress(f)
    BY <2>6 DEF Progress, MarkArchived
  <2>7. CASE Crash
    BY <2>7 DEF Crash
  <2>8. CASE \E f \in Entries : CarWrites(f)
    BY <2>8 DEF CarWrites
  <2>9. CASE UNCHANGED vars
    BY <2>9 DEF vars
  <2> QED
    BY <2>1, <2>2, <2>3, <2>4, <2>5, <2>6, <2>7, <2>8, <2>9 DEF Next, Session
<1> QED BY <1>1, <1>2, Typing, PTL DEF Spec

(* A step that marks nothing and takes nothing from the server leaves no    *)
(* more entries missing.                                                    *)
LEMMA NothingMoreMissing ==
    ASSUME TypeOK, row' = row,
           \A f \in Entries : remote[f] > 0 => remote'[f] # 0
    PROVE  Missing' \subseteq Missing
BY DEF TypeOK, Missing, Marked

(* Every session loses at most the entry it was copying.                    *)
LEMMA Losing == Spec => []LossInv
<1> USE BoundsAssumption, EntriesAssumption DEF Sessions, db, local, Return
<1>1. Init => LossInv
  BY DEF Init, LossInv, Missing, Marked
<1>2. TypeOK /\ FlightInv /\ DeliveryInv /\ LossInv /\ [Next]_vars => LossInv'
  <2> SUFFICES ASSUME TypeOK, FlightInv, DeliveryInv, LossInv, [Next]_vars
               PROVE  LossInv'
    OBVIOUS
  <2> DEFINE Kept == row' = row /\ \A f \in Entries : remote[f] > 0 => remote'[f] # 0
  <2>0. ASSUME Kept, \A s \in Sessions : s <= last' => status'[s] # "none"
        PROVE  LossInv'
    <3>1. Missing' \subseteq Missing
      BY <2>0, NothingMoreMissing
    <3> QED BY <2>0, <3>1 DEF LossInv
  <2>1. CASE CreateSession
    <3>1. Kept
      BY <2>1 DEF CreateSession, TypeOK
    <3>2. \A s \in Sessions : s <= last' => status'[s] # "none"
      BY <2>1 DEF CreateSession, LossInv, TypeOK
    <3> QED BY <2>0, <3>1, <3>2
  <2>2. CASE Scan
    <3>1. Kept /\ last' = last
      BY <2>2 DEF Scan, TypeOK
    <3>2. status' = status \/ status' = [status EXCEPT ![last] = "completed"]
      BY <2>2 DEF Scan, Close
    <3>3. \A s \in Sessions : s <= last' => status'[s] # "none"
      BY <3>1, <3>2 DEF LossInv, TypeOK
    <3> HIDE DEF Kept
    <3> QED BY <2>0, <3>1, <3>3
  <2>3. CASE Copied(TRUE)
    <3>1. PICK n \in shot[cur] .. cam[cur] : remote' = [remote EXCEPT ![cur] = n]
      BY <2>3 DEF Copied, BringOver
    <3>2. cur \in Entries /\ n > 0
      BY <2>3, <3>1 DEF Copied, FlightInv, DeliveryInv, TypeOK
    <3>3. Kept
      BY <2>3, <3>1, <3>2 DEF Copied, TypeOK
    <3>4. \A s \in Sessions : s <= last' => status'[s] # "none"
      BY <2>3 DEF Copied, LossInv
    <3> HIDE DEF Kept
    <3> QED BY <2>0, <3>3, <3>4
  <2>4. CASE CopyFailed(TRUE)
    <3>1. \A f \in Entries : remote[f] > 0 => remote'[f] # 0
      <4>1. CASE UNCHANGED remote
        BY <4>1 DEF TypeOK
      <4>2. CASE BringOver(TRUE)
        <5>1. PICK n \in shot[cur] .. cam[cur] : remote' = [remote EXCEPT ![cur] = n]
          BY <4>2 DEF BringOver
        <5>2. cur \in Entries /\ n > 0
          BY <2>4, <5>1 DEF CopyFailed, FlightInv, DeliveryInv, TypeOK
        <5> QED BY <5>1, <5>2 DEF TypeOK
      <4> QED BY <2>4, <4>1, <4>2 DEF CopyFailed
    <3>2. Kept /\ last' = last
      BY <2>4, <3>1 DEF CopyFailed
    <3>3. status' = status \/ status' = [status EXCEPT ![last] = "failed"]
      BY <2>4 DEF CopyFailed, Close
    <3>4. \A s \in Sessions : s <= last' => status'[s] # "none"
      BY <3>2, <3>3 DEF LossInv, TypeOK
    <3> HIDE DEF Kept
    <3> QED BY <2>0, <3>2, <3>4
  <2>5. CASE Complete
    <3>1. Kept /\ last' = last
      BY <2>5 DEF Complete, TypeOK
    <3>2. status' = status \/ status' = [status EXCEPT ![last] = "completed"]
      BY <2>5 DEF Complete, Close
    <3>3. \A s \in Sessions : s <= last' => status'[s] # "none"
      BY <3>1, <3>2 DEF LossInv, TypeOK
    <3> HIDE DEF Kept
    <3> QED BY <2>0, <3>1, <3>3
  <2>6. CASE \E f \in Entries : Progress(f)
    <3> PICK f \in Entries : Progress(f) BY <2>6
    <3>1. pc = "mark" /\ remote' = remote /\ last' = last /\ status' = status
      BY DEF Progress
    <3>2. row' = row \/ row' = [row EXCEPT ![f] = last]
      BY DEF Progress, MarkArchived
    <3>3. \A g \in Missing : row[g] # last
      BY <3>1 DEF DeliveryInv, Missing, TypeOK
    <3>4. \A g \in Missing' : g \in Missing \/ (g = f /\ row'[g] = last)
      BY <3>1, <3>2 DEF Missing, Marked, TypeOK
    <3>5. \A g \in Missing' : g # f => g \in Missing /\ row'[g] = row[g]
      BY <3>2, <3>4 DEF Missing, TypeOK
    <3>6. f \in Missing' => row'[f] = last \/ (f \in Missing /\ row' = row)
      BY <3>2, <3>4 DEF Missing, TypeOK
    <3>7. ASSUME NEW g \in Missing', NEW h \in Missing', row'[g] = row'[h]
          PROVE  g = h
      <4>1. CASE row' = row
        <5>1. Missing' = Missing
          BY <3>1, <4>1 DEF Missing, Marked
        <5> QED BY <3>7, <4>1, <5>1 DEF LossInv
      <4>2. CASE row' = [row EXCEPT ![f] = last]
        <5>1. row'[f] = last
          BY <4>2 DEF TypeOK
        <5> QED BY <3>3, <3>5, <3>7, <5>1 DEF LossInv
      <4> QED BY <3>2, <4>1, <4>2
    <3> QED BY <3>1, <3>7 DEF LossInv
  <2>7. CASE Crash
    BY <2>7, <2>0 DEF Crash, LossInv, TypeOK
  <2>8. CASE \E f \in Entries : CarWrites(f)
    BY <2>8, <2>0 DEF CarWrites, LossInv, TypeOK
  <2>9. CASE UNCHANGED vars
    BY <2>9, <2>0 DEF vars, LossInv, TypeOK
  <2> QED
    BY <2>1, <2>2, <2>3, <2>4, <2>5, <2>6, <2>7, <2>8, <2>9 DEF Next, Session
<1> QED BY <1>1, <1>2, Typing, Delivering, PTL DEF Spec

(* Marking before copying costs at most one entry for each session that did *)
(* not complete.                                                            *)
THEOREM LossIsBounded == Spec => []LossBounded
<1>1. TypeOK /\ FlightInv /\ CompletedSessionDelivers /\ LossInv => LossBounded
  <2> SUFFICES ASSUME TypeOK, FlightInv, CompletedSessionDelivers, LossInv
               PROVE  LossBounded
    OBVIOUS
  <2> DEFINE Open == {s \in Sessions : status[s] \in {"running", "failed"}}
             by   == [f \in Missing |-> row[f]]
  <2>1. \A f \in Missing : row[f] \in Open
    <3> SUFFICES ASSUME NEW f \in Missing PROVE row[f] \in Open
      OBVIOUS
    <3>1. f \in Entries /\ Marked(f) /\ remote[f] = 0
      BY DEF Missing
    <3>2. row[f] \in Sessions /\ row[f] <= last
      BY <3>1, BoundsAssumption DEF TypeOK, FlightInv, Marked, Sessions
    <3>3. status[row[f]] \in Statuses
      BY <3>2 DEF TypeOK
    <3>4. status[row[f]] # "none" /\ status[row[f]] # "completed"
      BY <3>1, <3>2 DEF LossInv, CompletedSessionDelivers
    <3> QED BY <3>2, <3>3, <3>4 DEF Statuses
  <2>2. by \in Injection(Missing, Open)
    BY <2>1 DEF LossInv, Injection, IsInjective
  <2>3. IsFiniteSet(Open)
    <3>1. IsFiniteSet(Sessions)
      BY BoundsAssumption, FS_Interval DEF Sessions
    <3> QED BY <3>1, FS_Subset
  <2> HIDE DEF Open, by
  <2>4. Cardinality(Missing) <= Cardinality(Open)
    BY <2>2, <2>3, FS_Injection
  <2> QED BY <2>4 DEF LossBounded, Missing, Open
<1> QED BY <1>1, Typing, Delivering, Losing, PTL

(* Nothing is sent twice but what a statement of the database failed for.   *)
THEOREM SentOnlyOnce == Spec => SentOnce
<1> USE BoundsAssumption, EntriesAssumption
<1>1. Init => OnceInv
  BY DEF Init, OnceInv
<1>2. TypeOK /\ FlightInv /\ OnceInv /\ [Next]_vars => OnceInv'
  <2> SUFFICES ASSUME TypeOK, FlightInv, OnceInv, [Next]_vars PROVE OnceInv'
    OBVIOUS
  <2> USE DEF TypeOK, FlightInv, OnceInv, Marked, Sessions, db, local, Return
  <2>1. CASE CreateSession
    BY <2>1 DEF CreateSession
  <2>2. CASE Scan
    BY <2>2 DEF Scan, Listings, OnCam, Unarchived, Close
  <2>3. CASE Copied(TRUE)
    BY <2>3 DEF Copied, BringOver
  <2>4. CASE CopyFailed(TRUE)
    <3>1. \A f \in Entries : remote'[f] = remote[f] \/ f = cur
      BY <2>4 DEF CopyFailed, BringOver
    <3> QED BY <2>4, <3>1 DEF CopyFailed, Close
  <2>5. CASE Complete
    BY <2>5 DEF Complete, Close
  <2>6. CASE \E f \in Entries : Progress(f)
    BY <2>6 DEF Progress, MarkArchived
  <2>7. CASE Crash
    BY <2>7 DEF Crash
  <2>8. CASE \E f \in Entries : CarWrites(f)
    BY <2>8 DEF CarWrites
  <2>9. CASE UNCHANGED vars
    BY <2>9 DEF vars
  <2> QED
    BY <2>1, <2>2, <2>3, <2>4, <2>5, <2>6, <2>7, <2>8, <2>9 DEF Next, Session
<1>3. TypeOK /\ OnceInv /\ [Next]_vars
        => [pc = "mark" /\ pc' = "copy" => remote[cur'] = 0 \/ cur' \in slips]_vars
  <2> SUFFICES ASSUME TypeOK, OnceInv, Next, pc = "mark", pc' = "copy"
               PROVE  remote[cur'] = 0 \/ cur' \in slips
    BY DEF vars
  <2>1. PICK f \in Entries : Progress(f)
    BY DEF Next, Session, CreateSession, Scan, Copied, CopyFailed, Complete, Crash,
           CarWrites, Return
  <2>2. cur' = f /\ f \in todo /\ (Marked(f) => f \in slips)
    BY <2>1 DEF OnceInv, Progress
  <2> QED BY <2>2 DEF OnceInv, TypeOK
<1> QED BY <1>1, <1>2, <1>3, Typing, PTL DEF Spec, SentOnce

-----------------------------------------------------------------------------
(* How many steps a session has left: the scan, a mark and a copy for each  *)
(* entry that is left to do, the last UPDATE.                               *)
SessionLeft ==
    CASE pc = "scan" -> 2 * Cardinality(Entries) + 2
      [] pc = "mark" -> 2 * Cardinality(todo) + 1
      [] pc = "copy" -> 2 * Cardinality(todo)
      [] pc = "done" -> 1
      [] OTHER       -> 0

(* The entry that is copied is still on the list.                           *)
CopyInv == pc = "copy" => cur \in todo

LEMMA Copying == Spec => []CopyInv
<1> USE DEF CopyInv
<1>1. Init => CopyInv
  BY DEF Init
<1>2. CopyInv /\ [Next]_vars => CopyInv'
  BY DEF Next, vars, Session, CreateSession, Scan, Progress, Copied, CopyFailed, Complete,
         Crash, CarWrites, Return, local
<1> QED BY <1>1, <1>2, PTL DEF Spec

LEMMA SessionCounts ==
    ASSUME IsFiniteSet(Entries), TypeOK
    PROVE  /\ Cardinality(todo) \in 0 .. Cardinality(Entries)
           /\ Cardinality(Entries) \in Nat
           /\ SessionLeft \in 0 .. 2 * Cardinality(Entries) + 2
<1>1. todo \in SUBSET Entries
  BY DEF TypeOK
<1>2. /\ IsFiniteSet(todo) /\ Cardinality(todo) <= Cardinality(Entries)
      /\ Cardinality(todo) \in Nat /\ Cardinality(Entries) \in Nat
  BY <1>1, FS_Subset, FS_CardinalityType
<1> QED BY <1>2 DEF SessionLeft

(* Every step of a session, whatever fails in it, leaves fewer.             *)
LEMMA SessionShrinks ==
    ASSUME IsFiniteSet(Entries), TypeOK, TypeOK', CopyInv, NEW r, Session(r)
    PROVE  SessionLeft' < SessionLeft
<1> DEFINE n == Cardinality(todo)
           m == Cardinality(todo')
           e == Cardinality(Entries)
<1>1. n \in 0 .. e /\ e \in Nat
  BY SessionCounts
<1>2. todo \in SUBSET Entries /\ todo' \in SUBSET Entries
  BY DEF TypeOK
<1>3. IsFiniteSet(todo) /\ m \in Nat /\ m <= e
  BY <1>2, FS_Subset, FS_CardinalityType
<1>4. CASE Scan
  <2>1. pc = "scan" /\ pc' \in {"idle", "mark"}
    BY <1>4 DEF Scan
  <2>2. SessionLeft = 2 * e + 2
    BY <2>1 DEF SessionLeft
  <2>3. SessionLeft' = IF pc' = "mark" THEN 2 * m + 1 ELSE 0
    BY <2>1 DEF SessionLeft
  <2> QED BY <1>1, <1>3, <2>2, <2>3
<1>5. CASE \E f \in Entries : Progress(f)
  <2>1. pc = "mark" /\ pc' = "copy" /\ todo' = todo
    BY <1>5 DEF Progress
  <2>2. SessionLeft = 2 * n + 1 /\ SessionLeft' = 2 * m /\ m = n
    BY <2>1 DEF SessionLeft
  <2> HIDE DEF n, m
  <2> QED BY <1>1, <2>2
<1>6. CASE Copied(r) \/ CopyFailed(r)
  <2>1. pc = "copy" /\ cur \in todo
    BY <1>6 DEF Copied, CopyFailed, CopyInv
  <2>2. SessionLeft = 2 * n
    BY <2>1 DEF SessionLeft
  <2>3. n # 0
    BY <1>3, <2>1, FS_EmptySet
  <2>4. CASE Copied(r)
    <3>1. todo' = todo \ {cur} /\ pc' \in {"done", "mark"}
      BY <2>4 DEF Copied
    <3>2. m = n - 1
      BY <1>3, <2>1, <3>1, FS_RemoveElement
    <3>3. SessionLeft' = IF pc' = "mark" THEN 2 * m + 1 ELSE 1
      BY <3>1 DEF SessionLeft
    <3> HIDE DEF n, m
    <3> QED BY <1>1, <2>2, <2>3, <3>2, <3>3
  <2>5. CASE CopyFailed(r)
    <3>1. SessionLeft' = 0
      BY <2>5 DEF CopyFailed, Return, SessionLeft
    <3> HIDE DEF n
    <3> QED BY <1>1, <2>2, <2>3, <3>1
  <2> QED BY <1>6, <2>4, <2>5
<1>7. CASE Complete
  BY <1>7 DEF Complete, Return, SessionLeft
<1> QED BY <1>4, <1>5, <1>6, <1>7 DEF Session

(* A session is over after at most two steps for each entry and two more,   *)
(* whatever fails and whatever the car writes meanwhile: each step leaves   *)
(* fewer, and only the next session begins anew (main.go:377-421).          *)
THEOREM SessionIsBounded ==
    ASSUME IsFiniteSet(Entries)
    PROVE  Spec => /\ [](SessionLeft \in 0 .. 2 * Cardinality(Entries) + 2)
                   /\ [][Session(TRUE) => SessionLeft' < SessionLeft]_vars
                   /\ [][SessionLeft' > SessionLeft => CreateSession]_vars
<1>1. TypeOK => SessionLeft \in 0 .. 2 * Cardinality(Entries) + 2
  BY SessionCounts
<1>2. TypeOK /\ TypeOK' /\ CopyInv => (Session(TRUE) => SessionLeft' < SessionLeft)
  BY SessionShrinks
<1>3. TypeOK /\ TypeOK' /\ CopyInv /\ [Next]_vars
        => (SessionLeft' > SessionLeft => CreateSession)
  <2> SUFFICES ASSUME TypeOK, TypeOK', CopyInv, [Next]_vars, ~CreateSession
               PROVE  ~(SessionLeft' > SessionLeft)
    OBVIOUS
  <2>1. SessionLeft \in Int /\ SessionLeft' \in Int
    <3>1. SessionLeft \in 0 .. 2 * Cardinality(Entries) + 2
      BY SessionCounts
    <3>2. /\ todo' \in SUBSET Entries /\ Cardinality(Entries) \in Nat
      BY SessionCounts DEF TypeOK
    <3>3. Cardinality(todo') \in Nat
      BY <3>2, FS_Subset, FS_CardinalityType
    <3>4. SessionLeft' \in Int
      BY <3>2, <3>3 DEF SessionLeft
    <3> QED BY <3>1, <3>2, <3>4
  <2>2. CASE Session(TRUE)
    <3>1. SessionLeft' < SessionLeft
      BY <2>2, SessionShrinks
    <3> QED BY <2>1, <3>1
  <2>3. CASE Crash
    <3>1. SessionLeft' = 0 /\ SessionLeft >= 0
      BY <2>3, SessionCounts DEF Crash, Return, SessionLeft
    <3> QED BY <2>1, <3>1
  <2>4. CASE UNCHANGED <<pc, todo>>
    <3>1. SessionLeft' = SessionLeft
      BY <2>4 DEF SessionLeft
    <3> QED BY <2>1, <3>1
  <2>5. CASE \E f \in Entries : CarWrites(f)
    BY <2>4, <2>5 DEF CarWrites, local
  <2> QED BY <2>2, <2>3, <2>4, <2>5 DEF Next, vars
<1> QED BY <1>1, <1>2, <1>3, TypeCorrect, Copying, PTL DEF Spec
=============================================================================
