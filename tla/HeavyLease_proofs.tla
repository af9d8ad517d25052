------------------------- MODULE HeavyLease_proofs --------------------------
(* What the heavy-operation guard guarantees for any number of requests,   *)
(* API processes and clock ticks.                                          *)
EXTENDS HeavyLease, TLAPS

(* The part of the type invariant that is not about the Boolean history.   *)
DataOK ==
  /\ row \in Row \cup {NoRow}
  /\ pc \in [Requests -> {"idle", "inserting", "taking", "holding", "releasing"}]
  /\ left \in [Requests -> 0 .. LeaseTicks]
  /\ beating \subseteq Requests

(* A request writes a well-formed row.                                     *)
LEMMA FreshRow ==
  ASSUME DataOK, NEW t \in Requests
  PROVE  Fresh(t) \in Row
BY LeaseAssumption DEF DataOK, Fresh, Row

LEMMA DataCorrect == Spec => []DataOK
<1> USE LeaseAssumption DEF Row, DataOK
<1>1. Init => DataOK
  BY DEF Init
<1>2. DataOK /\ [Next]_vars => DataOK'
  <2> SUFFICES ASSUME DataOK, [Next]_vars
               PROVE  DataOK'
    OBVIOUS
  <2>1. ASSUME NEW t \in Requests, Read(t)
        PROVE  DataOK'
    BY <2>1 DEF Read
  <2>2. ASSUME NEW t \in Requests, Insert(t)
        PROVE  DataOK'
    BY <2>2, FreshRow DEF Insert
  <2>3. ASSUME NEW t \in Requests, TakeOver(t)
        PROVE  DataOK'
    BY <2>3, FreshRow DEF TakeOver
  <2>4. ASSUME NEW t \in Requests, Heartbeat(t)
        PROVE  DataOK'
    BY <2>4 DEF Heartbeat, Present
  <2>5. ASSUME NEW t \in Requests, Finish(t)
        PROVE  DataOK'
    BY <2>5 DEF Finish
  <2>6. ASSUME NEW t \in Requests, Delete(t)
        PROVE  DataOK'
    BY <2>6 DEF Delete
  <2>7. ASSUME NEW g \in Guards, Crash(g)
        PROVE  DataOK'
    BY <2>7 DEF Crash, Present
  <2>8. CASE Tick
    BY <2>8 DEF Tick, Present, Less
  <2>9. CASE UNCHANGED vars
    BY <2>9 DEF vars
  <2>10. QED
    BY <2>1, <2>2, <2>3, <2>4, <2>5, <2>6, <2>7, <2>8, <2>9 DEF Next
<1>3. QED
  BY <1>1, <1>2, PTL DEF Spec

LEMMA RacedCorrect == Spec => [](raced \in BOOLEAN)
<1>1. Init => raced \in BOOLEAN
  BY DEF Init
<1>2. raced \in BOOLEAN /\ [Next]_vars => (raced \in BOOLEAN)'
  BY Zenon DEF Next, vars, Read, Insert, TakeOver, Heartbeat, Finish, Delete,
               Crash, Tick
<1>3. QED
  BY <1>1, <1>2, PTL DEF Spec

(* The lease row, the requests and the heartbeats keep their types.        *)
THEOREM TypeCorrect == Spec => []TypeOK
<1>1. DataOK /\ raced \in BOOLEAN => TypeOK
  BY Zenon DEF DataOK, TypeOK
<1>2. QED
  BY <1>1, DataCorrect, RacedCorrect, PTL

-----------------------------------------------------------------------------
(* Without a race the row belongs to the one request inside its operation. *)
THEOREM LeaseInvariant == Spec => []LeaseInv
<1> USE LeaseAssumption
<1>1. Init => LeaseInv
  <2> SUFFICES ASSUME Init
               PROVE  LeaseInv
    OBVIOUS
  <2>1. Holders = {} /\ Pending = {}
    BY DEF Init, Holders, Pending
  <2>2. ~Present
    BY DEF Init, Present
  <2>3. QED
    BY <2>1, <2>2, Zenon DEF LeaseInv
<1>2. DataOK /\ LeaseInv /\ [Next]_vars => LeaseInv'
  <2> SUFFICES ASSUME DataOK, LeaseInv, [Next]_vars
               PROVE  LeaseInv'
    OBVIOUS
  <2> USE DEF DataOK, LeaseInv, Holders, Releasing, Pending, Present
  <2>1. ASSUME NEW t \in Requests, Read(t)
        PROVE  LeaseInv'
    BY <2>1 DEF Read, Row
  <2>2. ASSUME NEW t \in Requests, Insert(t)
        PROVE  LeaseInv'
    BY <2>2, FreshRow DEF Insert, Fresh, Row
  <2>3. ASSUME NEW t \in Requests, TakeOver(t)
        PROVE  LeaseInv'
    <3>1. ~raced' => ~raced /\ (~Present \/ Expired)
      BY <2>3, Zenon DEF TakeOver
    <3>2. left[t] > 0 /\ left[t] \in Nat
      BY <2>3 DEF TakeOver
    <3>3. ASSUME ~raced'
          PROVE  Holders = {}
      BY <3>1, <3>3 DEF Expired, Row
    <3>4. /\ pc' = [pc EXCEPT ![t] = "holding"]
          /\ row' = Fresh(t) /\ beating' = beating \cup {t} /\ left' = left
      BY <2>3, Zenon DEF TakeOver
    <3>5. row' \in Row /\ row'.by = t /\ row'.owner = HomeOf[t] /\ row'.ttl > 0
      BY <3>2, <3>4, FreshRow DEF Fresh
    <3>6. Pending' \subseteq Pending
      BY <3>4
    <3>7. ASSUME ~raced'
          PROVE  Holders' = {t}
      BY <3>3, <3>4, <3>7
    <3>8. (\A s \in Pending : left[s] > 0)'
      BY <3>4, <3>6
    <3>9. (t \in beating \cup Releasing)'
      BY <3>4
    <3>10. QED
      BY <3>5, <3>7, <3>8, <3>9, Zenon DEF LeaseInv, Present
  <2>4. ASSUME NEW t \in Requests, Heartbeat(t)
        PROVE  LeaseInv'
    BY <2>4 DEF Heartbeat, Row
  <2>5. ASSUME NEW t \in Requests, Finish(t)
        PROVE  LeaseInv'
    BY <2>5 DEF Finish, Row
  <2>6. ASSUME NEW t \in Requests, Delete(t)
        PROVE  LeaseInv'
    BY <2>6 DEF Delete, Row
  <2>7. ASSUME NEW g \in Guards, Crash(g)
        PROVE  LeaseInv'
    BY <2>7 DEF Crash, Row
  <2>8. CASE Tick
    BY <2>8 DEF Tick, Timely, Less, Row
  <2>9. CASE UNCHANGED vars
    BY <2>9 DEF vars
  <2>10. QED
    BY <2>1, <2>2, <2>3, <2>4, <2>5, <2>6, <2>7, <2>8, <2>9 DEF Next
<1>3. QED
  BY <1>1, <1>2, DataCorrect, PTL DEF Spec

(* Two heavy operations overlap only after one takeover deleted the row of *)
(* another.                                                                *)
THEOREM Exclusion == Spec => []ExclusionUnlessRaced
<1>1. LeaseInv => ExclusionUnlessRaced
  BY DEF LeaseInv, ExclusionUnlessRaced
<1>2. QED
  BY <1>1, LeaseInvariant, PTL

(* A live row always means a running operation, unless a race happened.    *)
THEOREM Busy == Spec => []BusyMeansBusy
<1>1. LeaseInv => BusyMeansBusy
  BY DEF LeaseInv, BusyMeansBusy
<1>2. QED
  BY <1>1, LeaseInvariant, PTL
=============================================================================
