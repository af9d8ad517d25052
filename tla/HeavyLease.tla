----------------------------- MODULE HeavyLease -----------------------------
(***************************************************************************)
(* The heavy-operation guard (common/operation_guard.py): one row of the   *)
(* registry, key "global", taken by an operation before it runs, renewed   *)
(* by a heartbeat thread while it runs and deleted when it ends.           *)
(*                                                                         *)
(* Every request of an API process goes through the process's one guard    *)
(* object, so all of them present the same owner_id.  A session that only  *)
(* reads does not hold SQLite's write lock: the read of the row and the    *)
(* write that follows it are separate steps.                               *)
(*                                                                         *)
(* Time is the remaining life of the row: 0 stands for expires_at <= now.  *)
(***************************************************************************)
EXTENDS Naturals

CONSTANTS
  Requests,     \* the requests that ask for the guard
  Guards,       \* the guard objects, one per API process
  HomeOf,       \* the guard a request goes through
  LeaseTicks,   \* lease_seconds, in ticks of the clock
  NoRow,        \* the row is absent
  Gone          \* the owner_id of a process that is no more

(* The lease row.  Its "by" is history: the request that inserted it.      *)
Row == [by: Requests, owner: Guards \cup {Gone}, ttl: 0 .. LeaseTicks]

ASSUME LeaseAssumption ==
  /\ HomeOf \in [Requests -> Guards]
  /\ LeaseTicks \in Nat \ {0}
  /\ Gone \notin Guards
  /\ NoRow \notin Row

VARIABLES
  row,      \* the lease row, or NoRow
  pc,       \* where a request stands in acquire()
  left,     \* what a lease stamped when the request read the row has left
  beating,  \* the requests whose heartbeat thread is alive
  raced     \* history: a takeover deleted a row that had not expired

vars == <<row, pc, left, beating, raced>>

TypeOK ==
  /\ row \in Row \cup {NoRow}
  /\ pc \in [Requests -> {"idle", "inserting", "taking", "holding", "releasing"}]
  /\ left \in [Requests -> 0 .. LeaseTicks]
  /\ beating \subseteq Requests
  /\ raced \in BOOLEAN

Present == row \in Row

(* Mutant: the expiry time of the row is never compared with the clock.    *)
NeverExpired == FALSE
Expired == Present /\ row.ttl = 0

Releasing == {t \in Requests : pc[t] = "releasing"}
Holders == {t \in Requests : pc[t] \in {"holding", "releasing"}}
Pending == {t \in Requests : pc[t] \in {"inserting", "taking"}}

Init ==
  /\ row = NoRow
  /\ pc = [t \in Requests |-> "idle"]
  /\ left = [t \in Requests |-> 0]
  /\ beating = {}
  /\ raced = FALSE

-----------------------------------------------------------------------------
(* _acquire_lease: the read.  A live row refuses the request; an expired   *)
(* one is to be deleted and replaced, an absent one to be inserted.        *)
Read(t) ==
  /\ pc[t] = "idle"
  /\ ~Present \/ Expired
  /\ pc' = [pc EXCEPT ![t] = IF Present THEN "taking" ELSE "inserting"]
  /\ left' = [left EXCEPT ![t] = LeaseTicks]
  /\ UNCHANGED <<row, beating, raced>>

(* The row a request writes, with the time it stamped when it read.        *)
Fresh(t) == [by |-> t, owner |-> HomeOf[t], ttl |-> left[t]]

(* Mutant: the row is written with an upsert instead of an insert.         *)
InsertUpsert(t) ==
  /\ pc[t] = "inserting"
  /\ pc' = [pc EXCEPT ![t] = "holding"]
  /\ row' = Fresh(t)
  /\ beating' = beating \cup {t}
  /\ UNCHANGED <<left, raced>>

(* The insert of a row under the primary key "global": a row that another  *)
(* request inserted meanwhile raises IntegrityError, which is a refusal.   *)
Insert(t) ==
  /\ pc[t] = "inserting"
  /\ IF Present
     THEN /\ pc' = [pc EXCEPT ![t] = "idle"]
          /\ UNCHANGED <<row, beating>>
     ELSE /\ pc' = [pc EXCEPT ![t] = "holding"]
          /\ row' = Fresh(t)
          /\ beating' = beating \cup {t}
  /\ UNCHANGED <<left, raced>>

(* DELETE ... WHERE key = "global", then the insert: whatever row is there *)
(* now is deleted, the one that was read or its successor.                 *)
TakeOver(t) ==
  /\ pc[t] = "taking"
  /\ pc' = [pc EXCEPT ![t] = "holding"]
  /\ row' = Fresh(t)
  /\ beating' = beating \cup {t}
  /\ raced' = (raced \/ (Present /\ ~Expired))
  /\ UNCHANGED left

(* One turn of _heartbeat_loop: the process's own row gets a full life     *)
(* again; an absent row or another owner's ends the thread.                *)
Heartbeat(t) ==
  /\ t \in beating
  /\ IF Present /\ row.owner = HomeOf[t]
     THEN /\ row' = [row EXCEPT !.ttl = LeaseTicks]
          /\ UNCHANGED beating
     ELSE /\ beating' = beating \ {t}
          /\ UNCHANGED row
  /\ UNCHANGED <<pc, left, raced>>

(* The operation has ended: the heartbeat is stopped and _release_lease    *)
(* reads the row, then deletes it if it is the process's own.              *)
Finish(t) ==
  /\ pc[t] = "holding"
  /\ pc' = [pc EXCEPT ![t] =
              IF Present /\ row.owner = HomeOf[t] THEN "releasing" ELSE "idle"]
  /\ beating' = beating \ {t}
  /\ UNCHANGED <<row, left, raced>>

Delete(t) ==
  /\ pc[t] = "releasing"
  /\ pc' = [pc EXCEPT ![t] = "idle"]
  /\ row' = NoRow
  /\ UNCHANGED <<left, beating, raced>>

(* Mutant: a restarted process presents the owner_id it had before.        *)
CrashSameOwner(g) ==
  /\ pc' = [t \in Requests |-> IF HomeOf[t] = g THEN "idle" ELSE pc[t]]
  /\ beating' = {t \in beating : HomeOf[t] # g}
  /\ UNCHANGED <<row, left, raced>>

(* An API process dies and is started again: its requests are gone, its    *)
(* row stays, and the new process draws another owner_id.                  *)
Crash(g) ==
  /\ pc' = [t \in Requests |-> IF HomeOf[t] = g THEN "idle" ELSE pc[t]]
  /\ row' = IF Present /\ row.owner = g THEN [row EXCEPT !.owner = Gone] ELSE row
  /\ beating' = {t \in beating : HomeOf[t] # g}
  /\ UNCHANGED <<left, raced>>

(* The real-time assumption of the guard: a heartbeat (every third of the  *)
(* lease) and a request between its read and its write (at most the 5 s    *)
(* busy timeout), on the way in or out, are faster than the lease.         *)
Timely ==
  /\ Present /\ (\E t \in beating \cup Releasing : row.owner = HomeOf[t])
       => row.ttl > 1
  /\ \A t \in Pending : left[t] > 1

Less(n) == IF n = 0 THEN 0 ELSE n - 1

Tick ==
  /\ Timely
  /\ row' = IF Present THEN [row EXCEPT !.ttl = Less(row.ttl)] ELSE row
  /\ left' = [t \in Requests |-> Less(left[t])]
  /\ UNCHANGED <<pc, beating, raced>>

Next ==
  \/ \E t \in Requests :
       \/ Read(t) \/ Insert(t) \/ TakeOver(t)
       \/ Heartbeat(t) \/ Finish(t) \/ Delete(t)
  \/ \E g \in Guards : Crash(g)
  \/ Tick

(* Time passes, a request that has read the row goes on, an operation ends *)
(* and its heartbeat thread is scheduled.  Nobody has to ask or to crash.  *)
Fairness ==
  /\ WF_vars(Tick)
  /\ \A t \in Requests :
       /\ WF_vars(Insert(t)) /\ WF_vars(TakeOver(t))
       /\ WF_vars(Heartbeat(t)) /\ WF_vars(Finish(t)) /\ WF_vars(Delete(t))

Spec == Init /\ [][Next]_vars
FairSpec == Spec /\ Fairness

-----------------------------------------------------------------------------
(* Two heavy operations never run at the same time, API crashes included,  *)
(* unless a takeover of an expired row was overtaken by another takeover   *)
(* and deleted the winner's row: a race of two requests on one expired row *)
(* is the only way the guard can fail while its heartbeats are in time.    *)
ExclusionUnlessRaced == ~raced => \A s, t \in Holders : s = t

(* The row a dead process left behind does not block the guard for ever:   *)
(* it expires or somebody replaces it.                                     *)
AbandonedLeaseExpires ==
  (Present /\ row.owner = Gone) ~> (~Present \/ Expired \/ row.owner # Gone)

(* A request that was refused was refused by someone: the guard is never   *)
(* held against everybody by a live process with no operation inside it.   *)
BusyMeansBusy ==
  ~raced /\ Present /\ ~Expired /\ row.owner # Gone => row.by \in Holders

(* The inductive invariant behind the three: without a race a request      *)
(* inside its operation has inserted the row and the row is alive.         *)
LeaseInv ==
  /\ \A t \in Pending : left[t] > 0
  /\ ~raced => \A t \in Holders :
        /\ Present /\ row.by = t /\ row.owner = HomeOf[t] /\ row.ttl > 0
        /\ t \in beating \cup Releasing
  /\ ~raced /\ Present /\ row.owner # Gone =>
        row.by \in Holders /\ row.owner = HomeOf[row.by]
=============================================================================
