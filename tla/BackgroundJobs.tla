--------------------------- MODULE BackgroundJobs ---------------------------
(* Background jobs of the API process: a row and a daemon thread each      *)
(* (api/jobs.py), and the startup actions and restarts of the process that *)
(* close and purge the rows it left behind (operations/lifecycle.py).      *)
(*                                                                         *)
(* The tracker assumes one API process: its startup closes every open row. *)
(***************************************************************************)
EXTENDS Naturals, FiniteSets

CONSTANTS
  Jobs,        \* the identifiers of jobs; uuid4, so each is used once
  PurgeLimit,  \* how many rows one purge deletes
  MaxTroubles, \* how many sessions of the database may fail
  MaxCrashes   \* how many times the process may be killed

VARIABLES
  row,      \* the status of each job's row; "none" before it, "gone" after
  expires,  \* when the row may be purged
  thread,   \* what the job's thread is doing
  api,      \* the process: down, in one of its startup actions, or up
  troubles, \* the sessions that failed so far
  crashes   \* the crashes so far

vars == <<row, expires, thread, api, troubles, crashes>>

Open == {"pending", "running"}
Ended == {"completed", "failed", "interrupted"}
Steps == {"begin", "work", "check", "complete", "fail"}

Init ==
  /\ row = [j \in Jobs |-> "none"]
  /\ expires = [j \in Jobs |-> "never"]
  /\ thread = [j \in Jobs |-> "none"]
  /\ api = "down" /\ troubles = 0 /\ crashes = 0

-----------------------------------------------------------------------------
(* start_background_task: the row is committed before the thread starts.   *)
Create(j) ==
  /\ api = "up" /\ row[j] = "none"
  /\ row' = [row EXCEPT ![j] = "pending"]
  /\ thread' = [thread EXCEPT ![j] = "begin"]
  /\ UNCHANGED <<expires, api, troubles, crashes>>

Goes(j, from, to) == thread[j] = from /\ thread' = [thread EXCEPT ![j] = to]

(* update_job(status): a row that is not there is ignored, and a status    *)
(* that ends the job dates the row's purge.                                *)
Update(j, status) ==
  /\ row' = IF row[j] = "gone" THEN row ELSE [row EXCEPT ![j] = status]
  /\ expires' = IF row[j] # "gone" /\ status \in Ended
                THEN [expires EXCEPT ![j] = "later"] ELSE expires

(* The wrapper of the target, a session or a call at a time.               *)
Begin(j) ==
  /\ Goes(j, "begin", "work")
  /\ Update(j, "running")
  /\ UNCHANGED <<api, troubles, crashes>>

Return(j) ==
  /\ Goes(j, "work", "check")
  /\ UNCHANGED <<row, expires, api, troubles, crashes>>

Raise(j) ==
  /\ Goes(j, "work", "fail")
  /\ UNCHANGED <<row, expires, api, troubles, crashes>>

Check(j) ==
  /\ Goes(j, "check", IF row[j] = "running" THEN "complete" ELSE "done")
  /\ UNCHANGED <<row, expires, api, troubles, crashes>>

Complete(j) ==
  /\ Goes(j, "complete", "done")
  /\ Update(j, "completed")
  /\ UNCHANGED <<api, troubles, crashes>>

Fail(j) ==
  /\ Goes(j, "fail", "done")
  /\ Update(j, "failed")
  /\ UNCHANGED <<api, troubles, crashes>>

(* A session of the wrapper fails: the except clause takes over, and when  *)
(* its own update fails the thread ends with the row still open.           *)
SessionFails(j) ==
  /\ troubles < MaxTroubles /\ troubles' = troubles + 1
  /\ \/ Goes(j, "begin", "fail") \/ Goes(j, "check", "fail")
     \/ Goes(j, "complete", "fail") \/ Goes(j, "fail", "lost")
  /\ UNCHANGED <<row, expires, api, crashes>>

Work(j) ==
  \/ Begin(j) \/ Return(j) \/ Raise(j) \/ Check(j) \/ Complete(j) \/ Fail(j)

-----------------------------------------------------------------------------
(* Startup runs its actions in order; one that raises ends the process.    *)
Startup == {"recover", "purge"}

Boot ==
  /\ api = "down" /\ api' = "recover"
  /\ UNCHANGED <<row, expires, thread, troubles, crashes>>

(* Mutant: only jobs that were seen running are recovered.                 *)
RecoverRunning ==
  /\ api = "recover" /\ api' = "purge"
  /\ row' = [j \in Jobs |-> IF row[j] = "running" THEN "interrupted" ELSE row[j]]
  /\ expires' = [j \in Jobs |-> IF row[j] = "running" THEN "later" ELSE expires[j]]
  /\ UNCHANGED <<thread, troubles, crashes>>

(* Mutant: the jobs that failed are recovered too.                         *)
RecoverFailed ==
  /\ api = "recover" /\ api' = "purge"
  /\ row' = [j \in Jobs |-> IF row[j] \in Open \cup {"failed"} THEN "interrupted" ELSE row[j]]
  /\ UNCHANGED <<expires, thread, troubles, crashes>>

(* recover_interrupted                                                     *)
Recover ==
  /\ api = "recover" /\ api' = "purge"
  /\ row' = [j \in Jobs |-> IF row[j] \in Open THEN "interrupted" ELSE row[j]]
  /\ expires' = [j \in Jobs |-> IF row[j] \in Open THEN "later" ELSE expires[j]]
  /\ UNCHANGED <<thread, troubles, crashes>>

(* purge_expired: at most PurgeLimit of the rows that expired.             *)
Purge ==
  /\ api = "purge" /\ api' = "up"
  /\ LET due == {j \in Jobs : expires[j] = "past" /\ row[j] # "gone"}
     IN \E some \in SUBSET due :
          /\ IF Cardinality(due) <= PurgeLimit THEN some = due
                                              ELSE Cardinality(some) = PurgeLimit
          /\ row' = [j \in Jobs |-> IF j \in some THEN "gone" ELSE row[j]]
  /\ UNCHANGED <<expires, thread, troubles, crashes>>

StartupFails ==
  /\ api \in Startup /\ api' = "down"
  /\ troubles < MaxTroubles /\ troubles' = troubles + 1
  /\ UNCHANGED <<row, expires, thread, crashes>>

(* The threads are daemons of the process and end with it.                 *)
Crash ==
  /\ api # "down" /\ api' = "down"
  /\ crashes < MaxCrashes /\ crashes' = crashes + 1
  /\ thread' = [j \in Jobs |-> IF thread[j] \in Steps THEN "dead" ELSE thread[j]]
  /\ UNCHANGED <<row, expires, troubles>>

(* A week passes. A job's thread and a startup are faster than that.       *)
Expire(j) ==
  /\ expires[j] = "later" /\ thread[j] \notin Steps /\ api \notin Startup
  /\ expires' = [expires EXCEPT ![j] = "past"]
  /\ UNCHANGED <<row, thread, api, troubles, crashes>>

Next ==
  \/ \E j \in Jobs : Create(j) \/ Work(j) \/ SessionFails(j) \/ Expire(j)
  \/ Boot \/ Recover \/ Purge \/ StartupFails \/ Crash

Spec == Init /\ [][Next]_vars

-----------------------------------------------------------------------------
TypeOK ==
  /\ row \in [Jobs -> {"none", "gone"} \cup Open \cup Ended]
  /\ expires \in [Jobs -> {"never", "later", "past"}]
  /\ thread \in [Jobs -> {"none", "done", "lost", "dead"} \cup Steps]
  /\ api \in {"down", "up"} \cup Startup
  /\ troubles \in Nat /\ crashes \in Nat

(* The promise of the task API (JobBoard): whatever fails or crashes, a    *)
(* job is accepted once, starts once, ends once, and its row is purged     *)
(* only after it ended.                                                    *)
Board == INSTANCE JobBoard WITH board <- row
KeepsBoard == Board!Spec

(* What it means for a job to wait, and to be over: its row is closed, or  *)
(* its thread could not even record its failure, and the row stays open    *)
(* until the next restart.                                                 *)
Waiting(j) == row[j] = "pending"
Over(j) == row[j] \in Ended \cup {"gone"} \/ thread[j] = "lost"
=============================================================================
