---------------------------- MODULE InferenceRun ----------------------------
(***************************************************************************)
(* The life of one inference run: its row (inference/repository.py), the   *)
(* runner process with its progress log and result (inference/runner.py),  *)
(* and the executor that starts, refreshes, cancels and recovers it        *)
(* (inference/executor.py), through crashes of the API process.            *)
(*                                                                         *)
(* Unlike training, no table restricts the statuses: update() writes what  *)
(* the request decided from a row it read some steps before.               *)
(***************************************************************************)
EXTENDS Integers, Sequences

CONSTANTS
  Workers,     \* the request threads of the API process
  MaxItems,    \* bound: "running" events a runner logs
  MaxCrashes   \* bound: how often the API process dies

ASSUME BoundAssumption == MaxItems \in Nat /\ MaxCrashes \in Nat

VARIABLES
  status,   \* status of the row, "none" before it is created
  placed,   \* the row has the runner's pid and directory
  runner,   \* the runner process and how it ended
  log,      \* the statuses of the events in progress.jsonl
  result,   \* result.json exists
  cursor,   \* progress_offset in process.json, in events
  handle,   \* the executor holds the runner's Popen object
  api,      \* the API process: serving, in startup recovery or dead
  job,      \* what each worker is doing
  crashes,  \* how often the API process has died
  lost,     \* history: a write overwrote a status its request had not read
  stranded  \* history: a start failed since the API process came up, its run
            \* was not told

row == <<status, placed>>
proc == <<runner, log, result>>
vars == <<row, proc, cursor, handle, api, job, crashes, lost, stranded>>

Active == {"queued", "running"}
Terminal == {"completed", "failed", "cancelled", "interrupted"}
Live == {"alive"}
Closed == \E i \in 1 .. Len(log) : log[i] \in Terminal

(* "at" is the worker's next step, "seen" the status it read, "goal" the   *)
(* one it will write, "upto" the events a refresh read, "own" whether a    *)
(* cancel found the Popen object.                                          *)
Idle == [at |-> "idle", seen |-> "none", goal |-> "none", upto |-> 0, own |-> FALSE]
Jobs == [at: {"idle", "begin", "spawn", "place", "gather", "poll", "await",
              "write", "report", "persist"},
         seen: Active \cup Terminal \cup {"none"},
         goal: Active \cup Terminal \cup {"none"},
         upto: 0 .. Len(log), own: BOOLEAN]

Init ==
  /\ status = "none" /\ placed = FALSE
  /\ runner = "none" /\ log = << >> /\ result = FALSE
  /\ cursor = 0 /\ handle = FALSE /\ api = "up"
  /\ job = [w \in Workers |-> Idle]
  /\ crashes = 0 /\ lost = FALSE /\ stranded = FALSE

At(w, here) == job[w].at = here /\ (api = "up" \/ (api = "boot" /\ here # "idle"))
Do(w, j) == job' = [job EXCEPT ![w] = j]
Go(w, there) == Do(w, [job[w] EXCEPT !.at = there])
Decide(w, goal) == Do(w, [job[w] EXCEPT !.at = "write", !.goal = goal])

-----------------------------------------------------------------------------
(* The runner process: progress, the result file, the terminal event, the  *)
(* exit.  It has no SIGTERM handler: a signal kills it.                    *)
Emit ==
  /\ runner \in Live /\ ~Closed
  /\ \/ ~result /\ Len(log) < MaxItems /\ log' = Append(log, "running")
     \/ result /\ log' = Append(log, "completed")
     \/ log' = Append(log, "failed")
  /\ UNCHANGED <<row, runner, result, cursor, handle, api, job, crashes, lost, stranded>>

WriteResult ==
  /\ runner \in Live /\ ~Closed /\ ~result
  /\ result' = TRUE
  /\ UNCHANGED <<row, runner, log, cursor, handle, api, job, crashes, lost, stranded>>

Exit ==
  /\ runner \in Live /\ Closed
  /\ runner' = IF log[Len(log)] = "completed" THEN "zero" ELSE "nonzero"
  /\ UNCHANGED <<row, log, result, cursor, handle, api, job, crashes, lost, stranded>>

Killed ==
  /\ runner \in Live
  /\ runner' = "nonzero"
  /\ UNCHANGED <<row, log, result, cursor, handle, api, job, crashes, lost, stranded>>

-----------------------------------------------------------------------------
(* create_inference_run(): the row is created, then started at once.       *)
Create(w) ==
  /\ At(w, "idle") /\ status = "none"
  /\ status' = "queued"
  /\ Do(w, [Idle EXCEPT !.at = "begin"])
  /\ UNCHANGED <<placed, proc, cursor, handle, api, crashes, lost, stranded>>

(* start(): a run that is no longer queued raises, and is marked failed,   *)
(* whatever it has become.                                                 *)
Begin(w) ==
  /\ At(w, "begin")
  /\ Do(w, IF status = "queued"
           THEN [Idle EXCEPT !.at = "spawn", !.seen = status]
           ELSE [Idle EXCEPT !.at = "write", !.seen = status, !.goal = "failed"])
  /\ UNCHANGED <<row, proc, cursor, handle, api, crashes, lost, stranded>>

Spawn(w) ==
  /\ At(w, "spawn")
  /\ runner' = "alive" /\ handle' = TRUE
  /\ Do(w, [job[w] EXCEPT !.at = "place", !.goal = "running"])
  /\ UNCHANGED <<row, log, result, cursor, api, crashes, lost, stranded>>

(* The directory, the manifest, the log or the process cannot be created:  *)
(* create_inference_run() catches only InferenceExecutionError, so the row *)
(* stays queued.                                                           *)
SpawnFails(w) ==
  /\ At(w, "spawn")
  /\ stranded' = TRUE /\ Do(w, Idle)
  /\ UNCHANGED <<row, proc, cursor, handle, api, crashes, lost>>

(* process.json cannot be written: the runner is tracked, its row queued.  *)
PlaceFails(w) ==
  /\ At(w, "place")
  /\ Do(w, Idle)
  /\ UNCHANGED <<row, proc, cursor, handle, api, crashes, lost, stranded>>

(* update(): the status is set whatever it has become.  A start also       *)
(* stores pid and directory; a refresh goes on to store its cursor.        *)
Update(w) ==
  /\ \E here \in {"place", "write", "report"} : At(w, here)
  /\ status' = job[w].goal
  /\ placed' = (placed \/ job[w].at = "place")
  /\ lost' = (lost \/ status # job[w].seen)
  /\ IF job[w].at = "report" THEN Go(w, "persist") ELSE Do(w, Idle)
  /\ UNCHANGED <<proc, cursor, handle, api, crashes, stranded>>

-----------------------------------------------------------------------------
(* Mutant: a run is asked for its events before its row has a directory.   *)
RefreshUnplaced(w) ==
  /\ At(w, "idle") /\ status \in Active
  /\ Do(w, [Idle EXCEPT !.at = "gather", !.seen = status])
  /\ UNCHANGED <<row, proc, cursor, handle, api, crashes, lost, stranded>>

(* refresh(): a run that has ended is left alone, but for the Popen object *)
(* of a runner that is gone.                                               *)
Refresh(w) ==
  /\ At(w, "idle") /\ status # "none"
  /\ IF status \in Active
     THEN /\ Do(w, [Idle EXCEPT !.at = IF placed THEN "gather" ELSE "poll", !.seen = status])
          /\ UNCHANGED handle
     ELSE handle' = (handle /\ runner \in Live) /\ UNCHANGED job
  /\ UNCHANGED <<row, proc, cursor, api, crashes, lost, stranded>>

Verdict == LET e == log[Len(log)]
           IN IF e = "completed" /\ ~result THEN "failed" ELSE e

(* Mutant: the cursor is stored before the row is updated.                 *)
GatherAck(w) ==
  /\ At(w, "gather")
  /\ IF Len(log) > cursor
     THEN Decide(w, Verdict) /\ cursor' = Len(log)
     ELSE Go(w, "poll") /\ UNCHANGED cursor
  /\ UNCHANGED <<row, proc, handle, api, crashes, lost, stranded>>

(* Of the events behind the cursor only the last one counts.               *)
Gather(w) ==
  /\ At(w, "gather")
  /\ IF Len(log) > cursor
     THEN Do(w, [job[w] EXCEPT !.at = "report", !.goal = Verdict, !.upto = Len(log)])
     ELSE Go(w, "poll")
  /\ UNCHANGED <<row, proc, cursor, handle, api, crashes, lost, stranded>>

Persist(w) ==
  /\ At(w, "persist")
  /\ cursor' = job[w].upto
  /\ handle' = (handle /\ ~(job[w].goal \in Terminal /\ runner \notin Live))
  /\ Do(w, Idle)
  /\ UNCHANGED <<row, proc, api, crashes, lost, stranded>>

(* No new event: a tracked runner that has exited is forgotten, its run    *)
(* fails whatever the exit code was.  Without a Popen object nothing asks  *)
(* whether the process exists.                                             *)
Poll(w) ==
  /\ At(w, "poll")
  /\ IF handle /\ runner \notin Live
     THEN handle' = FALSE /\ Decide(w, "failed")
     ELSE Do(w, Idle) /\ UNCHANGED handle
  /\ UNCHANGED <<row, proc, cursor, api, crashes, lost, stranded>>

-----------------------------------------------------------------------------
(* cancel(): a run that has ended is left alone; a runner is terminated.   *)
Cancel(w) ==
  /\ At(w, "idle") /\ status \in Active
  /\ Do(w, [Idle EXCEPT !.at = IF runner \in Live /\ (handle \/ placed)
                               THEN "await" ELSE "write",
                        !.seen = status, !.goal = "cancelled", !.own = handle])
  /\ UNCHANGED <<row, proc, cursor, handle, api, crashes, lost, stranded>>

(* The executor's own child is waited for and killed after a grace period; *)
(* one found by its pid may outlive the wait.                              *)
Await(w) ==
  /\ At(w, "await")
  /\ \/ runner' = IF runner \in Live THEN "nonzero" ELSE runner
     \/ ~job[w].own /\ UNCHANGED runner
  /\ Go(w, "write")
  /\ UNCHANGED <<row, log, result, cursor, handle, api, crashes, lost, stranded>>

-----------------------------------------------------------------------------
(* The API process dies, alone or with its child.                          *)
Crash ==
  /\ api # "down" /\ crashes < MaxCrashes
  /\ api' = "down" /\ handle' = FALSE /\ crashes' = crashes + 1
  /\ job' = [w \in Workers |-> Idle] /\ stranded' = FALSE
  /\ UNCHANGED runner \/ (runner \in Live /\ runner' = "nonzero")
  /\ UNCHANGED <<row, log, result, cursor, lost>>

(* recover_stale_runs(): an active run is refreshed first ...              *)
Restart(w) ==
  /\ api = "down"
  /\ IF status \in Active
     THEN /\ api' = "boot"
          /\ Do(w, [Idle EXCEPT !.at = IF placed THEN "gather" ELSE "poll", !.seen = status])
     ELSE api' = "up" /\ UNCHANGED job
  /\ UNCHANGED <<row, proc, cursor, handle, crashes, lost, stranded>>

Recover(gone) ==
  /\ api = "boot" /\ \A w \in Workers : job[w] = Idle
  /\ status' = IF gone THEN "interrupted" ELSE status
  /\ api' = "up"
  /\ UNCHANGED <<placed, proc, cursor, handle, job, crashes, lost, stranded>>

RecoveredBlindly == Recover(status \in Active)

(* ... then interrupted if it is still active and its process is not found *)
Recovered == Recover(status \in Active /\ (~placed \/ runner \notin Live))

Runner == Emit \/ WriteResult \/ Exit \/ Killed
Step(w) ==
  \/ Begin(w) \/ Spawn(w) \/ SpawnFails(w) \/ PlaceFails(w) \/ Update(w)
  \/ Gather(w) \/ Persist(w) \/ Poll(w) \/ Await(w)

Next ==
  \/ Emit \/ WriteResult \/ Exit \/ Killed
  \/ \E w \in Workers :
       \/ Create(w) \/ Begin(w) \/ Spawn(w) \/ SpawnFails(w) \/ PlaceFails(w) \/ Update(w)
       \/ Refresh(w) \/ Gather(w) \/ Persist(w) \/ Poll(w)
       \/ Cancel(w) \/ Await(w) \/ Restart(w)
  \/ Crash \/ Recovered

(* A runner ends, a thread goes on, a dead API process is started again,   *)
(* and somebody polls the run.  Nobody has to create or to cancel one.     *)
Fairness ==
  /\ WF_vars(Runner)
  /\ \A w \in Workers : WF_vars(Step(w))
  /\ SF_vars(\E w \in Workers : Refresh(w))
  /\ WF_vars(\E w \in Workers : Restart(w)) /\ WF_vars(Recovered)

Spec == Init /\ [][Next]_vars
FairSpec == Spec /\ Fairness

-----------------------------------------------------------------------------
(* The cursor and what a refresh has read are within the log; the columns  *)
(* and the threads hold what they can hold.                                *)
TypeOK ==
  /\ status \in Active \cup Terminal \cup {"none"}
  /\ {placed, result, handle, lost, stranded} \subseteq BOOLEAN
  /\ runner \in {"none", "alive", "zero", "nonzero"}
  /\ log \in Seq({"running", "completed", "failed"}) /\ cursor \in 0 .. Len(log)
  /\ api \in {"up", "boot", "down"} /\ crashes \in 0 .. MaxCrashes
  /\ job \in [Workers -> Jobs]

(* A run whose pid was recorded and that did not end by a cancellation has *)
(* no runner still at work: it does not use the GPU behind the check that  *)
(* admits the next operation.                                              *)
NoGhostRunner ==
  placed /\ status \in {"completed", "failed", "interrupted"} =>
    runner \notin Live \/ Closed

(* Storing the cursor acknowledges the events: no crash and no order of    *)
(* requests drops the runner's terminal event without ending the run.      *)
NothingSwallowed ==
  ~lost /\ (\E i \in 1 .. cursor : log[i] \in Terminal) => status \in Terminal

(* The only run that stays active for ever is one without a runner and     *)
(* without a Popen object, and only under an API process that either was   *)
(* started after the runner or failed to start it: the next start of the   *)
(* API ends both kinds.                                                    *)
Untracked == ~handle /\ runner \notin Live /\ (placed \/ stranded)

(* No run whose runner was started stays active for ever.                  *)
EveryRunEnds == placed /\ status \in Active ~> status \in Terminal

(* The run implements RunBoard: it is queued, runs and ends once, and only  *)
(* one that was running completes, whatever requests overlap, until a write *)
(* replaces a status its request has not read. A start that reads a run     *)
(* cancelled before it had a runner is the one that ends a run again.       *)
RunBoard == INSTANCE RunBoard WITH
  Stages <- <<"running", "completed">>, begun <- runner # "none",
  board <- IF lost THEN "overwritten" ELSE status
KeepsBoard == RunBoard!Spec
=============================================================================
