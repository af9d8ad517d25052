---------------------------- MODULE TrainingRun -----------------------------
(***************************************************************************)
(* The life of one training run: its row in the registry                   *)
(* (training/repository.py), the runner process and its progress log       *)
(* (training/runner.py), and the executor that starts, cancels and         *)
(* refreshes it on behalf of concurrent requests (training/executor.py),   *)
(* through crashes and restarts of the API process.                        *)
(*                                                                         *)
(* A session that only reads does not keep SQLite's write lock, so every   *)
(* check of the row and the write that follows it are separate steps.      *)
(***************************************************************************)
EXTENDS Integers, Sequences

CONSTANTS
  Workers,      \* the request threads of the API process
  MaxCrashes    \* bound: how often the API process dies

ASSUME CrashAssumption == MaxCrashes \in Nat

VARIABLES
  status,   \* status of the row
  placed,   \* the row has its run_directory and pid
  made,     \* the run directory exists
  runner,   \* the runner process and how it ended
  log,      \* the statuses of the events in progress.jsonl
  cursor,   \* progress_offset in process.json, in events
  diag,     \* failure.json exists
  handle,   \* the executor holds the runner's Popen object
  api,      \* the API process: serving, in startup recovery or dead
  job,      \* what each worker is doing
  crashes,  \* how often the API process has died
  asked,    \* history: somebody asked to cancel the run
  lost      \* history: a write overwrote a status its session had not read

row == <<status, placed>>
files == <<made, cursor, diag>>
proc == <<runner, log>>
hist == <<crashes, asked, lost>>
vars == <<row, files, proc, handle, api, job, hist>>

Stages == <<"running", "evaluating", "exporting", "verifying", "completed">>
Active == {"running", "evaluating", "exporting", "verifying"}
Terminal == {"completed", "failed", "cancelled", "interrupted"}
Statuses == {"queued"} \cup Active \cup Terminal

(* _TRANSITIONS                                                            *)
Transitions(s) ==
  CASE s = "queued"     -> {"running", "cancelled"}
    [] s = "running"    -> {"evaluating", "failed", "cancelled", "interrupted"}
    [] s = "evaluating" -> {"exporting", "failed", "interrupted"}
    [] s = "exporting"  -> {"verifying", "failed", "interrupted"}
    [] s = "verifying"  -> {"completed", "failed", "interrupted"}
    [] OTHER            -> {}

Live == {"alive", "stopping"}

(* Mutant: a run whose pid cannot be told dead is never given up.          *)
PidAliveAlways == TRUE

(* _process_exists(): signal 0 reaches a process, which need not be the    *)
(* runner when the pid has been given to another one ("taken").            *)
PidAlive == runner \in Live \cup {"taken"}
Logged == {log[i] : i \in 1 .. Len(log)}
Closed == Logged \cap {"completed", "failed", "cancelled"} # {}

(* A worker between two requests; "at" is its next step.  In a refresh it  *)
(* has applied "pos" of the "upto" events it read, and found a Popen       *)
(* object or none; "goal" is the status it is about to write over "seen".  *)
Idle == [at |-> "idle", goal |-> "queued", seen |-> "queued",
         pos |-> 0, upto |-> 0, has |-> FALSE]

Init ==
  /\ status = "queued" /\ placed = FALSE
  /\ made = FALSE /\ cursor = 0 /\ diag = FALSE
  /\ runner = "none" /\ log = << >>
  /\ handle = FALSE /\ api = "up"
  /\ job = [w \in Workers |-> Idle]
  /\ crashes = 0 /\ asked = FALSE /\ lost = FALSE

At(w, here) == job[w].at = here /\ (api = "up" \/ (api = "boot" /\ here # "idle"))
Do(w, j) == job' = [job EXCEPT ![w] = j]
Go(w, there) == Do(w, [Idle EXCEPT !.at = there])

-----------------------------------------------------------------------------
(* The runner process.                                                     *)

(* emit(): the next stage is appended to the log, unless SIGTERM came.     *)
Emit ==
  /\ runner = "alive" /\ ~Closed
  /\ log' = Append(log, Stages[Len(log) + 1])
  /\ UNCHANGED <<row, files, runner, handle, api, job, hist>>

(* An exception in the training code is logged as a failed event.          *)
Raise ==
  /\ runner \in Live /\ ~Closed
  /\ log' = Append(log, "failed")
  /\ UNCHANGED <<row, files, runner, handle, api, job, hist>>

(* After SIGTERM the next emit() raises TrainingCancelled.                 *)
Stopped ==
  /\ runner = "stopping" /\ ~Closed
  /\ log' = Append(log, "cancelled")
  /\ UNCHANGED <<row, files, runner, handle, api, job, hist>>

(* The runner returns after its last event: 0 when the run completed.      *)
Exit ==
  /\ runner \in Live /\ Closed
  /\ runner' = IF "completed" \in Logged THEN "zero" ELSE "nonzero"
  /\ UNCHANGED <<row, files, log, handle, api, job, hist>>

(* The operating system kills the runner, for memory for example.          *)
Killed ==
  /\ runner \in Live
  /\ runner' = "nonzero"
  /\ UNCHANGED <<row, files, log, handle, api, job, hist>>

(* The process that took the pid of a dead runner ends.                    *)
Freed ==
  /\ runner = "taken"
  /\ runner' = "nonzero"
  /\ UNCHANGED <<row, files, log, handle, api, job, hist>>

-----------------------------------------------------------------------------
(* repository.transition(): the check against the row, then the write.     *)

(* Mutant: the status is set without asking the transition table.          *)
CheckNothing(w, s, j, legal, illegal) ==
  Do(w, [j EXCEPT !.at = legal, !.goal = s, !.seen = status])

(* An illegal transition raises; refresh() goes on with the next event.    *)
Check(w, s, j, legal, illegal) ==
  IF s \in Transitions(status)
  THEN Do(w, [j EXCEPT !.at = legal, !.goal = s, !.seen = status])
  ELSE Do(w, illegal)

(* The UPDATE sets the columns to what the session computed, whatever the  *)
(* row has become.  A start also writes pid and run_directory; the worker  *)
(* that found the runner dead forgets its Popen object.                    *)
Write(w) ==
  /\ \E here \in {"write", "applyWrite", "pollWrite"} : At(w, here)
  /\ status' = job[w].goal
  /\ placed' = (placed \/ job[w].goal = "running")
  /\ lost' = (lost \/ status # job[w].seen)
  /\ handle' = (handle /\ ~(job[w].at = "pollWrite" /\ job[w].has))
  /\ Do(w, IF job[w].at = "applyWrite"
           THEN [Idle EXCEPT !.at = "apply", !.pos = job[w].pos, !.upto = job[w].upto]
           ELSE Idle)
  /\ UNCHANGED <<files, proc, api, crashes, asked>>

-----------------------------------------------------------------------------
(* start(): one caller gets past mkdir(exist_ok=False).                    *)
Start(w) ==
  /\ At(w, "idle") /\ status = "queued" /\ ~made
  /\ made' = TRUE
  /\ Go(w, "spawn")
  /\ UNCHANGED <<row, cursor, diag, proc, handle, api, hist>>

(* Popen, process.json, the executor's table.                              *)
Spawn(w) ==
  /\ At(w, "spawn")
  /\ runner' = "alive" /\ handle' = TRUE
  /\ Go(w, "started")
  /\ UNCHANGED <<row, files, log, api, hist>>

Started(w) ==
  /\ At(w, "started")
  /\ Check(w, "running", Idle, "write", Idle)
  /\ UNCHANGED <<row, files, proc, handle, api, hist>>

(* cancel(): a runner that can be found is sent SIGTERM first; a process   *)
(* that does not identify itself as the runner refuses the request.        *)
Cancel(w) ==
  /\ At(w, "idle")
  /\ asked' = TRUE
  /\ IF runner \in Live /\ (handle \/ placed)
     THEN runner' = "stopping" /\ Go(w, "await")
     ELSE /\ Go(w, IF placed /\ PidAlive THEN "idle" ELSE "stopped")
          /\ UNCHANGED runner
  /\ UNCHANGED <<row, files, log, handle, api, crashes, lost>>

(* It waits for the runner, and kills it when the grace period is over.    *)
Await(w) ==
  /\ At(w, "await")
  /\ runner' = IF runner \in Live THEN "nonzero" ELSE runner
  /\ Go(w, "stopped")
  /\ UNCHANGED <<row, files, log, handle, api, hist>>

Cancelled(w) ==
  /\ At(w, "stopped")
  /\ Check(w, "cancelled", Idle, "write", Idle)
  /\ UNCHANGED <<row, files, proc, handle, api, hist>>

-----------------------------------------------------------------------------
(* refresh(): the events the cursor has not passed are read at once.       *)
Gather(w) ==
  IF placed /\ log # << >>
  THEN Do(w, [Idle EXCEPT !.at = "apply", !.pos = cursor, !.upto = Len(log)])
  ELSE Go(w, "look")

Refresh(w) ==
  /\ At(w, "idle")
  /\ Gather(w)
  /\ UNCHANGED <<row, files, proc, handle, api, hist>>

(* Mutant: the cursor is stored before the last event is applied.          *)
DoneEarly(w) == job[w].pos + 1 >= job[w].upto \/ status \in Terminal

Done(w) == job[w].pos >= job[w].upto \/ status \in Terminal

(* One event.  The current status again, or a "running" that is behind it, *)
(* only updates the runtime columns; any other is a transition, and one    *)
(* the row does not allow is skipped.  failure.json is written before.     *)
Apply(w) ==
  /\ At(w, "apply") /\ ~Done(w)
  /\ LET e == log[job[w].pos + 1]
         next == [job[w] EXCEPT !.pos = @ + 1]
     IN IF e \in {status, "running"}
        THEN Do(w, next) /\ UNCHANGED diag
        ELSE Check(w, e, next, "applyWrite", next) /\ diag' = (diag \/ e = "failed")
  /\ UNCHANGED <<row, made, cursor, proc, handle, api, hist>>

Persist(w) ==
  /\ At(w, "apply") /\ Done(w)
  /\ cursor' = job[w].upto
  /\ Go(w, "look")
  /\ UNCHANGED <<row, made, diag, proc, handle, api, hist>>

(* The Popen object and the status are read, then the process is polled.   *)
Look(w) ==
  /\ At(w, "look")
  /\ Do(w, [Idle EXCEPT !.at = "poll", !.has = handle, !.seen = status])
  /\ UNCHANGED <<row, files, proc, handle, api, hist>>

(* A runner that failed or left without a terminal event; one that is      *)
(* nobody's child and gone; one that failed before the row has its         *)
(* directory, for which the diagnosis, and the request with it, raises.    *)
Broken(w) == job[w].has /\ job[w].seen \in Active /\ runner \notin Live
Early(w) == job[w].has /\ job[w].seen = "queued" /\ runner = "nonzero"

(* Mutant: a runner without a Popen object is taken for dead.              *)
VanishedUnseen(w) == ~job[w].has /\ job[w].seen \in Active

Vanished(w) == ~job[w].has /\ job[w].seen \in Active /\ ~PidAlive

(* Mutant: an exit without a terminal event is recorded without diagnosis. *)
PollSilent(w) ==
  /\ At(w, "poll")
  /\ IF Broken(w) THEN Check(w, "failed", job[w], "pollWrite", Idle) ELSE Go(w, "idle")
  /\ UNCHANGED <<row, files, proc, handle, api, hist>>

Poll(w) ==
  /\ At(w, "poll")
  /\ \/ /\ Broken(w)
        /\ diag' = TRUE
        /\ Check(w, "failed", job[w], "pollWrite", Idle)
        /\ UNCHANGED handle
     \/ /\ Vanished(w)
        /\ Check(w, "interrupted", job[w], "pollWrite", Idle)
        /\ UNCHANGED <<diag, handle>>
     \/ /\ ~Broken(w) /\ ~Vanished(w)
        /\ handle' = (handle /\ (job[w].has /\ runner \notin Live => Early(w)))
        /\ Go(w, "idle")
        /\ UNCHANGED diag
  /\ UNCHANGED <<row, made, cursor, proc, api, hist>>

-----------------------------------------------------------------------------
(* The API process dies; the runner has its own session and may survive.   *)
(* When it does not, its pid may be given away before the restart.         *)
Crash ==
  /\ api # "down" /\ crashes < MaxCrashes
  /\ api' = "down" /\ handle' = FALSE /\ crashes' = crashes + 1
  /\ job' = [w \in Workers |-> Idle]
  /\ \/ UNCHANGED runner
     \/ runner \in Live /\ runner' = "nonzero"
     \/ runner # "none" /\ runner' = "taken"
  /\ UNCHANGED <<row, files, log, asked, lost>>

(* recover_stale_runs() refreshes an active run before requests come in.   *)
Restart(w) ==
  /\ api = "down"
  /\ IF status \in Active
     THEN api' = "boot" /\ Gather(w)
     ELSE api' = "up" /\ UNCHANGED job
  /\ UNCHANGED <<row, files, proc, handle, hist>>

(* ... and interrupts it when it is still active without a process.        *)
Recovered ==
  /\ api = "boot" /\ \A w \in Workers : job[w] = Idle
  /\ status' = IF status \in Active /\ ~PidAlive
               THEN "interrupted" ELSE status
  /\ api' = "up"
  /\ UNCHANGED <<placed, files, proc, handle, job, hist>>

Runner == Emit \/ Raise \/ Stopped \/ Exit \/ Killed

Step(w) ==
  \/ Write(w) \/ Spawn(w) \/ Started(w) \/ Await(w) \/ Cancelled(w)
  \/ Apply(w) \/ Persist(w) \/ Look(w) \/ Poll(w)

Next ==
  \/ Emit \/ Raise \/ Stopped \/ Exit \/ Killed
  \/ \E w \in Workers :
       \/ Start(w) \/ Cancel(w) \/ Refresh(w) \/ Restart(w)
       \/ Write(w) \/ Spawn(w) \/ Started(w) \/ Await(w) \/ Cancelled(w)
       \/ Apply(w) \/ Persist(w) \/ Look(w) \/ Poll(w)
  \/ Freed \/ Crash \/ Recovered

(* A thread goes on, the runner ends, a dead API process is started again, *)
(* and somebody polls the run.  Nobody has to start or to cancel it.       *)
Fairness ==
  /\ WF_vars(Runner)
  /\ \A w \in Workers : WF_vars(Step(w))
  /\ SF_vars(\E w \in Workers : Refresh(w))
  /\ WF_vars(\E w \in Workers : Restart(w)) /\ WF_vars(Recovered)

Spec == Init /\ [][Next]_vars
FairSpec == Spec /\ Fairness

-----------------------------------------------------------------------------
(* The stored cursor, and what a refresh has read, are within the log; the *)
(* rest of the state is what the columns and the threads can hold.         *)
Jobs == [at: {"idle", "spawn", "started", "await", "stopped", "write", "apply",
              "applyWrite", "look", "poll", "pollWrite"},
         goal: Statuses, seen: Statuses,
         pos: 0 .. Len(log), upto: 0 .. Len(log), has: BOOLEAN]

TypeOK ==
  /\ status \in Statuses /\ {placed, made, diag, handle, asked, lost} \subseteq BOOLEAN
  /\ runner \in {"none", "zero", "nonzero", "taken"} \cup Live
  /\ log \in Seq(Statuses) /\ cursor \in 0 .. Len(log)
  /\ api \in {"up", "boot", "down"} /\ crashes \in 0 .. MaxCrashes
  /\ job \in [Workers -> Jobs]

(* What the row says is true of the run, whatever requests and crashes     *)
(* came between: a stage, and completion above all, was logged by the      *)
(* runner; a failed run has its failure.json, for a crash can leave a      *)
(* diagnosis without the status, never the status without the diagnosis;   *)
(* and only a request cancels: no exit code, crash or stale event does.    *)
StatusBacked ==
  /\ status \in {Stages[i] : i \in 2 .. 5} => status \in Logged
  /\ status = "failed" => diag
  /\ status = "cancelled" => asked

(* A run that ended by itself has no runner still at work: the next run    *)
(* the row lets in does not share the GPU with it.                         *)
NoGhostRunner ==
  status \in {"completed", "failed", "interrupted"} => runner \notin Live \/ Closed

(* The stored cursor never passes an event the row has not taken: a crash  *)
(* between two writes makes refresh() repeat events, not lose them.        *)
CursorNeverAhead ==
  ~lost /\ status \notin Terminal =>
    \A i \in 1 .. cursor :
      \/ log[i] = "cancelled"
      \/ \E j, k \in 1 .. 4 : j <= k /\ log[i] = Stages[j] /\ status = Stages[k]

(* No run stays active for ever, whatever its runner and the API process   *)
(* do: it ends by an event, by its exit code or as interrupted.  The one   *)
(* exception is a runner whose pid another process has taken meanwhile.    *)
EveryRunEnds == status \in Active ~> status \in Terminal \/ runner = "taken"

(* A runner that returned 0 has logged its completion, and its run is not  *)
(* recorded as one that left without a terminal event.                     *)
CompletionIsKept == runner = "zero" => status # "failed"

(* The run implements RunBoard: what a client sees of it goes through the   *)
(* stages in order and ends once, whatever requests overlap, until a write  *)
(* replaces a status its request has not read.                              *)
RunBoard == INSTANCE RunBoard WITH
  board <- IF lost THEN "overwritten" ELSE status, begun <- TRUE
KeepsBoard == RunBoard!Spec
=============================================================================
