--------------------------- MODULE ModelRegistry ---------------------------
(***************************************************************************)
(* The life of one model version (models/repository.py): its row, the      *)
(* gate runs that judge it (models/executor.py, models/gate_history.py)    *)
(* and the requests that judge, publish, archive and delete it or one of   *)
(* its gate runs (api/app.py).                                             *)
(*                                                                         *)
(* A session reads the row, decides, and writes the columns whose value it *)
(* changed: two steps, between which other requests write theirs.  Only    *)
(* the gates and an inference run are under the heavy-operation guard.     *)
(***************************************************************************)
EXTENDS Naturals, FiniteSets

CONSTANTS
  Workers,   \* the request threads of the API process
  Runs,      \* the gate runs that may be started
  NoRun,     \* no gate run
  Nobody     \* the guard is free

ASSUME NameAssumption == NoRun \notin Runs /\ Nobody \notin Workers

VARIABLES
  row,      \* status, gates and active report of the model version
  tested,   \* independent_test_available, set when the row is created
  used,     \* the inference run that refers to the model
  dir,      \* the directory of a gate run, with its result
  alive,    \* the gate runs whose runner process is alive
  guard,    \* the request inside the heavy-operation guard
  job,      \* what each worker is doing
  lost,     \* history: a write was decided on a row that had changed
  overlap   \* history: two requests about gate runs have run side by side

disk == <<dir, alive>>
vars == <<row, tested, used, disk, guard, job, lost, overlap>>

(* A result passes every hard gate but the test; one that does not may     *)
(* have no ONNX file, "bare".                                              *)
Results == {"pass", "fail", "bare"}
Gone == [status |-> "deleted", passed |-> FALSE, report |-> NoRun]

(* "seen" is the row the worker's session or request has read, "goal" the  *)
(* row it wants, "run" its gate run, "to" its fallback, "then" what        *)
(* follows the write.                                                      *)
Idle == [at |-> "idle", seen |-> Gone, goal |-> Gone, run |-> NoRun, to |-> NoRun,
         then |-> "idle"]

Init ==
  /\ row = [status |-> "candidate", passed |-> FALSE, report |-> NoRun]
  /\ tested \in BOOLEAN /\ used = "no"
  /\ dir = [r \in Runs |-> "none"] /\ alive = {}
  /\ guard = Nobody
  /\ job = [w \in Workers |-> Idle]
  /\ lost = FALSE /\ overlap = FALSE

At(w, here) == job[w].at = here
Do(w, j) == job' = [job EXCEPT ![w] = j]
Exists == row.status # "deleted"
Leave(w) == guard' = IF guard = w THEN Nobody ELSE guard

Concurs == overlap' = (overlap \/ \E v \in Workers : job[v].run # NoRun)

(* An answer, in success or with an error.                                 *)
Answer(w) == Do(w, Idle) /\ Leave(w)

-----------------------------------------------------------------------------
(* A session of the repository, from its read to its write.                *)
Decide(w, goal, then) ==
  Do(w, [job[w] EXCEPT !.at = "write", !.seen = row, !.goal = goal, !.then = then])

(* The columns the session changed, in the row as it is now.               *)
Merge(mine, old, new) ==
  [c \in DOMAIN mine |-> IF old[c] = new[c] THEN mine[c] ELSE new[c]]

(* An UPDATE of a row that is gone fails, and the request with it.         *)
Write(w) ==
  /\ At(w, "write")
  /\ IF Exists
     THEN /\ row' = Merge(row, job[w].seen, job[w].goal)
          /\ lost' = (lost \/ row # job[w].seen)
          /\ IF job[w].then = "idle" THEN Answer(w)
             ELSE /\ Do(w, [Idle EXCEPT !.at = job[w].then, !.run = job[w].run])
                  /\ UNCHANGED guard
     ELSE Answer(w) /\ UNCHANGED <<row, lost>>
  /\ UNCHANGED <<tested, used, disk, overlap>>

(* Mutant: an archived model is judged like any other.                     *)
JudgedAlways(passed) == IF passed /\ tested THEN "candidate" ELSE "blocked"

(* The status that goes with a verdict; an archived model stays archived.  *)
Judged(passed) == IF row.status = "archived" THEN "archived"
                  ELSE IF passed /\ tested THEN "candidate" ELSE "blocked"

-----------------------------------------------------------------------------
(* run_model_gates(): under the guard, a runner in a directory of its own. *)
Gates(w) ==
  /\ At(w, "idle") /\ guard = Nobody /\ Exists /\ used # "active"
  /\ \E r \in Runs :
       /\ dir[r] = "none"
       /\ dir' = [dir EXCEPT ![r] = "open"] /\ alive' = alive \cup {r}
       /\ Do(w, [Idle EXCEPT !.at = "gates", !.run = r])
  /\ guard' = w /\ Concurs
  /\ UNCHANGED <<row, tested, used, lost>>

(* The runner writes its result, if its directory is still there.          *)
Result(r) ==
  /\ r \in alive /\ alive' = alive \ {r}
  /\ IF dir[r] = "open" THEN \E v \in Results : dir' = [dir EXCEPT ![r] = v]
     ELSE UNCHANGED dir
  /\ UNCHANGED <<row, tested, used, guard, job, lost, overlap>>

(* It is cancelled, runs out of time or crashes.                           *)
Stop(r) ==
  /\ r \in alive /\ alive' = alive \ {r}
  /\ UNCHANGED <<row, tested, used, dir, guard, job, lost, overlap>>

(* The result is read when the runner is gone, the row afterwards.         *)
Collect(w) ==
  /\ At(w, "gates") /\ job[w].run \notin alive
  /\ IF dir[job[w].run] \in Results
     THEN /\ Do(w, [job[w] EXCEPT !.at = "update", !.goal.passed = dir[job[w].run] = "pass"])
          /\ UNCHANGED guard
     ELSE Answer(w)
  /\ UNCHANGED <<row, tested, used, disk, lost, overlap>>

(* update_gates(): a published or archived model keeps its gates.          *)
UpdateGates(w) ==
  /\ At(w, "update")
  /\ IF row.status \in {"candidate", "blocked"}
     THEN /\ Decide(w, [status |-> Judged(job[w].goal.passed), passed |-> job[w].goal.passed,
                        report |-> job[w].run], "idle")
          /\ UNCHANGED guard
     ELSE Answer(w)
  /\ UNCHANGED <<row, tested, used, disk, lost, overlap>>

-----------------------------------------------------------------------------
(* Mutant: the gates are not looked at.                                    *)
PublishAnyway(w) ==
  /\ At(w, "idle") /\ row.status \in {"candidate", "blocked"}
  /\ Decide(w, [row EXCEPT !.status = "published"], "idle")
  /\ UNCHANGED <<row, tested, used, disk, guard, lost, overlap>>

(* publish()                                                               *)
Publish(w) ==
  /\ At(w, "idle") /\ row.status \in {"candidate", "blocked"} /\ tested /\ row.passed
  /\ Decide(w, [row EXCEPT !.status = "published"], "idle")
  /\ UNCHANGED <<row, tested, used, disk, guard, lost, overlap>>

(* archive()                                                               *)
Archive(w) ==
  /\ At(w, "idle") /\ row.status = "published"
  /\ Decide(w, [row EXCEPT !.status = "archived"], "idle")
  /\ UNCHANGED <<row, tested, used, disk, guard, lost, overlap>>

-----------------------------------------------------------------------------
(* delete_model_gate_run(): the model is read, then the directories.       *)
DeleteRun(w) ==
  /\ At(w, "idle") /\ Exists
  /\ \E r \in Runs : Do(w, [Idle EXCEPT !.at = "list", !.seen = row, !.run = r])
  /\ Concurs
  /\ UNCHANGED <<row, tested, used, disk, guard, lost>>

Completed(r) == {s \in Runs \ {r} : dir[s] \in {"pass", "fail"}}

(* The active run of a published model is refused; that of another model   *)
(* is replaced by a completed one with an ONNX file, the newest in the code *)
(* (there is no clock here); a run that is not active is removed at once,   *)
(* even when it is still going on.                                         *)
List(w) ==
  /\ At(w, "list")
  /\ LET r == job[w].run
         active == job[w].seen.report = r
     IN \/ /\ dir[r] \in {"none", "gone"} \/ (active /\ job[w].seen.status = "published")
           /\ Do(w, Idle)
        \/ /\ dir[r] \notin {"none", "gone"} /\ ~active
           /\ Do(w, [Idle EXCEPT !.at = "remove", !.run = r])
        \/ /\ dir[r] \notin {"none", "gone"} /\ active /\ job[w].seen.status # "published"
           /\ IF Completed(r) = {} THEN Do(w, [Idle EXCEPT !.at = "switch", !.run = r])
              ELSE \E s \in Completed(r) :
                     Do(w, [Idle EXCEPT !.at = "switch", !.run = r, !.to = s,
                                        !.goal.passed = dir[s] = "pass"])
  /\ UNCHANGED <<row, tested, used, disk, guard, lost, overlap>>

(* Mutant: the gates of the removed run are kept.                          *)
SwitchKeeping(w) ==
  /\ At(w, "switch")
  /\ IF row.status \in {"candidate", "blocked", "archived"}
     THEN Decide(w, [row EXCEPT !.report = job[w].to], "remove")
     ELSE Do(w, Idle)
  /\ UNCHANGED <<row, tested, used, disk, guard, lost, overlap>>

(* activate_gate_run() or clear_gate_run(): a model that has been          *)
(* published meanwhile refuses.                                            *)
Switch(w) ==
  /\ At(w, "switch")
  /\ IF row.status \in {"candidate", "blocked", "archived"}
     THEN Decide(w, [status |-> Judged(job[w].goal.passed), passed |-> job[w].goal.passed,
                     report |-> job[w].to], "remove")
     ELSE Do(w, Idle)
  /\ UNCHANGED <<row, tested, used, disk, guard, lost, overlap>>

Remove(w) ==
  /\ At(w, "remove")
  /\ dir' = [dir EXCEPT ![job[w].run] = "gone"]
  /\ Do(w, Idle)
  /\ UNCHANGED <<row, tested, used, alive, guard, lost, overlap>>

-----------------------------------------------------------------------------
(* delete(): neither a published model nor one an inference run refers to. *)
Delete(w) ==
  /\ At(w, "idle") /\ Exists /\ row.status # "published" /\ used = "no"
  /\ Do(w, [Idle EXCEPT !.at = "delete", !.seen = row])
  /\ UNCHANGED <<row, tested, used, disk, guard, lost, overlap>>

(* delete_downstream_records(): whatever the status of the model, unless   *)
(* an inference run is active.                                             *)
Cascade(w) ==
  /\ At(w, "idle") /\ Exists /\ used # "active"
  /\ Do(w, [Idle EXCEPT !.at = "cascade", !.seen = row])
  /\ UNCHANGED <<row, tested, used, disk, guard, lost, overlap>>

(* The DELETE is refused by the foreign key of an inference run; a cascade *)
(* deletes the inference runs before, one started meanwhile included.      *)
Drop(w) ==
  /\ job[w].at \in {"delete", "cascade"}
  /\ IF Exists /\ (At(w, "cascade") \/ used = "no")
     THEN row' = Gone /\ used' = "no" /\ lost' = (lost \/ row # job[w].seen)
     ELSE UNCHANGED <<row, used, lost>>
  /\ Do(w, Idle)
  /\ UNCHANGED <<tested, disk, guard, overlap>>

-----------------------------------------------------------------------------
(* create_inference_run(): under the guard, the model is read, then the    *)
(* run's row is inserted, unless the model is gone.                        *)
Use(w) ==
  /\ At(w, "idle") /\ guard = Nobody
  /\ Exists /\ row.status # "archived" /\ used # "active"
  /\ Do(w, [Idle EXCEPT !.at = "use"]) /\ guard' = w
  /\ UNCHANGED <<row, tested, used, disk, lost, overlap>>

Insert(w) ==
  /\ At(w, "use")
  /\ used' = IF Exists THEN "active" ELSE used
  /\ Answer(w)
  /\ UNCHANGED <<row, tested, disk, lost, overlap>>

(* The inference run ends; ended, it may be deleted.                       *)
EndUse ==
  /\ used = "active" /\ used' = "ended"
  /\ UNCHANGED <<row, tested, disk, guard, job, lost, overlap>>

Forget ==
  /\ used = "ended" /\ used' = "no"
  /\ UNCHANGED <<row, tested, disk, guard, job, lost, overlap>>

-----------------------------------------------------------------------------
(* The API process dies and is started again; gate runners live on.        *)
Crash ==
  /\ job' = [w \in Workers |-> Idle] /\ guard' = Nobody
  /\ UNCHANGED <<row, tested, used, disk, lost, overlap>>

(* The steps of a request that is being served, and those that begin one.  *)
Serve(w) ==
  \/ Collect(w) \/ UpdateGates(w) \/ Write(w)
  \/ List(w) \/ Switch(w) \/ Remove(w)
  \/ Drop(w) \/ Insert(w)

Ask(w) ==
  \/ Gates(w) \/ Publish(w) \/ Archive(w) \/ DeleteRun(w)
  \/ Delete(w) \/ Cascade(w) \/ Use(w)

Next ==
  \/ \E w \in Workers : Ask(w) \/ Serve(w)
  \/ \E r \in Runs : Result(r) \/ Stop(r)
  \/ EndUse \/ Forget \/ Crash

Spec == Init /\ [][Next]_vars

-----------------------------------------------------------------------------
(* Every variable has its type: the row of the registry, the directories   *)
(* and the request each worker serves.                                     *)
Statuses == {"candidate", "blocked", "published", "archived", "deleted"}
Rows == [status : Statuses, passed : BOOLEAN, report : Runs \cup {NoRun}]
Jobs == [at : {"idle", "write", "gates", "update", "list", "switch", "remove",
               "delete", "cascade", "use"},
         seen : Rows, goal : Rows, run : Runs \cup {NoRun}, to : Runs \cup {NoRun},
         then : {"idle", "remove"}]

TypeOK ==
  /\ row \in Rows /\ tested \in BOOLEAN
  /\ used \in {"no", "active", "ended"}
  /\ dir \in [Runs -> {"none", "open", "gone"} \cup Results] /\ alive \subseteq Runs
  /\ guard \in Workers \cup {Nobody}
  /\ job \in [Workers -> Jobs]
  /\ lost \in BOOLEAN /\ overlap \in BOOLEAN

(* "all release gates must pass before publication": no model is published *)
(* with a gate that has failed or without its independent test.            *)
PublishedPassed == row.status = "published" => row.passed /\ tested

(* It is so unless a request wrote to a row that another had changed.      *)
PublishedPassedUnlessLost == ~lost => PublishedPassed

(* The verdict in the row is that of the report it names, and the report   *)
(* is there to be read, whatever else runs and wherever the process dies,  *)
(* as long as requests about gate runs come one at a time.                 *)
VerdictOfItsReport ==
  ~overlap /\ row.report # NoRun =>
    dir[row.report] \in Results /\ (row.passed <=> dir[row.report] = "pass")

(* What the repository calls terminal is: an archived model is never       *)
(* judged or published again, and a published one is only archived, or     *)
(* deleted with everything that refers to it, unless a write was lost.     *)
TerminalStays ==
  [][/\ ~lost' /\ row.status = "archived" => row'.status \in {"archived", "deleted"}
     /\ ~lost' /\ row.status = "published" =>
          \/ row'.status \in {"published", "archived"}
          \/ \E w \in Workers : At(w, "cascade") /\ row' = Gone]_vars
=============================================================================
