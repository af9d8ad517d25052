---------------------------- MODULE GpuAdmission ----------------------------
(***************************************************************************)
(* How requests get at the one GPU (api/app.py): a training run and an     *)
(* inference run are created under the heavy-operation guard, a safe retry *)
(* and an evaluation recovery are not.  All of them look at the rows of    *)
(* other runs, create a row, spawn a runner and mark the row active, each  *)
(* in a step of its own.                                                   *)
(*                                                                         *)
(* A request creates at most one run, which is named after it.  The guard  *)
(* is taken for what HeavyLease promises: one request at a time inside.    *)
(***************************************************************************)
EXTENDS Naturals, FiniteSets

CONSTANTS
  Trains, Infers,    \* requests for a training run, for an inference run
  Retries, Recovers, \* requests to retry, to re-evaluate a failed run
  KeyOf,             \* the source run and request_id a retry names
  Nobody             \* the guard is free

Guarded == Trains \cup Infers
Trainings == Trains \cup Retries \cup Recovers
Requests == Trainings \cup Infers

ASSUME RequestAssumption ==
  /\ Trains \cap (Retries \cup Recovers) = {} /\ Retries \cap Recovers = {}
  /\ Trainings \cap Infers = {}
  /\ Nobody \notin Requests

VARIABLES
  run,      \* the row of a request's run
  pc,       \* where the request stands
  guard,    \* the request inside the guard
  gpu,      \* the runs whose runner process is alive
  overlap   \* history: two retries under one key were both let in

vars == <<run, pc, guard, gpu, overlap>>

Init ==
  /\ run = [t \in Requests |-> "none"]
  /\ pc = [t \in Requests |-> "new"]
  /\ guard = Nobody /\ gpu = {} /\ overlap = {}

ActiveTraining == {t \in Trainings : run[t] = "active"}
ActiveInference == {t \in Infers : run[t] \in {"queued", "active"}}
Entering(t) == pc[t] \notin {"new", "done"} /\ run[t] = "none"

Goto(t, there) == pc' = [pc EXCEPT ![t] = there]

(* Mutant: an early return leaves the guard taken.                         *)
LeaveLocked(t) == Goto(t, "done") /\ UNCHANGED guard

(* A request ends, in success or with an error, and gives the guard back.  *)
Leave(t) ==
  /\ Goto(t, "done")
  /\ guard' = IF guard = t THEN Nobody ELSE guard

-----------------------------------------------------------------------------
(* Mutant: the guard is not asked.                                         *)
EnterUnguarded(t) ==
  /\ pc[t] = "new" /\ t \in Guarded
  /\ Goto(t, "checkTraining")
  /\ UNCHANGED <<run, guard, gpu, overlap>>

(* heavy_operation("training-start"), heavy_operation("inference")         *)
Enter(t) ==
  /\ pc[t] = "new" /\ t \in Guarded /\ guard = Nobody
  /\ Goto(t, "checkTraining") /\ guard' = t
  /\ UNCHANGED <<run, gpu, overlap>>

Siblings(t) == {s \in Retries \ {t} : KeyOf[s] = KeyOf[t]}

(* Mutant: find_retry() is not asked.                                      *)
RetryAnew(t) ==
  /\ pc[t] = "new" /\ t \in Retries
  /\ Goto(t, "checkTraining")
  /\ UNCHANGED <<run, guard, gpu, overlap>>

(* retry_training_run(): a child under the same key, whatever became of    *)
(* it, is the answer to the request.                                       *)
Retry(t) ==
  /\ pc[t] = "new" /\ t \in Retries
  /\ IF \E s \in Siblings(t) : run[s] # "none"
     THEN Goto(t, "done") /\ UNCHANGED overlap
     ELSE /\ Goto(t, "checkTraining")
          /\ overlap' = IF \E s \in Siblings(t) : Entering(s)
                        THEN overlap \cup {KeyOf[t]} ELSE overlap
  /\ UNCHANGED <<run, guard, gpu>>

(* recover_training_evaluation()                                           *)
Recover(t) ==
  /\ pc[t] = "new" /\ t \in Recovers
  /\ Goto(t, "checkTraining")
  /\ UNCHANGED <<run, guard, gpu, overlap>>

(* "another training run is active": a queued one does not count.          *)
CheckTraining(t) ==
  /\ pc[t] = "checkTraining"
  /\ IF ActiveTraining # {} THEN Leave(t)
     ELSE Goto(t, IF t \in Guarded THEN "checkInference" ELSE "create") /\ UNCHANGED guard
  /\ UNCHANGED <<run, gpu, overlap>>

(* "another GPU operation is active": only the guarded requests look.      *)
CheckInference(t) ==
  /\ pc[t] = "checkInference"
  /\ IF ActiveInference # {} THEN Leave(t) ELSE Goto(t, "create") /\ UNCHANGED guard
  /\ UNCHANGED <<run, gpu, overlap>>

Create(t) ==
  /\ pc[t] = "create"
  /\ run' = [run EXCEPT ![t] = "queued"]
  /\ Goto(t, "start")
  /\ UNCHANGED <<guard, gpu, overlap>>

(* start(): training looks at the other runs again; a row that is no       *)
(* longer queued, or with another run active, is given up as it is.        *)
Start(t) ==
  /\ pc[t] = "start"
  /\ IF \/ t \in Trainings /\ ActiveTraining \ {t} # {}
        \/ run[t] # "queued"
     THEN Leave(t) ELSE Goto(t, "spawn") /\ UNCHANGED guard
  /\ UNCHANGED <<run, gpu, overlap>>

Spawn(t) ==
  /\ pc[t] = "spawn"
  /\ gpu' = gpu \cup {t}
  /\ Goto(t, "mark")
  /\ UNCHANGED <<run, guard, overlap>>

(* Mutant: the row is given the name of the phase.                         *)
MarkPhase(t) ==
  /\ pc[t] = "mark"
  /\ run' = [run EXCEPT ![t] = "training"]
  /\ Leave(t)
  /\ UNCHANGED <<gpu, overlap>>

(* A training row that was cancelled meanwhile refuses the transition; an  *)
(* inference row is overwritten.                                           *)
Mark(t) ==
  /\ pc[t] = "mark"
  /\ run' = [run EXCEPT ![t] = IF t \in Infers \/ @ = "queued" THEN "active" ELSE @]
  /\ Leave(t)
  /\ UNCHANGED <<gpu, overlap>>

-----------------------------------------------------------------------------
(* The runner of a run ends, and with a refresh so does an active run.     *)
End(t) ==
  /\ pc[t] = "done" /\ (t \in gpu \/ run[t] = "active")
  /\ gpu' = gpu \ {t}
  /\ run' = [run EXCEPT ![t] = IF @ = "active" THEN "ended" ELSE @]
  /\ UNCHANGED <<pc, guard, overlap>>

(* A queued run is cancelled: a runner that is already there is stopped,   *)
(* one that is about to be spawned is not.                                 *)
Cancel(t) ==
  /\ run[t] = "queued"
  /\ run' = [run EXCEPT ![t] = "ended"]
  /\ gpu' = gpu \ {t}
  /\ UNCHANGED <<pc, guard, overlap>>

(* The API process dies and is started again: recovery ends the runs whose *)
(* runner is gone and queued inference runs, never queued training runs.   *)
Crash ==
  /\ \E alive \in SUBSET gpu :
       /\ gpu' = alive
       /\ run' = [t \in Requests |->
                    IF \/ run[t] = "active" /\ t \notin alive
                       \/ run[t] = "queued" /\ t \in Infers
                    THEN "ended" ELSE run[t]]
  /\ pc' = [t \in Requests |-> IF pc[t] = "new" THEN "new" ELSE "done"]
  /\ guard' = Nobody
  /\ UNCHANGED overlap

Step(t) ==
  \/ CheckTraining(t) \/ CheckInference(t) \/ Create(t) \/ Start(t) \/ Spawn(t) \/ Mark(t)

Next ==
  \/ \E t \in Requests :
       \/ Enter(t) \/ Retry(t) \/ Recover(t)
       \/ CheckTraining(t) \/ CheckInference(t)
       \/ Create(t) \/ Start(t) \/ Spawn(t) \/ Mark(t)
       \/ End(t) \/ Cancel(t)
  \/ Crash

(* A request that is being served goes on.                                 *)
Spec == Init /\ [][Next]_vars
FairSpec == Spec /\ \A t \in Requests : WF_vars(Step(t))

-----------------------------------------------------------------------------
TypeOK ==
  /\ run \in [Requests -> {"none", "queued", "active", "ended"}]
  /\ pc \in [Requests -> {"new", "checkTraining", "checkInference", "create",
                          "start", "spawn", "mark", "done"}]
  /\ guard \in Guarded \cup {Nobody}
  /\ gpu \subseteq Requests
  /\ overlap \subseteq {KeyOf[t] : t \in Retries}

(* A runner that no row shows: its run was cancelled, or the API process   *)
(* died, between the spawn and the mark.                                   *)
Stray == {t \in gpu : run[t] = "ended" \/ (run[t] = "queued" /\ pc[t] = "done")}

(* Two runners share the GPU only if one of them came in without the guard *)
(* or is one that no row accounts for.                                     *)
SharedOnlyByBypass ==
  \A s, t \in gpu : s # t =>
    {s, t} \cap (Retries \cup Recovers \cup Stray) # {}

(* A key names one child run, unless two retries under it were both let in *)
(* before either had created its child.                                    *)
OneChildUnlessOverlapped ==
  \A s, t \in Retries : s # t /\ KeyOf[s] = KeyOf[t] /\ KeyOf[s] \notin overlap =>
    run[s] = "none" \/ run[t] = "none"

(* Nobody who is answered leaves the guard taken: it comes free again.     *)
GuardComesFree == guard # Nobody ~> guard = Nobody

(* One training run at a time occupies the GPU.                            *)
OneTrainingAtATime == Cardinality(gpu \cap Trainings) <= 1
=============================================================================
