------------------------- MODULE GpuAdmission_proofs -------------------------
(* Proofs about GpuAdmission for every set of requests and every choice of  *)
(* the keys of retries.                                                     *)
(****************************************************************************)
EXTENDS GpuAdmission, TLAPS

Phases == {"new", "checkTraining", "checkInference", "create", "start", "spawn", "mark", "done"}
Inside(t) == pc[t] \notin {"new", "done"}
Early == {"new", "checkTraining", "checkInference", "create"}
Past == {"create", "start", "spawn", "mark"}

(* A guarded request that is being served holds the guard, and what it has  *)
(* checked stays true of the other guarded ones while it does.              *)
Held == \A t \in Guarded : Inside(t) => guard = t
Checked ==
  \A s, t \in Guarded : s # t /\ run[s] = "active" =>
    /\ pc[t] \notin Past /\ run[t] # "active"
    /\ pc[t] = "checkInference" => s \in Infers

(* Rows and runners follow the steps of their requests.                     *)
Placed ==
  /\ \A t \in gpu : pc[t] \in {"mark", "done"} /\ run[t] # "none"
  /\ \A t \in Requests : pc[t] \in Early => run[t] = "none"
  /\ \A t \in Requests : pc[t] \in {"start", "spawn", "mark"} => run[t] # "none"
  /\ \A t \in Requests : run[t] = "active" => pc[t] = "done"

(* Of two retries under one key only one was let in.                        *)
LetIn(t) == run[t] # "none" \/ Inside(t)
OneLetIn ==
  \A s, t \in Retries :
    s # t /\ KeyOf[s] = KeyOf[t] /\ KeyOf[s] \notin overlap => ~ LetIn(s) \/ ~ LetIn(t)

Inv == TypeOK /\ Held /\ Checked /\ Placed /\ OneLetIn

-----------------------------------------------------------------------------
LEMMA Initial == Init => Inv
<1> SUFFICES ASSUME Init PROVE Inv OBVIOUS
<1>1. TypeOK BY DEF Init, TypeOK
<1>2. Held /\ Checked /\ Placed
  BY DEF Init, Held, Checked, Placed, Inside, Past, Early, Guarded, Trainings, Requests
<1>3. OneLetIn BY DEF Init, OneLetIn, LetIn, Inside, Requests, Trainings
<1> QED BY <1>1, <1>2, <1>3 DEF Inv

(* A request that goes on or leaves, and touches nothing but its place.     *)
LEMMA MoveKeeps ==
  ASSUME Inv, NEW t \in Requests, Inside(t), NEW there \in Phases \ {"new"},
         UNCHANGED <<run, gpu, overlap>>, pc' = [pc EXCEPT ![t] = there],
         IF there = "done" THEN guard' = IF guard = t THEN Nobody ELSE guard
                           ELSE guard' = guard,
         there # "done" =>
           (pc[t] \in Early /\ there \in Early) \/ (pc[t] = "start" /\ there = "spawn"),
         t \in gpu => there = "done",
         there = "checkInference" => \A s \in Trains : run[s] # "active",
         there = "create" /\ t \in Guarded => \A s \in Guarded : run[s] # "active"
  PROVE  Inv'
<1>1. TypeOK' BY SMTT(60) DEF Inv, TypeOK, Phases
<1>2. Held'
  BY SMTT(60), RequestAssumption DEF Inv, TypeOK, Held, Inside, Guarded, Requests, Trainings
<1>3. Checked'
  BY SMTT(60), RequestAssumption
     DEF Inv, TypeOK, Checked, Inside, Past, Early, Guarded, Requests, Trainings
<1>4. Placed' BY SMTT(60) DEF Inv, TypeOK, Placed, Inside, Early, Phases
<1>5. OneLetIn'
  BY SMTT(60) DEF Inv, TypeOK, OneLetIn, LetIn, Inside, Requests, Trainings
<1> QED BY <1>1, <1>2, <1>3, <1>4, <1>5 DEF Inv

(* Coming in: under the guard, as a retry, or to re-evaluate.               *)
LEMMA ArriveKeeps ==
  ASSUME Inv, NEW t \in Requests, Enter(t) \/ Retry(t) \/ Recover(t) PROVE Inv'
<1>0. pc[t] = "new" /\ run[t] = "none" /\ t \notin gpu /\ run' = run /\ gpu' = gpu
  BY DEF Enter, Retry, Recover, Inv, Placed, Early
<1>1. pc' = [pc EXCEPT ![t] = "checkTraining"] \/ (pc' = [pc EXCEPT ![t] = "done"] /\ t \in Retries)
  BY DEF Enter, Retry, Recover, Goto
<1>2. \/ guard = Nobody /\ guard' = t /\ t \in Guarded
      \/ guard' = guard /\ t \notin Guarded
  BY RequestAssumption DEF Enter, Retry, Recover, Guarded, Trainings
<1>3. TypeOK'
  <2>1. overlap' \subseteq {KeyOf[s] : s \in Retries}
    BY DEF Enter, Retry, Recover, Inv, TypeOK
  <2> QED BY <1>0, <1>1, <1>2, <2>1, SMTT(60) DEF Inv, TypeOK
<1>4. Held'
  BY <1>0, <1>1, <1>2, RequestAssumption, SMTT(60)
     DEF Inv, TypeOK, Held, Inside, Guarded, Trainings, Requests
<1>5. Checked'
  BY <1>0, <1>1, <1>2, SMTT(60) DEF Inv, TypeOK, Checked, Past, Guarded, Trainings, Requests
<1>6. Placed'
  BY <1>0, <1>1, SMTT(60) DEF Inv, TypeOK, Placed, Early
<1>7. OneLetIn'
  <2>1. CASE Retry(t)
    BY <2>1, <1>0, SMTT(60)
       DEF Retry, Goto, Siblings, Entering, Inv, TypeOK, OneLetIn, LetIn, Inside, Trainings, Requests
  <2>2. CASE Enter(t) \/ Recover(t)
    <3>1. t \notin Retries /\ overlap' = overlap
      BY <2>2, RequestAssumption DEF Enter, Recover, Guarded, Trainings
    <3> QED BY <3>1, <1>0, <1>1, SMTT(60)
      DEF Inv, TypeOK, OneLetIn, LetIn, Inside, Trainings, Requests
  <2> QED BY <2>1, <2>2
<1> QED BY <1>3, <1>4, <1>5, <1>6, <1>7 DEF Inv

LEMMA CheckKeeps ==
  ASSUME Inv, NEW t \in Requests, CheckTraining(t) \/ CheckInference(t) \/ Start(t) PROVE Inv'
<1> USE DEF Phases, Early
<1>1. CASE CheckTraining(t) /\ ActiveTraining # {}
  BY <1>1, MoveKeeps DEF CheckTraining, Leave, Goto, Inside
<1>2. CASE CheckTraining(t) /\ ActiveTraining = {}
  <2>1. \A s \in Trains : run[s] # "active" BY <1>2 DEF ActiveTraining, Trainings
  <2>2. t \notin gpu BY <1>2 DEF CheckTraining, Inv, Placed
  <2>3. CASE t \in Guarded
    BY <1>2, <2>1, <2>2, <2>3, MoveKeeps DEF CheckTraining, Goto, Inside
  <2>4. CASE t \notin Guarded
    BY <1>2, <2>2, <2>4, MoveKeeps DEF CheckTraining, Goto, Inside
  <2> QED BY <2>3, <2>4
<1>3. CASE CheckInference(t) /\ ActiveInference # {}
  BY <1>3, MoveKeeps DEF CheckInference, Leave, Goto, Inside
<1>4. CASE CheckInference(t) /\ ActiveInference = {}
  <2>1. t \in Guarded => \A s \in Guarded : run[s] # "active"
    <3> SUFFICES ASSUME t \in Guarded, NEW s \in Guarded, run[s] = "active" PROVE FALSE OBVIOUS
    <3>1. s \notin Infers BY <1>4 DEF ActiveInference
    <3>2. s # t BY <1>4 DEF CheckInference, Inv, Placed, Requests, Trainings, Guarded
    <3> QED BY <1>4, <3>1, <3>2 DEF CheckInference, Inv, Checked
  <2>2. t \notin gpu BY <1>4 DEF CheckInference, Inv, Placed
  <2> QED BY <1>4, <2>1, <2>2, MoveKeeps DEF CheckInference, Goto, Inside
<1>5. CASE Start(t)
  <2>1. t \notin gpu BY <1>5 DEF Start, Inv, Placed
  <2> QED BY <1>5, <2>1, MoveKeeps DEF Start, Leave, Goto, Inside
<1> QED BY <1>1, <1>2, <1>3, <1>4, <1>5

(* The row, the runner and the mark.                                        *)
LEMMA RunKeeps ==
  ASSUME Inv, NEW t \in Requests, Create(t) \/ Spawn(t) PROVE Inv'
<1>0. /\ pc[t] \in {"create", "spawn"} /\ guard' = guard /\ overlap' = overlap
      /\ pc' = [pc EXCEPT ![t] = IF pc[t] = "create" THEN "start" ELSE "mark"]
      /\ gpu' = IF pc[t] = "create" THEN gpu ELSE gpu \cup {t}
      /\ run' = IF pc[t] = "create" THEN [run EXCEPT ![t] = "queued"] ELSE run
  BY DEF Create, Spawn, Goto
<1>1. TypeOK' BY <1>0, SMTT(60) DEF Inv, TypeOK
<1>2. Held' BY <1>0, SMTT(60) DEF Inv, TypeOK, Held, Inside, Guarded, Trainings, Requests
<1>3. Checked'
  BY <1>0, SMTT(60) DEF Inv, TypeOK, Checked, Past, Guarded, Trainings, Requests
<1>4. Placed' BY <1>0, SMTT(60) DEF Inv, TypeOK, Placed, Early
<1>5. OneLetIn'
  BY <1>0, SMTT(60) DEF Inv, TypeOK, OneLetIn, LetIn, Inside, Trainings, Requests
<1> QED BY <1>1, <1>2, <1>3, <1>4, <1>5 DEF Inv

LEMMA MarkKeeps ==
  ASSUME Inv, NEW t \in Requests, Mark(t) PROVE Inv'
<1>0. /\ pc[t] = "mark" /\ pc' = [pc EXCEPT ![t] = "done"] /\ gpu' = gpu /\ overlap' = overlap
      /\ guard' = IF guard = t THEN Nobody ELSE guard
      /\ run' = [run EXCEPT ![t] = IF t \in Infers \/ @ = "queued" THEN "active" ELSE @]
  BY DEF Mark, Leave, Goto
<1>1. TypeOK' BY <1>0, SMTT(60) DEF Inv, TypeOK
<1>2. Held' BY <1>0, SMTT(60) DEF Inv, TypeOK, Held, Inside, Guarded, Trainings, Requests
<1>3. Checked'
  <2>1. ASSUME t \in Guarded, NEW s \in Guarded, s # t PROVE pc[s] \in {"new", "done"}
    BY <2>1, <1>0 DEF Inv, Held, Inside
  <2> QED BY <1>0, <2>1, SMTT(60) DEF Inv, TypeOK, Checked, Past, Guarded, Trainings, Requests
<1>4. Placed' BY <1>0, SMTT(60) DEF Inv, TypeOK, Placed, Early
<1>5. OneLetIn'
  BY <1>0, SMTT(60) DEF Inv, TypeOK, OneLetIn, LetIn, Inside, Trainings, Requests, Placed
<1> QED BY <1>1, <1>2, <1>3, <1>4, <1>5 DEF Inv

(* Runs that end, are cancelled, or are found after a crash.                *)
LEMMA EndKeeps ==
  ASSUME Inv, NEW t \in Requests, End(t) \/ Cancel(t) PROVE Inv'
<1>0. /\ pc' = pc /\ guard' = guard /\ overlap' = overlap /\ gpu' = gpu \ {t}
      /\ \/ run' = [run EXCEPT ![t] = "ended"] /\ run[t] \in {"queued", "active"}
         \/ run' = run /\ run[t] # "active"
  BY SMTT(60) DEF End, Cancel, Inv, TypeOK
<1>1. TypeOK' BY <1>0, SMTT(60) DEF Inv, TypeOK
<1>2. Held' BY <1>0 DEF Inv, Held, Inside
<1>3. Checked' BY <1>0, SMTT(60) DEF Inv, TypeOK, Checked, Guarded, Trainings, Requests
<1>4. Placed' BY <1>0, SMTT(60) DEF Inv, TypeOK, Placed, Early
<1>5. OneLetIn'
  BY <1>0, SMTT(60) DEF Inv, TypeOK, OneLetIn, LetIn, Inside, Trainings, Requests
<1> QED BY <1>1, <1>2, <1>3, <1>4, <1>5 DEF Inv

LEMMA CrashKeeps == ASSUME Inv, Crash PROVE Inv'
<1>0. PICK alive \in SUBSET gpu :
        /\ gpu' = alive
        /\ run' = [t \in Requests |->
                     IF \/ run[t] = "active" /\ t \notin alive
                        \/ run[t] = "queued" /\ t \in Infers
                     THEN "ended" ELSE run[t]]
  BY DEF Crash
<1>a. /\ pc' = [t \in Requests |-> IF pc[t] = "new" THEN "new" ELSE "done"]
      /\ guard' = Nobody /\ overlap' = overlap
  BY DEF Crash
<1>1. TypeOK' BY <1>0, <1>a, SMTT(60) DEF Inv, TypeOK
<1>2. Held' BY <1>a DEF Inv, Held, Inside, Guarded, Trainings, Requests
<1>3. Checked'
  BY <1>0, <1>a, SMTT(60) DEF Inv, TypeOK, Checked, Past, Guarded, Trainings, Requests
<1>4. Placed' BY <1>0, <1>a, SMTT(60) DEF Inv, TypeOK, Placed, Early
<1>5. OneLetIn'
  BY <1>0, <1>a, SMTT(60) DEF Inv, TypeOK, OneLetIn, LetIn, Inside, Trainings, Requests
<1> QED BY <1>1, <1>2, <1>3, <1>4, <1>5 DEF Inv

LEMMA StepKeeps == Inv /\ [Next]_vars => Inv'
<1> SUFFICES ASSUME Inv, [Next]_vars PROVE Inv' OBVIOUS
<1>1. CASE \E t \in Requests : Enter(t) \/ Retry(t) \/ Recover(t) BY <1>1, ArriveKeeps
<1>2. CASE \E t \in Requests : CheckTraining(t) \/ CheckInference(t) \/ Start(t)
  BY <1>2, CheckKeeps
<1>3. CASE \E t \in Requests : Create(t) \/ Spawn(t) BY <1>3, RunKeeps
<1>4. CASE \E t \in Requests : Mark(t) BY <1>4, MarkKeeps
<1>5. CASE \E t \in Requests : End(t) \/ Cancel(t) BY <1>5, EndKeeps
<1>6. CASE Crash BY <1>6, CrashKeeps
<1>7. CASE UNCHANGED vars
  BY <1>7 DEF vars, Inv, TypeOK, Held, Checked, Placed, OneLetIn, LetIn, Inside
<1> QED BY <1>1, <1>2, <1>3, <1>4, <1>5, <1>6, <1>7 DEF Next

(* The inductive invariant: the guard is held by the one guarded request    *)
(* that is being served, and what it checked stays true until it leaves.    *)
THEOREM AdmissionInvariant == Spec => []Inv
  BY Initial, StepKeeps, PTL DEF Spec

(* The type invariant of the rows, requests, guard and runners of app.py.   *)
THEOREM TypeCorrect == Spec => []TypeOK
<1>1. Inv => TypeOK BY DEF Inv
<1> QED BY <1>1, AdmissionInvariant, PTL

(* Two runners share the GPU only if one of them came in without the guard  *)
(* or was cancelled or orphaned between its spawn and its mark.             *)
THEOREM Shared == Spec => []SharedOnlyByBypass
<1>1. ASSUME Inv PROVE SharedOnlyByBypass
  <2> SUFFICES ASSUME NEW s \in gpu, NEW t \in gpu, s # t,
                      s \notin Retries \cup Recovers \cup Stray,
                      t \notin Retries \cup Recovers \cup Stray
               PROVE  FALSE
    BY DEF SharedOnlyByBypass
  <2>1. s \in Guarded /\ t \in Guarded
    BY <1>1 DEF Inv, TypeOK, Guarded, Requests, Trainings
  <2>2. ASSUME NEW u \in {s, t} PROVE run[u] = "active" \/ pc[u] = "mark"
    BY <1>1, <2>2 DEF Inv, TypeOK, Placed, Stray
  <2>3. ~ (pc[s] = "mark" /\ pc[t] = "mark")
    BY <1>1, <2>1 DEF Inv, Held, Inside
  <2> QED BY <1>1, <2>1, <2>2, <2>3 DEF Inv, Checked, Past
<1> QED BY <1>1, AdmissionInvariant, PTL

(* A key of a retry names one child run, unless two retries under it were   *)
(* both let in before either had created its child.                         *)
THEOREM OneChild == Spec => []OneChildUnlessOverlapped
<1>1. Inv => OneChildUnlessOverlapped BY DEF Inv, OneLetIn, LetIn, OneChildUnlessOverlapped
<1> QED BY <1>1, AdmissionInvariant, PTL
=============================================================================
