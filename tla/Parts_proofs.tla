----------------------------- MODULE Parts_proofs -----------------------------
(* Proofs about the parts of the platform, each for every value of its        *)
(* constants.                                                                 *)
(*****************************************************************************)
EXTENDS Parts, FiniteSetTheorems, FunctionTheorems, WellFoundedInduction, TLAPS

(* The parts count with the Cardinality of FiniteSets.                      *)
LEMMA Counted ==
  \A S : /\ B!Cardinality(S) = Cardinality(S) /\ G!Cardinality(S) = Cardinality(S)
          /\ L!Cardinality(S) = Cardinality(S) /\ C!Cardinality(S) = Cardinality(S)
          /\ R!Cardinality(S) = Cardinality(S)
  BY DEF B!Cardinality, G!Cardinality, L!Cardinality, C!Cardinality, R!Cardinality, Cardinality

-----------------------------------------------------------------------------
(* Background jobs: what a client is told of a job, through restarts.       *)

LEMMA JobsInitial == J!Init => JobsInv /\ JobsBound
  BY DEF J!Init, JobsInv, JobsTyped, JobsBound, Served, Dating, J!Open, J!Ended, J!Steps,
    J!Startup

(* One thread of the wrapper moves and leaves the others alone.             *)
LEMMA WorkKeeps ==
  ASSUME JobsInv, NEW j \in Jobs, J!Work(j)
  PROVE  JobsInv' /\ (J!Board!Next \/ UNCHANGED row)
<1>1. CASE J!Begin(j)
  <2>1. JobsInv'
    BY <1>1, SMTT(60) DEF J!Begin, J!Goes, J!Update, JobsInv, JobsTyped, Served, Dating,
      J!Open, J!Ended, J!Steps, J!Startup
  <2>2. J!Board!Start(j)
    BY <1>1 DEF J!Begin, J!Goes, J!Update, JobsInv, JobsTyped, Served, J!Open, J!Ended,
      J!Steps, J!Board!Start, J!Board!Move
  <2> QED BY <2>1, <2>2 DEF J!Board!Next
<1>2. CASE J!Return(j) \/ J!Raise(j) \/ J!Check(j)
  BY <1>2, SMTT(60) DEF J!Return, J!Raise, J!Check, J!Goes, JobsInv, JobsTyped, Served,
    Dating, J!Open, J!Ended, J!Steps, J!Startup
<1>3. CASE J!Complete(j)
  <2>1. JobsInv'
    BY <1>3, SMTT(60) DEF J!Complete, J!Goes, J!Update, JobsInv, JobsTyped, Served, Dating,
      J!Open, J!Ended, J!Steps, J!Startup
  <2>2. J!Board!Complete(j)
    BY <1>3 DEF J!Complete, J!Goes, J!Update, JobsInv, JobsTyped, Served, J!Open, J!Ended,
      J!Steps, J!Board!Complete, J!Board!Move
  <2> QED BY <2>1, <2>2 DEF J!Board!Next
<1>4. CASE J!Fail(j)
  <2>1. JobsInv'
    BY <1>4, SMTT(60) DEF J!Fail, J!Goes, J!Update, JobsInv, JobsTyped, Served, Dating,
      J!Open, J!Ended, J!Steps, J!Startup
  <2>2. J!Board!Fail(j)
    BY <1>4 DEF J!Fail, J!Goes, J!Update, JobsInv, JobsTyped, Served, J!Open, J!Ended,
      J!Steps, J!Board!Fail, J!Board!Move
  <2> QED BY <2>1, <2>2 DEF J!Board!Next
<1> QED BY <1>1, <1>2, <1>3, <1>4 DEF J!Work

(* Every step of the tracker keeps the invariant and is one of the board's, *)
(* or leaves the board alone.                                               *)
LEMMA JobsStep ==
  ASSUME JobsInv, [J!Next]_J!vars
  PROVE  JobsInv' /\ (J!Board!Next \/ UNCHANGED row)
<1> USE DEF J!Open, J!Ended, J!Steps, J!Startup
<1>1. CASE \E j \in Jobs : J!Create(j)
  <2> PICK j \in Jobs : J!Create(j) BY <1>1
  <2>1. JobsInv' BY SMTT(60) DEF J!Create, JobsInv, JobsTyped, Served, Dating
  <2>2. J!Board!Accept(j) BY DEF J!Create, J!Board!Accept, J!Board!Move
  <2> QED BY <2>1, <2>2 DEF J!Board!Next
<1>2. CASE \E j \in Jobs : J!Work(j)
  BY <1>2, WorkKeeps
<1>3. CASE \E j \in Jobs : J!SessionFails(j)
  BY <1>3, SMTT(60) DEF J!SessionFails, J!Goes, JobsInv, JobsTyped, Served, Dating
<1>4. CASE \E j \in Jobs : J!Expire(j)
  <2> PICK j \in Jobs : J!Expire(j) BY <1>4
  <2> QED BY SMTT(60) DEF J!Expire, JobsInv, JobsTyped, Served, Dating
<1>5. CASE J!Boot \/ J!StartupFails
  BY <1>5, SMTT(60) DEF J!Boot, J!StartupFails, JobsInv, JobsTyped, Served, Dating
<1>6. CASE J!Recover
  <2>1. JobsInv' BY <1>6, SMTT(60) DEF J!Recover, JobsInv, JobsTyped, Served, Dating
  <2>2. J!Board!Interrupt
    <3> DEFINE some == {j \in Jobs : row[j] \in {"pending", "running"}}
    <3>1. row' = [j \in Jobs |-> IF j \in some THEN "interrupted" ELSE row[j]]
      BY <1>6 DEF J!Recover
    <3> QED BY <3>1 DEF J!Board!Interrupt
  <2> QED BY <2>1, <2>2 DEF J!Board!Next
<1>7. CASE J!Purge
  <2> DEFINE due == {j \in Jobs : expires[j] = "past" /\ row[j] # "gone"}
  <2>1. PICK some \in SUBSET due :
           row' = [j \in Jobs |-> IF j \in some THEN "gone" ELSE row[j]]
    BY <1>7 DEF J!Purge
  <2>2. \A j \in some : row[j] \in J!Ended BY DEF JobsInv, JobsTyped, Dating
  <2>3. JobsInv'
    BY <1>7, <2>1, <2>2, SMTT(60) DEF J!Purge, JobsInv, JobsTyped, Served, Dating
  <2>4. J!Board!Forget BY <2>1, <2>2 DEF J!Board!Forget, J!Board!Ended
  <2> QED BY <2>3, <2>4 DEF J!Board!Next
<1>8. CASE J!Crash
  BY <1>8, SMTT(60) DEF J!Crash, JobsInv, JobsTyped, Served, Dating
<1>9. CASE UNCHANGED J!vars
  BY <1>9, SMTT(60) DEF J!vars, JobsInv, JobsTyped, Served, Dating
<1> QED
  BY <1>1, <1>2, <1>3, <1>4, <1>5, <1>6, <1>7, <1>8, <1>9 DEF J!Next

(* The inductive invariant holds in every reachable state: a running thread *)
(* finds its row as it left it, through restarts and purges of the process. *)
THEOREM JobsInvariant == J!Spec => []JobsInv
  BY JobsInitial, JobsStep, PTL DEF J!Spec

LEMMA JobsBounded == JobsBound /\ [J!Next]_J!vars => JobsBound'
<1> SUFFICES ASSUME JobsBound, [J!Next]_J!vars PROVE JobsBound' OBVIOUS
<1>1. CASE \E j \in Jobs : J!Create(j) \/ J!Expire(j) \/ J!SessionFails(j)
  BY <1>1 DEF J!Create, J!Expire, J!SessionFails, JobsBound
<1>2. CASE \E j \in Jobs : J!Work(j)
  BY <1>2 DEF J!Work, J!Begin, J!Return, J!Raise, J!Check, J!Complete, J!Fail, JobsBound
<1>3. CASE J!Boot \/ J!Recover \/ J!Purge \/ J!StartupFails \/ J!Crash
  BY <1>3 DEF J!Boot, J!Recover, J!Purge, J!StartupFails, J!Crash, JobsBound
<1>4. CASE UNCHANGED J!vars
  BY <1>4 DEF J!vars, JobsBound
<1> QED BY <1>1, <1>2, <1>3, <1>4 DEF J!Next

(* The type invariant of the job rows and threads of api/jobs.py.           *)
THEOREM JobsTypeCorrect == J!Spec => []J!TypeOK
<1>1. J!Init => JobsBound BY JobsInitial
<1>2. J!Spec => []JobsBound BY <1>1, JobsBounded, PTL DEF J!Spec
<1>3. JobsInv /\ JobsBound => J!TypeOK BY DEF JobsInv, JobsTyped, JobsBound, J!TypeOK
<1> QED BY <1>2, <1>3, JobsInvariant, PTL

(* The tracker implements the board a client relies on: through every       *)
(* interleaving of job threads, failing sessions, restarts and purges, a    *)
(* job is accepted once, starts once, ends once, and is forgotten only      *)
(* after it ended.                                                          *)
THEOREM ImplementsBoard == J!Spec => J!KeepsBoard
<1>1. J!Init => J!Board!Init BY DEF J!Init, J!Board!Init
<1>2. JobsInv /\ [J!Next]_J!vars => [J!Board!Next]_row BY JobsStep
<1> QED BY <1>1, <1>2, JobsInvariant, PTL DEF J!Spec, J!KeepsBoard, J!Board!Spec

-----------------------------------------------------------------------------
(* Annotation edits: what the optimistic check of the revision is good for. *)

-----------------------------------------------------------------------------
LEMMA EditsInitial == A!Init => EditsInv
<1> SUFFICES ASSUME A!Init PROVE EditsInv OBVIOUS
<1>1. EditsTyped
  <2>1. image.revision = 0 /\ image \in [status : A!Statuses \cup {"none", "gone"}, revision : Nat]
    BY DEF A!Init
  <2>2. A!Idle \in Edits BY DEF A!Idle, Edits
  <2>3. edit \in [Annotators -> Edits] /\ \A a \in Annotators : edit[a] = A!Idle
    BY <2>2 DEF A!Init
  <2>4. shape \in [Shapes -> Strokes] /\ approved \in [Shapes -> Strokes]
    BY DEF A!Init, Strokes
  <2>5. known \in [Annotators -> Nat] /\ view \in [Annotators -> Nat]
    BY DEF A!Init
  <2>6. saves \in Nat /\ image.revision <= saves
    BY <2>1 DEF A!Init
  <2>7. blind \in BOOLEAN /\ overlapped \in BOOLEAN /\ life \in {"active", "trashed", "gone"}
    BY Zenon DEF A!Init
  <2> QED BY <2>1, <2>3, <2>4, <2>5, <2>6, <2>7, Zenon DEF EditsTyped
<1>2. Counting /\ OneEdit
  BY DEF A!Init, Counting, OneEdit, A!There, A!Statuses
<1>3. Reviewing
  BY DEF A!Init, Reviewing, Checked
<1> QED BY <1>1, <1>2, <1>3 DEF EditsInv, A!Init

(* The steps that change no edit and save nothing.                          *)
LEMMA GetKeeps ==
  ASSUME EditsInv, NEW a \in Annotators, A!Get(a) PROVE EditsInv'
<1>1. EditsTyped'
  BY SMTT(60) DEF A!Get, A!See, EditsInv, EditsTyped, A!There
<1>2. ASSUME ~ overlapped' PROVE (~ blind /\ Counting /\ OneEdit /\ Reviewing)'
  BY <1>2, SMTT(60) DEF A!Get, A!See, EditsInv, EditsTyped, Counting, OneEdit, Reviewing,
    Checked, A!There, A!Drawn
<1> QED BY <1>1, <1>2 DEF EditsInv

LEMMA FrameKeeps ==
  ASSUME EditsInv, A!Sync \/ A!Trash \/ A!Restore \/ A!Purge PROVE EditsInv'
<1>1. EditsTyped'
  <2>1. CASE A!Sync \/ A!Trash \/ A!Restore
    BY <2>1, SMTT(60)
      DEF A!Sync, A!Trash, A!Restore, EditsInv, EditsTyped, A!history, A!Statuses
  <2>2. CASE A!Purge
    BY <2>2, SMTT(60) DEF A!Purge, EditsInv, EditsTyped, A!history, A!Statuses, Strokes
  <2> QED BY <2>1, <2>2
<1>2. ASSUME ~ overlapped' PROVE (~ blind /\ Counting /\ OneEdit /\ Reviewing)'
  <2>0. ~ overlapped BY <1>2 DEF A!Sync, A!Trash, A!Restore, A!Purge, A!history
  <2>1. CASE A!Sync
    BY <2>0, <2>1, SMTT(60)
       DEF A!Sync, EditsInv, EditsTyped, Counting, OneEdit, Reviewing, Checked, A!There,
         A!Drawn, A!history, A!Statuses
  <2>2. CASE A!Trash \/ A!Restore
    BY <2>0, <2>2, SMTT(60)
       DEF A!Trash, A!Restore, EditsInv, EditsTyped, Counting, OneEdit, Reviewing, Checked,
         A!There, A!Drawn, A!history
  <2>3. CASE A!Purge
    BY <2>0, <2>3, SMTT(60)
       DEF A!Purge, EditsInv, EditsTyped, Counting, OneEdit, Reviewing, Checked, A!There,
         A!history, A!Statuses
  <2> QED BY <2>1, <2>2, <2>3
<1> QED BY <1>1, <1>2 DEF EditsInv

(* An edit that opens: from a guard that holds of the row it reads.         *)
LEMMA OpenKeeps ==
  ASSUME EditsInv, NEW a \in Annotators, NEW op \in A!Ops, NEW s \in Shapes \cup {NoShape},
         A!There, A!Open(a, op, s),
         op \in {"create", "update", "delete"} => s \in Shapes /\ image.status # "reviewed",
         op = "update" => s \in A!Drawn, op = "annotated" => A!Drawn # {},
         image.status = "reviewed" => op = "annotated"
  PROVE  EditsInv'
<1> DEFINE e == [op |-> op, shape |-> s, status |-> image.status, revision |-> image.revision]
<1>1. edit' = [edit EXCEPT ![a] = e] /\ edit[a] = A!Idle
  BY DEF A!Open
<1>2. e \in Edits /\ e.op # "none" /\ e.status \in A!Statuses
  BY DEF Edits, EditsInv, EditsTyped, A!Ops, A!There, A!Statuses
<1>3. e # A!Idle
  BY <1>2 DEF A!Idle
<1>4. EditsTyped'
  BY <1>1, <1>2, SMTT(60) DEF A!Open, EditsInv, EditsTyped
<1>5. ASSUME ~ overlapped' PROVE (~ blind /\ Counting /\ OneEdit /\ Reviewing)'
  <2>0. ~ overlapped /\ \A b \in Annotators : edit[b] = A!Idle
    BY <1>5 DEF A!Open, EditsInv, EditsTyped
  <2>1. Counting'
    <3>1. known[a] = image.revision /\ UNCHANGED <<image, known, view, saves>>
      BY DEF A!Open, A!Current
    <3>2. Counting /\ image.revision = saves /\ image.status # "none"
      BY <2>0 DEF EditsInv, Counting, A!There, A!Statuses
    <3>3. e.revision = saves /\ view[a] = saves BY <3>1, <3>2 DEF Counting
    <3>4. \A b \in Annotators : edit'[b] # A!Idle => view[b] = saves /\ edit'[b].revision = saves
      BY <2>0, <3>3, <1>1 DEF EditsInv, EditsTyped
    <3> QED BY <3>1, <3>2, <3>4 DEF Counting, A!There
  <2>2. OneEdit' BY <2>0, <1>1, SMTT(60) DEF EditsInv, EditsTyped, OneEdit
  <2>3. Checked(e)' BY DEF A!Open, Checked, A!There, A!Drawn
  <2>4. Reviewing'
    BY <2>0, <2>3, <1>1, SMTT(60)
      DEF A!Open, EditsInv, EditsTyped, Reviewing, Checked, A!There, A!Drawn
  <2> QED BY <2>0, <2>1, <2>2, <2>4 DEF A!Open, EditsInv
<1> QED BY <1>4, <1>5 DEF EditsInv

LEMMA EditKeeps ==
  ASSUME EditsInv, NEW a \in Annotators,
         A!Create(a) \/ A!Change(a) \/ A!SetStatus(a) PROVE EditsInv'
<1>1. CASE A!Create(a)
  <2>1. PICK s \in Shapes : A!Mutable /\ A!Open(a, "create", s) BY <1>1 DEF A!Create
  <2> QED BY <2>1, OpenKeeps DEF A!Mutable, A!Ops
<1>2. CASE A!Change(a)
  <2>1. PICK s \in A!Drawn, op \in {"update", "delete"} : A!Mutable /\ A!Open(a, op, s)
    BY <1>2 DEF A!Change
  <2> QED BY <2>1, OpenKeeps DEF A!Mutable, A!Ops, A!Drawn
<1>3. CASE A!SetStatus(a)
  <2>1. PICK status \in A!Statuses :
          /\ A!There /\ A!Open(a, status, NoShape)
          /\ status = "annotated" => A!Drawn # {}
          /\ image.status = "reviewed" => status = "annotated"
    BY <1>3 DEF A!SetStatus
  <2>2. status \in A!Ops /\ status \notin {"create", "update", "delete"}
    BY DEF A!Ops, A!Statuses
  <2> QED BY <2>1, <2>2, OpenKeeps
<1> QED BY <1>1, <1>2, <1>3

LEMMA RollBackKeeps ==
  ASSUME EditsInv, NEW a \in Annotators, A!RollBack(a) PROVE EditsInv'
<1>1. EditsTyped' BY SMTT(60) DEF A!RollBack, EditsInv, EditsTyped, A!history, A!Idle, Edits
<1>2. ASSUME ~ overlapped' PROVE (~ blind /\ Counting /\ OneEdit /\ Reviewing)'
  <2>0. ~ overlapped BY <1>2 DEF A!RollBack, A!history
  <2> QED BY <2>0, SMTT(60)
    DEF A!RollBack, EditsInv, EditsTyped, Counting, OneEdit, Reviewing, Checked, A!There,
      A!Drawn, A!history
<1> QED BY <1>1, <1>2 DEF EditsInv

(* What a save leaves drawn, for each kind of edit.                         *)
LEMMA SavedShapes ==
  ASSUME NEW e \in Edits, shape \in [Shapes -> Strokes]
  PROVE  /\ A!NewShape(e) \in [Shapes -> Strokes]
         /\ e.op # "none" /\ (e.op = "update" => e.status \in A!Statuses)
              => A!NewStatus(e) \in A!Statuses
         /\ e.op \notin {"create", "update", "delete"} => A!NewShape(e) = shape
              /\ A!NewStatus(e) = e.op
<1>1. CASE e.op = "create"
  <2>1. A!NewShape(e) = [shape EXCEPT ![e.shape] = "a"] /\ A!NewStatus(e) = "annotated"
    BY <1>1, Zenon DEF A!NewShape, A!NewStatus
  <2> QED BY <1>1, <2>1 DEF A!Statuses, Strokes
<1>2. CASE e.op = "update"
  <2>1. /\ A!NewShape(e) = [shape EXCEPT ![e.shape] = IF @ = "a" THEN "b" ELSE "a"]
        /\ A!NewStatus(e) = e.status
    BY <1>2, Zenon DEF A!NewShape, A!NewStatus
  <2> QED BY <1>2, <2>1 DEF A!Statuses, Strokes
<1>3. CASE e.op = "delete"
  <2>1. /\ A!NewShape(e) = [shape EXCEPT ![e.shape] = "gone"]
        /\ A!NewStatus(e) \in {"pending", "annotated"}
    BY <1>3, Zenon DEF A!NewShape, A!NewStatus
  <2> QED BY <1>3, <2>1 DEF A!Statuses, Strokes
<1>4. CASE e.op \notin {"create", "update", "delete"}
  <2>1. A!NewShape(e) = shape /\ A!NewStatus(e) = e.op
    BY <1>4, Zenon DEF A!NewShape, A!NewStatus
  <2> QED BY <1>4, <2>1 DEF Edits, A!Ops
<1> QED BY <1>1, <1>2, <1>3, <1>4

LEMMA SaveKeeps ==
  ASSUME EditsInv, NEW a \in Annotators, A!Save(a) PROVE EditsInv'
<1> DEFINE e == edit[a]
           status == A!NewStatus(e)
<1>1. /\ e # A!Idle /\ A!There /\ e \in Edits /\ e.op # "none" /\ e.revision <= saves
           /\ e.status \in A!Statuses
      /\ e.op = "update" => e.shape \in A!Drawn
  BY DEF A!Save, A!Fits, EditsInv, EditsTyped
<1>2. /\ shape' = A!NewShape(e) /\ saves' = saves + 1 /\ edit' = [edit EXCEPT ![a] = A!Idle]
      /\ image' = [status |-> IF status # e.status THEN status ELSE image.status,
                   revision |-> e.revision + 1]
      /\ approved' = IF image'.status = "reviewed" /\ e.op = "reviewed" THEN shape' ELSE approved
      /\ blind' = (blind \/ view[a] # saves)
      /\ overlapped' = overlapped /\ life' = life
  BY DEF A!Save
<1>3. \/ known' = [known EXCEPT ![a] = image'.revision] /\ view' = [view EXCEPT ![a] = saves']
      \/ known' = known /\ view' = view
  BY DEF A!Save, A!See
<1>4. status \in A!Statuses
  BY <1>1, SavedShapes DEF EditsInv, EditsTyped
<1>5. EditsTyped'
  <2>1. A!NewShape(e) \in [Shapes -> Strokes] BY <1>1, SavedShapes DEF EditsInv, EditsTyped
  <2>2. image' \in [status : A!Statuses \cup {"none", "gone"}, revision : Nat]
    BY <1>1, <1>2, <1>4, SMTT(60) DEF EditsInv, EditsTyped, Edits
  <2>3. image'.revision <= saves' /\ saves' \in Nat
    BY <1>1, <1>2, SMTT(60) DEF EditsInv, EditsTyped, Edits
  <2>4. edit' \in [Annotators -> Edits] /\ \A b \in Annotators :
          edit'[b] # A!Idle =>
            edit'[b].op # "none" /\ edit'[b].status \in A!Statuses /\ edit'[b].revision <= saves'
    BY <1>2, SMTT(60) DEF EditsInv, EditsTyped, Edits, A!Idle
  <2>5. known' \in [Annotators -> Nat] /\ view' \in [Annotators -> Nat]
    BY <1>3, <2>2, <2>3, SMTT(60) DEF EditsInv, EditsTyped
  <2>6. approved' \in [Shapes -> Strokes] BY <1>2, <2>1 DEF EditsInv, EditsTyped
  <2>7. blind' \in BOOLEAN /\ overlapped' \in BOOLEAN /\ life' \in {"active", "trashed", "gone"}
    BY <1>2 DEF EditsInv, EditsTyped
  <2> QED BY <1>2, <2>1, <2>2, <2>3, <2>4, <2>5, <2>6, <2>7 DEF EditsTyped
<1>6. ASSUME ~ overlapped' PROVE (~ blind /\ Counting /\ OneEdit /\ Reviewing)'
  <2>0. /\ ~ overlapped /\ ~ blind /\ Counting /\ OneEdit /\ Reviewing
    BY <1>2, <1>6 DEF EditsInv
  <2>1. /\ \A b \in Annotators : edit'[b] = A!Idle
        /\ e.revision = saves /\ view[a] = saves /\ image.status = e.status
    BY <2>0, <1>1, <1>2, SMTT(60)
      DEF EditsInv, EditsTyped, OneEdit, Counting, Reviewing, Checked
  <2>2. ~ blind' BY <2>0, <2>1, <1>2
  <2>3. image'.status = status /\ image'.revision = saves'
    BY <2>1, <1>2
  <2>4. Counting'
    BY <2>0, <2>1, <2>3, <1>2, <1>3, <1>4, SMTT(60)
      DEF EditsInv, EditsTyped, Counting, A!There, A!Statuses
  <2>5. OneEdit' BY <2>1 DEF OneEdit
  <2>6. Reviewing'
    <3>1. \A b \in Annotators : Checked(edit[b])' BY <2>1 DEF Checked
    <3>2. status = "reviewed" => e.op = "reviewed"
      BY <1>1, <2>0, SMTT(60) DEF Reviewing, Checked, A!NewStatus, Edits, A!Ops,
        A!Statuses, EditsInv, EditsTyped
    <3>3. status = "annotated" => A!Drawn' # {}
      <4>1. CASE e.op = "create" \/ e.op = "update"
        <5>1. e.shape \in Shapes /\ A!NewShape(e)[e.shape] \in {"a", "b"}
          BY <1>1, <2>0, <4>1, SMTT(60)
            DEF Reviewing, Checked, A!NewShape, EditsInv, EditsTyped
        <5> QED BY <5>1, <1>2 DEF A!Drawn
      <4>2. CASE e.op = "delete"
        <5>1. A!NewShape(e) = [shape EXCEPT ![e.shape] = "gone"]
          BY <4>2, Zenon DEF A!NewShape
        <5>2. status = "annotated" => A!Drawn \ {e.shape} # {} BY <4>2, SMT DEF A!NewStatus
        <5>3. A!Drawn \ {e.shape} \subseteq A!Drawn'
          BY <5>1, <1>2, SMTT(60) DEF A!Drawn, EditsInv, EditsTyped
        <5> QED BY <5>2, <5>3
      <4>3. CASE e.op \notin {"create", "update", "delete"}
        <5>1. shape' = shape /\ status = e.op
          BY <4>3, <1>1, <1>2, SavedShapes DEF EditsInv, EditsTyped
        <5>2. e.op = "annotated" => A!Drawn # {} BY <1>1, <2>0 DEF Reviewing, Checked
        <5> QED BY <5>1, <5>2 DEF A!Drawn
      <4> QED BY <4>1, <4>2, <4>3
    <3>4. status = "reviewed" => shape' = approved' BY <2>3, <3>2, <1>2
    <3> QED BY <3>1, <3>3, <3>4, <2>3 DEF Reviewing
  <2> QED BY <2>2, <2>4, <2>5, <2>6
<1> QED BY <1>5, <1>6 DEF EditsInv

LEMMA EditsStep == EditsInv /\ [A!Next]_A!vars => EditsInv'
<1> SUFFICES ASSUME EditsInv, [A!Next]_A!vars PROVE EditsInv' OBVIOUS
<1>1. CASE \E a \in Annotators : A!Get(a) BY <1>1, GetKeeps
<1>2. CASE \E a \in Annotators : A!Create(a) \/ A!Change(a) \/ A!SetStatus(a)
  BY <1>2, EditKeeps
<1>3. CASE \E a \in Annotators : A!Save(a) BY <1>3, SaveKeeps
<1>4. CASE \E a \in Annotators : A!RollBack(a) BY <1>4, RollBackKeeps
<1>5. CASE A!Sync \/ A!Trash \/ A!Restore \/ A!Purge BY <1>5, FrameKeeps
<1>6. CASE UNCHANGED A!vars
  BY <1>6, SMTT(60) DEF A!vars, A!history, EditsInv, EditsTyped, Counting, OneEdit,
    Reviewing, Checked, A!There, A!Drawn
<1> QED BY <1>1, <1>2, <1>3, <1>4, <1>5, <1>6 DEF A!Next

(* The inductive invariant: without overlapping edits the revision of an    *)
(* image counts its saves, so naming the current one proves having seen     *)
(* them.                                                                    *)
THEOREM EditInvariant == A!Spec => []EditsInv
  BY EditsInitial, EditsStep, PTL DEF A!Spec

(* The types of the image, its shapes and the edits of repository.py.       *)
THEOREM EditsTypeCorrect == A!Spec => []A!TypeOK
<1>1. EditsInv => A!TypeOK
  BY SMTT(60) DEF EditsInv, EditsTyped, A!TypeOK, Edits, Strokes
<1> QED BY <1>1, EditInvariant, PTL

(* The optimistic check of the revision works as long as no other edit is   *)
(* between its check and its commit: every save was made by an annotator    *)
(* who had seen all the saves before it.                                    *)
THEOREM SavesAreSeen == A!Spec => []A!NoBlindSave
<1>1. EditsInv => A!NoBlindSave BY DEF EditsInv, EditsTyped, A!NoBlindSave
<1> QED BY <1>1, EditInvariant, PTL

(* What was reviewed is what is drawn, and an annotated image has shapes,   *)
(* whoever edits, trashes, restores or purges it, without overlapping edits.*)
THEOREM ReviewsStand == A!Spec => []A!ReviewStands
<1>1. EditsInv => A!ReviewStands BY DEF EditsInv, Reviewing, A!ReviewStands
<1> QED BY <1>1, EditInvariant, PTL

-----------------------------------------------------------------------------
(* Frame curation: the files of frames, purges, and settled rows.           *)

LEMMA RowView ==
  ASSUME NEW S \in SUBSET Frames, NEW g, g = [f \in S |-> g[f]],
         \A f \in S : g[f] \in F!Row \cup Folders \cup {Nowhere}
  PROVE  g \in Views
<1>1. g \in [S -> F!Row \cup Folders \cup {Nowhere}] OBVIOUS
<1> QED BY <1>1, Zenon DEF Views

LEMMA RowFields ==
  /\ \A r \in F!Row : DOMAIN r = {"life", "status", "pre", "stored", "due"}
  /\ \A r : DOMAIN r = {"life", "status", "pre", "stored", "due"}
       /\ r = [c \in DOMAIN r |-> r[c]] /\
      r.life \in {"active", "trashed", "gone"} /\ r.status \in Folders
           /\ r.pre \in Folders \cup {Nowhere}
      /\ r.stored \in Folders /\ r.due \in {"never", "later", "now"} => r \in F!Row
<1>1. \A r \in F!Row : DOMAIN r = {"life", "status", "pre", "stored", "due"} BY DEF F!Row
<1>2. ASSUME NEW r, DOMAIN r = {"life", "status", "pre", "stored", "due"},
       r = [c \in DOMAIN r |-> r[c]],
      r.life \in {"active", "trashed", "gone"}, r.status \in Folders,
       r.pre \in Folders \cup {Nowhere},
      r.stored \in Folders, r.due \in {"never", "later", "now"} PROVE r \in F!Row
  <2>1. r = [life |-> r.life, status |-> r.status, pre |-> r.pre, stored |-> r.stored,
         due |-> r.due]
    BY <1>2
  <2> QED BY <1>2, <2>1 DEF F!Row
<1> QED BY <1>1, <1>2

LEMMA MergedRow ==
  ASSUME NEW j, NEW f \in Frames, row[f] \in F!Row, j.plan[f] \in F!Row
  PROVE  /\ F!Merged(j, f) \in F!Row
         /\ F!Merged(j, f).life = IF j.plan[f].life # j.seen[f].life THEN j.plan[f].life
              ELSE row[f].life
         /\ F!Merged(j, f).status = IF j.plan[f].status # j.seen[f].status THEN j.plan[f].status
              ELSE row[f].status
         /\ F!Merged(j, f).pre = IF j.plan[f].pre # j.seen[f].pre THEN j.plan[f].pre ELSE row[f].pre
         /\ F!Merged(j, f).stored = IF j.plan[f].stored # j.seen[f].stored THEN j.plan[f].stored
              ELSE row[f].stored
<1> DEFINE m == F!Merged(j, f)
<1>1. DOMAIN row[f] = {"life", "status", "pre", "stored", "due"} BY RowFields
<1>2. m = [c \in {"life", "status", "pre", "stored", "due"} |->
            IF j.plan[f][c] # j.seen[f][c] THEN j.plan[f][c] ELSE row[f][c]]
  BY <1>1 DEF F!Merged
<1> HIDE DEF m
<1>3. /\ m.life = IF j.plan[f].life # j.seen[f].life THEN j.plan[f].life ELSE row[f].life
      /\ m.status = IF j.plan[f].status # j.seen[f].status THEN j.plan[f].status ELSE row[f].status
      /\ m.pre = IF j.plan[f].pre # j.seen[f].pre THEN j.plan[f].pre ELSE row[f].pre
      /\ m.stored = IF j.plan[f].stored # j.seen[f].stored THEN j.plan[f].stored ELSE row[f].stored
      /\ m.due = IF j.plan[f].due # j.seen[f].due THEN j.plan[f].due ELSE row[f].due
      /\ DOMAIN m = {"life", "status", "pre", "stored", "due"} /\ m = [c \in DOMAIN m |-> m[c]]
  BY <1>2
<1>4. m \in F!Row
  <2>1. /\ row[f].life \in {"active", "trashed", "gone"}
             /\ j.plan[f].life \in {"active", "trashed", "gone"}
        /\ row[f].status \in Folders /\ j.plan[f].status \in Folders
        /\ row[f].pre \in Folders \cup {Nowhere} /\ j.plan[f].pre \in Folders \cup {Nowhere}
        /\ row[f].stored \in Folders /\ j.plan[f].stored \in Folders
        /\ row[f].due \in {"never", "later", "now"} /\ j.plan[f].due \in {"never", "later", "now"}
    BY DEF F!Row
  <2> QED BY <1>3, <2>1, RowFields
<1> QED BY <1>3, <1>4 DEF m

LEMMA EmptyView == F!NoFrames \in Views /\ DOMAIN F!NoFrames = {}
<1>1. F!NoFrames = [f \in {} |-> F!NoFrames[f]] BY DEF F!NoFrames
<1> QED BY <1>1, RowView DEF F!NoFrames

LEMMA IdleSane == F!Idle \in Doing /\ Sane(F!Idle) /\ F!Idle.at = "idle"
  BY EmptyView DEF F!Idle, Doing, Sane

(* One worker goes on with a sane state of its own.                         *)
LEMMA WorkerMoves ==
  ASSUME FrameTypes, NEW w \in Workers, NEW j \in Doing, Sane(j), F!Go(w, j)
  PROVE  /\ job' \in [Workers -> Doing] /\ \A v \in Workers : Sane(job'[v])
         /\ job'[w] = j /\ \A v \in Workers \ {w} : job'[v] = job[v]
<1>1. job' = [job EXCEPT ![w] = j] BY DEF F!Go
<1>2. job \in [Workers -> Doing] BY DEF FrameTypes, FramesTyped
<1>3. job' \in [Workers -> Doing] /\ job'[w] = j /\ \A v \in Workers \ {w} : job'[v] = job[v]
  BY <1>1, <1>2
<1> QED BY <1>3 DEF FrameTypes

LEMMA Changes ==
  ASSUME NEW r \in F!Row
  PROVE  /\ F!Binned(r) \in F!Row /\ F!Binned(r).life = "trashed" /\ F!Binned(r).pre = r.status
         /\ F!Binned(r).status = r.status /\ F!Binned(r).stored = r.stored
         /\ Places => F!Back(r) \in F!Row /\ F!Back(r).life = "active"
              /\ F!Back(r).stored = r.stored
         /\ F!Back(r).status = IF r.pre = Nowhere THEN Home ELSE r.pre
         /\ \A to \in Folders :
              /\ F!Placed(r, to) \in F!Row /\ F!Placed(r, to).life = r.life
                   /\ F!Placed(r, to).pre = r.pre
              /\ F!Placed(r, to).status = to /\ F!Placed(r, to).stored = to
              /\ F!Stored(r, to) \in F!Row /\ F!Stored(r, to).life = r.life
                   /\ F!Stored(r, to).pre = r.pre
              /\ F!Stored(r, to).status = r.status /\ F!Stored(r, to).stored = to
  BY DEF F!Row, F!Binned, F!Back, F!Placed, F!Stored, Places

LEMMA TrashBegins ==
  ASSUME FrameTypes, NEW w \in Workers, F!Trash(w)
  PROVE  \E some \in SUBSET F!In("active") : \E j :
           /\ F!Go(w, j) /\ Carries(j, some, "trash", "flush")
           /\ \A f \in some : j.seen[f] = row[f] /\ j.plan[f] = F!Binned(row[f])
<1>1. PICK some \in (SUBSET F!In("active")) \ {{}}, q \in Requests :
        F!Ask(w, "trash", q, F!Loaded([f \in some |-> F!Binned(row[f])]))
  BY DEF F!Trash
<1> DEFINE s == [f \in some |-> row[f]]
           p == [f \in some |-> F!Binned(row[f])]
           l == F!Loaded([f \in some |-> F!Binned(row[f])])
           j == [l EXCEPT !.op = "trash", !.request = q]
<1>2. some \in SUBSET Frames /\ row \in [Frames -> F!Row] /\ q \in Requests \cup {NoRequest}
  BY DEF F!In, FrameTypes, FramesTyped
<1>3. s \in [some -> F!Row] /\ p \in [some -> F!Row] /\ \A f \in some : s[f] = row[f]
       /\ p[f] = F!Binned(row[f])
  BY <1>2, Changes
<1>4. F!Go(w, j) BY <1>1 DEF F!Ask, F!Starts
<1>5. l = [F!Idle EXCEPT !.at = "flush", !.seen = s, !.plan = p] BY DEF F!Loaded
<1> HIDE DEF s, p, l
<1>6. s \in Views /\ p \in Views BY <1>2, <1>3, RowView
<1>7. l \in Doing /\ l.at = "flush" /\ l.seen = s /\ l.plan = p
  BY <1>5, <1>6, IdleSane DEF Doing
<1>8. j \in Doing /\ j.op = "trash" /\ j.at = "flush" /\ j.seen = s /\ j.plan = p
  BY <1>2, <1>7 DEF Doing
<1> HIDE DEF j
<1>9. Carries(j, some, "trash", "flush") BY <1>3, <1>8 DEF Carries
<1>10. \A f \in some : j.seen[f] = row[f] /\ j.plan[f] = F!Binned(row[f]) BY <1>3, <1>8
<1> QED BY <1>4, <1>9, <1>10

LEMMA RestoreBegins ==
  ASSUME FrameTypes, Places, NEW w \in Workers, F!Restore(w)
  PROVE  \E some \in SUBSET F!In("trashed") : \E j :
           /\ F!Go(w, j) /\ Carries(j, some, "restore", "flush")
           /\ \A f \in some : j.seen[f] = row[f] /\ j.plan[f] = F!Back(row[f])
<1>1. PICK some \in (SUBSET F!In("trashed")) \ {{}}, q \in Requests :
        F!Ask(w, "restore", q, F!Loaded([f \in some |-> F!Back(row[f])]))
  BY DEF F!Restore
<1> DEFINE s == [f \in some |-> row[f]]
           p == [f \in some |-> F!Back(row[f])]
           l == F!Loaded([f \in some |-> F!Back(row[f])])
           j == [l EXCEPT !.op = "restore", !.request = q]
<1>2. some \in SUBSET Frames /\ row \in [Frames -> F!Row] /\ q \in Requests \cup {NoRequest}
  BY DEF F!In, FrameTypes, FramesTyped
<1>3. s \in [some -> F!Row] /\ p \in [some -> F!Row] /\ \A f \in some : s[f] = row[f]
       /\ p[f] = F!Back(row[f])
  BY <1>2, Changes
<1>4. F!Go(w, j) BY <1>1 DEF F!Ask, F!Starts
<1>5. l = [F!Idle EXCEPT !.at = "flush", !.seen = s, !.plan = p] BY DEF F!Loaded
<1> HIDE DEF s, p, l
<1>6. s \in Views /\ p \in Views BY <1>2, <1>3, RowView
<1>7. l \in Doing /\ l.at = "flush" /\ l.seen = s /\ l.plan = p
  BY <1>5, <1>6, IdleSane DEF Doing
<1>8. j \in Doing /\ j.op = "restore" /\ j.at = "flush" /\ j.seen = s /\ j.plan = p
  BY <1>2, <1>7 DEF Doing
<1> HIDE DEF j
<1>9. Carries(j, some, "restore", "flush") BY <1>3, <1>8 DEF Carries
<1>10. \A f \in some : j.seen[f] = row[f] /\ j.plan[f] = F!Back(row[f]) BY <1>3, <1>8
<1> QED BY <1>4, <1>9, <1>10

LEMMA BulkBegins ==
  ASSUME FrameTypes, NEW w \in Workers, F!Bulk(w)
  PROVE  \E some \in SUBSET F!In("active"), to \in Folders : \E j :
           /\ F!Go(w, j) /\ Carries(j, some, "bulk", "move") /\ j.todo = some /\ some # {}
           /\ \A f \in some : j.seen[f] = row[f] /\ j.plan[f] = F!Placed(row[f], to)
<1>1. PICK some \in (SUBSET F!In("active")) \ {{}}, to \in Folders :
        F!Ask(w, "bulk", NoRequest,
            [F!Loaded([f \in some |-> F!Placed(row[f], to)]) EXCEPT !.at = "move", !.todo = some])
  BY DEF F!Bulk
<1> DEFINE s == [f \in some |-> row[f]]
           p == [f \in some |-> F!Placed(row[f], to)]
           l == [F!Idle EXCEPT !.at = "flush", !.seen = s, !.plan = p]
           m == [l EXCEPT !.at = "move", !.todo = some]
           j == [m EXCEPT !.op = "bulk", !.request = NoRequest]
<1>2. some \in SUBSET Frames /\ row \in [Frames -> F!Row]
  BY DEF F!In, FrameTypes, FramesTyped
<1>3. s \in [some -> F!Row] /\ p \in [some -> F!Row] /\ \A f \in some : s[f] = row[f]
       /\ p[f] = F!Placed(row[f], to)
  BY <1>2, Changes
<1>4. F!Go(w, j) BY <1>1 DEF F!Ask, F!Starts, F!Loaded
<1> HIDE DEF s, p
<1>5. s \in Views /\ p \in Views BY <1>2, <1>3, RowView
<1>6. l \in Doing /\ l.seen = s /\ l.plan = p
  BY <1>5, IdleSane DEF Doing
<1> HIDE DEF l
<1>7. m \in Doing /\ m.at = "move" /\ m.seen = s /\ m.plan = p /\ m.todo = some
  BY <1>2, <1>6 DEF Doing
<1> HIDE DEF m
<1>8. j \in Doing /\ j.op = "bulk" /\ j.at = "move" /\ j.seen = s /\ j.plan = p /\ j.todo = some
  BY <1>7 DEF Doing
<1> HIDE DEF j
<1>9. Carries(j, some, "bulk", "move") BY <1>3, <1>8 DEF Carries
<1>10. \A f \in some : j.seen[f] = row[f] /\ j.plan[f] = F!Placed(row[f], to) BY <1>3, <1>8
<1> QED BY <1>4, <1>8, <1>9, <1>10

(* A request that moves files knows of each what the folders said.          *)
LEMMA SelectBegins ==
  ASSUME FrameTypes, NEW w \in Workers, F!Select(w)
  PROVE  \E some \in SUBSET {f \in Frames : file[f] # Nowhere}, to \in Folders : \E j :
           /\ F!Go(w, j) /\ Carries(j, some, "select", "move") /\ j.todo = some /\ some # {}
           /\ \A f \in some : j.seen[f] = F!Stored(row[f], file[f])
                /\ j.plan[f] = F!Stored(row[f], to)
<1>1. PICK some \in (SUBSET {f \in Frames : file[f] # Nowhere}) \ {{}}, to \in Folders :
        F!Ask(w, "select", NoRequest,
            [F!Idle EXCEPT !.at = "move", !.todo = some,
                         !.seen = [f \in some |-> F!Stored(row[f], file[f])],
                         !.plan = [f \in some |-> F!Stored(row[f], to)]])
  BY DEF F!Select
<1> DEFINE s == [f \in some |-> F!Stored(row[f], file[f])]
           p == [f \in some |-> F!Stored(row[f], to)]
           l == [F!Idle EXCEPT !.at = "move", !.todo = some, !.seen = s, !.plan = p]
           j == [l EXCEPT !.op = "select", !.request = NoRequest]
<1>2. some \in SUBSET Frames /\ row \in [Frames -> F!Row] /\ \A f \in some : file[f] \in Folders
  BY DEF FrameTypes, FramesTyped
<1>3. /\ s \in [some -> F!Row] /\ p \in [some -> F!Row]
      /\ \A f \in some : s[f] = F!Stored(row[f], file[f]) /\ p[f] = F!Stored(row[f], to)
  BY <1>2, Changes
<1>4. F!Go(w, j) BY <1>1 DEF F!Ask, F!Starts
<1> HIDE DEF s, p
<1>5. s \in Views /\ p \in Views BY <1>2, <1>3, RowView
<1>6. l \in Doing /\ l.at = "move" /\ l.seen = s /\ l.plan = p /\ l.todo = some
  BY <1>2, <1>5, IdleSane DEF Doing
<1> HIDE DEF l
<1>8. j \in Doing /\ j.op = "select" /\ j.at = "move" /\ j.seen = s /\ j.plan = p /\ j.todo = some
  BY <1>6 DEF Doing
<1> HIDE DEF j
<1>9. Carries(j, some, "select", "move") BY <1>3, <1>8 DEF Carries
<1>10. \A f \in some : j.seen[f] = F!Stored(row[f], file[f]) /\ j.plan[f] = F!Stored(row[f], to)
  BY <1>3, <1>8
<1> QED BY <1>4, <1>8, <1>9, <1>10

(* A session commits: its changed columns, or nothing.                      *)
LEMMA Commits ==
  ASSUME FrameTypes, NEW w \in Workers, NEW op, NEW next \in {"trash", "restore", "sync", "none"},
         F!Flush(w, op, next)
  PROVE  /\ UNCHANGED <<file, ledger, requests, troubles, strayed, astray, contested>>
         /\ F!At(w, op, "flush") /\ row' \in [Frames -> F!Row]
         /\ \A f \in Frames :
              \/ row'[f] = row[f]
              \/ /\ f \in F!Present /\ f \in F!Dirty(job[w]) /\ f \in DOMAIN job[w].plan
                 /\ row'[f] = F!Merged(job[w], f)
         /\ \/ F!Dirty(job[w]) \subseteq F!Present
                 /\ \A f \in F!Dirty(job[w]) : row'[f] = F!Merged(job[w], f)
            \/ ~ F!Dirty(job[w]) \subseteq F!Present
         /\ \E j \in Doing : /\ F!Go(w, j) /\ j.todo = {} /\ j.op \in {next, "none"}
                             /\ j.at = "idle" \/ j.at = (IF next = "sync" THEN "list" ELSE "store")
                             /\ j.at = "idle" => j.op = "none"
                             /\ F!Dirty(job[w]) \subseteq F!Present => j.op = next
<1> DEFINE k == job[w]
<1>1. /\ k.at = "flush" /\ k.op = op /\ Session(k) /\ k \in Doing
      /\ UNCHANGED <<file, ledger, requests, troubles, strayed, astray, contested>>
  BY DEF F!Flush, F!At, FrameTypes, FramesTyped, Sane
<1>2. row \in [Frames -> F!Row] /\ F!Dirty(k) \subseteq DOMAIN k.plan
       /\ DOMAIN k.plan \subseteq Frames
  BY <1>1 DEF FrameTypes, FramesTyped, F!Dirty, Session
<1>3. \A f \in F!Dirty(k) : F!Merged(k, f) \in F!Row
  BY <1>1, <1>2, MergedRow DEF Session
<1>4. CASE /\ F!Dirty(k) \subseteq F!Present
           /\ row' = [f \in Frames |-> IF f \in F!Dirty(k) THEN F!Merged(k, f) ELSE row[f]]
           /\ F!Go(w, [F!Idle EXCEPT !.op = next, !.at = IF next = "none" THEN "idle"
                                                  ELSE IF next = "sync" THEN "list" ELSE "store",
                              !.request = k.request])
  <2> DEFINE j == [F!Idle EXCEPT !.op = next, !.at = IF next = "none" THEN "idle"
                                                  ELSE IF next = "sync" THEN "list" ELSE "store",
                              !.request = k.request]
  <2>1. k.request \in Requests \cup {NoRequest} BY <1>1 DEF Doing
  <2>2. j \in Doing /\ j.op = next /\ j.todo = {}
        /\ j.at = IF next = "none" THEN "idle" ELSE IF next = "sync" THEN "list" ELSE "store"
    BY <2>1, IdleSane DEF Doing, F!Idle
  <2>3. F!Go(w, j) BY <1>4
  <2> HIDE DEF j
  <2>4. row' \in [Frames -> F!Row] BY <1>2, <1>3, <1>4
  <2>5. \A f \in Frames : \/ row'[f] = row[f]
              \/ /\ f \in F!Present /\ f \in F!Dirty(job[w]) /\ f \in DOMAIN job[w].plan
                 /\ row'[f] = F!Merged(job[w], f)
    BY <1>2, <1>4
  <2>6. \A f \in F!Dirty(k) : row'[f] = F!Merged(k, f)
    BY <1>2, <1>4
  <2> QED BY <1>1, <1>4, <2>2, <2>3, <2>4, <2>5, <2>6 DEF F!At
<1>5. CASE ~ F!Dirty(k) \subseteq F!Present /\ F!Go(w, F!Idle) /\ UNCHANGED row
  <2>1. F!Idle \in Doing /\ F!Idle.op = "none" /\ F!Idle.at = "idle" /\ F!Idle.todo = {}
    BY IdleSane DEF F!Idle
  <2> QED BY <1>1, <1>2, <1>5, <2>1 DEF F!At
<1> QED BY <1>4, <1>5 DEF F!Flush

(* A step that moves no file and changes no row, of a worker that is in no  *)
(* purge before and after it.                                               *)
LEMMA Aside ==
  ASSUME FrameInv, NEW w \in Workers, NEW j \in Doing, Sane(j), F!Go(w, j),
         ~ (F!At(w, "purge", "unlink") /\ job[w].todo # {}),
         ~ (j.op = "purge" /\ j.at \in {"delete", "unlink"}),
         UNCHANGED <<row, file, strayed, raced, astray>>,
         requests' \in Nat, troubles' \in Nat, contested' \in BOOLEAN
  PROVE  FrameInv' /\ F!SparesActive
<1>1. /\ job' \in [Workers -> Doing] /\ \A v \in Workers : Sane(job'[v])
      /\ job'[w] = j /\ \A v \in Workers \ {w} : job'[v] = job[v]
  BY WorkerMoves DEF FrameInv
<1>2. FrameTypes' BY <1>1 DEF FrameInv, FrameTypes, FramesTyped
<1>3. FilesFollow' BY <1>1 DEF FrameInv, FilesFollow, F!At, F!Present, F!In
<1>4. F!SparesActive BY DEF F!SparesActive, F!In
<1> QED BY <1>2, <1>3, <1>4 DEF FrameInv

LEMMA SaneOutside ==
  ASSUME NEW j, j.at \notin {"flush", "move", "read"} PROVE Sane(j)
  BY DEF Sane

LEMMA BeginKeeps ==
  ASSUME FrameInv, Places, NEW w \in Workers, F!Begin(w) PROVE FrameInv' /\ F!SparesActive
<1>0. FrameTypes BY DEF FrameInv
<1>1. /\ job[w] = F!Idle /\ UNCHANGED <<row, file, strayed, raced, astray, troubles>>
      /\ requests' = requests + 1 /\ contested' = (contested \/ \E v \in Workers : job[v] # F!Idle)
  BY DEF F!Begin, F!Trash, F!Restore, F!Purge, F!Bulk, F!Select, F!Ask, F!Starts
<1>2. ~ F!At(w, "purge", "unlink") BY <1>1 DEF F!At, F!Idle
<1>3. requests' \in Nat /\ troubles' \in Nat BY <1>0, <1>1 DEF FrameTypes, FramesTyped
<1>4. contested' \in BOOLEAN BY <1>1
<1>5. row \in [Frames -> F!Row] /\ \A p : F!In(p) \subseteq Frames
  BY <1>0 DEF FrameTypes, FramesTyped, F!In
<1>6. ASSUME NEW j, NEW some \in SUBSET Frames, F!Go(w, j),
             \/ Carries(j, some, "trash", "flush") /\ \A f \in some : j.seen[f] = row[f]
                  /\ j.plan[f] = F!Binned(row[f])
             \/ Carries(j, some, "restore", "flush") /\ \A f \in some : j.seen[f] = row[f]
                  /\ j.plan[f] = F!Back(row[f])
      PROVE  FrameInv' /\ F!SparesActive
  <2>1. Session(j) /\ j \in Doing /\ j.op # "purge" /\ j.at = "flush"
    BY <1>5, <1>6, Changes DEF Session, Carries
  <2> QED BY <2>1, <1>1, <1>2, <1>3, <1>4, <1>6, Aside DEF Sane
<1>7. ASSUME NEW j, NEW some \in SUBSET Frames, NEW to \in Folders, F!Go(w, j),
             j.todo = some,
             \/ Carries(j, some, "bulk", "move") /\ \A f \in some : j.seen[f] = row[f]
                  /\ j.plan[f] = F!Placed(row[f], to)
             \/ /\ Carries(j, some, "select", "move")
                /\ \A f \in some : /\ file[f] \in Folders
                                   /\ j.seen[f] = F!Stored(row[f], file[f])
                                        /\ j.plan[f] = F!Stored(row[f], to)
      PROVE  FrameInv' /\ F!SparesActive
  <2>0. \A f \in some : /\ row[f] \in F!Row /\ F!Placed(row[f], to) \in F!Row
                             /\ F!Stored(row[f], to) \in F!Row
                        /\ F!Placed(row[f], to).life = row[f].life
                             /\ F!Stored(row[f], to).life = row[f].life
                        /\ file[f] \in Folders => /\ F!Stored(row[f], file[f]) \in F!Row
                                                  /\ F!Stored(row[f], file[f]).life = row[f].life
    BY <1>5, <1>7, Changes
  <2>1. Session(j) /\ j \in Doing /\ j.op \in {"bulk", "select"} /\ j.at = "move"
    BY <2>0, <1>7 DEF Session, Carries
  <2>2. Sane(j) BY <2>1, <1>7 DEF Sane, Carries
  <2> QED BY <2>1, <2>2, <1>1, <1>2, <1>3, <1>4, <1>7, Aside
<1>8. CASE F!Trash(w) BY <1>0, <1>8, TrashBegins, <1>6, <1>5
<1>9. CASE F!Restore(w) BY <1>0, <1>9, RestoreBegins, <1>6, <1>5
<1>10. CASE F!Bulk(w) BY <1>0, <1>10, BulkBegins, <1>7, <1>5 DEF Carries
<1>11. CASE F!Select(w)
  BY <1>0, <1>11, SelectBegins, <1>7, <1>5 DEF Carries, FrameTypes, FramesTyped
<1>12. CASE F!Purge(w)
  <2>1. PICK some \in (SUBSET Frames) \ {{}}, q \in Requests :
          F!Ask(w, "purge", q, [F!Idle EXCEPT !.at = "check", !.todo = some])
    BY <1>12 DEF F!Purge
  <2> DEFINE l == [F!Idle EXCEPT !.at = "check", !.todo = some]
             j == [l EXCEPT !.op = "purge", !.request = q]
  <2>2. F!Go(w, j) BY <2>1 DEF F!Ask, F!Starts
  <2>3. l \in Doing /\ l.at = "check" BY IdleSane DEF Doing
  <2> HIDE DEF l
  <2>4. j \in Doing /\ j.at = "check" BY <2>3 DEF Doing
  <2> HIDE DEF j
  <2>5. Sane(j) BY <2>4, SaneOutside
  <2> QED BY <2>2, <2>4, <2>5, <1>1, <1>2, <1>3, <1>4, Aside
<1> QED BY <1>8, <1>9, <1>10, <1>11, <1>12 DEF F!Begin

(* A commit deletes no row and, unless it restores, activates none.         *)
LEMMA SessionLives ==
  ASSUME FrameTypes, NEW w \in Workers, NEW op \in {"trash", "restore", "bulk", "sync"},
         NEW next \in {"trash", "restore", "sync", "none"}, F!Flush(w, op, next)
  PROVE  \A f \in Frames :
           \/ row'[f].life = row[f].life
           \/ /\ row[f].life # "gone" /\ row'[f].life # "gone" /\ f \in DOMAIN job[w].plan
              /\ row'[f].life = "active" => op = "restore"
<1>1. /\ F!At(w, op, "flush")
      /\ \A f \in Frames :
              \/ row'[f] = row[f]
              \/ /\ f \in F!Present /\ f \in F!Dirty(job[w]) /\ f \in DOMAIN job[w].plan
                 /\ row'[f] = F!Merged(job[w], f)
  BY Commits
<1>5. Session(job[w]) BY <1>1 DEF FrameTypes, Sane, F!At
<1>6. row \in [Frames -> F!Row] BY DEF FrameTypes, FramesTyped
<1> TAKE f \in Frames
<1>11. CASE row'[f] = row[f] BY <1>11
<1>12. CASE /\ f \in F!Present /\ f \in DOMAIN job[w].plan
           /\ row'[f] = F!Merged(job[w], f)
  <2>1. row[f].life # "gone" BY <1>12 DEF F!Present, F!In
  <2>2. job[w].plan[f] \in F!Row BY <1>12, <1>5 DEF Session
  <2>3. row'[f].life = IF job[w].plan[f].life # job[w].seen[f].life THEN job[w].plan[f].life
         ELSE row[f].life
    BY <1>12, <2>2, <1>6, MergedRow
  <2>4. \/ job[w].plan[f].life = job[w].seen[f].life
        \/ job[w].plan[f].life = "trashed"
        \/ job[w].plan[f].life = "active" /\ op = "restore"
    BY <1>1, <1>5, <1>12 DEF Session, F!At
  <2> QED BY <1>12, <2>1, <2>3, <2>4
<1> QED BY <1>1, <1>11, <1>12

LEMMA SessionKeeps ==
  ASSUME FrameInv, NEW w \in Workers, NEW op \in {"trash", "restore", "bulk", "sync"},
         NEW next \in {"trash", "restore", "sync", "none"}, F!Flush(w, op, next),
         raced' = IF op = "restore" THEN raced \cup (DOMAIN job[w].plan \cap
                UNION {job[v].todo : v \in {u \in Workers : F!At(u, "purge", "delete")}}) ELSE raced
  PROVE  FrameInv' /\ F!SparesActive
<1>0. FrameTypes /\ FilesFollow BY DEF FrameInv
<1>1. /\ UNCHANGED <<file, ledger, requests, troubles, strayed, astray, contested>>
      /\ F!At(w, op, "flush") /\ row' \in [Frames -> F!Row]
      /\ \A f \in Frames :
              \/ row'[f] = row[f]
              \/ /\ f \in F!Present /\ f \in F!Dirty(job[w]) /\ f \in DOMAIN job[w].plan
                 /\ row'[f] = F!Merged(job[w], f)
  BY <1>0, Commits
<1>2. PICK j \in Doing : F!Go(w, j) /\ j.todo = {} /\ j.at \in {"idle", "list", "store"}
  <2>1. PICK j \in Doing : /\ F!Go(w, j) /\ j.todo = {}
                           /\ j.at = "idle" \/ j.at = (IF next = "sync" THEN "list" ELSE "store")
    BY <1>0, Commits
  <2> QED BY <2>1
<1>3. Sane(j) BY <1>2, SaneOutside
<1>4. /\ job' \in [Workers -> Doing] /\ \A v \in Workers : Sane(job'[v])
      /\ job'[w] = j /\ \A v \in Workers \ {w} : job'[v] = job[v]
  BY <1>0, <1>2, <1>3, WorkerMoves
<1>5. Session(job[w]) BY <1>0, <1>1 DEF FrameTypes, Sane, F!At
<1>6. row \in [Frames -> F!Row] /\ raced \subseteq Frames
  BY <1>0 DEF FrameTypes, FramesTyped
<1>7. raced' \subseteq Frames BY <1>5, <1>6 DEF Session
<1>8. FrameTypes' BY <1>0, <1>1, <1>4, <1>7 DEF FrameTypes, FramesTyped
<1>9. \A f \in Frames :
        \/ row'[f].life = row[f].life
        \/ /\ row[f].life # "gone" /\ row'[f].life # "gone" /\ f \in DOMAIN job[w].plan
           /\ row'[f].life = "active" => op = "restore"
  BY <1>0, SessionLives
<1>10. F!In("gone")' = F!In("gone") /\ F!Present' = F!Present BY <1>9 DEF F!In, F!Present
<1>11. \A v \in Workers : /\ F!At(v, "purge", "unlink")' => F!At(v, "purge", "unlink")
                               /\ job'[v] = job[v]
                          /\ F!At(v, "purge", "unlink") => F!At(v, "purge", "unlink")'
                               /\ job'[v] = job[v]
                          /\ F!At(v, "purge", "delete")' => F!At(v, "purge", "delete")
                               /\ job'[v] = job[v]
  BY <1>1, <1>2, <1>4 DEF F!At
<1>12. \A v \in Workers : F!At(v, "purge", "delete")'
       => job'[v].todo \cap F!In("active")' \subseteq raced'
  <2> TAKE v \in Workers
  <2> HAVE F!At(v, "purge", "delete")'
  <2>1. F!At(v, "purge", "delete") /\ job'[v] = job[v] BY <1>11
  <2>2. ASSUME NEW f \in job[v].todo, f \in Frames, row'[f].life = "active" PROVE f \in raced'
    <3>1. CASE row[f].life = "active" BY <3>1, <2>1, <2>2, <1>0 DEF FilesFollow, F!In
    <3>2. CASE row[f].life # "active" BY <3>2, <2>1, <2>2, <1>9
    <3> QED BY <3>1, <3>2
  <2> QED BY <2>1, <2>2 DEF F!In
<1>13. FilesFollow'
  BY <1>0, <1>1, <1>10, <1>11, <1>12 DEF FilesFollow
<1>14. F!SparesActive BY <1>9 DEF F!SparesActive, F!In
<1> QED BY <1>8, <1>13, <1>14 DEF FrameInv

LEMMA StoreKeeps ==
  ASSUME FrameInv, NEW w \in Workers, F!Store(w) PROVE FrameInv' /\ F!SparesActive
<1>1. F!Idle \in Doing /\ Sane(F!Idle) /\ F!Idle.at = "idle" /\ F!Go(w, F!Idle)
  BY IdleSane DEF F!Store
<1>2. ~ F!At(w, "purge", "unlink") BY DEF F!Store, F!At
<1> QED BY <1>1, <1>2, Aside DEF F!Store, FrameInv, FrameTypes, FramesTyped, F!history

LEMMA CollectKeeps ==
  ASSUME FrameInv, NEW w \in Workers, F!PurgeExpired(w) PROVE FrameInv' /\ F!SparesActive
<1> DEFINE j == [F!Idle EXCEPT !.op = "purge", !.at = "check", !.todo = F!Expired]
<1>1. F!Expired \in SUBSET Frames BY DEF F!Expired, F!In
<1>2. j \in Doing /\ j.at = "check" BY <1>1, IdleSane DEF Doing
<1>3. F!Go(w, j) /\ job[w] = F!Idle /\ contested' \in BOOLEAN
  BY DEF F!PurgeExpired, F!Starts
<1> HIDE DEF j
<1>4. Sane(j) BY <1>2, SaneOutside
<1>5. ~ F!At(w, "purge", "unlink") BY <1>3 DEF F!At, F!Idle
<1> QED BY <1>2, <1>3, <1>4, <1>5, Aside
    DEF F!PurgeExpired, FrameInv, FrameTypes, FramesTyped

LEMMA CheckKeeps ==
  ASSUME FrameInv, NEW w \in Workers, F!CheckPurge(w) PROVE FrameInv' /\ F!SparesActive
<1>0. FrameTypes /\ FilesFollow /\ job[w] \in Doing BY DEF FrameInv, FrameTypes, FramesTyped
<1>1. CASE job[w].todo \subseteq F!In("trashed")
  <2> DEFINE j == [job[w] EXCEPT !.at = "delete"]
  <2>1. j \in Doing /\ j.at = "delete" /\ j.todo = job[w].todo BY <1>0 DEF Doing
  <2>2. F!Go(w, j) BY <1>1 DEF F!CheckPurge
  <2> HIDE DEF j
  <2>3. Sane(j) BY <2>1, SaneOutside
  <2>4. /\ job' \in [Workers -> Doing] /\ \A v \in Workers : Sane(job'[v])
        /\ job'[w] = j /\ \A v \in Workers \ {w} : job'[v] = job[v]
    BY <1>0, <2>1, <2>2, <2>3, WorkerMoves
  <2>5. FrameTypes' BY <1>0, <2>4 DEF F!CheckPurge, FrameTypes, FramesTyped, F!history
  <2>6. FilesFollow'
    BY <1>0, <1>1, <2>1, <2>4
      DEF F!CheckPurge, FilesFollow, F!At, F!In, F!Present, F!history
  <2> QED BY <2>5, <2>6 DEF F!CheckPurge, F!SparesActive, F!In, FrameInv
<1>2. CASE ~ job[w].todo \subseteq F!In("trashed")
  BY <1>2, IdleSane, Aside
    DEF F!CheckPurge, FrameInv, FrameTypes, FramesTyped, F!history, F!At
<1> QED BY <1>1, <1>2

LEMMA DeleteKeeps ==
  ASSUME FrameInv, NEW w \in Workers, F!DeleteRows(w) PROVE FrameInv' /\ F!SparesActive
<1>0. FrameTypes /\ FilesFollow /\ job[w] \in Doing /\ row \in [Frames -> F!Row]
  BY DEF FrameInv, FrameTypes, FramesTyped
<1> DEFINE j == [job[w] EXCEPT !.at = "unlink"]
<1>1. j \in Doing /\ j.at = "unlink" /\ j.op = job[w].op /\ j.todo = job[w].todo
  BY <1>0 DEF Doing
<1>2. F!Go(w, j) /\ F!At(w, "purge", "delete") BY DEF F!DeleteRows
<1> HIDE DEF j
<1>3. Sane(j) BY <1>1, SaneOutside
<1>4. /\ job' \in [Workers -> Doing] /\ \A v \in Workers : Sane(job'[v])
      /\ job'[w] = j /\ \A v \in Workers \ {w} : job'[v] = job[v]
  BY <1>0, <1>1, <1>2, <1>3, WorkerMoves
<1>5. \A f \in Frames : [row[f] EXCEPT !.life = "gone"] \in F!Row
       /\ [row[f] EXCEPT !.life = "gone"].life = "gone"
  BY <1>0 DEF F!Row
<1>6. /\ row' \in [Frames -> F!Row]
      /\ \A f \in Frames : f \in job[w].todo => row'[f].life = "gone"
      /\ \A f \in Frames : f \notin job[w].todo => row'[f] = row[f]
  BY <1>0, <1>5 DEF F!DeleteRows
<1>7. FrameTypes' BY <1>0, <1>4, <1>6 DEF F!DeleteRows, FrameTypes, FramesTyped
<1>8. /\ F!In("gone") \subseteq F!In("gone")' /\ F!Present' \subseteq F!Present
           /\ F!In("active")' \subseteq F!In("active")
      /\ F!In("gone")' \subseteq F!In("gone") \cup job[w].todo
           /\ F!In("active")' \cap job[w].todo = {}
      /\ job[w].todo \subseteq F!In("gone")'
  BY <1>0, <1>6 DEF F!In, F!Present, Doing
<1>9. FilesFollow'
  <2>1. UNCHANGED <<file, strayed>> /\ raced' = raced \ job[w].todo BY DEF F!DeleteRows
  <2>2. \A v \in Workers : F!At(v, "purge", "unlink") => F!At(v, "purge", "unlink")'
         /\ job'[v] = job[v]
    BY <1>2, <1>4 DEF F!At
  <2>3. F!At(w, "purge", "unlink")' /\ job'[w].todo = job[w].todo
    BY <1>1, <1>2, <1>4 DEF F!At
  <2>4. \A v \in Workers : F!At(v, "purge", "unlink")' => job'[v].todo \subseteq F!In("gone")'
    BY <1>0, <1>1, <1>4, <1>8 DEF FilesFollow, F!At
  <2>5. \A v \in Workers : F!At(v, "purge", "delete")'
         => job'[v].todo \cap F!In("active")' \subseteq raced'
    BY <1>0, <1>1, <1>4, <1>8, <2>1 DEF FilesFollow, F!At
  <2>6. \A f \in F!In("gone")' : \/ file[f] = Nowhere \/ f \in strayed
       \/ \E v \in Workers : F!At(v, "purge", "unlink")' /\ f \in job'[v].todo
    BY <1>0, <1>8, <2>2, <2>3 DEF FilesFollow
  <2> QED BY <1>0, <1>8, <2>1, <2>4, <2>5, <2>6 DEF FilesFollow
<1>10. F!SparesActive
  BY <1>0, <1>2, <1>6 DEF F!SparesActive, FilesFollow, F!In
<1> QED BY <1>7, <1>9, <1>10 DEF FrameInv

LEMMA UnlinkKeeps ==
  ASSUME FrameInv, NEW w \in Workers, NEW f \in Frames, F!Unlink(w, f) \/ F!UnlinkFails(w, f)
  PROVE  FrameInv' /\ F!SparesActive
<1>0. FrameTypes /\ FilesFollow /\ job[w] \in Doing /\ file \in [Frames -> Folders \cup {Nowhere}]
  BY DEF FrameInv, FrameTypes, FramesTyped
<1> DEFINE rest == job[w].todo \ {f}
           j == [job[w] EXCEPT !.todo = rest, !.at = IF rest = {} THEN "store" ELSE "unlink"]
<1>1. /\ j \in Doing /\ j.op = job[w].op /\ j.todo = rest
      /\ j.at = IF rest = {} THEN "store" ELSE "unlink"
  BY <1>0 DEF Doing
<1>2. F!Go(w, j) /\ F!At(w, "purge", "unlink") BY DEF F!Unlink, F!UnlinkFails, F!Dropped
<1> HIDE DEF j
<1>3. Sane(j) BY <1>1, SaneOutside
<1>4. /\ job' \in [Workers -> Doing] /\ \A v \in Workers : Sane(job'[v])
      /\ job'[w] = j /\ \A v \in Workers \ {w} : job'[v] = job[v]
  BY <1>0, <1>1, <1>2, <1>3, WorkerMoves
<1>5. /\ f \in F!In("gone") /\ UNCHANGED <<row, requests, raced, astray, contested>>
      /\ troubles' \in Nat
      /\ file' \in [Frames -> Folders \cup {Nowhere}] /\ \A g \in Frames \ {f} : file'[g] = file[g]
      /\ file'[f] = Nowhere \/ f \in strayed'
      /\ file'[f] \in {file[f], Nowhere}
      /\ strayed \subseteq strayed' /\ strayed' \subseteq Frames
  <2>1. f \in job[w].todo BY DEF F!Unlink, F!UnlinkFails, F!First
  <2>2. f \in F!In("gone") BY <1>0, <1>2, <2>1 DEF FilesFollow
  <2>3. CASE F!Unlink(w, f)
    BY <2>2, <2>3, <1>0 DEF F!Unlink, FilesFollow, FrameTypes, FramesTyped, F!history
  <2>4. CASE F!UnlinkFails(w, f)
    BY <2>2, <2>4, <1>0 DEF F!UnlinkFails, FrameTypes, FramesTyped
  <2> QED BY <2>3, <2>4
<1>6. FrameTypes' BY <1>0, <1>4, <1>5 DEF FrameTypes, FramesTyped
<1>7. FilesFollow'
  <2>1. F!In("gone")' = F!In("gone") /\ F!Present' = F!Present
         /\ F!In("active")' = F!In("active") /\ f \notin F!Present
    BY <1>5 DEF F!In, F!Present
  <2>2. \A g \in F!Present : file'[g] # Nowhere
    BY <1>0, <1>5, <2>1 DEF FilesFollow, F!Present
  <2>3. \A g \in Frames : file'[g] \in {Home, Nowhere} \/ g \in strayed'
    BY <1>0, <1>5 DEF FilesFollow
  <2>4. \A g \in F!In("gone") : \/ file'[g] = Nowhere \/ g \in strayed'
       \/ \E v \in Workers : F!At(v, "purge", "unlink")' /\ g \in job'[v].todo
    <3> TAKE g \in F!In("gone")
    <3>1. CASE g = f BY <3>1, <1>5
    <3>2. CASE g # f /\ (file[g] = Nowhere \/ g \in strayed) BY <3>2, <1>5 DEF F!In
    <3>3. ASSUME NEW v \in Workers, g # f, F!At(v, "purge", "unlink"), g \in job[v].todo
          PROVE  F!At(v, "purge", "unlink")' /\ g \in job'[v].todo
      BY <3>3, <1>1, <1>2, <1>4 DEF F!At
    <3> QED BY <3>1, <3>2, <3>3, <1>0 DEF FilesFollow
  <2>5. \A v \in Workers : F!At(v, "purge", "unlink")' => job'[v].todo \subseteq F!In("gone")
    BY <1>0, <1>1, <1>2, <1>4 DEF FilesFollow, F!At
  <2>6. \A v \in Workers : F!At(v, "purge", "delete")'
         => job'[v].todo \cap F!In("active") \subseteq raced
    BY <1>0, <1>1, <1>2, <1>4 DEF FilesFollow, F!At
  <2> QED BY <2>1, <2>2, <2>3, <2>4, <2>5, <2>6, <1>5 DEF FilesFollow
<1>8. F!SparesActive BY <1>5 DEF F!SparesActive, F!In
<1> QED BY <1>6, <1>7, <1>8 DEF FrameInv

(* Where a worker that moves a file goes next.                              *)
LEMMA MoveGoes ==
  ASSUME FrameTypes, NEW w \in Workers, NEW f \in Frames, F!Move(w, f)
  PROVE  \E j \in Doing :
           /\ F!Go(w, j) /\ Sane(j) /\ j.op \in {"none", "bulk", "sync", "select"}
           /\ LET k == job[w]
                  rest == k.todo \ {f}
              IN  \/ /\ j.seen = k.seen /\ j.plan = k.plan /\ j.op = k.op /\ j.todo = rest
                     /\ \/ j.at = "move" /\ rest # {}
                        \/ j.at = "flush" /\ rest = {} /\ k.op = "bulk"
                  \/ j.op = "sync" /\ j.at = "list" /\ rest = {} /\ k.op = "select"
                  \/ /\ j = F!Idle /\ k.op = "select" /\ file[f] # k.seen[f].stored
<1> DEFINE k == job[w]
           rest == k.todo \ {f}
           next == IF rest # {} THEN "move" ELSE IF k.op = "bulk" THEN "flush" ELSE "list"
           from == k.seen[f].stored
           to == k.plan[f].stored
<1>1. /\ k \in Doing /\ k.at = "move" /\ k.op \in {"bulk", "select"} /\ Session(k)
      /\ k.todo \subseteq DOMAIN k.plan
  BY DEF F!Move, FrameTypes, FramesTyped, Sane
<1>2. F!Go(w, IF k.op = "select" /\ from # to /\ file[f] # from THEN F!Idle
            ELSE IF next = "list" THEN [F!Idle EXCEPT !.op = "sync", !.at = "list"]
            ELSE [k EXCEPT !.todo = rest, !.at = next])
  BY DEF F!Move
<1>3. CASE k.op = "select" /\ from # to /\ file[f] # from
  BY <1>2, <1>3, IdleSane DEF F!Idle
<1>4. CASE ~ (k.op = "select" /\ from # to /\ file[f] # from) /\ next = "list"
  <2> DEFINE j == [F!Idle EXCEPT !.op = "sync", !.at = "list"]
  <2>1. j \in Doing /\ j.op = "sync" /\ j.at = "list" BY IdleSane DEF Doing
  <2>2. F!Go(w, j) BY <1>2, <1>4
  <2> HIDE DEF j
  <2>3. Sane(j) BY <2>1, SaneOutside
  <2>4. rest = {} /\ k.op = "select" BY <1>1, <1>4
  <2> QED BY <2>1, <2>2, <2>3, <2>4
<1>5. CASE ~ (k.op = "select" /\ from # to /\ file[f] # from) /\ next # "list"
  <2> DEFINE j == [k EXCEPT !.todo = rest, !.at = next]
  <2>1. j \in Doing /\ j.todo = rest /\ j.at = next /\ j.seen = k.seen /\ j.plan = k.plan
         /\ j.op = k.op
    BY <1>1 DEF Doing
  <2>2. F!Go(w, j) BY <1>2, <1>5
  <2>3. (next = "move" /\ rest # {}) \/ (next = "flush" /\ rest = {} /\ k.op = "bulk")
    <3> HIDE DEF rest, from, to
    <3> QED BY <1>5
  <2> HIDE DEF j
  <2>4. Sane(j) BY <1>1, <2>1, <2>3 DEF Sane, Session
  <2> QED BY <1>1, <2>1, <2>2, <2>3, <2>4
<1> QED BY <1>3, <1>4, <1>5

LEMMA MoveKeeps ==
  ASSUME FrameInv, Places, NEW w \in Workers, NEW f \in Frames, F!Move(w, f)
  PROVE  FrameInv' /\ F!SparesActive
<1>0. FrameTypes /\ FilesFollow /\ file \in [Frames -> Folders \cup {Nowhere}]
  BY DEF FrameInv, FrameTypes, FramesTyped
<1>1. PICK j \in Doing : F!Go(w, j) /\ Sane(j) /\ j.op \in {"none", "bulk", "sync", "select"}
  BY <1>0, MoveGoes
<1>2. /\ job' \in [Workers -> Doing] /\ \A v \in Workers : Sane(job'[v])
      /\ job'[w] = j /\ \A v \in Workers \ {w} : job'[v] = job[v]
  BY <1>0, <1>1, WorkerMoves
<1>3. /\ job[w].at = "move" /\ f \in job[w].todo
           /\ UNCHANGED <<row, ledger, requests, troubles, raced, contested>>
  BY DEF F!Move, F!First
<1>4. /\ job[w].plan[f].stored \in Folders /\ job[w].seen[f].stored \in Folders
  BY <1>0, <1>3 DEF FrameTypes, Sane, Session, F!Row
<1>5. \/ UNCHANGED <<file, strayed, astray>>
      \/ /\ file' = [file EXCEPT ![f] = job[w].plan[f].stored] /\ file[f] # Nowhere
         /\ strayed' = strayed \cup {f} /\ astray' = astray \cup ({f} \ F!In("active"))
  BY <1>4 DEF F!Move, Places
<1>6. /\ file' \in [Frames -> Folders \cup {Nowhere}] /\ strayed \subseteq strayed'
      /\ \A g \in Frames : file'[g] = file[g] \/ (file'[g] # Nowhere /\ g \in strayed')
      /\ strayed' \subseteq Frames /\ astray' \subseteq Frames
  <2>1. strayed \subseteq Frames /\ astray \subseteq Frames
    BY <1>0 DEF FrameTypes, FramesTyped
  <2>2. strayed' \subseteq Frames /\ astray' \subseteq Frames /\ strayed \subseteq strayed'
    BY <1>5, <2>1
  <2>3. file' \in [Frames -> Folders \cup {Nowhere}] BY <1>0, <1>4, <1>5
  <2>4. \A g \in Frames : file'[g] = file[g] \/ (file'[g] # Nowhere /\ g \in strayed')
    BY <1>0, <1>4, <1>5 DEF Places
  <2> QED BY <2>2, <2>3, <2>4
<1>7. FrameTypes' BY <1>0, <1>2, <1>3, <1>6 DEF FrameTypes, FramesTyped
<1>8. FilesFollow'
  <2>1. F!In("gone")' = F!In("gone") /\ F!Present' = F!Present /\ F!In("active")' = F!In("active")
        /\ F!In("gone") \subseteq Frames /\ F!Present \subseteq Frames
    BY <1>3 DEF F!In, F!Present
  <2>2. \A v \in Workers : /\ F!At(v, "purge", "unlink")' => F!At(v, "purge", "unlink")
                                /\ job'[v] = job[v]
                           /\ F!At(v, "purge", "unlink") => F!At(v, "purge", "unlink")'
                                /\ job'[v] = job[v]
                           /\ F!At(v, "purge", "delete")' => F!At(v, "purge", "delete")
                                /\ job'[v] = job[v]
    BY <1>1, <1>2, <1>3 DEF F!At
  <2> QED BY <1>0, <1>3, <1>6, <2>1, <2>2 DEF FilesFollow
<1>9. F!SparesActive BY <1>3 DEF F!SparesActive, F!In
<1> QED BY <1>7, <1>8, <1>9 DEF FrameInv

(* A synchronisation: it lists the folders and loads the rows of what it    *)
(* found.                                                                   *)
LEMMA ListGoes ==
  ASSUME FrameTypes, NEW w \in Workers, F!List(w)
  PROVE  \E j \in Doing :
           /\ F!Go(w, j) /\ Sane(j) /\ j.op = "sync" /\ j.at = "read"
           /\ DOMAIN j.plan = {g \in Frames : file[g] # Nowhere}
           /\ \A g \in DOMAIN j.plan : j.plan[g] = file[g]
<1> DEFINE p == [f \in {g \in Frames : file[g] # Nowhere} |-> file[f]]
           j == [job[w] EXCEPT !.at = "read", !.plan = p]
<1>1. job[w] \in Doing /\ job[w].op = "sync" /\ file \in [Frames -> Folders \cup {Nowhere}]
  BY DEF F!List, F!At, FrameTypes, FramesTyped
<1>2. /\ DOMAIN p = {g \in Frames : file[g] # Nowhere}
      /\ \A g \in DOMAIN p : p[g] = file[g] /\ p[g] \in Folders
      /\ p = [g \in {h \in Frames : file[h] # Nowhere} |-> p[g]]
  BY <1>1
<1>3. F!Go(w, j) BY DEF F!List
<1> HIDE DEF p
<1>4. p \in Views
  <2> DEFINE S == {g \in Frames : file[g] # Nowhere}
  <2>1. S \in SUBSET Frames /\ p = [g \in S |-> p[g]] BY <1>2
  <2>2. \A g \in S : p[g] \in F!Row \cup Folders \cup {Nowhere} BY <1>2
  <2> HIDE DEF S
  <2> QED BY <2>1, <2>2, RowView
<1>5. j \in Doing /\ j.at = "read" /\ j.plan = p /\ j.op = "sync" BY <1>1, <1>4 DEF Doing
<1> HIDE DEF j
<1>6. Sane(j) BY <1>2, <1>5 DEF Sane
<1> QED BY <1>2, <1>3, <1>5, <1>6

LEMMA ReadGoes ==
  ASSUME FrameTypes, NEW w \in Workers, F!Read(w)
  PROVE  \E j \in Doing :
           /\ F!Go(w, j) /\ Sane(j) /\ j.op \in {"sync", "none"} /\ job[w].op = "sync"
           /\ \/ j = F!Idle /\ ~ DOMAIN job[w].plan \subseteq F!Present
              \/ /\ DOMAIN job[w].plan \subseteq F!Present
                 /\ j.op = "sync" /\ j.at = "flush"
                 /\ DOMAIN j.plan = DOMAIN job[w].plan \cap F!In("active")
                 /\ \A f \in DOMAIN j.plan : j.seen[f] = row[f]
                      /\ j.plan[f] = F!Placed(row[f], job[w].plan[f])
<1> DEFINE located == job[w].plan
           some == DOMAIN located \cap F!In("active")
           s == [f \in some |-> row[f]]
           p == [f \in some |-> F!Placed(row[f], located[f])]
           j == [job[w] EXCEPT !.at = "flush", !.seen = s, !.plan = p]
<1>1. /\ job[w] \in Doing /\ job[w].op = "sync" /\ row \in [Frames -> F!Row]
      /\ DOMAIN located \subseteq Frames /\ \A f \in DOMAIN located : located[f] \in Folders
  BY DEF F!Read, F!At, FrameTypes, FramesTyped, Sane
<1>2. CASE ~ DOMAIN located \subseteq F!Present
  BY <1>1, <1>2, IdleSane DEF F!Read, F!Idle
<1>3. CASE DOMAIN located \subseteq F!Present
  <2>1. F!Go(w, j) BY <1>3 DEF F!Read
  <2>2. /\ DOMAIN s = some /\ DOMAIN p = some
        /\ \A f \in some : s[f] = row[f] /\ p[f] = F!Placed(row[f], located[f])
        /\ s = [f \in some |-> s[f]] /\ p = [f \in some |-> p[f]]
    OBVIOUS
  <2>3. some \in SUBSET Frames BY <1>1
  <2>4. \A f \in some : s[f] \in F!Row /\ p[f] \in F!Row /\ p[f].life = s[f].life
    BY <1>1, <2>2, Changes
  <2> HIDE DEF s, p
  <2>5. s \in Views /\ p \in Views
    <3> HIDE DEF some
    <3>1. \A f \in some : s[f] \in F!Row \cup Folders \cup {Nowhere}
           /\ p[f] \in F!Row \cup Folders \cup {Nowhere}
      BY <2>4
    <3>2. s \in Views BY <2>2, <2>3, <3>1, RowView
    <3>3. p \in Views BY <2>2, <2>3, <3>1, RowView
    <3> QED BY <3>2, <3>3
  <2>6. j \in Doing /\ j.at = "flush" /\ j.seen = s /\ j.plan = p /\ j.op = "sync"
    BY <1>1, <2>5 DEF Doing
  <2> HIDE DEF j
  <2>7. Sane(j) BY <2>2, <2>3, <2>4, <2>6 DEF Sane, Session
  <2> QED BY <1>1, <1>3, <2>1, <2>2, <2>6, <2>7
<1> QED BY <1>2, <1>3

(* The steps that start a request or go on with what a worker does.         *)
LEMMA ProceedKeeps ==
  ASSUME FrameInv, Places, NEW w \in Workers, F!Proceed(w) PROVE FrameInv' /\ F!SparesActive
<1>0. FrameTypes BY DEF FrameInv
<1>1. CASE F!Trashed(w) BY <1>1, SessionKeeps DEF F!Trashed
<1>2. CASE F!Restored(w) BY <1>2, SessionKeeps DEF F!Restored
<1>3. CASE F!BulkFlush(w) BY <1>3, SessionKeeps DEF F!BulkFlush
<1>4. CASE F!SyncFlush(w) BY <1>4, SessionKeeps DEF F!SyncFlush
<1>5. CASE F!List(w)
  <2>1. PICK j \in Doing : F!Go(w, j) /\ Sane(j) /\ j.op = "sync" BY <1>0, <1>5, ListGoes
  <2>2. ~ F!At(w, "purge", "unlink") BY <1>5 DEF F!List, F!At
  <2> QED BY <1>5, <2>1, <2>2, Aside
      DEF F!List, FrameInv, FrameTypes, FramesTyped, F!history
<1>6. CASE F!Read(w)
  <2>1. PICK j \in Doing : F!Go(w, j) /\ Sane(j) /\ j.op \in {"sync", "none"}
    BY <1>0, <1>6, ReadGoes
  <2>2. ~ F!At(w, "purge", "unlink") BY <1>6 DEF F!Read, F!At
  <2> QED BY <1>6, <2>1, <2>2, Aside
      DEF F!Read, FrameInv, FrameTypes, FramesTyped, F!history
<1> QED
  BY <1>1, <1>2, <1>3, <1>4, <1>5, <1>6, StoreKeeps, CheckKeeps, DeleteKeeps, UnlinkKeeps,
    MoveKeeps
  DEF F!Proceed

(* A week passes, and the process dies.                                     *)
LEMMA DueKeeps ==
  ASSUME FrameInv, NEW f \in Frames, F!Due(f) PROVE FrameInv' /\ F!SparesActive
<1>0. FrameTypes /\ FilesFollow /\ row \in [Frames -> F!Row]
  BY DEF FrameInv, FrameTypes, FramesTyped
<1>1. UNCHANGED <<file, job, requests, troubles, strayed, raced, astray, contested>>
  BY DEF F!Due, F!history
<1>2. row' \in [Frames -> F!Row] /\ \A g \in Frames : row'[g].life = row[g].life
  BY <1>0 DEF F!Due, F!Row
<1>3. FrameTypes' BY <1>0, <1>1, <1>2 DEF FrameTypes, FramesTyped, Sane, Session
<1>4. \A p : F!In(p)' = F!In(p) BY <1>2 DEF F!In
<1>5. FilesFollow' BY <1>0, <1>1, <1>4 DEF FilesFollow, F!At, F!Present
<1>6. F!SparesActive BY <1>2 DEF F!SparesActive, F!In
<1> QED BY <1>3, <1>5, <1>6 DEF FrameInv

LEMMA CrashKeeps == ASSUME FrameInv, F!Crash PROVE FrameInv' /\ F!SparesActive
<1>0. FrameTypes /\ FilesFollow BY DEF FrameInv
<1>1. /\ job' = [w \in Workers |-> F!Idle] /\ troubles' = troubles + 1
      /\ UNCHANGED <<row, file, requests, raced, astray, contested>>
      /\ strayed' = strayed
           \cup UNION {job[w].todo : w \in {v \in Workers : F!At(v, "purge", "unlink")}}
  BY DEF F!Crash
<1>2. UNION {job[w].todo : w \in {v \in Workers : F!At(v, "purge", "unlink")}}
        \subseteq F!In("gone")
  BY <1>0 DEF FilesFollow
<1>3. strayed' \subseteq Frames /\ strayed \subseteq strayed'
  BY <1>0, <1>1, <1>2 DEF FrameTypes, FramesTyped, F!In
<1>4. \A w \in Workers : job'[w] = F!Idle /\ F!Idle.at = "idle" BY <1>1, IdleSane
<1>5. FrameTypes' BY <1>0, <1>1, <1>3, IdleSane DEF FrameTypes, FramesTyped
<1>6. \A p : F!In(p)' = F!In(p) /\ F!Present' = F!Present BY <1>1 DEF F!In, F!Present
<1>7. \A w \in Workers : ~ F!At(w, "purge", "unlink")' /\ ~ F!At(w, "purge", "delete")'
  BY <1>4 DEF F!At
<1>8. FilesFollow' BY <1>0, <1>1, <1>3, <1>6, <1>7 DEF FilesFollow
<1>9. F!SparesActive BY <1>1 DEF F!SparesActive, F!In
<1> QED BY <1>5, <1>8, <1>9 DEF FrameInv

LEMMA FramesStep == ASSUME FrameInv, Places, [F!Next]_F!vars PROVE FrameInv' /\ F!SparesActive
<1>1. CASE UNCHANGED F!vars
  <2>1. UNCHANGED <<row, file, job, requests, troubles, strayed, raced, astray, contested>>
    BY <1>1 DEF F!vars, F!history
  <2> QED BY <2>1 DEF FrameInv, FrameTypes, FramesTyped, Sane, Session, FilesFollow, F!At,
      F!In, F!Present, F!SparesActive
<1>2. CASE F!Next
  BY <1>2, BeginKeeps, ProceedKeeps, CollectKeeps, UnlinkKeeps, DueKeeps, CrashKeeps
    DEF F!Next
<1> QED BY <1>1, <1>2

LEMMA FramesInitial == ASSUME Places, F!Init PROVE FrameInv
<1>1. PICK p \in Folders \ {Home} : row \in [Frames -> {F!Kept(Home), F!InBin(p)}]
  BY DEF F!Init
<1>2. /\ F!Kept(Home) \in F!Row /\ F!Kept(p) \in F!Row /\ F!Kept(Home).stored = Home
           /\ F!Kept(Home).life = "active"
  BY DEF F!Kept, F!Row, Places
<1>3. F!InBin(p) \in F!Row /\ F!InBin(p).stored = p /\ F!InBin(p).life = "trashed"
  BY <1>2 DEF F!InBin, F!Row, F!Kept
<1>4. /\ row \in [Frames -> F!Row] /\ \A f \in Frames : row[f].life # "gone"
           /\ row[f].stored \in Folders
  BY <1>1, <1>2, <1>3, Zenon DEF Places
<1>5. /\ file = [f \in Frames |-> row[f].stored] /\ job = [w \in Workers |-> F!Idle]
      /\ strayed = {f \in Frames : file[f] # Home} /\ raced = {} /\ astray = {} /\ contested = FALSE
      /\ requests = 0 /\ troubles = 0
  BY DEF F!Init
<1>6. FrameTypes BY <1>4, <1>5, IdleSane DEF FrameTypes, FramesTyped
<1>7. \A w \in Workers : job[w].at = "idle" BY <1>5, IdleSane
<1>8. \A f \in Frames : file[f] \in Folders BY <1>4, <1>5
<1>9. FilesFollow BY <1>4, <1>5, <1>7, <1>8 DEF FilesFollow, F!In, F!Present, F!At, Places
<1> QED BY <1>6, <1>9 DEF FrameInv

(* Through every order of sessions, moves, purges and crashes: files follow *)
(* rows, and a purge about to delete holds only what is in the bin or was   *)
(* restored since it checked.                                               *)
THEOREM FrameInvariant == ASSUME Places PROVE F!Spec => []FrameInv
<1>1. F!Init => FrameInv BY FramesInitial
<1>2. FrameInv /\ [F!Next]_F!vars => FrameInv' BY FramesStep
<1> QED BY <1>1, <1>2, PTL DEF F!Spec

(* The type invariant of the frames of a batch and of the work on them.     *)
THEOREM FramesTypeCorrect == ASSUME Places PROVE F!Spec => []F!TypeOK
<1>1. FrameInv => F!TypeOK
  BY DEF FrameInv, FrameTypes, FramesTyped, F!TypeOK, Doing, F!Doings
<1> QED BY <1>1, FrameInvariant, PTL

(* FilesAndRows: a frame with a row has its file, and the file of a purged  *)
(* frame goes unless it was moved, its unlink failed, or the process died.  *)
THEOREM RowsHaveFiles == ASSUME Places PROVE F!Spec => []F!FilesAndRows
<1>1. FrameInv => F!FilesAndRows BY DEF FrameInv, FilesFollow, F!FilesAndRows
<1> QED BY <1>1, FrameInvariant, PTL

(* PurgedFromBin: purge_frames deletes the row of an active frame only when *)
(* a restore was committed between its check and its transaction.           *)
THEOREM PurgeSparesActive == ASSUME Places PROVE F!Spec => F!PurgedFromBin
<1>1. FrameInv /\ [F!Next]_F!vars => [F!SparesActive]_F!vars BY FramesStep
<1> QED BY <1>1, FrameInvariant, PTL DEF F!Spec, F!PurgedFromBin

(****************************************************************************)
(* One request at a time.                                                   *)

LEMMA IdleHolds == Held(F!Idle) /\ Held(F!Idle)' /\ F!Idle.op = "none" /\ F!Idle.at = "idle"
  BY DEF Held, F!Idle, Moving

(* The worker that moves is the only one that is not idle.                  *)
LEMMA OnlyOne ==
  ASSUME FrameTypes, Calm, NEW w \in Workers, NEW j, F!Go(w, j),
         job[w] # F!Idle \/ \A v \in Workers : job[v] = F!Idle
  PROVE  /\ job'[w] = j /\ \A v \in Workers \ {w} : job[v] = F!Idle /\ job'[v] = F!Idle
         /\ Alone'
<1>1. job' = [job EXCEPT ![w] = j] /\ job \in [Workers -> Doing]
  BY DEF F!Go, FrameTypes, FramesTyped
<1>2. \A v \in Workers \ {w} : job[v] = F!Idle BY DEF Calm, Alone
<1>3. job'[w] = j /\ \A v \in Workers \ {w} : job[v] = F!Idle /\ job'[v] = F!Idle
  BY <1>1, <1>2
<1> QED BY <1>3 DEF Alone

LEMMA PeaceIf ==
  ASSUME NEW w \in Workers, NEW j, job'[w] = j, \A v \in Workers \ {w} : job'[v] = F!Idle,
         Loose', Held(j)', j.op \notin Moving => Settled'
  PROVE  Peace'
<1>1. ASSUME NEW v \in Workers PROVE Held(job[v])'
  <2>1. CASE v = w BY <2>1 DEF Held, Fresh, Like, F!Present, F!In
  <2>2. CASE v # w
    <3>1. job'[v] = F!Idle BY <2>2
    <3> QED BY <3>1, IdleHolds DEF Held, Fresh, Like, F!Present, F!In
  <2> QED BY <2>1, <2>2
<1>2. (\A v \in Workers : job'[v].op \notin Moving) => Settled' OBVIOUS
<1> QED BY <1>1, <1>2 DEF Peace

(* A step that changes no row and no file.                                  *)
LEMMA Still ==
  ASSUME FrameTypes, Calm, NEW w \in Workers, NEW j \in Doing, F!Go(w, j),
         job[w] # F!Idle \/ \A v \in Workers : job[v] = F!Idle,
         UNCHANGED <<row, file, astray>>,
         ~ F!At(w, "purge", "unlink"), ~ (j.op = "purge" /\ j.at = "unlink"),
         j.at = "delete" => j.todo \subseteq F!In("trashed"),
         Peace /\ ~ Debris => Held(j) /\ (j.op \notin Moving => Settled)
  PROVE  Calm'
<1>1. /\ job'[w] = j /\ \A v \in Workers \ {w} : job[v] = F!Idle /\ job'[v] = F!Idle
      /\ Alone'
  BY OnlyOne
<1>2. Doomed' BY <1>1, IdleHolds DEF Doomed, F!At, F!In
<1>3. ASSUME Debris PROVE Debris' BY <1>1, <1>3, IdleHolds DEF Debris, F!At, F!In
<1>4. ASSUME Peace, ~ Debris PROVE Peace'
  <2>1. Loose' BY <1>4 DEF Peace, Loose, F!In
  <2>2. Held(j)' BY <1>4 DEF Held, Fresh, Like, F!Present, F!In
  <2>3. j.op \notin Moving => Settled' BY <1>4 DEF Settled, F!In
  <2> QED BY <1>1, <2>1, <2>2, <2>3, PeaceIf
<1> QED BY <1>1, <1>2, <1>3, <1>4 DEF Calm

LEMMA BeginSettles ==
  ASSUME FrameInv, Calm, Places, NEW w \in Workers, F!Begin(w), Quiet' PROVE Calm'
<1>0. FrameTypes /\ row \in [Frames -> F!Row] /\ (\A p : F!In(p) \subseteq Frames)
       /\ \A f \in F!Present : file[f] # Nowhere
  BY DEF FrameInv, FrameTypes, FramesTyped, F!In, FilesFollow
<1>1. /\ job[w] = F!Idle /\ UNCHANGED <<row, file, strayed, raced, astray, troubles>>
      /\ contested' = (contested \/ \E v \in Workers : job[v] # F!Idle)
  BY DEF F!Begin, F!Trash, F!Restore, F!Purge, F!Bulk, F!Select, F!Ask, F!Starts
<1>2. \A v \in Workers : job[v] = F!Idle BY <1>1 DEF Quiet
<1>3. ~ F!At(w, "purge", "unlink") BY <1>1 DEF F!At, F!Idle
<1>4. Peace => Settled BY <1>2, IdleHolds DEF Peace, Moving
<1>5. CASE F!Trash(w)
  <2>0. PICK some \in SUBSET F!In("active") : \E j :
           /\ F!Go(w, j) /\ Carries(j, some, "trash", "flush")
           /\ \A f \in some : j.seen[f] = row[f] /\ j.plan[f] = F!Binned(row[f])
    BY <1>0, <1>5, TrashBegins
  <2>1. PICK j :
           /\ F!Go(w, j) /\ Carries(j, some, "trash", "flush")
           /\ \A f \in some : j.seen[f] = row[f] /\ j.plan[f] = F!Binned(row[f])
    BY <2>0
  <2>2. \A f \in some : row[f] \in F!Row /\ f \in F!Present /\ row[f].life = "active"
    BY <1>0 DEF F!In, F!Present
  <2>3. Held(j) BY <2>1, <2>2, Changes DEF Held, Carries, Fresh, Like
  <2> QED BY <1>0, <1>1, <1>2, <1>3, <1>4, <2>1, <2>3, Still DEF Carries
<1>6. CASE F!Restore(w)
  <2>0. PICK some \in SUBSET F!In("trashed") : \E j :
           /\ F!Go(w, j) /\ Carries(j, some, "restore", "flush")
           /\ \A f \in some : j.seen[f] = row[f] /\ j.plan[f] = F!Back(row[f])
    BY <1>0, <1>6, RestoreBegins
  <2>1. PICK j :
           /\ F!Go(w, j) /\ Carries(j, some, "restore", "flush")
           /\ \A f \in some : j.seen[f] = row[f] /\ j.plan[f] = F!Back(row[f])
    BY <2>0
  <2>2. \A f \in some : row[f] \in F!Row /\ f \in F!Present /\ row[f].life = "trashed"
    BY <1>0 DEF F!In, F!Present
  <2>3. Held(j) BY <2>1, <2>2, Changes DEF Held, Carries, Fresh, Like
  <2> QED BY <1>0, <1>1, <1>2, <1>3, <1>4, <2>1, <2>3, Still DEF Carries
<1>7. CASE F!Bulk(w)
  <2>0. PICK some \in SUBSET F!In("active"), to \in Folders : \E j :
           /\ F!Go(w, j) /\ Carries(j, some, "bulk", "move") /\ j.todo = some /\ some # {}
           /\ \A f \in some : j.seen[f] = row[f] /\ j.plan[f] = F!Placed(row[f], to)
    BY <1>0, <1>7, BulkBegins
  <2>1. PICK j :
           /\ F!Go(w, j) /\ Carries(j, some, "bulk", "move") /\ j.todo = some /\ some # {}
           /\ \A f \in some : j.seen[f] = row[f] /\ j.plan[f] = F!Placed(row[f], to)
    BY <2>0
  <2>2. \A f \in some : row[f] \in F!Row /\ f \in F!Present /\ row[f].life = "active"
    BY <1>0 DEF F!In, F!Present
  <2>4. Fresh(j) BY <2>1, <2>2 DEF Carries, Fresh, Like
  <2>5. j.at = "move" /\ j.op = "bulk" /\ DOMAIN j.plan = some BY <2>1 DEF Carries
  <2>6. ASSUME NEW f \in DOMAIN j.plan PROVE j.plan[f].life = "active"
    <3>1. row[f] \in F!Row /\ row[f].life = "active" /\ j.plan[f] = F!Placed(row[f], to)
      BY <2>1, <2>2, <2>5
    <3> QED BY <3>1, Changes
  <2>3. Held(j) BY <2>2, <2>4, <2>5, <2>6 DEF Held
  <2> QED BY <1>0, <1>1, <1>2, <1>3, <2>1, <2>3, Still DEF Carries, Moving
<1>8. CASE F!Select(w)
  <2>0. PICK some \in SUBSET {f \in Frames : file[f] # Nowhere}, to \in Folders : \E j :
           /\ F!Go(w, j) /\ Carries(j, some, "select", "move") /\ j.todo = some /\ some # {}
           /\ \A f \in some : j.seen[f] = F!Stored(row[f], file[f])
                /\ j.plan[f] = F!Stored(row[f], to)
    BY <1>0, <1>8, SelectBegins
  <2>1. PICK j :
           /\ F!Go(w, j) /\ Carries(j, some, "select", "move") /\ j.todo = some /\ some # {}
           /\ \A f \in some : j.seen[f] = F!Stored(row[f], file[f])
                /\ j.plan[f] = F!Stored(row[f], to)
    BY <2>0
  <2>2. \A f \in some : row[f] \in F!Row /\ file[f] \in Folders
    BY <1>0 DEF FrameTypes, FramesTyped
  <2>3. Held(j) BY <2>1, <2>2, Changes DEF Held, Carries
  <2> QED BY <1>0, <1>1, <1>2, <1>3, <2>1, <2>3, Still DEF Carries, Moving
<1>9. CASE F!Purge(w)
  <2>1. PICK some \in (SUBSET Frames) \ {{}}, q \in Requests :
          F!Ask(w, "purge", q, [F!Idle EXCEPT !.at = "check", !.todo = some])
    BY <1>9 DEF F!Purge
  <2> DEFINE l == [F!Idle EXCEPT !.at = "check", !.todo = some]
             j == [l EXCEPT !.op = "purge", !.request = q]
  <2>2. F!Go(w, j) BY <2>1 DEF F!Ask, F!Starts
  <2>3. l \in Doing /\ l.at = "check" BY IdleSane DEF Doing
  <2> HIDE DEF l
  <2>4. j \in Doing /\ j.at = "check" /\ j.op = "purge" BY <2>3 DEF Doing
  <2> HIDE DEF j
  <2>5. Held(j) BY <2>4 DEF Held
  <2> QED BY <1>0, <1>1, <1>2, <1>3, <1>4, <2>2, <2>4, <2>5, Still
<1> QED BY <1>5, <1>6, <1>7, <1>8, <1>9 DEF F!Begin

LEMMA CollectSettles ==
  ASSUME FrameInv, Calm, NEW w \in Workers, F!PurgeExpired(w), Quiet' PROVE Calm'
<1>0. FrameTypes BY DEF FrameInv
<1> DEFINE j == [F!Idle EXCEPT !.op = "purge", !.at = "check", !.todo = F!Expired]
<1>1. F!Expired \in SUBSET Frames BY DEF F!Expired, F!In
<1>2. j \in Doing /\ j.at = "check" /\ j.op = "purge" BY <1>1, IdleSane DEF Doing
<1>3. /\ F!Go(w, j) /\ job[w] = F!Idle /\ UNCHANGED <<row, file, astray>>
      /\ contested' = (contested \/ \E v \in Workers : job[v] # F!Idle)
  BY DEF F!PurgeExpired, F!Starts
<1> HIDE DEF j
<1>4. \A v \in Workers : job[v] = F!Idle BY <1>3 DEF Quiet
<1>5. ~ F!At(w, "purge", "unlink") BY <1>3 DEF F!At, F!Idle
<1>6. Peace => Settled BY <1>4, IdleHolds DEF Peace, Moving
<1>7. Held(j) BY <1>2 DEF Held
<1> QED BY <1>0, <1>2, <1>3, <1>4, <1>5, <1>6, <1>7, Still

LEMMA StoreSettles ==
  ASSUME FrameInv, Calm, NEW w \in Workers, F!Store(w) PROVE Calm'
<1>0. FrameTypes BY DEF FrameInv
<1>1. F!Idle \in Doing /\ F!Idle.at = "idle" /\ F!Idle.op = "none" BY IdleSane, IdleHolds
<1>2. F!Go(w, F!Idle) /\ job[w].at = "store" /\ UNCHANGED <<row, file, astray>>
  BY DEF F!Store, F!history
<1>3. job[w] # F!Idle /\ ~ F!At(w, "purge", "unlink") BY <1>1, <1>2 DEF F!At
<1>4. ASSUME Peace PROVE Settled
  <2>1. job[w].op \notin Moving BY <1>2, <1>4 DEF Peace, Held
  <2>2. \A v \in Workers \ {w} : job[v] = F!Idle BY <1>3 DEF Calm, Alone
  <2>3. \A v \in Workers : job[v].op \notin Moving BY <2>1, <2>2, <1>1 DEF Moving
  <2> QED BY <1>4, <2>3 DEF Peace
<1> QED BY <1>0, <1>1, <1>2, <1>3, <1>4, IdleHolds, Still

LEMMA CheckSettles ==
  ASSUME FrameInv, Calm, NEW w \in Workers, F!CheckPurge(w) PROVE Calm'
<1>0. FrameTypes /\ job[w] \in Doing BY DEF FrameInv, FrameTypes, FramesTyped
<1>2. F!At(w, "purge", "check") /\ UNCHANGED <<row, file, astray>>
  BY DEF F!CheckPurge, F!history
<1>3. job[w] # F!Idle /\ ~ F!At(w, "purge", "unlink") BY <1>2, IdleHolds DEF F!At
<1>4. ASSUME Peace PROVE Settled
  <2>2. \A v \in Workers \ {w} : job[v] = F!Idle BY <1>3 DEF Calm, Alone
  <2>3. \A v \in Workers : job[v].op \notin Moving BY <1>2, <2>2, IdleHolds DEF Moving, F!At
  <2> QED BY <1>4, <2>3 DEF Peace
<1>5. CASE job[w].todo \subseteq F!In("trashed")
  <2> DEFINE j == [job[w] EXCEPT !.at = "delete"]
  <2>1. j \in Doing /\ j.at = "delete" /\ j.op = "purge" /\ j.todo = job[w].todo
    BY <1>0, <1>2 DEF Doing, F!At
  <2>2. F!Go(w, j) BY <1>5 DEF F!CheckPurge
  <2> HIDE DEF j
  <2>3. Held(j) BY <2>1 DEF Held
  <2> QED BY <1>0, <1>2, <1>3, <1>4, <1>5, <2>1, <2>2, <2>3, Still
<1>6. CASE ~ job[w].todo \subseteq F!In("trashed")
  <2>1. F!Go(w, F!Idle) BY <1>6 DEF F!CheckPurge
  <2> QED BY <1>0, <1>2, <1>3, <1>4, <2>1, IdleSane, IdleHolds, Still
<1> QED BY <1>5, <1>6

LEMMA ListSettles ==
  ASSUME FrameInv, Calm, NEW w \in Workers, F!List(w) PROVE Calm'
<1>0. FrameTypes BY DEF FrameInv
<1>1. PICK j \in Doing :
           /\ F!Go(w, j) /\ Sane(j) /\ j.op = "sync" /\ j.at = "read"
           /\ DOMAIN j.plan = {g \in Frames : file[g] # Nowhere}
           /\ \A g \in DOMAIN j.plan : j.plan[g] = file[g]
  BY <1>0, ListGoes
<1>2. F!At(w, "sync", "list") /\ UNCHANGED <<row, file, astray>> BY DEF F!List, F!history
<1>3. job[w] # F!Idle /\ ~ F!At(w, "purge", "unlink") BY <1>2, IdleHolds DEF F!At
<1>4. Held(j) /\ j.op \in Moving BY <1>1 DEF Held, Moving
<1> QED BY <1>0, <1>1, <1>2, <1>3, <1>4, Still

LEMMA ReadSettles ==
  ASSUME FrameInv, Calm, NEW w \in Workers, F!Read(w) PROVE Calm'
<1>0. /\ FrameTypes /\ row \in [Frames -> F!Row] /\ job[w] \in Doing
      /\ \A f \in F!Present : file[f] # Nowhere
  BY DEF FrameInv, FilesFollow, FrameTypes, FramesTyped
<1>1. PICK j \in Doing :
           /\ F!Go(w, j) /\ j.op \in {"sync", "none"} /\ job[w].op = "sync"
           /\ \/ j = F!Idle /\ ~ DOMAIN job[w].plan \subseteq F!Present
              \/ /\ DOMAIN job[w].plan \subseteq F!Present
                 /\ j.op = "sync" /\ j.at = "flush"
                 /\ DOMAIN j.plan = DOMAIN job[w].plan \cap F!In("active")
                 /\ \A f \in DOMAIN j.plan : j.seen[f] = row[f]
                      /\ j.plan[f] = F!Placed(row[f], job[w].plan[f])
  BY <1>0, ReadGoes
<1>2. F!At(w, "sync", "read") /\ UNCHANGED <<row, file, astray>> BY DEF F!Read, F!history
<1>3. job[w] # F!Idle /\ ~ F!At(w, "purge", "unlink") BY <1>2, IdleHolds DEF F!At
<1>4. ASSUME Peace, ~ Debris PROVE Held(j) /\ j.op \in Moving
  <2>1. /\ DOMAIN job[w].plan = {g \in Frames : file[g] # Nowhere}
        /\ \A f \in DOMAIN job[w].plan : job[w].plan[f] = file[f]
    BY <1>2, <1>4 DEF Peace, Held, F!At
  <2>2. \A v \in Workers : ~ F!At(v, "purge", "unlink")
    BY <1>3, IdleHolds DEF Calm, Alone, F!At
  <2>3. DOMAIN job[w].plan \subseteq F!Present BY <1>4, <2>1, <2>2 DEF Debris, F!Present
  <2>4. /\ j.op = "sync" /\ j.at = "flush" /\ DOMAIN j.plan = F!In("active")
        /\ \A f \in DOMAIN j.plan : j.seen[f] = row[f] /\ j.plan[f] = F!Placed(row[f], file[f])
    BY <1>0, <1>1, <2>1, <2>3, IdleHolds DEF F!In, F!Present
  <2>5. \A f \in DOMAIN j.plan : /\ f \in F!Present /\ row[f] \in F!Row /\ row[f].life = "active"
                                 /\ file[f] \in Folders
    BY <1>0, <2>4 DEF F!In, F!Present, FrameTypes, FramesTyped
  <2>6. \A f \in DOMAIN j.plan :
           j.plan[f].life = "active" /\ j.plan[f].status = file[f] /\ j.plan[f].stored = file[f]
    BY <2>4, <2>5, Changes
  <2>7. Fresh(j) BY <2>4, <2>5 DEF Fresh, Like
  <2> QED BY <2>4, <2>6, <2>7 DEF Held, Moving
<1>5. j.at # "delete" /\ ~ (j.op = "purge" /\ j.at = "unlink") BY <1>1, IdleHolds
<1> QED BY <1>0, <1>1, <1>2, <1>3, <1>4, <1>5, Still

(* The commit of a session that was alone writes what it planned.           *)
LEMMA FreshCommits ==
  ASSUME FrameInv, Calm, Peace, NEW w \in Workers, NEW op \in {"trash", "restore", "bulk", "sync"},
         NEW next \in {"trash", "restore", "sync", "none"}, F!Flush(w, op, next)
  PROVE  /\ \E j \in Doing : /\ F!Go(w, j) /\ j.op = next /\ j.todo = {}
                             /\ j.at = IF next = "none" THEN "idle"
                                       ELSE IF next = "sync" THEN "list" ELSE "store"
         /\ \A f \in DOMAIN job[w].plan : f \in Frames /\ Like(row'[f], job[w].plan[f])
         /\ \A f \in Frames : f \notin DOMAIN job[w].plan => row'[f] = row[f]
<1> DEFINE k == job[w]
<1>0. FrameTypes /\ row \in [Frames -> F!Row] /\ k \in Doing
  BY DEF FrameInv, FrameTypes, FramesTyped
<1>1. k.at = "flush" /\ k.op = op BY DEF F!Flush, F!At
<1>2. Session(k) /\ Fresh(k) BY <1>0, <1>1 DEF FrameTypes, Sane, Peace, Held
<1>3. F!Dirty(k) \subseteq DOMAIN k.plan /\ F!Dirty(k) \subseteq F!Present
  BY <1>2 DEF F!Dirty, Fresh
<1>4. /\ row' = [f \in Frames |-> IF f \in F!Dirty(k) THEN F!Merged(k, f) ELSE row[f]]
      /\ F!Go(w, [F!Idle EXCEPT !.op = next, !.at = IF next = "none" THEN "idle"
                                                  ELSE IF next = "sync" THEN "list" ELSE "store",
                              !.request = k.request])
  BY <1>3 DEF F!Flush
<1>5. ASSUME NEW f \in DOMAIN k.plan PROVE f \in Frames /\ Like(row'[f], k.plan[f])
  <2>1. f \in Frames /\ k.plan[f] \in F!Row /\ k.seen[f] \in F!Row /\ Like(k.seen[f], row[f])
    BY <1>2, <1>5 DEF Session, Fresh
  <2>2. CASE f \in F!Dirty(k)
    <3>1. row'[f] = F!Merged(k, f) BY <2>1, <2>2, <1>4
    <3> QED BY <3>1, <2>1, <1>0, MergedRow DEF Like
  <2>3. CASE f \notin F!Dirty(k)
    <3>1. row'[f] = row[f] /\ k.plan[f] = k.seen[f] BY <2>1, <2>3, <1>4, <1>5 DEF F!Dirty
    <3> QED BY <3>1, <2>1 DEF Like
  <2> QED BY <2>2, <2>3
<1>6. \A f \in Frames : f \notin DOMAIN k.plan => row'[f] = row[f] BY <1>3, <1>4
<1>7. \E j \in Doing : /\ F!Go(w, j) /\ j.op = next /\ j.todo = {}
                       /\ j.at = IF next = "none" THEN "idle"
                                 ELSE IF next = "sync" THEN "list" ELSE "store"
  <2> DEFINE there == IF next = "none" THEN "idle" ELSE IF next = "sync" THEN "list" ELSE "store"
             j == [F!Idle EXCEPT !.op = next, !.at = there, !.request = k.request]
  <2>1. k.request \in Requests \cup {NoRequest} BY <1>0 DEF Doing
  <2>2. j \in Doing /\ j.op = next /\ j.todo = {} /\ j.at = there
    BY <2>1, IdleSane DEF Doing, F!Idle
  <2>3. F!Go(w, j) BY <1>4
  <2> HIDE DEF j
  <2> QED BY <2>2, <2>3
<1> QED BY <1>5, <1>6, <1>7

LEMMA SessionSettles ==
  ASSUME FrameInv, Calm, Places, NEW w \in Workers, NEW op \in {"trash", "restore", "bulk", "sync"},
         NEW next \in {"trash", "restore", "sync", "none"}, F!Flush(w, op, next),
         \/ op = "bulk" /\ next = "sync"
         \/ op = "sync" /\ next = "none"
         \/ op \in {"trash", "restore"} /\ next = op
  PROVE  Calm'
<1>0. FrameTypes /\ FilesFollow /\ row \in [Frames -> F!Row]
  BY DEF FrameInv, FrameTypes, FramesTyped
<1>1. F!At(w, op, "flush") /\ UNCHANGED <<file, astray>> /\ \A f \in Frames :
           \/ row'[f].life = row[f].life
           \/ /\ row[f].life # "gone" /\ row'[f].life # "gone" /\ f \in DOMAIN job[w].plan
              /\ row'[f].life = "active" => op = "restore"
  BY <1>0, Commits, SessionLives
<1>2. PICK j \in Doing : F!Go(w, j) /\ j.todo = {} /\ j.at \in {"idle", "list", "store"}
  <2>1. PICK j \in Doing : /\ F!Go(w, j) /\ j.todo = {}
                           /\ j.at = "idle" \/ j.at = (IF next = "sync" THEN "list" ELSE "store")
    BY <1>0, Commits
  <2> QED BY <2>1
<1>3. job[w] # F!Idle BY <1>1, IdleHolds DEF F!At
<1>4. /\ job'[w] = j /\ \A v \in Workers \ {w} : job[v] = F!Idle /\ job'[v] = F!Idle
      /\ Alone'
  BY <1>0, <1>2, <1>3, OnlyOne
<1>5. Doomed' BY <1>2, <1>4, IdleHolds DEF Doomed, F!At
<1>6. F!In("gone")' = F!In("gone") BY <1>1 DEF F!In
<1>7. ASSUME Debris PROVE Debris'
  BY <1>1, <1>2, <1>4, <1>6, <1>7, IdleHolds DEF Debris, F!At
<1>8. ASSUME Peace PROVE Peace'
  <2> DEFINE k == job[w]
  <2>1. /\ \A f \in DOMAIN k.plan : f \in Frames /\ Like(row'[f], k.plan[f])
        /\ \A f \in Frames : f \notin DOMAIN k.plan => row'[f] = row[f]
    BY <1>8, FreshCommits
  <2>2. PICK i \in Doing : /\ F!Go(w, i) /\ i.op = next /\ i.todo = {}
                           /\ i.at = IF next = "none" THEN "idle"
                                     ELSE IF next = "sync" THEN "list" ELSE "store"
    BY <1>8, FreshCommits
  <2>3. job'[w] = i /\ \A v \in Workers \ {w} : job'[v] = F!Idle
    BY <1>0, <1>3, <2>2, OnlyOne
  <2>4. Held(k) /\ Loose /\ k.op = op /\ k.at = "flush" /\ Session(k)
    BY <1>0, <1>1, <1>8 DEF Peace, F!At, FrameTypes, Sane
  <2>5. op \in {"trash", "restore"} => Settled
    <3>1. \A v \in Workers \ {w} : job[v].op = "none" BY <1>4, IdleHolds
    <3> QED BY <3>1, <2>4, <1>8 DEF Peace, Moving
  <2>6. \A f \in F!In("trashed") \cup F!In("active") : file[f] # Nowhere /\ row[f] \in F!Row
         /\ f \in Frames
    BY <1>0 DEF FilesFollow, F!In, F!Present
  <2>7. Loose'
    <3>1. ASSUME NEW f \in Frames, f \notin astray, row'[f].life = "trashed"
          PROVE  row'[f].pre = file[f] /\ row'[f].stored = file[f]
      <4>1. CASE f \notin DOMAIN k.plan BY <4>1, <3>1, <2>1, <2>4 DEF Loose, F!In
      <4>2. CASE f \in DOMAIN k.plan
        <5>1. Like(row'[f], k.plan[f]) BY <4>2, <2>1
        <5>2. op = "trash" BY <5>1, <4>2, <3>1, <2>4 DEF Held, Like
        <5>3. row[f].life = "active" /\ k.plan[f].pre = row[f].status
               /\ k.plan[f].stored = row[f].stored
          BY <4>2, <5>2, <2>4 DEF Held
        <5> QED BY <5>1, <5>2, <5>3, <3>1, <2>5 DEF Settled, F!In, Like
      <4> QED BY <4>1, <4>2
    <3> QED BY <3>1, <1>1 DEF Loose, F!In
  <2>8. i.op \notin Moving => Settled'
    <3>1. ASSUME i.op \notin Moving, NEW f \in Frames, f \notin astray, row'[f].life = "active"
          PROVE  row'[f].status = file[f] /\ row'[f].stored = file[f]
      <4>0. op # "bulk" BY <2>2, <3>1 DEF Moving
      <4>1. CASE f \notin DOMAIN k.plan
        <5>1. row'[f] = row[f] /\ f \in F!In("active") BY <4>1, <3>1, <2>1 DEF F!In
        <5>2. op # "sync" BY <5>1, <4>1, <2>4 DEF Held
        <5> QED BY <5>1, <5>2, <4>0, <2>5, <3>1 DEF Settled
      <4>2. CASE f \in DOMAIN k.plan
        <5>1. Like(row'[f], k.plan[f]) /\ f \in Frames BY <4>2, <2>1
        <5>2. op # "trash" BY <5>1, <4>2, <3>1, <2>4 DEF Held, Like
        <5>3. CASE op = "sync" BY <5>1, <5>3, <4>2, <2>4 DEF Held, Like
        <5>4. CASE op = "restore"
          <6>1. /\ row[f].life = "trashed" /\ k.plan[f].stored = row[f].stored
                /\ k.plan[f].status = (IF row[f].pre = Nowhere THEN Home ELSE row[f].pre)
            BY <5>4, <4>2, <2>4 DEF Held
          <6>2. row[f].pre = file[f] /\ row[f].stored = file[f] /\ file[f] # Nowhere
            BY <6>1, <3>1, <2>4, <2>6 DEF Loose, F!In
          <6> QED BY <6>1, <6>2, <5>1 DEF Like
        <5> QED BY <4>0, <5>2, <5>3, <5>4
      <4> QED BY <4>1, <4>2
    <3> QED BY <3>1, <1>1 DEF Settled, F!In
  <2>9. Held(i)'
    <3>1. CASE next = "none"
      BY <2>2, <3>1 DEF Held, Moving
    <3>2. CASE next = "sync" BY <2>2, <3>2 DEF Held, Moving
    <3>3. CASE next \in {"trash", "restore"} BY <2>2, <3>3 DEF Held, Moving
    <3> QED BY <3>1, <3>2, <3>3
  <2> QED BY <2>3, <2>7, <2>8, <2>9, PeaceIf
<1> QED BY <1>4, <1>5, <1>7, <1>8 DEF Calm

LEMMA DeleteSettles ==
  ASSUME FrameInv, Calm, NEW w \in Workers, F!DeleteRows(w) PROVE Calm'
<1>0. FrameTypes /\ job[w] \in Doing /\ row \in [Frames -> F!Row]
  BY DEF FrameInv, FrameTypes, FramesTyped
<1> DEFINE i == [job[w] EXCEPT !.at = "unlink"]
<1>1. /\ F!Go(w, i) /\ F!At(w, "purge", "delete") /\ UNCHANGED <<file, astray>>
      /\ row' = [f \in Frames |-> IF f \in job[w].todo THEN [row[f] EXCEPT !.life = "gone"]
           ELSE row[f]]
  BY DEF F!DeleteRows
<1>a. i \in Doing /\ i.at = "unlink" /\ i.op = "purge" /\ i.todo = job[w].todo
  BY <1>0, <1>1 DEF Doing, F!At
<1> HIDE DEF i
<1>2. PICK j \in Doing : F!Go(w, j) /\ j.at = "unlink" /\ j.op = "purge" /\ j.todo = job[w].todo
  BY <1>1, <1>a
<1>3. job[w] # F!Idle BY <1>1, IdleHolds DEF F!At
<1>4. /\ job'[w] = j /\ \A v \in Workers \ {w} : job[v] = F!Idle /\ job'[v] = F!Idle
      /\ Alone'
  BY <1>0, <1>2, <1>3, OnlyOne
<1>5. job[w].todo \subseteq F!In("trashed") BY <1>1 DEF Calm, Doomed
<1>6. \A f \in Frames : /\ f \in job[w].todo => row'[f].life = "gone"
                        /\ f \notin job[w].todo => row'[f] = row[f]
  BY <1>0, <1>1 DEF F!Row
<1>7. Doomed' BY <1>2, <1>4, IdleHolds DEF Doomed, F!At
<1>8. ASSUME Debris PROVE Debris'
  <2>1. PICK f \in F!In("gone") : file[f] # Nowhere BY <1>8 DEF Debris
  <2>2. f \in Frames /\ f \notin job[w].todo /\ row'[f].life = "gone"
    BY <1>5, <1>6, <2>1 DEF F!In
  <2> QED BY <1>1, <1>2, <1>4, <2>1, <2>2, IdleHolds DEF Debris, F!At, F!In
<1>9. ASSUME Peace PROVE Peace'
  <2>1. Settled
    <3>1. \A v \in Workers : job[v].op \notin Moving
      BY <1>1, <1>4, IdleHolds DEF F!At, Moving
    <3> QED BY <3>1, <1>9 DEF Peace
  <2>2. Loose' /\ Settled' BY <2>1, <1>1, <1>6, <1>9 DEF Peace, Loose, Settled, F!In
  <2>3. Held(j)' BY <1>2 DEF Held, Moving
  <2> QED BY <1>4, <2>2, <2>3, PeaceIf
<1> QED BY <1>4, <1>7, <1>8, <1>9 DEF Calm

LEMMA UnlinkSettles ==
  ASSUME FrameInv, Calm, NEW w \in Workers, NEW f \in Frames, F!Unlink(w, f) PROVE Calm'
<1>0. /\ FrameTypes /\ FilesFollow /\ job[w] \in Doing /\ file \in [Frames -> Folders
           \cup {Nowhere}]
  BY DEF FrameInv, FrameTypes, FramesTyped
<1> DEFINE rest == job[w].todo \ {f}
           i == [job[w] EXCEPT !.todo = rest, !.at = IF rest = {} THEN "store" ELSE "unlink"]
<1>1. /\ F!Go(w, i) /\ F!At(w, "purge", "unlink") /\ f \in job[w].todo /\ UNCHANGED <<row, astray>>
      /\ \A g \in Frames \ {f} : file'[g] = file[g]
  BY <1>0 DEF F!Unlink, F!Dropped, F!First, F!history
<1>a. /\ i \in Doing /\ i.op = "purge" /\ i.todo = rest /\ i.at \in {"store", "unlink"}
  BY <1>0, <1>1 DEF Doing, F!At
<1> HIDE DEF i
<1>2. PICK j \in Doing : F!Go(w, j) /\ j.op = "purge" /\ j.todo = rest
       /\ j.at \in {"store", "unlink"}
  BY <1>1, <1>a
<1>3. job[w] # F!Idle BY <1>1, IdleHolds DEF F!At
<1>4. /\ job'[w] = j /\ \A v \in Workers \ {w} : job[v] = F!Idle /\ job'[v] = F!Idle
      /\ Alone'
  BY <1>0, <1>2, <1>3, OnlyOne
<1>5. f \in F!In("gone") BY <1>0, <1>1 DEF FilesFollow
<1>6. Doomed' BY <1>2, <1>4, IdleHolds DEF Doomed, F!At
<1>7. ASSUME Debris PROVE Debris'
  <2>1. PICK g \in F!In("gone") : file[g] # Nowhere /\ ~ (F!At(w, "purge", "unlink")
         /\ g \in job[w].todo)
    BY <1>7 DEF Debris
  <2>2. g \in F!In("gone")' /\ file'[g] # Nowhere /\ g \notin j.todo
    BY <1>1, <1>2, <2>1 DEF F!In
  <2> QED BY <1>4, <2>2, IdleHolds DEF Debris, F!At
<1>8. ASSUME Peace PROVE Peace'
  <2>1. Settled
    <3>1. \A v \in Workers : job[v].op \notin Moving
      BY <1>1, <1>4, IdleHolds DEF F!At, Moving
    <3> QED BY <3>1, <1>8 DEF Peace
  <2>2. Loose' /\ Settled' BY <2>1, <1>1, <1>5, <1>8 DEF Peace, Loose, Settled, F!In
  <2>3. Held(j)' BY <1>2 DEF Held, Moving
  <2> QED BY <1>4, <2>2, <2>3, PeaceIf
<1> QED BY <1>4, <1>6, <1>7, <1>8 DEF Calm

LEMMA MoveSettles ==
  ASSUME FrameInv, Calm, Places, NEW w \in Workers, NEW f \in Frames, F!Move(w, f) PROVE Calm'
<1>0. /\ FrameTypes /\ FilesFollow /\ file \in [Frames -> Folders \cup {Nowhere}]
           /\ job[w] \in Doing
      /\ row \in [Frames -> F!Row]
  BY DEF FrameInv, FrameTypes, FramesTyped
<1> DEFINE k == job[w]
           rest == k.todo \ {f}
<1>1. PICK j \in Doing :
           /\ F!Go(w, j) /\ j.op \in {"none", "bulk", "sync", "select"}
           /\ \/ /\ j.seen = k.seen /\ j.plan = k.plan /\ j.op = k.op /\ j.todo = rest
                 /\ \/ j.at = "move" /\ rest # {}
                    \/ j.at = "flush" /\ rest = {} /\ k.op = "bulk"
              \/ j.op = "sync" /\ j.at = "list" /\ rest = {} /\ k.op = "select"
              \/ j = F!Idle /\ k.op = "select" /\ file[f] # k.seen[f].stored
  BY <1>0, MoveGoes
<1>2. k.at = "move" /\ f \in k.todo /\ UNCHANGED row /\ Session(k) /\ k.op \in {"bulk", "select"}
      /\ k.todo \subseteq DOMAIN k.plan
  BY <1>0 DEF F!Move, F!First, FrameTypes, Sane
<1>3. k.plan[f].stored \in Folders /\ k.seen[f].stored \in Folders
  BY <1>2 DEF Session, F!Row
<1>4. \/ UNCHANGED <<file, astray>>
      \/ /\ file' = [file EXCEPT ![f] = k.plan[f].stored]
         /\ astray' = astray \cup ({f} \ F!In("active"))
  BY DEF F!Move
<1>5. k # F!Idle BY <1>2, IdleHolds
<1>6. /\ job'[w] = j /\ \A v \in Workers \ {w} : job[v] = F!Idle /\ job'[v] = F!Idle
      /\ Alone'
  BY <1>0, <1>1, <1>5, OnlyOne
<1>7. Doomed' BY <1>1, <1>6, IdleHolds DEF Doomed, F!At
<1>8. /\ \A g \in Frames \ {f} : file'[g] = file[g]
      /\ file'[f] = file[f] \/ (file'[f] # Nowhere /\ f \in astray' \cup F!In("active"))
      /\ astray \subseteq astray'
  BY <1>0, <1>3, <1>4 DEF Places
<1>9. ASSUME Debris PROVE Debris'
  <2>1. PICK g \in F!In("gone") : file[g] # Nowhere BY <1>9 DEF Debris
  <2>2. g \in F!In("gone")' /\ file'[g] # Nowhere BY <1>2, <1>8, <2>1 DEF F!In
  <2>3. \A v \in Workers : ~ F!At(v, "purge", "unlink")' BY <1>1, <1>6, IdleHolds DEF F!At
  <2> QED BY <2>2, <2>3 DEF Debris
<1>10. ASSUME Peace PROVE Peace'
  <2>1. Held(k) /\ Loose BY <1>10 DEF Peace
  <2>2. Loose' BY <1>2, <1>8, <2>1 DEF Loose, F!In
  <2>3. j # F!Idle
    BY <1>1, <1>2, <2>1, IdleHolds DEF Held
  <2>4. j.op \in Moving BY <1>1, <1>2, <2>3 DEF Moving
  <2>5. Held(j)'
    <3>1. CASE j.op = "sync"
      <4>1. j.at = "list" BY <1>1, <1>2, <3>1, IdleHolds
      <4> QED BY <3>1, <4>1 DEF Held
    <3>2. CASE /\ j.seen = k.seen /\ j.plan = k.plan /\ j.op = k.op /\ j.todo = rest
               /\ j.at \in {"move", "flush"} /\ j.op = "bulk"
      <4>1. Fresh(k) /\ \A g \in DOMAIN k.plan : row[g].life = "active" /\ k.plan[g].life = "active"
        BY <1>2, <2>1, <3>2 DEF Held
      <4>2. Fresh(j)' BY <4>1, <3>2, <1>2 DEF Fresh, F!Present, F!In
      <4>3. \A g \in DOMAIN j.plan : row'[g].life = "active" /\ j.plan[g].life = "active"
        BY <4>1, <3>2, <1>2
      <4> QED BY <3>2, <4>2, <4>3 DEF Held
    <3>3. CASE /\ j.seen = k.seen /\ j.plan = k.plan /\ j.op = k.op /\ j.todo = rest
               /\ j.at = "move" /\ j.op = "select"
      <4>1. \A g \in k.todo : file[g] = k.seen[g].stored /\ g \in Frames
        BY <1>2, <2>1, <3>3 DEF Held, Session
      <4>2. \A g \in j.todo : file'[g] = j.seen[g].stored
        BY <4>1, <3>3, <1>8
      <4> QED BY <3>3, <4>2 DEF Held
    <3> QED BY <1>1, <1>2, <2>3, <3>1, <3>2, <3>3
  <2> QED BY <1>6, <2>2, <2>4, <2>5, PeaceIf
<1> QED BY <1>6, <1>7, <1>9, <1>10 DEF Calm

LEMMA DueSettles ==
  ASSUME FrameInv, Calm, NEW f \in Frames, F!Due(f) PROVE Calm'
<1>0. row \in [Frames -> F!Row] BY DEF FrameInv, FrameTypes, FramesTyped
<1>1. UNCHANGED <<file, job, astray>> BY DEF F!Due, F!history
<1>2. \A g \in Frames : Like(row'[g], row[g]) BY <1>0 DEF F!Due, F!Row, Like
<1>3. \A p : F!In(p)' = F!In(p) /\ F!In(p) \subseteq Frames BY <1>2 DEF F!In, Like
<1>4. F!Present' = F!Present /\ F!Present \subseteq Frames BY <1>3 DEF F!Present
<1>5. Alone' /\ Doomed' BY <1>1, <1>3 DEF Calm, Alone, Doomed, F!At
<1>6. ASSUME Debris PROVE Debris' BY <1>1, <1>3, <1>6 DEF Debris, F!At
<1>7. ASSUME Peace PROVE Peace'
  <2>1. Loose' BY <1>1, <1>2, <1>3, <1>7 DEF Peace, Loose, Like
  <2>2. Settled => Settled' BY <1>1, <1>2, <1>3 DEF Settled, Like
  <2>3. ASSUME NEW w \in Workers PROVE Held(job[w])'
    <3> DEFINE k == job[w]
    <3>1. Held(k) /\ FrameTypes BY <1>7 DEF Peace, FrameInv
    <3>2. DOMAIN k.plan \subseteq Frames \/ k.at \notin {"flush", "move"}
      BY <3>1 DEF FrameTypes, Sane, Session
    <3>3. Fresh(k) => Fresh(k)' BY <1>1, <1>2, <1>4 DEF Fresh, Like
    <3>4. k.op = "bulk" /\ k.at \in {"move", "flush"} =>
            \A g \in DOMAIN k.plan : row'[g].life = "active" /\ k.plan[g].life = "active"
      BY <1>2, <3>1, <3>2 DEF Held, Like
    <3>5. k.op = "trash" /\ k.at = "flush" =>
            \A g \in DOMAIN k.plan : /\ row'[g].life = "active" /\ k.plan[g].life = "trashed"
                                     /\ k.plan[g].pre = row'[g].status
                                          /\ k.plan[g].stored = row'[g].stored
      BY <1>2, <3>1, <3>2 DEF Held, Like
    <3>6. k.op = "restore" /\ k.at = "flush" =>
            \A g \in DOMAIN k.plan : /\ row'[g].life = "trashed" /\ k.plan[g].life = "active"
                                     /\ k.plan[g].status = (IF row'[g].pre = Nowhere THEN Home
                                          ELSE row'[g].pre)
                                     /\ k.plan[g].stored = row'[g].stored
      BY <1>2, <3>1, <3>2 DEF Held, Like
    <3>7. job'[w] = k BY <1>1
    <3> QED BY <1>1, <1>3, <3>1, <3>3, <3>4, <3>5, <3>6, <3>7 DEF Held
  <2> QED BY <1>1, <1>7, <2>1, <2>2, <2>3 DEF Peace
<1> QED BY <1>5, <1>6, <1>7 DEF Calm

LEMMA CalmStays ==
  ASSUME FrameInv, Agreed, Places, [F!Next]_F!vars, Quiet' PROVE Calm'
<1>1. troubles \in Nat /\ contested \in BOOLEAN BY DEF FrameInv, FrameTypes, FramesTyped
<1>2. CASE UNCHANGED F!vars
  <2>1. UNCHANGED <<row, file, job, troubles, astray, contested>>
    BY <1>2 DEF F!vars, F!history
  <2> QED
    BY <2>1 DEF Agreed, Quiet, Calm, Alone, Doomed, Debris, Peace, Held, Fresh, Loose,
      Settled, F!At, F!In, F!Present
<1>3. CASE \E w \in Workers : F!Begin(w)
  <2>1. PICK w \in Workers : F!Begin(w) BY <1>3
  <2>2. troubles' = troubles /\ contested' = (contested \/ \E v \in Workers : job[v] # F!Idle)
    BY <2>1 DEF F!Begin, F!Trash, F!Restore, F!Purge, F!Bulk, F!Select, F!Ask, F!Starts
  <2> QED BY <2>1, <2>2, BeginSettles DEF Quiet, Agreed
<1>4. CASE \E w \in Workers : F!PurgeExpired(w)
  <2>1. PICK w \in Workers : F!PurgeExpired(w) BY <1>4
  <2>2. troubles' = troubles /\ contested' = (contested \/ \E v \in Workers : job[v] # F!Idle)
    BY <2>1 DEF F!PurgeExpired, F!Starts
  <2> QED BY <2>1, <2>2, CollectSettles DEF Quiet, Agreed
<1>5. CASE \E w \in Workers : F!Proceed(w)
  <2>1. PICK w \in Workers : F!Proceed(w) BY <1>5
  <2>2. UNCHANGED <<troubles, contested>>
    BY <2>1 DEF F!Proceed, F!Trashed, F!Restored, F!Store, F!CheckPurge, F!DeleteRows,
      F!Unlink, F!Move, F!BulkFlush, F!List,
       F!Read, F!SyncFlush, F!Flush, F!history
  <2>3. Calm BY <2>2 DEF Agreed, Quiet
  <2>4. CASE F!Trashed(w) BY <2>3, <2>4, SessionSettles DEF F!Trashed
  <2>5. CASE F!Restored(w) BY <2>3, <2>5, SessionSettles DEF F!Restored
  <2>6. CASE F!BulkFlush(w) BY <2>3, <2>6, SessionSettles DEF F!BulkFlush
  <2>7. CASE F!SyncFlush(w) BY <2>3, <2>7, SessionSettles DEF F!SyncFlush
  <2> QED
    BY <2>1, <2>3, <2>4, <2>5, <2>6, <2>7, StoreSettles, CheckSettles, DeleteSettles,
      UnlinkSettles, MoveSettles,
       ListSettles, ReadSettles
    DEF F!Proceed
<1>6. CASE \E f \in Frames : F!Due(f)
  <2>1. PICK f \in Frames : F!Due(f) BY <1>6
  <2>2. UNCHANGED <<troubles, contested>> BY <2>1 DEF F!Due, F!history
  <2> QED BY <2>1, <2>2, DueSettles DEF Agreed, Quiet
<1>7. CASE F!Crash \/ \E w \in Workers, f \in Frames : F!UnlinkFails(w, f)
  <2>1. troubles' = troubles + 1 BY <1>7 DEF F!Crash, F!UnlinkFails
  <2> QED BY <1>1, <2>1 DEF Quiet
<1> QED BY <1>2, <1>3, <1>4, <1>5, <1>6, <1>7 DEF F!Next

LEMMA CalmInitial == ASSUME Places, F!Init PROVE Calm
<1>1. PICK p \in Folders \ {Home} : row \in [Frames -> {F!Kept(Home), F!InBin(p)}]
  BY DEF F!Init
<1>2. /\ F!Kept(Home).stored = Home /\ F!Kept(Home).life = "active" /\ F!Kept(Home).status = Home
      /\ F!InBin(p).stored = p /\ F!InBin(p).life = "trashed" /\ F!InBin(p).pre = p
  BY DEF F!Kept, F!InBin
<1>3. /\ \A f \in Frames : row[f] = F!Kept(Home) \/ row[f] = F!InBin(p)
      /\ file = [f \in Frames |-> row[f].stored] /\ job = [w \in Workers |-> F!Idle]
  BY <1>1 DEF F!Init
<1> HIDE DEF F!Kept, F!InBin
<1>4. Loose /\ Settled BY <1>2, <1>3 DEF Loose, Settled, F!In
<1>5. \A w \in Workers : Held(job[w]) BY <1>3, IdleHolds
<1>6. Alone /\ Doomed BY <1>3, IdleHolds DEF Alone, Doomed, F!At
<1> QED BY <1>4, <1>5, <1>6 DEF Calm, Peace

(* SettledRowsAgree: when requests come one at a time and nothing fails,    *)
(* every active frame has the status of the folder its file is in, unless   *)
(* the file was moved while the frame was in the bin.                       *)
THEOREM RowsAgree == ASSUME Places PROVE F!Spec => []F!SettledRowsAgree
<1>1. F!Init => Agreed BY CalmInitial DEF Agreed
<1>2. FrameInv /\ Agreed /\ [F!Next]_F!vars => Agreed' BY CalmStays DEF Agreed
<1>3. F!Spec => []Agreed BY <1>1, <1>2, FrameInvariant, PTL DEF F!Spec
<1>4. FrameInv /\ Agreed => F!SettledRowsAgree
  <2> SUFFICES ASSUME FrameInv, Agreed, Quiet, \A w \in Workers : job[w] = F!Idle,
                      \A f \in F!In("gone") : file[f] = Nowhere
               PROVE  Settled
    BY DEF F!SettledRowsAgree, Quiet, Settled
  <2>1. ~ Debris BY DEF Debris
  <2>2. \A w \in Workers : job[w].op \notin Moving BY IdleHolds DEF Moving
  <2> QED BY <2>1, <2>2 DEF Agreed, Calm, Peace
<1> QED BY <1>3, <1>4, FrameInvariant, PTL

-----------------------------------------------------------------------------
(* Dataset store: rows of exports and releases, and their directories.      *)

LEMMA Directory ==
  ASSUME NEW d \in D!Directories, NEW a, d.there, d.zip = a, d.files = {a} PROVE d = Full(a)
  BY DEF D!Directories, Full

LEMMA Absence ==
  /\ D!Absent \in D!Directories /\ ~ D!Absent.there /\ D!Absent.files = {}
  /\ [D!Absent EXCEPT !.there = TRUE] \in D!Directories /\ [D!Absent EXCEPT !.there = TRUE].there
  /\ [D!Absent EXCEPT !.there = TRUE].files = {}
  BY DEF D!Absent, D!Directories

(* One worker goes on and the others stay where they are.                   *)
LEMMA Goes ==
  ASSUME StoreTyped, NEW w \in Workers, NEW step \in Ats, D!Go(w, step)
  PROVE  /\ job' \in [Workers -> [at : Ats, archive : Archives \cup {NoArchive}]]
         /\ job'[w].at = step /\ job'[w].archive = job[w].archive
         /\ \A v \in Workers \ {w} : job'[v] = job[v]
  BY DEF StoreTyped, D!Go

LEMMA Stops ==
  ASSUME StoreTyped, NEW w \in Workers, D!Stop(w)
  PROVE  /\ job' \in [Workers -> [at : Ats, archive : Archives \cup {NoArchive}]]
         /\ job'[w].at = "idle"
         /\ \A v \in Workers \ {w} : job'[v] = job[v]
<1>1. D!Idle \in [at : Ats, archive : Archives \cup {NoArchive}] /\ D!Idle.at = "idle"
  BY DEF D!Idle, Ats
<1> QED BY <1>1 DEF StoreTyped, D!Stop

LEMMA Begins ==
  ASSUME StoreTyped, NEW w \in Workers, NEW step \in Ats, NEW a \in Archives \cup {NoArchive},
         D!Begin(w, step, a)
  PROVE  /\ job' \in [Workers -> [at : Ats, archive : Archives \cup {NoArchive}]]
         /\ job'[w].at = step /\ job'[w].archive = a
         /\ \A v \in Workers \ {w} : job'[v] = job[v]
         /\ job[w].at = "idle" /\ requests' \in Nat
         /\ UNCHANGED <<export, exported, tmp, release, released, troubles, doomed>>
  BY DEF StoreTyped, D!Begin, D!Is, D!exports, D!releases

(* A step of a worker that is not importing before or after it.             *)
LEMMA ImportsAside ==
  ASSUME ImportsApart, NEW w \in Workers,
         \A v \in Workers \ {w} : job'[v] = job[v],
         job[w].at \notin D!Importing, job'[w].at \notin D!Importing,
         UNCHANGED <<export, exported, tmp, troubles, overlapped>>
  PROVE  ImportsApart'
<1>1. \A v \in Workers : /\ Imports(v)' <=> Imports(v)
                         /\ Imports(v) => job'[v] = job[v]
  BY DEF Imports
<1> QED BY <1>1 DEF ImportsApart, Extracts, Tidy

(* A step that changes nothing of the release, of a worker that is not      *)
(* about to add a row after it.                                             *)
LEMMA RowsAside ==
  ASSUME RowsWhole, NEW w \in Workers,
         \A v \in Workers \ {w} : job'[v] = job[v],
         job'[w].at \notin {"add", "register"},
         UNCHANGED <<release, released, doomed>>
  PROVE  RowsWhole'
  BY DEF RowsWhole

LEMMA ImportKeeps ==
  ASSUME StoreInv, NEW w \in Workers,
         D!Import(w) \/ D!Clear(w) \/ D!Copy(w) \/ D!Extract(w) \/ D!Check(w) \/ D!Rename(w)
  PROVE  StoreInv'
<1>0. StoreTyped /\ ImportsApart /\ RowsWhole BY DEF StoreInv
<1>1. UNCHANGED <<release, released, doomed, troubles>> /\ export' = export
  BY DEF D!Import, D!Begin, D!Clear, D!Copy, D!Extract, D!Check, D!Rename, D!releases,
    D!exports, D!Still, D!history
<1>2. CASE D!Import(w)
  <2>1. PICK a \in Archives : D!Begin(w, "clear", a) BY <1>2 DEF D!Import
  <2>2. /\ job' \in [Workers -> [at : Ats, archive : Archives \cup {NoArchive}]]
        /\ job'[w].at = "clear" /\ job'[w].archive = a /\ job[w].at = "idle"
        /\ \A v \in Workers \ {w} : job'[v] = job[v]
        /\ requests' \in Nat /\ UNCHANGED <<exported, tmp>>
    BY <1>0, <2>1, Begins DEF Ats, D!Importing
  <2>3. export = NoArchive /\ overlapped' = (overlapped
         \/ \E v \in Workers : job[v].at \in D!Importing)
    BY <1>2 DEF D!Import
  <2>4. StoreTyped' BY <1>0, <1>1, <2>2, <2>3 DEF StoreTyped
  <2>5. RowsWhole' BY <1>0, <1>1, <2>2, RowsAside
  <2>6. ImportsApart'
    BY <1>0, <1>1, <2>2, <2>3 DEF ImportsApart, Imports, Extracts, Tidy, D!Importing
  <2> QED BY <2>4, <2>5, <2>6 DEF StoreInv
<1>3. CASE D!Clear(w) \/ D!Copy(w) \/ D!Extract(w) \/ D!Check(w) \/ D!Rename(w)
  <2>1. PICK next \in D!Importing :
          /\ D!Go(w, next) /\ UNCHANGED <<requests, overlapped>>
          /\ \/ job[w].at = "clear" /\ next = "copy" /\ tmp' = [D!Absent EXCEPT !.there = TRUE]
                  /\ UNCHANGED exported
             \/ /\ job[w].at = "copy" /\ next = "extract" /\ tmp.there
                     /\ tmp' = [tmp EXCEPT !.zip = job[w].archive]
                /\ UNCHANGED exported
             \/ /\ job[w].at = "extract" /\ next = "check" /\ tmp.there /\ tmp.zip # NoArchive
                /\ tmp' = [tmp EXCEPT !.files = @ \cup {tmp.zip}] /\ UNCHANGED exported
             \/ job[w].at = "check" /\ next = "rename" /\ UNCHANGED <<tmp, exported>>
             \/ job[w].at = "rename" /\ next = "insert" /\ tmp.there /\ ~ exported.there
                /\ exported' = tmp /\ tmp' = D!Absent
    BY <1>3 DEF D!Clear, D!Copy, D!Extract, D!Check, D!Rename, D!Is, D!Importing,
      D!exports, D!Still, D!history
  <2>2. /\ job' \in [Workers -> [at : Ats, archive : Archives \cup {NoArchive}]]
        /\ job'[w].at = next /\ job'[w].archive = job[w].archive
        /\ \A v \in Workers \ {w} : job'[v] = job[v]
    BY <1>0, <2>1, Goes DEF Ats
  <2>3. Imports(w) /\ Imports(w)' /\ \A v \in Workers \ {w} : Imports(v)' <=> Imports(v)
    BY <2>1, <2>2 DEF Imports, D!Importing
  <2>4. tmp' \in D!Directories /\ exported' \in D!Directories
    <3>1. job[w].archive \in Archives \cup {NoArchive} /\ tmp \in D!Directories
           /\ exported \in D!Directories
      BY <1>0 DEF StoreTyped
    <3>2. /\ \A a \in Archives \cup {NoArchive} : [tmp EXCEPT !.zip = a] \in D!Directories
          /\ tmp.zip # NoArchive => [tmp EXCEPT !.files = @ \cup {tmp.zip}] \in D!Directories
      BY <3>1 DEF D!Directories
    <3> QED BY <2>1, <3>1, <3>2, Absence
  <2>5. StoreTyped' BY <1>0, <1>1, <2>1, <2>2, <2>4 DEF StoreTyped
  <2>6. RowsWhole' BY <1>0, <1>1, <2>1, <2>2, RowsAside DEF D!Importing
  <2>7. ASSUME ~ overlapped PROVE ImportsApart'
    <3>1. /\ Extracts(w) /\ \A v \in Workers \ {w} : ~ Imports(v)
          /\ export = NoArchive /\ job[w].archive \in Archives
      BY <1>0, <2>3, <2>7 DEF ImportsApart, Extracts
    <3>2. /\ next = "copy" => tmp'.there /\ tmp'.files = {}
          /\ next = "extract" => tmp'.there /\ tmp'.zip = job[w].archive /\ tmp'.files = {}
          /\ next = "check" => tmp'.there /\ tmp'.zip = job[w].archive
               /\ tmp'.files = {job[w].archive}
          /\ next = "rename" => tmp' = Full(job[w].archive)
          /\ next = "insert" => exported' = Full(job[w].archive) /\ ~ tmp'.there
      <4>1. CASE next = "copy" BY <4>1, <2>1, Absence
      <4>2. CASE next = "extract"
        BY <4>2, <2>1, <3>1, <1>0 DEF Extracts, StoreTyped, D!Directories
      <4>3. CASE next = "check"
        BY <4>3, <2>1, <3>1, <1>0 DEF Extracts, StoreTyped, D!Directories
      <4>4. CASE next \in {"rename", "insert"} BY <4>4, <2>1, <3>1, Absence DEF Extracts
      <4> QED BY <2>1, <4>1, <4>2, <4>3, <4>4
    <3>3. next = "check" => tmp' = Full(job[w].archive) BY <3>2, <2>4, Directory
    <3>4. Extracts(w)' BY <3>1, <3>2, <3>3, <2>2, <1>1 DEF Extracts
    <3>5. troubles = 0 => Tidy'
      BY <1>0, <2>1, <2>2, <2>3, <2>7, <3>1, <3>2 DEF ImportsApart, Tidy, Full
    <3> QED BY <1>1, <2>3, <3>1, <3>4, <3>5 DEF ImportsApart
  <2>8. ImportsApart' BY <2>1, <2>7 DEF ImportsApart
  <2> QED BY <2>5, <2>6, <2>8 DEF StoreInv
<1> QED BY <1>2, <1>3

LEMMA EndKeeps ==
  ASSUME StoreInv, ArchivesNamed, NEW w \in Workers, D!ImportFails(w) \/ D!Insert(w) PROVE StoreInv'
<1>0. StoreTyped /\ ImportsApart /\ RowsWhole BY DEF StoreInv
<1>1. D!Stop(w) /\ UNCHANGED <<release, released, doomed, troubles, requests, overlapped, exported>>
  BY DEF D!ImportFails, D!Insert, D!releases, D!Still, D!history
<1>2. /\ job' \in [Workers -> [at : Ats, archive : Archives \cup {NoArchive}]]
      /\ job'[w].at = "idle" /\ \A v \in Workers \ {w} : job'[v] = job[v]
  BY <1>0, <1>1, Stops
<1>3. RowsWhole' BY <1>0, <1>1, <1>2, RowsAside
<1>4. Imports(w) /\ ~ Imports(w)' /\ \A v \in Workers \ {w} : Imports(v)' <=> Imports(v)
  BY <1>2 DEF D!ImportFails, D!Insert, D!Is, Imports, D!Importing
<1>5. ASSUME ~ overlapped
      PROVE  /\ Extracts(w) /\ export = NoArchive /\ job[w].archive \in Archives
             /\ \A v \in Workers \ {w} : ~ Imports(v)
  BY <1>0, <1>4, <1>5 DEF ImportsApart, Extracts
<1>6. CASE D!ImportFails(w)
  <2>1. tmp' = D!Absent /\ export' = export /\ job[w].at # "insert"
    BY <1>6 DEF D!ImportFails, D!Is
  <2>2. StoreTyped' BY <1>0, <1>1, <1>2, <2>1, Absence DEF StoreTyped
  <2>3. ImportsApart'
    BY <1>0, <1>1, <1>2, <1>4, <1>5, <2>1, Absence DEF ImportsApart, Tidy
  <2> QED BY <1>3, <2>2, <2>3 DEF StoreInv
<1>7. CASE D!Insert(w)
  <2>1. /\ tmp' = tmp /\ export' = (IF export = NoArchive THEN job[w].archive ELSE export)
        /\ job[w].at = "insert"
    BY <1>7 DEF D!Insert, D!Is
  <2>2. StoreTyped' BY <1>0, <1>1, <1>2, <2>1 DEF StoreTyped
  <2>3. ASSUME ~ overlapped
        PROVE  /\ export' = job[w].archive /\ exported' = Full(export') /\ ~ tmp'.there
               /\ exported'.there /\ export' # NoArchive
    <3>1. export' = job[w].archive /\ exported = Full(job[w].archive) /\ ~ tmp.there
           /\ export' # NoArchive
      BY <1>5, <2>1, <2>3 DEF Extracts, ArchivesNamed
    <3> QED BY <1>1, <2>1, <3>1 DEF Full
  <2>4. ImportsApart'
    BY <1>0, <1>1, <1>2, <1>4, <1>5, <2>3 DEF ImportsApart, Tidy
  <2> QED BY <1>3, <2>2, <2>4 DEF StoreInv
<1> QED BY <1>6, <1>7

LEMMA BesideGoes ==
  ASSUME StoreTyped, NEW w \in Workers, Beside(w)
  PROVE  /\ job' \in [Workers -> [at : Ats, archive : Archives \cup {NoArchive}]]
         /\ \A v \in Workers \ {w} : job'[v] = job[v]
         /\ job[w].at \notin D!Importing /\ job'[w].at \notin D!Importing
         /\ UNCHANGED <<export, exported, tmp, troubles, overlapped>> /\ requests' \in Nat
<1>1. CASE D!Release(w) \/ D!Register(w) \/ D!Delete(w)
  <2>1. PICK step \in {"look", "register", "delete"} : D!Begin(w, step, NoArchive)
         /\ UNCHANGED overlapped
    BY <1>1 DEF D!Release, D!Register, D!Delete
  <2> QED BY <2>1, Begins DEF Ats, D!Importing, D!Releasing
<1>2. CASE ~ (D!Release(w) \/ D!Register(w) \/ D!Delete(w))
  <2>1. /\ UNCHANGED <<export, exported, tmp, troubles, overlapped, requests>>
        /\ job[w].at \notin D!Importing
        /\ D!Stop(w) \/ \E step \in D!Releasing \cup D!Deleting : D!Go(w, step)
    BY <1>2 DEF Beside, D!Look, D!Stage, D!Add, D!Track, D!Publish, D!Registered,
      D!Unregister, D!Remove, D!Removed,
                D!exports, D!Still, D!history, D!Is, D!Importing, D!Releasing, D!Deleting
  <2>2. CASE D!Stop(w)
    BY <2>1, <2>2, Stops DEF D!Importing, StoreTyped
  <2>3. ASSUME NEW step \in D!Releasing \cup D!Deleting, D!Go(w, step)
        PROVE  /\ job' \in [Workers -> [at : Ats, archive : Archives \cup {NoArchive}]]
               /\ \A v \in Workers \ {w} : job'[v] = job[v]
               /\ job'[w].at \notin D!Importing
    BY <2>3, Goes DEF Ats, D!Importing, D!Releasing, D!Deleting
  <2> QED BY <2>1, <2>2, <2>3 DEF StoreTyped
<1> QED BY <1>1, <1>2

LEMMA BesideKeeps ==
  ASSUME StoreInv, NEW w \in Workers, Beside(w) PROVE StoreInv'
<1>0. StoreTyped /\ ImportsApart /\ RowsWhole BY DEF StoreInv
<1>1. /\ job' \in [Workers -> [at : Ats, archive : Archives \cup {NoArchive}]]
      /\ \A v \in Workers \ {w} : job'[v] = job[v]
      /\ job[w].at \notin D!Importing /\ job'[w].at \notin D!Importing
      /\ UNCHANGED <<export, exported, tmp, troubles, overlapped>> /\ requests' \in Nat
  BY <1>0, BesideGoes
<1>2. ImportsApart' BY <1>0, <1>1, ImportsAside
<1>3. ASSUME NEW step \in Ats, D!Go(w, step) PROVE job'[w].at = step BY <1>0, <1>3, Goes
<1>4. ASSUME D!Stop(w) PROVE job'[w].at = "idle" BY <1>0, <1>4, Stops
<1>5. ASSUME NEW step \in Ats, D!Begin(w, step, NoArchive)
      PROVE  job'[w].at = step /\ UNCHANGED <<release, released, doomed>>
  BY <1>0, <1>5, Begins
<1>6. {"look", "stage", "add", "track", "publish", "register", "delete", "remove",
       "rmtree"} \subseteq Ats
  BY DEF Ats, D!Releasing, D!Deleting
<1>7. release' \in {"none", "dvc_failed", "published"} /\ released' \in {"none", "whole", "part"}
      /\ doomed' \in BOOLEAN /\ RowsWhole'
  <2>0. /\ release \in {"none", "dvc_failed", "published"} /\ released \in {"none", "whole", "part"}
        /\ doomed \in BOOLEAN
    BY <1>0 DEF StoreTyped
  <2>1. CASE D!Release(w) \/ D!Delete(w)
    <3>1. job'[w].at \in {"look", "delete"} /\ UNCHANGED <<release, released, doomed>>
      BY <1>5, <1>6, <2>1 DEF D!Release, D!Delete
    <3> QED BY <1>0, <1>1, <2>0, <3>1, RowsAside
  <2>2. CASE D!Register(w)
    <3>1. job'[w].at = "register" /\ UNCHANGED <<release, released, doomed>> /\ released = "whole"
      BY <1>5, <1>6, <2>2 DEF D!Register, D!Whole
    <3> QED BY <1>0, <1>1, <2>0, <3>1 DEF RowsWhole
  <2>3. CASE D!Look(w) \/ D!Track(w)
    <3>1. job'[w].at \in {"idle", "track", "stage", "publish"}
           /\ UNCHANGED <<release, released, doomed>>
      BY <1>3, <1>4, <1>6, <2>3 DEF D!Look, D!Track, D!releases, D!Still, D!history
    <3> QED BY <1>0, <1>1, <2>0, <3>1, RowsAside
  <2>4. CASE D!Stage(w)
    <3>1. /\ UNCHANGED <<release, doomed>>
          /\ \/ released = "none" /\ released' = "whole" /\ job'[w].at = "add"
             \/ released' = released /\ job'[w].at = "idle"
      BY <1>3, <1>4, <1>6, <2>4 DEF D!Stage, D!Still, D!history
    <3> QED BY <1>0, <1>1, <2>0, <3>1 DEF RowsWhole
  <2>5. CASE D!Add(w)
    <3>1. /\ UNCHANGED <<released, doomed>> /\ job[w].at = "add" /\ job'[w].at \in {"idle", "track"}
          /\ release' = release \/ release' = "dvc_failed"
      BY <1>3, <1>4, <1>6, <2>5 DEF D!Add, D!Is, D!Still, D!history
    <3> QED BY <1>0, <1>1, <2>0, <3>1 DEF RowsWhole
  <2>6. CASE D!Publish(w)
    <3>1. /\ UNCHANGED <<released, doomed>> /\ job'[w].at = "idle"
          /\ release' = IF release = "none" THEN release ELSE "published"
      BY <1>4, <2>6 DEF D!Publish, D!Still, D!history
    <3> QED BY <1>0, <1>1, <2>0, <3>1 DEF RowsWhole
  <2>7. CASE D!Registered(w)
    <3>1. /\ UNCHANGED <<released, doomed>> /\ job[w].at = "register" /\ job'[w].at = "idle"
          /\ release' = IF release = "none" THEN "published" ELSE release
      BY <1>4, <2>7 DEF D!Registered, D!Is, D!Still, D!history
    <3> QED BY <1>0, <1>1, <2>0, <3>1 DEF RowsWhole
  <2>8. CASE D!Unregister(w)
    <3>1. UNCHANGED <<released, doomed>> /\ job'[w].at \in {"idle", "remove"} /\ release' = "none"
      BY <1>3, <1>4, <1>6, <2>8 DEF D!Unregister, D!Still, D!history
    <3> QED BY <1>0, <1>1, <2>0, <3>1 DEF RowsWhole
  <2>9. CASE D!Remove(w)
    <3>1. /\ release' = release /\ released' \in {"none", "part"}
               /\ job'[w].at \in {"idle", "rmtree"}
          /\ doomed' = (doomed \/ release # "none"
               \/ \E v \in Workers : job[v].at \in {"add", "register"})
      BY <1>3, <1>4, <1>6, <2>9 DEF D!Remove
    <3> QED BY <1>1, <2>0, <3>1 DEF RowsWhole
  <2>10. CASE D!Removed(w)
    <3>1. /\ UNCHANGED <<release, doomed>> /\ job'[w].at = "idle"
          /\ released' = IF released = "part" THEN "none" ELSE released
      BY <1>4, <2>10 DEF D!Removed, D!Still, D!history
    <3> QED BY <1>0, <1>1, <2>0, <3>1 DEF RowsWhole
  <2> QED BY <2>1, <2>2, <2>3, <2>4, <2>5, <2>6, <2>7, <2>8, <2>9, <2>10 DEF Beside
<1>8. StoreTyped' BY <1>0, <1>1, <1>7 DEF StoreTyped
<1> QED BY <1>2, <1>7, <1>8 DEF StoreInv

LEMMA TroubleKeeps ==
  ASSUME StoreInv, D!Crash \/ \E w \in Workers : D!SessionFails(w) PROVE StoreInv'
<1>0. StoreTyped /\ ImportsApart /\ RowsWhole BY DEF StoreInv
<1>1. /\ UNCHANGED <<export, exported, tmp, release, released, requests, overlapped, doomed>>
      /\ troubles' = troubles + 1 /\ troubles \in Nat
  BY <1>0
    DEF D!Crash, D!SessionFails, D!Trouble, D!exports, D!releases, D!history, StoreTyped
<1>2. /\ job' \in [Workers -> [at : Ats, archive : Archives \cup {NoArchive}]]
      /\ \A v \in Workers : job'[v] = job[v] \/ job'[v].at = "idle"
  <2>1. CASE D!Crash
    <3>1. D!Idle \in [at : Ats, archive : Archives \cup {NoArchive}] /\ D!Idle.at = "idle"
      BY DEF D!Idle, Ats
    <3> QED BY <2>1, <3>1 DEF D!Crash
  <2>2. CASE \E w \in Workers : D!SessionFails(w)
    BY <1>0, <2>2, Stops DEF D!SessionFails
  <2> QED BY <2>1, <2>2
<1>3. StoreTyped' BY <1>0, <1>1, <1>2 DEF StoreTyped
<1>4. \A v \in Workers : Imports(v)' => Imports(v) /\ job'[v] = job[v]
  BY <1>2 DEF Imports, D!Importing
<1>5. ImportsApart' BY <1>0, <1>1, <1>4 DEF ImportsApart, Extracts
<1>6. RowsWhole' BY <1>0, <1>1, <1>2 DEF RowsWhole
<1> QED BY <1>3, <1>5, <1>6 DEF StoreInv

LEMMA StoreStep == ASSUME StoreInv, ArchivesNamed, [D!Next]_D!vars PROVE StoreInv'
<1>1. CASE UNCHANGED D!vars
  <2>1. UNCHANGED <<export, exported, tmp, release, released, job, requests, troubles,
         overlapped, doomed>>
    BY <1>1 DEF D!vars, D!exports, D!releases, D!history
  <2> QED BY <2>1 DEF StoreInv, StoreTyped, ImportsApart, RowsWhole, Imports, Extracts, Tidy
<1>2. CASE D!Next
  BY <1>2, ImportKeeps, EndKeeps, BesideKeeps, TroubleKeeps DEF D!Next, Beside
<1> QED BY <1>1, <1>2

LEMMA StoreInitial == D!Init => StoreInv
<1> SUFFICES ASSUME D!Init PROVE StoreInv OBVIOUS
<1>1. D!Idle \in [at : Ats, archive : Archives \cup {NoArchive}] /\ D!Idle.at = "idle"
  BY DEF D!Idle, Ats
<1>2. StoreTyped BY <1>1, Absence DEF D!Init, StoreTyped
<1>3. \A w \in Workers : job[w].at = "idle" BY <1>1 DEF D!Init
<1>4. ImportsApart BY <1>3, Absence DEF D!Init, ImportsApart, Imports, Tidy, D!Importing
<1>5. RowsWhole BY <1>3 DEF D!Init, RowsWhole
<1> QED BY <1>2, <1>4, <1>5 DEF StoreInv

(* Through every order of imports, releases, registrations, deletions,      *)
(* failing sessions and crashes: what an import finds at each of its steps, *)
(* and that what is about to add a row has the whole directory.             *)
THEOREM DatasetInvariant == ASSUME ArchivesNamed PROVE D!Spec => []StoreInv
<1>1. D!Init => StoreInv BY StoreInitial
<1>2. StoreInv /\ [D!Next]_D!vars => StoreInv' BY StoreStep
<1> QED BY <1>1, <1>2, PTL DEF D!Spec

(* The type invariant of exports and releases.                              *)
THEOREM DatasetTypeCorrect == ASSUME ArchivesNamed PROVE D!Spec => []D!TypeOK
<1>1. StoreInv => D!TypeOK BY DEF StoreInv, StoreTyped, D!TypeOK, Ats
<1> QED BY <1>1, DatasetInvariant, PTL

(* ImportedIsItsArchive: an export's directory is what the archive in its   *)
(* row contains, unless two imports overlapped.                             *)
THEOREM ImportsFaithful == ASSUME ArchivesNamed PROVE D!Spec => []D!ImportedIsItsArchive
<1>1. StoreInv => D!ImportedIsItsArchive
  BY DEF StoreInv, ImportsApart, Tidy, Imports, D!Importing, D!Is, Full,
    D!ImportedIsItsArchive
<1> QED BY <1>1, DatasetInvariant, PTL

(* ReleaseHasItsFiles: a release with a row has its whole directory, unless *)
(* it was registered between the two steps of a deletion.                   *)
THEOREM ReleasesWhole == ASSUME ArchivesNamed PROVE D!Spec => []D!ReleaseHasItsFiles
<1>1. StoreInv => D!ReleaseHasItsFiles BY DEF StoreInv, RowsWhole, D!ReleaseHasItsFiles
<1> QED BY <1>1, DatasetInvariant, PTL

-----------------------------------------------------------------------------
(* Database backups: the newest of those made are there.                    *)

(****************************************************************************)
(* Finite sets of numbers.                                                  *)

LEMMA Narrower ==
  ASSUME NEW S \in SUBSET Nat, NEW p \in S, NEW q \in S, p < q
  PROVE  /\ <<Above(S, q), Above(S, p)>> \in StrictSubsetOrdering(S)
         /\ <<Below(S, p), Below(S, q)>> \in StrictSubsetOrdering(S)
<1>1. p \in Nat /\ q \in Nat /\ \A c \in S : c \in Nat OBVIOUS
<1>2. \A c \in S : (c > q => c > p) /\ (c < p => c < q) BY <1>1
<1>3. q > p /\ ~ (q > q) /\ ~ (p < p) BY <1>1
<1>4. q \in Above(S, p) /\ q \notin Above(S, q) /\ p \in Below(S, q) /\ p \notin Below(S, p)
  BY <1>3 DEF Above, Below
<1>5. /\ Above(S, q) \subseteq Above(S, p) /\ Below(S, p) \subseteq Below(S, q)
      /\ Above(S, p) \subseteq S /\ Below(S, q) \subseteq S
  BY <1>2 DEF Above, Below
<1> QED BY <1>4, <1>5 DEF StrictSubsetOrdering

LEMMA Counts ==
  ASSUME NEW S \in SUBSET Nat, IsFiniteSet(S), NEW U \in SUBSET S, NEW b
  PROVE  /\ IsFiniteSet(U) /\ IsFiniteSet(Above(S, b)) /\ IsFiniteSet(Above(U, b))
         /\ Cardinality(Above(S, b)) \in Nat /\ Cardinality(Above(U, b)) \in Nat
         /\ Cardinality(Above(U, b)) <= Cardinality(Above(S, b))
<1>1. Above(S, b) \in SUBSET S /\ Above(U, b) \in SUBSET Above(S, b) BY DEF Above
<1>2. IsFiniteSet(U) /\ IsFiniteSet(Above(S, b)) BY <1>1, FS_Subset
<1>3. IsFiniteSet(Above(U, b)) /\ Cardinality(Above(U, b)) <= Cardinality(Above(S, b))
  BY <1>1, <1>2, FS_Subset
<1> QED BY <1>2, <1>3, FS_CardinalityType

(* A finite set of numbers has a greatest and a least element.              *)
LEMMA Extremes ==
  ASSUME NEW S \in SUBSET Nat, IsFiniteSet(S), NEW Q \in SUBSET S, Q # {}
  PROVE  /\ \E m \in Q : \A q \in Q : q <= m
         /\ \E m \in Q : \A q \in Q : m <= q
<1>1. IsWellFoundedOn(StrictSubsetOrdering(S), FiniteSubsetsOf(S))
  BY FS_StrictSubsetOrderingWellFounded
<1>2. \A U \in SUBSET S : U \in FiniteSubsetsOf(S) BY FS_Subset DEF FiniteSubsetsOf
<1>3. \E m \in Q : \A q \in Q : q <= m
  <2> DEFINE cuts == {Above(S, q) : q \in Q}
  <2>1. cuts \subseteq FiniteSubsetsOf(S) /\ cuts # {} BY <1>2 DEF Above
  <2>2. PICK x \in cuts : \A y \in cuts : ~ (<<y, x>> \in StrictSubsetOrdering(S))
    BY <1>1, <2>1, WFMin
  <2>3. PICK m \in Q : x = Above(S, m) BY <2>2
  <2>4. \A q \in Q : ~ (m < q) BY <2>2, <2>3, Narrower
  <2>5. \A q \in Q : q <= m BY <2>4
  <2> QED BY <2>5
<1>4. \E m \in Q : \A q \in Q : m <= q
  <2> DEFINE cuts == {Below(S, q) : q \in Q}
  <2>1. cuts \subseteq FiniteSubsetsOf(S) /\ cuts # {} BY <1>2 DEF Below
  <2>2. PICK x \in cuts : \A y \in cuts : ~ (<<y, x>> \in StrictSubsetOrdering(S))
    BY <1>1, <2>1, WFMin
  <2>3. PICK m \in Q : x = Below(S, m) BY <2>2
  <2>4. \A q \in Q : ~ (q < m) BY <2>2, <2>3, Narrower
  <2>5. \A q \in Q : m <= q BY <2>4
  <2> QED BY <2>5
<1> QED BY <1>3, <1>4

(* The newest Retention of a set: they are no more than that, they are the  *)
(* newest of themselves, and whatever has fewer of them above it has fewer  *)
(* of the whole set above it.                                               *)
LEMMA Newer ==
  ASSUME Retention \in Nat, NEW S \in SUBSET Nat, IsFiniteSet(S)
  PROVE  /\ IsFiniteSet(Tops(S)) /\ Cardinality(Tops(S)) <= Retention
         /\ Tops(Tops(S)) = Tops(S)
         /\ \A b \in Nat : Cardinality(Above(Tops(S), b)) < Retention
              => Cardinality(Above(S, b)) < Retention
<1>1. Tops(S) \in SUBSET S BY DEF Tops
<1>2. IsFiniteSet(Tops(S)) BY <1>1, FS_Subset
<1>3. Cardinality(Tops(S)) <= Retention
  <2>1. CASE Tops(S) = {} BY <2>1, FS_EmptySet
  <2>2. CASE Tops(S) # {}
    <3>1. PICK m \in Tops(S) : \A q \in Tops(S) : m <= q BY <1>1, <2>2, Extremes
    <3>0. \A q \in Tops(S) : q \in Nat /\ q \in S BY <1>1
    <3>2. Tops(S) \ {m} \in SUBSET Above(S, m) BY <3>0, <3>1 DEF Above
    <3>3. IsFiniteSet(Above(S, m)) /\ Cardinality(Above(S, m)) \in Nat BY Counts
    <3>4. Cardinality(Above(S, m)) < Retention BY DEF Tops
    <3>5. Cardinality(Tops(S) \ {m}) <= Cardinality(Above(S, m)) BY <3>2, <3>3, FS_Subset
    <3>6. Cardinality(Tops(S) \ {m}) = Cardinality(Tops(S)) - 1 BY <1>2, FS_RemoveElement
    <3>7. Cardinality(Tops(S)) \in Nat BY <1>2, FS_CardinalityType
    <3> QED BY <3>3, <3>4, <3>5, <3>6, <3>7
  <2> QED BY <2>1, <2>2
<1>4. \A b : /\ Cardinality(Above(S, b)) \in Nat /\ Cardinality(Above(Tops(S), b)) \in Nat
             /\ Cardinality(Above(Tops(S), b)) <= Cardinality(Above(S, b))
  BY <1>1, Counts
<1>5. Tops(Tops(S)) = Tops(S)
  BY <1>4 DEF Tops
<1>6. ASSUME NEW b \in Nat, Cardinality(Above(Tops(S), b)) < Retention, ~ (Cardinality(Above(S,
       b)) < Retention)
      PROVE  FALSE
  <2> DEFINE Q == {c \in Above(S, b) : c \notin Tops(S)}
  <2>1. Q # {}
    <3>1. ASSUME Q = {} PROVE Above(S, b) = Above(Tops(S), b) BY <3>1, <1>1 DEF Above
    <3> QED BY <3>1, <1>6
  <2>2. PICK m \in Q : \A q \in Q : q <= m
    <3>1. Q \in SUBSET S BY DEF Above
    <3> HIDE DEF Q
    <3> QED BY <2>1, <3>1, Extremes
  <2>3. m \in S /\ m > b /\ ~ (Cardinality(Above(S, m)) < Retention) BY DEF Above, Tops
  <2>4. Above(S, m) \in SUBSET Above(Tops(S), b)
    <3>1. ASSUME NEW c \in S, c > m PROVE c \in Tops(S) /\ c > b
      BY <2>2, <2>3, <3>1 DEF Above
    <3> QED BY <3>1 DEF Above
  <2>5. IsFiniteSet(Above(Tops(S), b)) BY <1>1, Counts
  <2>6. Cardinality(Above(S, m)) <= Cardinality(Above(Tops(S), b)) BY <2>4, <2>5, FS_Subset
  <2> QED BY <1>4, <1>6, <2>3, <2>6
<1> QED BY <1>2, <1>3, <1>5, <1>6, <1>4

LEMMA Whole ==
  ASSUME BackupTyped, Retention \in Nat
  PROVE  /\ IsFiniteSet(rows) /\ rows \in SUBSET Nat /\ files \in SUBSET Nat
         /\ \A b \in Nat : Cardinality(Above(rows, b)) \in Nat
         /\ rows \ B!Old = Tops(rows)
<1>1. made \in Nat /\ rows \in SUBSET (1..made) /\ files \in SUBSET (1..made)
  BY DEF BackupTyped
<1>2. IsFiniteSet(1..made) BY <1>1, FS_Interval
<1>a. rows \in SUBSET Nat /\ files \in SUBSET Nat BY <1>1
<1>3. IsFiniteSet(rows) /\ rows \in SUBSET Nat /\ files \in SUBSET Nat
  BY <1>1, <1>2, <1>a, FS_Subset
<1>4. \A b \in Nat : Cardinality(Above(rows, b)) \in Nat BY <1>3, Counts
<1>5. rows \ B!Old = Tops(rows)
  <2>1. \A b \in rows : b \in B!Old <=> Cardinality(Above(rows, b)) >= Retention
    BY Counted DEF B!Old, Above
  <2>2. \A b \in rows : ~ (Cardinality(Above(rows, b)) >= Retention)
         <=> Cardinality(Above(rows, b)) < Retention
    BY <1>3, <1>4
  <2> QED BY <2>1, <2>2 DEF Tops
<1> QED BY <1>3, <1>4, <1>5

LEMMA BackupStep == ASSUME Retention \in Nat, BackupInv, [B!Next]_B!vars PROVE BackupInv'
<1>0. BackupTyped /\ AnsweredKept /\ made \in Nat BY DEF BackupInv, BackupTyped
<1>1. /\ IsFiniteSet(rows) /\ rows \in SUBSET Nat /\ files \in SUBSET Nat
      /\ \A b \in Nat : Cardinality(Above(rows, b)) \in Nat
      /\ rows \ B!Old = Tops(rows)
  BY <1>0, Whole
<1>2. CASE B!Create
  <2>1. BackupTyped' BY <1>0, <1>2 DEF B!Create, BackupTyped
  <2>2. made' \notin rows /\ made' > 0 BY <1>0, <1>2 DEF B!Create, BackupTyped
  <2>3. UNCHANGED <<rows, files, troubles, answered>> /\ at = "idle" /\ at' = "copy"
    BY <1>2 DEF B!Create
  <2>4. AnsweredKept' BY <1>0, <2>3 DEF AnsweredKept, Tops
  <2>5. troubles = 0 => Untroubled' BY <2>3 DEF BackupInv, Untroubled
  <2> QED BY <2>1, <2>2, <2>3, <2>4, <2>5 DEF BackupInv
<1>3. CASE B!Copy
  <2>0. made \in 1..made BY <1>0, <1>3 DEF B!Copy, BackupInv
  <2>1. BackupTyped' BY <1>0, <1>3, <2>0 DEF B!Copy, BackupTyped, BackupInv
  <2> QED BY <1>3, <2>1 DEF B!Copy, BackupInv, AnsweredKept, Untroubled, Tops
<1>4. CASE B!Insert
  <2>1. BackupTyped' BY <1>0, <1>4 DEF B!Insert, BackupTyped, BackupInv
  <2>2. IsFiniteSet(rows') /\ rows' \in SUBSET Nat /\ rows \in SUBSET rows' /\ rows' = rows
         \cup {made}
    <3>1. IsFiniteSet(rows') /\ rows' \in SUBSET Nat
      <4>1. made \in Nat /\ rows' = rows \cup {made} BY <1>0, <1>4 DEF B!Insert
      <4> QED BY <1>1, <4>1, FS_AddElement
    <3> QED BY <3>1, <1>4 DEF B!Insert
  <2>3. \A b : /\ Cardinality(Above(rows, b)) \in Nat /\ Cardinality(Above(rows', b)) \in Nat
               /\ Cardinality(Above(rows, b)) <= Cardinality(Above(rows', b))
    BY <2>2, Counts
  <2>4. Tops(rows)' \subseteq Tops(rows) \cup {made} BY <2>2, <2>3 DEF Tops
  <2>5. made \in files /\ UNCHANGED <<files, answered, made, troubles>> /\ at = "insert"
         /\ at' = "prune"
    BY <1>4 DEF B!Insert, BackupInv
  <2>6. AnsweredKept' BY <1>0, <2>2, <2>3, <2>4, <2>5 DEF AnsweredKept
  <2>7. troubles = 0 => Untroubled' BY <2>2, <2>5 DEF BackupInv, Untroubled
  <2> QED BY <2>1, <2>2, <2>5, <2>6, <2>7 DEF BackupInv
<1>5. CASE B!Unlink
  <2>1. BackupTyped' BY <1>0, <1>5 DEF B!Unlink, BackupTyped, BackupInv
  <2>2. UNCHANGED <<rows, answered, made, troubles>> /\ files' = files \ B!Old /\ at = "prune"
         /\ at' = "commit"
    BY <1>5 DEF B!Unlink
  <2>3. Tops(rows)' = Tops(rows) /\ Tops(rows) \subseteq files'
    BY <1>0, <1>1, <2>2 DEF AnsweredKept, Tops
  <2>4. ASSUME NEW b \in answered, Cardinality(Above(rows, b)) < Retention
         PROVE b \in rows \cap files'
    <3>1. b \in rows \cap files BY <1>0, <2>4 DEF AnsweredKept
    <3>2. b \in Tops(rows) BY <2>4, <3>1 DEF Tops
    <3> QED BY <2>3, <3>1, <3>2
  <2>5. AnsweredKept' BY <2>2, <2>3, <2>4 DEF AnsweredKept
  <2>6. troubles = 0 => Untroubled' BY <1>1, <2>2, <2>3 DEF BackupInv, Untroubled
  <2> QED BY <2>1, <2>2, <2>5, <2>6 DEF BackupInv
<1>6. CASE B!Commit
  <2>1. BackupTyped' BY <1>0, <1>6 DEF B!Commit, BackupTyped, BackupInv
  <2>2. UNCHANGED <<files, made, troubles>> /\ rows' = Tops(rows) /\ at = "commit" /\ at' = "idle"
        /\ answered' = answered \cup {made} /\ made \in rows
    BY <1>1, <1>6 DEF B!Commit, BackupInv
  <2>3. /\ IsFiniteSet(Tops(rows)) /\ Cardinality(Tops(rows)) <= Retention
        /\ Tops(Tops(rows)) = Tops(rows)
        /\ \A b \in Nat : Cardinality(Above(Tops(rows), b)) < Retention
             => Cardinality(Above(rows, b)) < Retention
    BY <1>1, Newer
  <2>4. ASSUME NEW b \in answered', Cardinality(Above(rows', b)) < Retention
         PROVE b \in rows' \cap files'
    <3>1. b \in Nat BY <1>0, <2>1 DEF BackupTyped
    <3>2. Cardinality(Above(rows, b)) < Retention BY <2>2, <2>3, <2>4, <3>1
    <3>3. b \in rows BY <1>0, <2>2, <2>4, <3>2 DEF AnsweredKept
    <3>4. b \in Tops(rows) BY <3>2, <3>3 DEF Tops
    <3> QED BY <1>0, <2>2, <3>4 DEF AnsweredKept
  <2>5. Tops(rows)' = Tops(rows) BY <2>2, <2>3 DEF Tops, Above
  <2>6. AnsweredKept' BY <1>0, <2>2, <2>4, <2>5 DEF AnsweredKept
  <2>7. troubles = 0 => Untroubled' BY <2>2, <2>3 DEF BackupInv, Untroubled
  <2> QED BY <2>1, <2>2, <2>6, <2>7 DEF BackupInv
<1>7. CASE B!Fail
  <2>1. BackupTyped' /\ troubles' # 0 BY <1>0, <1>7 DEF B!Fail, BackupTyped, BackupInv
  <2> QED BY <1>7, <2>1 DEF B!Fail, BackupInv, AnsweredKept, Tops
<1>8. CASE UNCHANGED B!vars
  BY <1>8 DEF B!vars, BackupInv, BackupTyped, AnsweredKept, Untroubled, Tops
<1> QED BY <1>2, <1>3, <1>4, <1>5, <1>6, <1>7, <1>8 DEF B!Next

LEMMA BackupInitial == ASSUME Retention \in Nat PROVE B!Init => BackupInv
<1> SUFFICES ASSUME B!Init PROVE BackupInv OBVIOUS
<1>1. Tops({}) = {} BY DEF Tops
<1> QED BY <1>1, FS_EmptySet DEF B!Init, BackupInv, BackupTyped, AnsweredKept, Untroubled

(* Whatever step fails, the newest backups on record have their files.      *)
THEOREM BackupInvariant == ASSUME Retention \in Nat PROVE B!Spec => []BackupInv
<1>1. B!Init => BackupInv BY BackupInitial
<1>2. BackupInv /\ [B!Next]_B!vars => BackupInv' BY BackupStep
<1> QED BY <1>1, <1>2, PTL DEF B!Spec

(* The type invariant of the backups.                                       *)
THEOREM BackupTypeCorrect == ASSUME Retention \in Nat PROVE B!Spec => []B!TypeOK
<1>1. BackupInv => B!TypeOK BY DEF BackupInv, BackupTyped, B!TypeOK
<1> QED BY <1>1, BackupInvariant, PTL

(* BackupsHold: for every retention and any number of failing sessions, the *)
(* backups a client was told of are there until Retention newer ones are on *)
(* record, and without failures the files are the rows.                     *)
THEOREM BackupsKept == ASSUME Retention \in Nat PROVE B!Spec => []B!BackupsHold
<1>1. BackupInv => B!BackupsHold
  <2> SUFFICES ASSUME BackupInv PROVE B!BackupsHold OBVIOUS
  <2>1. rows \ B!Old = Tops(rows) BY Whole DEF BackupInv
  <2> QED BY <2>1, Counted DEF BackupInv, AnsweredKept, Untroubled, Above, B!BackupsHold
<1> QED BY <1>1, BackupInvariant, PTL

-----------------------------------------------------------------------------
(* Gate runner: what a passed gate means.                                   *)

(* Round goes to a nearest integer.                                         *)
LEMMA Rounded ==
  ASSUME NEW a \in Nat
  PROVE  /\ G!Round(a, 4) \in Nat
         /\ 4 * G!Round(a, 4) <= a + 2 /\ a <= 4 * G!Round(a, 4) + 2
         /\ \A q \in Nat : a = 4 * q => G!Round(a, 4) = q
<1> DEFINE q == a \div 4
           r == a % 4
<1>1. q \in Nat /\ r \in 0..3 /\ a = 4 * q + r OBVIOUS
<1>2. G!Round(a, 4) = IF 2 * r > 4 \/ (2 * r = 4 /\ q % 2 = 1) THEN q + 1 ELSE q
  BY DEF G!Round
<1>3. G!Round(a, 4) \in {q, q + 1} /\ (r < 2 => G!Round(a, 4) = q) /\ (r > 2
       => G!Round(a, 4) = q + 1)
  BY <1>1, <1>2
<1> HIDE DEF q, r
<1> QED BY <1>1, <1>3

LEMMA Sampled ==
  ASSUME NEW n \in Nat, n > 0
  PROVE  /\ {0, n - 1} \subseteq G!Samples(n) /\ G!Samples(n) \subseteq 0..(n - 1)
         /\ Cardinality(G!Samples(n)) = G!SmallerOf(n, G!Limit)
<1>1. CASE n <= G!Limit
  <2>1. G!Samples(n) = 0..(n - 1) /\ G!SmallerOf(n, G!Limit) = n
    BY <1>1 DEF G!Samples, G!SmallerOf
  <2>2. Cardinality(0..(n - 1)) = n BY FS_Interval
  <2> QED BY <2>1, <2>2
<1>2. CASE ~ (n <= G!Limit)
  <2>0. n > 5 /\ G!Limit = 5 /\ G!SmallerOf(n, G!Limit) = 5 BY <1>2 DEF G!Limit, G!SmallerOf
  <2> DEFINE s(k) == G!Round(k * (n - 1), 4)
  <2>1. G!Samples(n) = {s(0), s(1), s(2), s(3), s(4)}
    <3>1. G!Samples(n) = {G!Round(k * (n - 1), G!Limit - 1) : k \in 0..(G!Limit - 1)}
      BY <1>2 DEF G!Samples
    <3>2. G!Limit - 1 = 4 /\ 0..4 = {0, 1, 2, 3, 4} BY <2>0
    <3>3. G!Samples(n) = {s(k) : k \in {0, 1, 2, 3, 4}} BY <3>1, <3>2
    <3> HIDE DEF s
    <3> QED BY <3>3
  <2>2. /\ 0 * (n - 1) = 0 /\ 1 * (n - 1) = n - 1 /\ 2 * (n - 1) = (n - 1) + (n - 1)
        /\ 3 * (n - 1) = (n - 1) + (n - 1) + (n - 1) /\ 4 * (n - 1) \in Nat
        /\ 0 \in Nat /\ n - 1 \in Nat /\ (n - 1) + (n - 1) \in Nat
             /\ (n - 1) + (n - 1) + (n - 1) \in Nat
    BY <2>0
  <2>3. /\ s(0) \in Nat /\ s(1) \in Nat /\ s(2) \in Nat /\ s(3) \in Nat /\ s(4) \in Nat
        /\ s(0) = 0 /\ s(4) = n - 1
        /\ 4 * s(1) <= n + 1 /\ n - 1 <= 4 * s(1) + 2
        /\ 4 * s(2) <= (n - 1) + (n - 1) + 2 /\ (n - 1) + (n - 1) <= 4 * s(2) + 2
        /\ 4 * s(3) <= (n - 1) + (n - 1) + (n - 1) + 2
             /\ (n - 1) + (n - 1) + (n - 1) <= 4 * s(3) + 2
    BY <2>2, Rounded
  <2> HIDE DEF s
  <2>4. 0 = s(0) /\ s(0) < s(1) /\ s(1) < s(2) /\ s(2) < s(3) /\ s(3) < s(4) /\ s(4) = n - 1
    BY <2>0, <2>3
  <2>a. /\ s(0) # s(1) /\ s(0) # s(2) /\ s(0) # s(3) /\ s(0) # s(4) /\ s(1) # s(2)
        /\ s(1) # s(3) /\ s(1) # s(4) /\ s(2) # s(3) /\ s(2) # s(4) /\ s(3) # s(4)
    BY <2>3, <2>4
  <2>5. Cardinality({s(0), s(1), s(2), s(3), s(4)}) = 5
    <3>1. IsFiniteSet({s(0)}) /\ Cardinality({s(0)}) = 1 BY FS_Singleton
    <3>2. IsFiniteSet({s(0)} \cup {s(1)}) /\ Cardinality({s(0)} \cup {s(1)}) = 2
      BY <2>a, <3>1, FS_AddElement
    <3>3. /\ IsFiniteSet({s(0)} \cup {s(1)} \cup {s(2)})
          /\ Cardinality({s(0)} \cup {s(1)} \cup {s(2)}) = 3
      BY <2>a, <3>2, FS_AddElement
    <3>4. /\ IsFiniteSet({s(0)} \cup {s(1)} \cup {s(2)} \cup {s(3)})
          /\ Cardinality({s(0)} \cup {s(1)} \cup {s(2)} \cup {s(3)}) = 4
      BY <2>a, <3>3, FS_AddElement
    <3>5. Cardinality({s(0)} \cup {s(1)} \cup {s(2)} \cup {s(3)} \cup {s(4)}) = 5
      BY <2>a, <3>4, FS_AddElement
    <3>6. {s(0)} \cup {s(1)} \cup {s(2)} \cup {s(3)} \cup {s(4)} = {s(0), s(1), s(2), s(3), s(4)}
      OBVIOUS
    <3> QED BY <3>5, <3>6
  <2> QED BY <2>0, <2>1, <2>3, <2>4, <2>5
<1> QED BY <1>1, <1>2

(* As many close pairs as there are detections on either side match them    *)
(* one to one.                                                              *)
LEMMA PairsMatch ==
  ASSUME NEW pt \in G!Detections, NEW onnx \in G!Detections, NEW M \in G!Best(pt, onnx),
         G!Passes(pt, onnx, M)
  PROVE  G!Match(pt, onnx)
<1> DEFINE good == {m \in M : G!Close(pt[m[1]], onnx[m[2]])}
<1>1. /\ M \in SUBSET {m \in (DOMAIN pt) \X (DOMAIN onnx) : pt[m[1]].class = onnx[m[2]].class}
      /\ \A m, n \in M : m # n => m[1] # n[1] /\ m[2] # n[2]
  BY DEF G!Best, G!Pairings
<1>2. Cardinality(DOMAIN pt) = Cardinality(good) /\ Cardinality(DOMAIN onnx) = Cardinality(good)
  BY Counted DEF G!Passes
<1>3. PICK k \in 0..2 : DOMAIN pt = 1..k BY DEF G!Detections
<1>4. PICK l \in 0..2 : DOMAIN onnx = 1..l BY DEF G!Detections
<1>5. IsFiniteSet(DOMAIN pt) /\ Cardinality(DOMAIN pt) = k /\ Cardinality(DOMAIN onnx) = l
  <2>2. \A n \in 0..2 : IsFiniteSet(1..n) /\ Cardinality(1..n) = n
    <3> TAKE n \in 0..2
    <3>1. n \in Int /\ 1 \in Int OBVIOUS
    <3>2. IsFiniteSet(1..n) /\ Cardinality(1..n) = IF 1 > n THEN 0 ELSE n - 1 + 1
      BY ONLY <3>1, FS_Interval
    <3>3. CASE n = 0 BY <3>2, <3>3
    <3>4. CASE n > 0
      <4>1. ~(1 > n) /\ n - 1 + 1 = n BY <3>1, <3>4
      <4> QED BY <3>2, <4>1
    <3> QED BY <3>3, <3>4
  <2> QED BY <1>3, <1>4, <2>2
<1>6. DOMAIN pt = DOMAIN onnx BY <1>2, <1>3, <1>4, <1>5
<1>7. \A i \in DOMAIN pt : \E m \in good : m[1] = i
  <2> DEFINE g == [m \in good |-> m[1]]
  <2>1. g \in Injection(good, DOMAIN pt) BY <1>1 DEF Injection, IsInjective
  <2>2. g \in Surjection(good, DOMAIN pt) BY <1>2, <1>5, <2>1, FS_Injection
  <2> QED BY <2>2 DEF Surjection
<1> DEFINE f == [i \in DOMAIN pt |-> (CHOOSE m \in good : m[1] = i)[2]]
<1>8. \A i \in DOMAIN pt : \E m \in good : m[1] = i /\ f[i] = m[2] BY <1>7
<1>9. f \in [DOMAIN pt -> DOMAIN onnx] BY <1>1, <1>8
<1> HIDE DEF f
<1>10. \A i, j \in DOMAIN pt : f[i] = f[j] => i = j BY <1>1, <1>8
<1>11. \A i \in DOMAIN pt : pt[i].class = onnx[f[i]].class /\ G!Close(pt[i], onnx[f[i]])
  BY <1>1, <1>8
<1> QED BY <1>6, <1>9, <1>10, <1>11 DEF G!Match

LEMMA GateStep == ASSUME Amounts \subseteq Nat, GateInv, [G!Next]_G!vars PROVE GateInv'
<1>1. CASE G!Begin
  <2>1. images' \in Amounts /\ images' \in Nat /\ UNCHANGED <<passed, masks, agreed>>
    BY <1>1 DEF G!Begin
  <2>2. left' \subseteq 0..(images' - 1)
    <3>1. CASE left' = {} BY <3>1
    <3>2. CASE left' = G!Samples(images') /\ images' > 0 BY <2>1, <3>2, Sampled
    <3>3. CASE left' = G!Samples(images') /\ images' = 0 BY <3>3 DEF G!Samples, G!Limit
    <3> QED BY <1>1, <2>1, <3>1, <3>2, <3>3 DEF G!Begin
  <2>3. kind' \in {"detect", "segment"} /\ result' \in {"none", "failed"}
    BY <1>1 DEF G!Begin
  <2>4. GateTyped' BY <2>1, <2>2, <2>3 DEF GateInv, GateTyped
  <2> QED BY <2>1, <2>3, <2>4 DEF GateInv
<1>2. CASE G!Finish
  BY <1>2 DEF G!Finish, GateInv, GateTyped
<1>3. CASE \E i \in left : G!Compare(i)
  <2>1. PICK i \in left : G!Compare(i) BY <1>3
  <2>2. PICK pt \in G!Detections, onnx \in G!Detections :
          /\ \E M \in G!Best(pt, onnx) :
               /\ passed' = (passed /\ G!Passes(pt, onnx, M))
               /\ masks' = (masks /\ G!MasksPass(pt, onnx, M))
          /\ agreed' = (agreed /\ G!Match(pt, onnx))
    BY <2>1 DEF G!Compare
  <2>3. (passed' => agreed') /\ passed' \in BOOLEAN /\ masks' \in BOOLEAN /\ agreed' \in BOOLEAN
    BY <2>2, PairsMatch DEF GateInv
  <2> QED BY <2>1, <2>3 DEF G!Compare, GateInv, GateTyped
<1>4. CASE UNCHANGED G!vars
  BY <1>4 DEF G!vars, GateInv, GateTyped
<1> QED BY <1>1, <1>2, <1>3, <1>4 DEF G!Next

(* A comparison that still passes has matched every image so far.           *)
THEOREM GateInvariant == ASSUME Amounts \subseteq Nat PROVE G!Spec => []GateInv
<1>1. G!Init => GateInv BY DEF G!Init, GateInv, GateTyped
<1>2. GateInv /\ [G!Next]_G!vars => GateInv' BY GateStep
<1> QED BY <1>1, <1>2, PTL DEF G!Spec

(* The type invariant of the gate's comparison.                             *)
THEOREM GateTypeCorrect == ASSUME Amounts \subseteq Nat PROVE G!Spec => []G!TypeOK
<1>1. GateInv => G!TypeOK BY DEF GateInv, GateTyped, G!TypeOK
<1> QED BY <1>1, GateInvariant, PTL

(* GatePassesMatch: for any detections and any number of images, a gate     *)
(* that passes has compared five spread images, or all of fewer, and the    *)
(* detections of the two models match one to one on each.                   *)
THEOREM GateSound == ASSUME Amounts \subseteq Nat PROVE G!Spec => []G!GatePassesMatch
<1>0. \A n \in Amounts \cup {0} : n \in Nat OBVIOUS
<1>1. GateInv => G!GatePassesMatch
  <2> SUFFICES ASSUME GateInv PROVE G!GatePassesMatch OBVIOUS
  <2>1. ASSUME result \in {"passed", "masks differ"}
        PROVE  /\ images > 0 /\ {0, images - 1} \subseteq G!Samples(images)
               /\ Cardinality(G!Samples(images)) = G!SmallerOf(images, G!Limit)
               /\ G!Samples(images) \subseteq 0..(images - 1)
    <3>1. images > 0 /\ images \in Nat BY <1>0, <2>1 DEF GateInv, GateTyped
    <3> QED BY <3>1, Sampled
  <2> QED BY <2>1, Counted DEF GateInv, G!GatePassesMatch
<1> QED BY <1>1, GateInvariant, PTL

-----------------------------------------------------------------------------
(* Task cascades: what a deletion spares, and config against row.           *)

-----------------------------------------------------------------------------
LEMMA IdleDoes ==
  /\ T!Idle \in Cascading /\ T!Idle.at = "idle" /\ T!Idle.whole = FALSE /\ ~ T!OnTask(T!Idle)
  /\ T!Idle.name = NoName /\ T!Idle.release = 0 /\ T!Idle.training = 0 /\ T!Idle.model = 0
  BY DEF T!Idle, Cascading, TaskAts, T!OnTask

LEMMA TaskGoes ==
  ASSUME job \in [Workers -> Cascading], NEW w \in Workers, NEW j \in Cascading,
         job' = [job EXCEPT ![w] = j]
  PROVE  /\ job' \in [Workers -> Cascading] /\ job'[w] = j
         /\ \A v \in Workers \ {w} : job'[v] = job[v]
  OBVIOUS

(* A worker that is over.                                                    *)
LEMMA TaskEnds ==
  ASSUME CascadeInv, NEW w \in Workers, T!End(w)
  PROVE  /\ job' \in [Workers -> Cascading] /\ job'[w] = T!Idle
         /\ \A v \in Workers \ {w} : job'[v] = job[v]
         /\ late' = late \ {w}
         /\ UNCHANGED <<requests, made, troubles, overlapped>>
  BY IdleDoes DEF T!End, CascadeInv, CascadeTyped

(* A worker goes on.                                                         *)
LEMMA TaskGoesOn ==
  ASSUME CascadeInv, NEW w \in Workers, NEW step \in TaskAts, T!Go(w, step)
  PROVE  \E j \in Cascading :
           /\ job' \in [Workers -> Cascading] /\ job'[w] = j
           /\ \A v \in Workers \ {w} : job'[v] = job[v]
           /\ j.at = step /\ j.name = job[w].name /\ j.whole = job[w].whole
           /\ j.cascade = job[w].cascade /\ j.release = job[w].release
           /\ j.training = job[w].training /\ j.model = job[w].model
           /\ UNCHANGED <<requests, made, troubles>>
<1> DEFINE j == [job[w] EXCEPT !.at = step]
<1>1. job[w] \in Cascading BY DEF CascadeInv, CascadeTyped
<1>2. j \in Cascading BY <1>1 DEF Cascading
<1>3. /\ j.at = step /\ j.name = job[w].name /\ j.whole = job[w].whole
      /\ j.cascade = job[w].cascade /\ j.release = job[w].release
      /\ j.training = job[w].training /\ j.model = job[w].model
  BY <1>1 DEF Cascading
<1>4. job' = [job EXCEPT ![w] = j] /\ UNCHANGED <<requests, made, troubles>> BY DEF T!Go
<1> HIDE DEF j
<1>5. job \in [Workers -> Cascading] BY DEF CascadeInv, CascadeTyped
<1>6. /\ job' \in [Workers -> Cascading] /\ job'[w] = j
      /\ \A v \in Workers \ {w} : job'[v] = job[v]
  BY <1>2, <1>4, <1>5
<1> QED BY <1>2, <1>3, <1>4, <1>6

(* A request begins.                                                         *)
LEMMA TaskBegins ==
  ASSUME CascadeInv, NEW w \in Workers, NEW j \in Cascading, T!Begin(w, j), TaskNames(j),
         j.at \in {"create", "rewrite", "register", "look"},
         j.release = 0, j.training = 0, j.model = 0,
         T!Synced => Half(j)
  PROVE  CascadeInv'
<1> USE DEF CascadeInv
<1>1. /\ job' \in [Workers -> Cascading] /\ job'[w] = j /\ job[w] = T!Idle
      /\ \A v \in Workers \ {w} : job'[v] = job[v]
  BY DEF T!Begin, CascadeTyped
<1>2. /\ UNCHANGED <<config, T!rows, made, troubles, late, lost>> /\ requests' = requests + 1
      /\ overlapped' = (overlapped \/ (T!OnTask(j) /\ \E o \in Workers : T!OnTask(job[o])))
  BY DEF T!Begin
<1>3. UNCHANGED <<config, row, release, training, model, inference>> BY <1>2 DEF T!rows
<1>4. CascadeTyped' BY <1>1, <1>2, <1>3 DEF CascadeTyped, TaskNames
<1>5. Numbered'
  <2>1. 0 <= made BY DEF CascadeTyped
  <2>2. Seen(j)' BY <2>1, <1>2 DEF Seen
  <2> QED BY <2>2, <1>1, <1>2, <1>3 DEF Numbered, Seen
<1>6. Chained' BY <1>3 DEF Chained
<1>7. Spared' BY <1>1, <1>2, <1>3 DEF Spared, Sparing
<1>8. ASSUME ~ overlapped', troubles' = 0
      PROVE  /\ \A u, v \in Workers : T!OnTask(job'[u]) /\ T!OnTask(job'[v]) => u = v
             /\ \A v \in Workers : T!OnTask(job'[v]) => Half(job[v])'
             /\ (\A v \in Workers : ~ T!OnTask(job'[v])) => T!Synced'
  <2>1. ~ overlapped /\ troubles = 0 /\ ~ (T!OnTask(j) /\ \E o \in Workers : T!OnTask(job[o]))
    BY <1>8, <1>2
  <2>3. ~ T!OnTask(job[w]) BY <1>1, IdleDoes
  <2>4. CASE T!OnTask(j)
    <3>1. \A v \in Workers : ~ T!OnTask(job[v]) BY <2>1, <2>4
    <3>2. T!Synced /\ Half(j) BY <3>1, <2>1 DEF Agreeing
    <3> QED BY <1>1, <1>3, <2>1, <2>4, <3>1, <3>2 DEF Agreeing, Half, T!Synced, T!Known
  <2>5. CASE ~ T!OnTask(j)
    <3>1. \A v \in Workers : T!OnTask(job'[v]) => v # w /\ job'[v] = job[v] /\ T!OnTask(job[v])
      BY <1>1, <2>5
    <3>2. (\A v \in Workers : ~ T!OnTask(job'[v])) => \A v \in Workers : ~ T!OnTask(job[v])
      BY <1>1, <2>3
    <3> QED BY <1>1, <1>3, <2>1, <3>1, <3>2 DEF Agreeing, Half, T!Synced, T!Known
  <2> QED BY <2>4, <2>5
<1>9. Agreeing' BY <1>8 DEF Agreeing, T!OnTask, T!Idle
<1> QED BY <1>4, <1>5, <1>6, <1>7, <1>9

LEMMA TaskOpens ==
  ASSUME CascadeInv, NEW w \in Workers, NEW name \in Names,
         T!BeginCreate(w, name) \/ T!BeginUpdate(w, name)
  PROVE  CascadeInv'
<1>0. /\ [T!Idle EXCEPT !.at = "create", !.name = name] \in Cascading
      /\ [T!Idle EXCEPT !.at = "rewrite", !.name = name] \in Cascading
  BY DEF T!Idle, Cascading, TaskAts
<1>1. CASE T!BeginCreate(w, name)
  <2> DEFINE j == [T!Idle EXCEPT !.at = "create", !.name = name]
  <2>1. /\ j \in Cascading /\ j.at = "create" /\ j.name = name
        /\ j.release = 0 /\ j.training = 0 /\ j.model = 0
    BY <1>0 DEF T!Idle
  <2>2. T!Begin(w, j) /\ row = NoName /\ config = NoName BY <1>1 DEF T!BeginCreate
  <2> HIDE DEF j
  <2> QED BY <2>1, <2>2, TaskBegins DEF TaskNames, Half
<1>2. CASE T!BeginUpdate(w, name)
  <2> DEFINE j == [T!Idle EXCEPT !.at = "rewrite", !.name = name]
  <2>1. /\ j \in Cascading /\ j.at = "rewrite" /\ j.name = name
        /\ j.release = 0 /\ j.training = 0 /\ j.model = 0
    BY <1>0 DEF T!Idle
  <2>2. T!Begin(w, j) /\ row # NoName BY <1>2 DEF T!BeginUpdate
  <2> HIDE DEF j
  <2> QED BY <2>1, <2>2, TaskBegins DEF TaskNames, Half
<1> QED BY <1>1, <1>2

LEMMA TaskImports ==
  ASSUME CascadeInv, NEW w \in Workers, T!BeginImport(w) PROVE CascadeInv'
<1> DEFINE j == [T!Idle EXCEPT !.at = "register"]
<1>1. T!Known /\ T!Begin(w, j) BY DEF T!BeginImport
<1>2. /\ j \in Cascading /\ j.at = "register"
      /\ j.release = 0 /\ j.training = 0 /\ j.model = 0
  BY DEF T!Idle, Cascading, TaskAts
<1> HIDE DEF j
<1> QED BY <1>1, <1>2, TaskBegins DEF TaskNames, Half

LEMMA TaskDrops ==
  ASSUME CascadeInv, NEW w \in Workers, NEW whole \in BOOLEAN, NEW cascade \in BOOLEAN,
         T!BeginDelete(w, whole, cascade)
  PROVE  CascadeInv'
<1> DEFINE j == [T!Idle EXCEPT !.at = "look", !.whole = whole, !.cascade = cascade]
<1>1. /\ j \in Cascading /\ j.at = "look"
      /\ j.release = 0 /\ j.training = 0 /\ j.model = 0
  BY DEF T!Idle, Cascading, TaskAts
<1>2. T!Begin(w, j) BY DEF T!BeginDelete
<1> HIDE DEF j
<1> QED BY <1>1, <1>2, TaskBegins DEF TaskNames, Half

(* A worker moves: what it did to config and row is what its request is to   *)
(* do, and one that is not about the task does neither.                      *)
LEMMA AgreesOn ==
  ASSUME CascadeInv, NEW w \in Workers,
         \A v \in Workers \ {w} : job'[v] = job[v],
         UNCHANGED <<troubles, overlapped>>,
         T!OnTask(job[w]) /\ Half(job[w])
           => IF T!OnTask(job'[w]) THEN Half(job[w])' ELSE T!Synced',
         ~ T!OnTask(job[w]) => ~ T!OnTask(job'[w]) /\ UNCHANGED <<config, row>>
  PROVE  Agreeing'
<1> SUFFICES ASSUME ~ overlapped, troubles = 0
             PROVE  /\ \A u, v \in Workers : T!OnTask(job'[u]) /\ T!OnTask(job'[v]) => u = v
                    /\ \A v \in Workers : T!OnTask(job'[v]) => Half(job[v])'
                    /\ (\A v \in Workers : ~ T!OnTask(job'[v])) => T!Synced'
  BY DEF Agreeing, T!OnTask, T!Idle
<1>1. /\ \A u, v \in Workers : T!OnTask(job[u]) /\ T!OnTask(job[v]) => u = v
      /\ \A v \in Workers : T!OnTask(job[v]) => Half(job[v])
      /\ (\A v \in Workers : ~ T!OnTask(job[v])) => T!Synced
  BY DEF CascadeInv, Agreeing
<1>2. \A v \in Workers : T!OnTask(job'[v]) => T!OnTask(job[v]) BY <1>1
<1>4. CASE T!OnTask(job[w])
  <2>1. \A v \in Workers : T!OnTask(job'[v]) => v = w BY <1>1, <1>2, <1>4
  <2> QED BY <1>1, <1>2, <1>4, <2>1
<1>5. CASE ~ T!OnTask(job[w])
  <2>1. \A v \in Workers : T!OnTask(job'[v]) => v # w /\ job'[v] = job[v] BY <1>5
  <2>2. (\A v \in Workers : ~ T!OnTask(job'[v])) => \A v \in Workers : ~ T!OnTask(job[v])
    BY <1>5
  <2>3. \A v \in Workers : T!OnTask(job'[v]) => Half(job[v])'
    BY <1>1, <1>5, <2>1 DEF Half, T!Synced, T!Known
  <2>4. T!Synced => T!Synced' BY <1>5 DEF T!Synced
  <2> QED BY <1>1, <1>2, <1>5, <2>2, <2>3, <2>4
<1> QED BY <1>4, <1>5

LEMMA TaskWrites == ASSUME CascadeInv, NEW w \in Workers, T!Write(w) PROVE CascadeInv'
<1> DEFINE step == IF job[w].at = "create" THEN "insert" ELSE "update"
<1>1. /\ job[w].at \in {"create", "rewrite"} /\ config' = job[w].name /\ T!Go(w, step)
      /\ UNCHANGED <<row, release, training, model, inference, late, lost, overlapped>>
  BY DEF T!Write, T!rows, T!history
<1>2. step \in TaskAts BY DEF TaskAts
<1> HIDE DEF step
<1>3. PICK j \in Cascading :
           /\ job' \in [Workers -> Cascading] /\ job'[w] = j
           /\ \A v \in Workers \ {w} : job'[v] = job[v]
           /\ j.at = step /\ j.name = job[w].name /\ j.whole = job[w].whole
           /\ j.cascade = job[w].cascade /\ j.release = job[w].release
           /\ j.training = job[w].training /\ j.model = job[w].model
           /\ UNCHANGED <<requests, made, troubles>>
  BY <1>1, <1>2, TaskGoesOn
<1>4. step \in {"insert", "update"} /\ (step = "insert" <=> job[w].at = "create")
  BY <1>1 DEF step
<1>5. CascadeTyped'
  BY <1>1, <1>3, <1>4 DEF CascadeInv, CascadeTyped, TaskNames
<1>6. Numbered' BY <1>1, <1>3 DEF CascadeInv, Numbered, Seen
<1>7. Chained' BY <1>1 DEF CascadeInv, Chained
<1>8. Spared' BY <1>1, <1>3, <1>4 DEF CascadeInv, Spared, Sparing
<1>9. Agreeing'
  <2>1. T!OnTask(job[w]) /\ T!OnTask(job'[w])
    BY <1>1, <1>3, <1>4, IdleDoes DEF T!OnTask
  <2>2. Half(job[w]) => Half(job[w])' BY <1>1, <1>3, <1>4 DEF Half
  <2> QED BY <1>1, <1>3, <1>4, <2>1, <2>2, AgreesOn
<1> QED BY <1>5, <1>6, <1>7, <1>8, <1>9 DEF CascadeInv

(* A worker that ends, what it has written apart.                            *)
LEMMA TaskCloses ==
  ASSUME CascadeInv, NEW w \in Workers, T!End(w),
         UNCHANGED <<release, training, model, inference, lost>>,
         row' \in Names \cup {NoName, Bare}, config' \in Names \cup {NoName, Shipped},
         row # NoName \/ release = 0 => row' # NoName \/ release = 0,
         T!OnTask(job[w]) /\ Half(job[w]) => T!Synced',
         ~ T!OnTask(job[w]) => UNCHANGED <<config, row>>
  PROVE  CascadeInv'
<1>1. /\ job' \in [Workers -> Cascading] /\ job'[w] = T!Idle
      /\ \A v \in Workers \ {w} : job'[v] = job[v]
      /\ late' = late \ {w} /\ UNCHANGED <<requests, made, troubles, overlapped>>
  BY TaskEnds
<1>2. CascadeTyped' BY <1>1, IdleDoes DEF CascadeInv, CascadeTyped, TaskNames
<1>3. Numbered'
  <2>1. 0 <= made BY DEF CascadeInv, CascadeTyped
  <2> QED BY <1>1, <2>1, IdleDoes DEF CascadeInv, Numbered, Seen
<1>4. Chained' BY DEF CascadeInv, Chained
<1>5. Spared' BY <1>1, IdleDoes DEF CascadeInv, Spared, Sparing
<1>6. Agreeing' BY <1>1, IdleDoes, AgreesOn
<1> QED BY <1>2, <1>3, <1>4, <1>5, <1>6 DEF CascadeInv

LEMMA TaskCommits ==
  ASSUME CascadeInv, NamesApart, NEW w \in Workers, T!Commit(w) PROVE CascadeInv'
<1>1. /\ job[w].at \in {"insert", "update", "register"} /\ T!End(w)
      /\ job[w].at = "insert" => row' = IF row = NoName THEN job[w].name ELSE row
      /\ job[w].at = "update" => row' = IF row # NoName THEN job[w].name ELSE row
      /\ job[w].at = "register" => row' = IF row = NoName THEN Bare ELSE row
      /\ UNCHANGED <<config, release, training, model, inference, lost>>
  BY DEF T!Commit
<1>2. /\ job[w].at # "register" => job[w].name \in Names
      /\ row \in Names \cup {NoName, Bare} /\ config \in Names \cup {NoName, Shipped}
      /\ job[w] # T!Idle
  BY <1>1, IdleDoes DEF CascadeInv, CascadeTyped, TaskNames
<1>3. T!OnTask(job[w]) BY <1>1, <1>2 DEF T!OnTask
<1>4. Half(job[w]) => T!Synced'
  <2>1. CASE job[w].at = "insert"
    BY <1>1, <1>2, <2>1 DEF Half, NamesApart, T!Synced
  <2>2. CASE job[w].at = "update"
    BY <1>1, <1>2, <2>2 DEF Half, NamesApart, T!Synced
  <2>3. CASE job[w].at = "register"
    BY <1>1, <1>2, <2>3 DEF Half, NamesApart, T!Synced, T!Known
  <2> QED BY <1>1, <2>1, <2>2, <2>3
<1>5. row # NoName \/ release = 0 => row' # NoName \/ release = 0
  BY <1>1, <1>2 DEF NamesApart
<1>6. row' \in Names \cup {NoName, Bare} BY <1>1, <1>2
<1> QED BY <1>1, <1>2, <1>3, <1>4, <1>5, <1>6, TaskCloses

(* A deletion goes on: it has read rows that it may delete later.            *)
LEMMA TaskChecks ==
  ASSUME CascadeInv, NEW w \in Workers, NEW j \in Cascading,
         job' = [job EXCEPT ![w] = j], j.whole = job[w].whole, Seen(j),
         job[w].at \in {"look", "runs", "check"}, j.at \in {"runs", "check", "delete"},
         j.at \in {"check", "delete"} /\ j.training # 0
           => ~ (training.no = j.training /\ training.active),
         j.at = "delete" /\ j.model # 0 => ~ (j.model = model /\ inference.active),
         UNCHANGED <<config, T!rows, requests, made, troubles, T!history>>
  PROVE  CascadeInv'
<1>0. job \in [Workers -> Cascading] BY DEF CascadeInv, CascadeTyped
<1>1. /\ job' \in [Workers -> Cascading] /\ job'[w] = j
      /\ \A v \in Workers \ {w} : job'[v] = job[v]
  BY <1>0
<1>2. UNCHANGED <<config, row, release, training, model, inference, requests, made, troubles,
                  late, lost, overlapped>>
  BY DEF T!rows, T!history
<1>3. CascadeTyped' BY <1>1, <1>2 DEF CascadeInv, CascadeTyped, TaskNames
<1>4. Numbered' BY <1>1, <1>2 DEF CascadeInv, Numbered, Seen
<1>5. Chained' BY <1>2 DEF CascadeInv, Chained
<1>6. Spared' BY <1>1, <1>2 DEF CascadeInv, Spared, Sparing
<1>7. T!OnTask(job[w]) = T!OnTask(j)
  <2>1. job[w] # T!Idle /\ j # T!Idle BY IdleDoes
  <2>2. job[w].whole \in BOOLEAN BY <1>0 DEF Cascading
  <2> QED BY <2>1, <2>2 DEF T!OnTask
<1>8. Half(job[w]) => Half(job[w])' BY <1>1, <1>2 DEF Half, T!Synced, T!Known
<1>9. Agreeing' BY <1>1, <1>2, <1>7, <1>8, AgreesOn
<1> QED BY <1>3, <1>4, <1>5, <1>6, <1>9 DEF CascadeInv

LEMMA TaskLooks ==
  ASSUME CascadeInv, NEW w \in Workers, T!Look(w) \/ T!Runs(w) \/ T!Check(w) PROVE CascadeInv'
<1>0. /\ job[w] \in Cascading /\ release \in Nat /\ model \in Nat /\ made \in Nat
      /\ training \in [no : Nat, active : BOOLEAN]
      /\ row \in Names \cup {NoName, Bare} /\ config \in Names \cup {NoName, Shipped}
  BY DEF CascadeInv, CascadeTyped
<1>1. Seen(job[w]) /\ release <= made /\ training.no <= made /\ model <= made
  BY DEF CascadeInv, Numbered
<1>2. job[w].at \in {"look", "runs", "check"} /\ UNCHANGED <<config, T!rows>>
  BY DEF T!Look, T!Runs, T!Check
<1>3. CASE T!End(w) /\ UNCHANGED lost
  <2>1. UNCHANGED <<row, release, training, model, inference>> BY <1>2 DEF T!rows
  <2>2. Half(job[w]) => T!Synced' BY <1>2, <2>1 DEF Half, T!Synced
  <2> QED BY <1>0, <1>2, <1>3, <2>1, <2>2, TaskCloses
<1>4. CASE T!Look(w) /\ ~ (T!End(w) /\ UNCHANGED lost)
  <2> DEFINE j == [job[w] EXCEPT !.at = "runs", !.release = release]
  <2>1. /\ j \in Cascading /\ j.at = "runs" /\ j.whole = job[w].whole /\ j.release = release
        /\ j.training = job[w].training /\ j.model = job[w].model
    BY <1>0 DEF Cascading, TaskAts
  <2>2. /\ job' = [job EXCEPT ![w] = j] /\ UNCHANGED <<requests, made, troubles, T!history>>
    BY <1>4 DEF T!Look
  <2> HIDE DEF j
  <2>3. Seen(j) BY <1>1, <2>1 DEF Seen
  <2> QED BY <1>2, <2>1, <2>2, <2>3, TaskChecks
<1>5. CASE T!Runs(w) /\ ~ (T!End(w) /\ UNCHANGED lost)
  <2> DEFINE its == job[w].release # 0 /\ release = job[w].release
             t == IF its THEN training.no ELSE 0
             m == IF its THEN model ELSE 0
             j == [job[w] EXCEPT !.at = "check", !.training = t, !.model = m]
  <2>1. t \in Nat /\ m \in Nat /\ t <= made /\ m <= made BY <1>0, <1>1
  <2>2. t # 0 => its /\ t = training.no OBVIOUS
  <2>3. /\ ~ (its /\ training.active)
        /\ job' = [job EXCEPT ![w] = j] /\ UNCHANGED <<requests, made, troubles, T!history>>
    BY <1>5 DEF T!Runs
  <2>4. /\ j.at = "check" /\ j.whole = job[w].whole /\ j.release = job[w].release
        /\ j.training = t /\ j.model = m
    BY <1>0 DEF Cascading
  <2>5. j \in Cascading BY <1>0, <2>1 DEF Cascading, TaskAts
  <2>6. t # 0 => ~ training.active BY <2>2, <2>3
  <2> HIDE DEF j, t, m, its
  <2>7. Seen(j) BY <1>1, <2>1, <2>4 DEF Seen
  <2> QED BY <1>2, <2>3, <2>4, <2>5, <2>6, <2>7, TaskChecks
<1>6. CASE T!Check(w) /\ ~ (T!End(w) /\ UNCHANGED lost)
  <2> DEFINE j == [job[w] EXCEPT !.at = "delete"]
  <2>1. /\ j \in Cascading /\ j.at = "delete" /\ j.whole = job[w].whole
        /\ j.release = job[w].release /\ j.training = job[w].training
        /\ j.model = job[w].model
    BY <1>0 DEF Cascading, TaskAts
  <2>2. /\ job[w].at = "check" /\ ~ T!ActiveInference(w)
        /\ job' = [job EXCEPT ![w] = j] /\ UNCHANGED <<requests, made, troubles, T!history>>
    BY <1>6 DEF T!Check, T!Go
  <2> HIDE DEF j
  <2>3. Seen(j) BY <1>1, <2>1 DEF Seen
  <2>4. j.training # 0 => ~ (training.no = j.training /\ training.active)
    BY <2>1, <2>2 DEF CascadeInv, Spared, Sparing
  <2>5. j.model # 0 => ~ (j.model = model /\ inference.active)
    BY <2>1, <2>2 DEF T!ActiveInference
  <2> QED BY <1>2, <2>1, <2>2, <2>3, <2>4, <2>5, TaskChecks
<1> QED BY <1>3, <1>4, <1>5, <1>6

(* The transaction of a deletion.                                            *)
LEMMA TaskDeletes ==
  ASSUME CascadeInv, NamesApart, NEW w \in Workers, T!Delete(w) PROVE CascadeInv'
<1>0. /\ job[w] \in Cascading /\ release \in Nat /\ model \in Nat /\ made \in Nat
      /\ training \in [no : Nat, active : BOOLEAN]
      /\ inference \in [no : Nat, active : BOOLEAN]
      /\ row \in Names \cup {NoName, Bare} /\ config \in Names \cup {NoName, Shipped}
      /\ lost = FALSE /\ job[w].whole \in BOOLEAN
  BY DEF CascadeInv, CascadeTyped, Spared, Cascading
<1> DEFINE j == job[w]
           models == j.model # 0 /\ model = j.model
           runs == j.training # 0 /\ training.no = j.training
           held == \/ runs /\ model # 0 /\ ~models
                   \/ /\ release # 0 /\ release = j.release
                      /\ (training.no # 0 /\ ~runs) \/ (model # 0 /\ ~models)
                   \/ j.whole /\ release # 0 /\ release # j.release
<1>1. j.at = "delete" /\ config' = config BY DEF T!Delete
<1>2. CASE held
  <2>1. T!End(w) /\ UNCHANGED <<row, release, training, model, inference, lost>>
    BY <1>2 DEF T!Delete, T!rows
  <2>2. Half(job[w]) => T!Synced' BY <1>1, <2>1 DEF Half, T!Synced
  <2> QED BY <1>0, <1>1, <2>1, <2>2, TaskCloses
<1>3. CASE ~ held
  <2>1. /\ model' = IF models THEN 0 ELSE model
        /\ inference' = IF models THEN T!Gone ELSE inference
        /\ training' = IF runs THEN T!Gone ELSE training
        /\ release' = IF release = j.release THEN 0 ELSE release
        /\ row' = IF j.whole THEN NoName ELSE row
        /\ lost' = (lost \/ (models /\ inference.active /\ w \notin late)
                         \/ (runs /\ training.active))
        /\ IF j.whole THEN T!Go(w, "config") /\ UNCHANGED <<late, overlapped>> ELSE T!End(w)
    BY <1>3 DEF T!Delete
  <2>2. T!Gone \in [no : Nat, active : BOOLEAN] /\ T!Gone.no = 0 /\ T!Gone.active = FALSE
    BY DEF T!Gone
  <2>3. lost' = FALSE
    <3>1. models /\ inference.active => w \in late
      BY <1>1 DEF CascadeInv, Spared, Sparing
    <3>2. ~ (runs /\ training.active)
      BY <1>1 DEF CascadeInv, Spared, Sparing
    <3> QED BY <1>0, <2>1, <3>1, <3>2
  <2>4. PICK k \in Cascading :
             /\ job' \in [Workers -> Cascading] /\ job'[w] = k
             /\ \A v \in Workers \ {w} : job'[v] = job[v]
             /\ k.at = IF j.whole THEN "config" ELSE "idle"
             /\ k.at = "config" => k.whole
             /\ (k.at = "idle" => k = T!Idle)
             /\ Seen(k) /\ k.at \notin {"check", "delete"}
             /\ late' \subseteq late /\ late \ {w} \subseteq late'
             /\ UNCHANGED <<requests, made, troubles, overlapped>>
    <3>1. Seen(j) /\ Seen(T!Idle)
      BY <1>0, IdleDoes DEF CascadeInv, Numbered, Seen
    <3>2. CASE j.whole
      <4>1. T!Go(w, "config") /\ UNCHANGED <<late, overlapped>> /\ "config" \in TaskAts
        BY <2>1, <3>2 DEF TaskAts
      <4>2. PICK k \in Cascading :
           /\ job' \in [Workers -> Cascading] /\ job'[w] = k
           /\ \A v \in Workers \ {w} : job'[v] = job[v]
           /\ k.at = "config" /\ k.name = job[w].name /\ k.whole = job[w].whole
           /\ k.cascade = job[w].cascade /\ k.release = job[w].release
           /\ k.training = job[w].training /\ k.model = job[w].model
           /\ UNCHANGED <<requests, made, troubles>>
        BY <4>1, TaskGoesOn
      <4>3. Seen(k) BY <3>1, <4>2 DEF Seen
      <4> QED BY <3>2, <4>1, <4>2, <4>3
    <3>3. CASE ~ j.whole
      <4>1. T!End(w) BY <2>1, <3>3
      <4>2. /\ job' \in [Workers -> Cascading] /\ job'[w] = T!Idle
            /\ \A v \in Workers \ {w} : job'[v] = job[v]
            /\ late' = late \ {w}
            /\ UNCHANGED <<requests, made, troubles, overlapped>>
        BY <4>1, TaskEnds
      <4> QED BY <3>1, <3>3, <4>2, IdleDoes
    <3> QED BY <3>2, <3>3
  <2>5. Chained /\ release <= made /\ training.no <= made /\ model <= made
          /\ inference.no <= made
    BY DEF CascadeInv, Numbered
  <2>6. Chained'
    BY <1>0, <1>3, <2>1, <2>2, <2>5 DEF Chained
  <2>7. CascadeTyped'
    <3>1. TaskNames(k)
      BY <2>4 DEF TaskNames
    <3>2. late' \subseteq Workers BY <2>4 DEF CascadeInv, CascadeTyped
    <3>3. /\ model' \in Nat /\ release' \in Nat /\ row' \in Names \cup {NoName, Bare}
          /\ training' \in [no : Nat, active : BOOLEAN]
          /\ inference' \in [no : Nat, active : BOOLEAN]
      BY <1>0, <2>1, <2>2
    <3> QED
      BY <1>0, <1>1, <2>3, <2>4, <3>1, <3>2, <3>3 DEF CascadeInv, CascadeTyped, TaskNames
  <2>8. Numbered'
    <3>1. release' <= made /\ training'.no <= made /\ model' <= made /\ inference'.no <= made
      BY <1>0, <2>1, <2>2, <2>5
    <3> QED BY <2>4, <3>1 DEF CascadeInv, Numbered, Seen
  <2>9. Spared'
    <3>1. ASSUME NEW v \in Workers PROVE Sparing(v)'
      <4>1. CASE v = w BY <2>4, <4>1 DEF Sparing
      <4>2. CASE v # w
        <5>1. job'[v] = job[v] /\ Sparing(v) /\ (v \in late => v \in late')
          BY <2>4, <4>2 DEF CascadeInv, Spared
        <5>2. training' = training \/ (training'.no = 0 /\ training'.active = FALSE)
          BY <2>1, <2>2
        <5>3. (model' = model /\ inference' = inference) \/ inference'.active = FALSE
          BY <2>1, <2>2
        <5> QED BY <5>1, <5>2, <5>3 DEF Sparing
      <4> QED BY <4>1, <4>2
    <3> QED BY <2>3, <3>1 DEF Spared
  <2>10. Agreeing'
    <3>1. CASE j.whole
      <4>1. T!OnTask(job[w]) /\ row' = NoName BY <1>1, <2>1, <3>1, IdleDoes DEF T!OnTask
      <4>2. k.at = "config" BY <2>4, <3>1
      <4>3. T!OnTask(k) BY <4>2, <2>4, IdleDoes DEF T!OnTask
      <4>4. Half(job[w])' BY <2>4, <4>1, <4>2 DEF Half
      <4> QED BY <2>4, <4>1, <4>3, <4>4, AgreesOn
    <3>2. CASE ~ j.whole
      <4>1. ~ T!OnTask(job[w]) /\ UNCHANGED <<config, row>> /\ k = T!Idle
        BY <1>1, <2>1, <2>4, <3>2 DEF T!OnTask
      <4> QED BY <2>4, <4>1, IdleDoes, AgreesOn
    <3> QED BY <3>1, <3>2
  <2> QED BY <2>6, <2>7, <2>8, <2>9, <2>10 DEF CascadeInv
<1> QED BY <1>2, <1>3

LEMMA TaskUnlinks ==
  ASSUME CascadeInv, NamesApart, NEW w \in Workers, T!Unlink(w) PROVE CascadeInv'
<1>1. /\ job[w].at = "config" /\ config' = NoName /\ T!End(w)
      /\ UNCHANGED <<row, release, training, model, inference, lost>>
  BY DEF T!Unlink, T!rows
<1>2. row \in Names \cup {NoName, Bare} BY DEF CascadeInv, CascadeTyped
<1>3. T!OnTask(job[w])
  BY <1>1, IdleDoes DEF CascadeInv, CascadeTyped, TaskNames, T!OnTask
<1>4. Half(job[w]) => T!Synced' BY <1>1 DEF Half, T!Synced, NamesApart
<1> QED BY <1>1, <1>2, <1>3, <1>4, TaskCloses

-----------------------------------------------------------------------------
(* The steps of other requests.                                              *)
LEMMA RowsKeep ==
  ASSUME CascadeInv,
         T!Publish \/ T!Train \/ T!EndTraining \/ T!Register \/ T!Infer \/ T!EndInference
  PROVE  CascadeInv'
<1>0. /\ release \in Nat /\ model \in Nat /\ made \in Nat
      /\ training \in [no : Nat, active : BOOLEAN]
      /\ inference \in [no : Nat, active : BOOLEAN] /\ late \subseteq Workers
      /\ job \in [Workers -> Cascading]
  BY DEF CascadeInv, CascadeTyped
<1>1. UNCHANGED <<config, row, job, requests, troubles, lost, overlapped>>
  BY DEF T!Publish, T!Train, T!EndTraining, T!Register, T!Infer, T!EndInference, T!history
<1>2. /\ made' \in Nat /\ made <= made' /\ made + 1 > made
      /\ made' = made \/ made' = made + 1
  BY <1>0 DEF T!Publish, T!Train, T!EndTraining, T!Register, T!Infer, T!EndInference, T!Make
<1>3. /\ release <= made /\ training.no <= made /\ model <= made /\ inference.no <= made
      /\ \A w \in Workers : Seen(job[w])
  BY DEF CascadeInv, Numbered
<1>4. /\ release' = release \/ (release' = made' /\ made' = made + 1 /\ release = 0 /\ row # NoName)
      /\ model' = model \/ (model' = made' /\ made' = made + 1 /\ model = 0 /\ training.no # 0
                            /\ inference' = inference)
  BY DEF T!Publish, T!Train, T!EndTraining, T!Register, T!Infer, T!EndInference, T!Make
<1>5. /\ training' \in [no : Nat, active : BOOLEAN]
      /\ \/ training' = training
         \/ training'.no = training.no /\ training'.active = FALSE
         \/ training'.no = made + 1 /\ made' = made + 1 /\ training.no = 0 /\ release # 0
            /\ UNCHANGED <<release, model, inference>>
  <2>1. CASE T!Train
    <3>1. training' = [no |-> made + 1, active |-> TRUE] /\ made' = made + 1
          /\ training.no = 0 /\ release # 0 /\ UNCHANGED <<release, model, inference>>
      BY <2>1 DEF T!Train, T!Make
    <3> QED BY <1>0, <3>1
  <2>2. CASE T!EndTraining
    BY <1>0, <2>2 DEF T!EndTraining
  <2>3. CASE T!Publish \/ T!Register \/ T!Infer \/ T!EndInference
    BY <1>0, <2>3 DEF T!Publish, T!Register, T!Infer, T!EndInference
  <2> QED BY <2>1, <2>2, <2>3
<1>6. /\ inference' \in [no : Nat, active : BOOLEAN]
      /\ late' \subseteq Workers
      /\ \/ inference' = inference /\ late' = late
         \/ inference'.no = inference.no /\ inference'.active = FALSE /\ late' = late
            /\ UNCHANGED <<release, training, model>>
         \/ inference'.no = made' /\ model # 0 /\ late' = {w \in Workers : job[w].at = "delete"}
            /\ UNCHANGED <<release, training, model>>
  <2>1. CASE T!Infer
    <3>1. inference' = [no |-> made', active |-> TRUE] /\ model # 0
          /\ late' = {w \in Workers : job[w].at = "delete"}
          /\ UNCHANGED <<release, training, model>>
      BY <2>1 DEF T!Infer, T!Make
    <3> QED BY <1>0, <1>2, <3>1
  <2>2. CASE T!EndInference
    BY <1>0, <2>2 DEF T!EndInference, T!history
  <2>3. CASE T!Publish \/ T!Register \/ T!Train \/ T!EndTraining
    BY <1>0, <2>3 DEF T!Publish, T!Register, T!Train, T!EndTraining, T!history
  <2> QED BY <2>1, <2>2, <2>3
<1>7. CascadeTyped'
  <2>1. release' \in Nat /\ model' \in Nat BY <1>0, <1>2, <1>4
  <2> QED BY <1>0, <1>1, <1>2, <1>5, <1>6, <2>1 DEF CascadeInv, CascadeTyped, TaskNames
<1>8. Numbered'
  <2>1. \A w \in Workers : Seen(job[w])'
    <3>1. \A w \in Workers : job[w].release \in Nat /\ job[w].training \in Nat
           /\ job[w].model \in Nat
      BY <1>0 DEF Cascading
    <3> QED BY <1>0, <1>1, <1>2, <1>3, <3>1 DEF Seen
  <2>2. release' <= made' /\ model' <= made' BY <1>0, <1>2, <1>3, <1>4
  <2>3. training'.no <= made' BY <1>0, <1>2, <1>3, <1>5
  <2>4. inference'.no <= made' BY <1>0, <1>2, <1>3, <1>6
  <2> QED BY <2>1, <2>2, <2>3, <2>4 DEF Numbered
<1>9. Chained'
  <2>1. Chained BY DEF CascadeInv
  <2> QED BY <1>0, <1>1, <1>2, <1>4, <1>5, <1>6, <2>1 DEF Chained
<1>10. Spared'
  <2>1. ASSUME NEW w \in Workers PROVE Sparing(w)'
    <3>1. Sparing(w) /\ job'[w] = job[w] /\ Seen(job[w]) BY <1>1, <1>3 DEF CascadeInv, Spared
    <3>2. job[w].training <= made /\ job[w].model <= made
          /\ job[w].training \in Nat /\ job[w].model \in Nat
      BY <1>0, <3>1 DEF Seen, Cascading
    <3>3. job[w].training # made + 1 /\ job[w].model # made + 1 BY <1>0, <3>2
    <3>4. training'.no = job[w].training /\ training'.active
            => training.no = job[w].training /\ training.active
      BY <1>5, <3>3
    <3>5. job[w].model = model' /\ inference'.active /\ job[w].at = "delete" /\ job[w].model # 0
            => w \in late' \/ (job[w].model = model /\ inference.active /\ late' = late)
      BY <1>4, <1>6, <3>3
    <3> QED BY <3>1, <3>4, <3>5 DEF Sparing
  <2> QED BY <1>1, <2>1 DEF CascadeInv, Spared
<1>11. Agreeing' BY <1>1 DEF CascadeInv, Agreeing, Half, T!OnTask, T!Synced, T!Known
<1> QED BY <1>7, <1>8, <1>9, <1>10, <1>11 DEF CascadeInv

LEMMA TaskTroubles ==
  ASSUME CascadeInv, NEW W \in SUBSET Workers, T!Trouble(W) PROVE CascadeInv'
<1>1. /\ job' = [w \in Workers |-> IF w \in W THEN T!Idle ELSE job[w]] /\ late' = late \ W
      /\ troubles' = troubles + 1
      /\ UNCHANGED <<config, row, release, training, model, inference, requests, made, lost,
                     overlapped>>
  BY DEF T!Trouble, T!rows
<1>2. troubles \in Nat /\ job \in [Workers -> Cascading] /\ 0 <= made
  BY DEF CascadeInv, CascadeTyped
<1>3. troubles' \in Nat /\ troubles' # 0 BY <1>1, <1>2
<1>4. \A w \in Workers : IF w \in W THEN job'[w] = T!Idle ELSE job'[w] = job[w] BY <1>1
<1>5. CascadeTyped'
  BY <1>1, <1>2, <1>3, <1>4, IdleDoes DEF CascadeInv, CascadeTyped, TaskNames
<1>6. Numbered' BY <1>1, <1>2, <1>4, IdleDoes DEF CascadeInv, Numbered, Seen
<1>7. Chained' BY <1>1 DEF CascadeInv, Chained
<1>8. Spared' BY <1>1, <1>4, IdleDoes DEF CascadeInv, Spared, Sparing
<1>9. Agreeing' BY <1>3 DEF Agreeing
<1> QED BY <1>5, <1>6, <1>7, <1>8, <1>9 DEF CascadeInv

LEMMA CascadeStep == ASSUME CascadeInv, NamesApart, [T!Next]_T!vars PROVE CascadeInv'
<1>1. CASE T!Publish \/ T!Train \/ T!EndTraining \/ T!Register \/ T!Infer \/ T!EndInference
  BY <1>1, RowsKeep
<1>2. CASE T!Trouble(Workers) BY <1>2, TaskTroubles
<1>3. ASSUME NEW w \in Workers,
             \/ \E name \in Names : T!BeginCreate(w, name) \/ T!BeginUpdate(w, name)
             \/ T!BeginImport(w) \/ \E whole, cascade \in BOOLEAN : T!BeginDelete(w, whole, cascade)
      PROVE  CascadeInv'
  <2>1. TRUE \in BOOLEAN OBVIOUS
  <2>2. CASE \E name \in Names : T!BeginCreate(w, name) \/ T!BeginUpdate(w, name)
    BY <2>1, <2>2, TaskOpens
  <2>3. CASE T!BeginImport(w) BY <2>1, <2>3, TaskImports
  <2>4. CASE \E whole, cascade \in BOOLEAN : T!BeginDelete(w, whole, cascade)
    BY <2>4, TaskDrops
  <2> QED BY <1>3, <2>2, <2>3, <2>4
<1>4. ASSUME NEW w \in Workers,
             T!Write(w) \/ T!Commit(w) \/ T!Look(w) \/ T!Runs(w) \/ T!Check(w) \/ T!Delete(w)
                  \/ T!Unlink(w)
      PROVE  CascadeInv'
  BY <1>4, TaskWrites, TaskCommits, TaskLooks, TaskDeletes, TaskUnlinks
<1>5. ASSUME NEW w \in Workers, T!Trouble({w}) PROVE CascadeInv'
  BY <1>5, TaskTroubles
<1>6. CASE UNCHANGED T!vars
  BY <1>6 DEF T!vars, CascadeInv, CascadeTyped, Numbered, Seen, Chained, Spared, Sparing,
    Agreeing, Half, T!OnTask, T!Synced, T!Known
<1> QED BY <1>1, <1>2, <1>3, <1>4, <1>5, <1>6 DEF T!Next

LEMMA CascadeInitial == ASSUME NamesApart, T!Init PROVE CascadeInv
<1>1. job \in [Workers -> Cascading] /\ \A w \in Workers : job[w] = T!Idle BY IdleDoes DEF T!Init
<1>2. T!Gone \in [no : Nat, active : BOOLEAN] /\ T!Gone.no = 0
       /\ T!Gone.active = FALSE BY DEF T!Gone
<1>3. CascadeTyped BY <1>1, <1>2, IdleDoes DEF T!Init, CascadeTyped, TaskNames
<1>4. Numbered BY <1>1, <1>2, IdleDoes DEF T!Init, Numbered, Seen
<1>5. Chained BY <1>2 DEF T!Init, Chained
<1>6. Spared BY <1>1, IdleDoes DEF T!Init, Spared, Sparing
<1>7. Agreeing BY <1>1, IdleDoes DEF T!Init, Agreeing, T!Synced, NamesApart
<1> QED BY <1>3, <1>4, <1>5, <1>6, <1>7 DEF CascadeInv

(* Through every order of requests about a task, runs that begin and end,    *)
(* failing sessions and crashes: what a deletion has read is over or, if it  *)
(* began since, known to be late, and what is written of the task agrees.    *)
THEOREM CascadeInvariant == ASSUME NamesApart PROVE T!Spec => []CascadeInv
<1>1. T!Init => CascadeInv BY CascadeInitial
<1>2. CascadeInv /\ [T!Next]_T!vars => CascadeInv' BY CascadeStep
<1> QED BY <1>1, <1>2, PTL DEF T!Spec

(* The type invariant of the task and the rows that hang on it.              *)
THEOREM CascadeTypeCorrect == ASSUME NamesApart PROVE T!Spec => []T!TypeOK
<1>1. CascadeInv => T!TypeOK BY DEF CascadeInv, CascadeTyped, T!TypeOK
<1> QED BY <1>1, CascadeInvariant, PTL

(* CascadeSpares: a cascade deletes no active training, and no active        *)
(* inference run but one that began after its check; no row outlives what it *)
(* refers to; the config files and the row of the task agree when all is     *)
(* quiet.                                                                    *)
THEOREM CascadesSpare == ASSUME NamesApart PROVE T!Spec => []T!CascadeSpares
<1>1. CascadeInv => T!CascadeSpares
  BY IdleDoes DEF CascadeInv, Chained, Spared, Agreeing, T!CascadeSpares
<1> QED BY <1>1, CascadeInvariant, PTL

-----------------------------------------------------------------------------
(* Dataset validation: leaks and corruption are found.                      *)

LEMMA ValidationInitial == V!Init => ValidationInv
<1> SUFFICES ASSUME V!Init PROVE ValidationInv OBVIOUS
<1>1. /\ content = [f \in Files |-> V!Absent] /\ label = [f \in Files |-> V!Absent]
      /\ stamp = [f \in Files |-> 0] /\ cache = [f \in Files |-> V!NoEntry]
      /\ checked = FALSE /\ silent = {} /\ edits = 0 /\ yaml \in Manifests
  BY DEF V!Init
<1>2. V!NoEntry \in [stamp : Nat, digest : Contents \cup {V!Absent}] /\ V!NoEntry.stamp = 0
  BY DEF V!NoEntry
<1>3. ValidationTyped BY <1>1, <1>2 DEF ValidationTyped
<1>4. V!Present = {} BY <1>1 DEF V!Present
<1>5. Dated
  <2>1. ASSUME NEW f \in Files PROVE stamp[f] = 0 /\ cache[f].stamp = 0 /\ f \notin V!Present
    <3>1. cache[f] = V!NoEntry BY <1>1
    <3> QED BY <1>1, <1>2, <1>4, <3>1
  <2>2. edits = 0 /\ 0 <= 0 BY <1>1
  <2> SUFFICES ASSUME NEW f \in Files
               PROVE  /\ stamp[f] <= edits /\ cache[f].stamp <= edits
                      /\ f \in V!Present => stamp[f] # 0
    BY DEF Dated
  <2> QED BY <2>1, <2>2
<1> QED BY <1>1, <1>3, <1>4, <1>5 DEF ValidationInv

LEMMA PutKeeps ==
  ASSUME ValidationInv, NEW f \in Files, V!Put(f) PROVE ValidationInv'
<1>1. PICK c \in Contents, r \in V!Rows \cup {V!Absent} :
           /\ content' = [content EXCEPT ![f] = c] /\ label' = [label EXCEPT ![f] = r]
           /\ stamp' = [stamp EXCEPT ![f] = edits'] /\ silent' = silent \ {f}
           /\ edits' = edits + 1 /\ checked' = FALSE /\ UNCHANGED <<cache, yaml>>
  BY DEF V!Put, V!Edit
<1>2. ValidationTyped'
  <2>1. /\ content' \in [Files -> Contents \cup {V!Absent}]
        /\ label' \in [Files -> V!Rows \cup {V!Absent}]
    BY <1>1 DEF ValidationInv, ValidationTyped
  <2>2. edits' \in Nat BY <1>1 DEF ValidationInv, ValidationTyped
  <2>3. stamp' \in [Files -> Nat] BY <1>1, <2>2 DEF ValidationInv, ValidationTyped
  <2>4. /\ cache' \in [Files -> [stamp : Nat, digest : Contents \cup {V!Absent}]]
        /\ checked' \in BOOLEAN /\ silent' \subseteq Files /\ yaml' \in Manifests
    BY <1>1 DEF ValidationInv, ValidationTyped
  <2> QED BY <2>1, <2>2, <2>3, <2>4 DEF ValidationTyped
<1>3. /\ stamp'[f] = edits + 1 /\ content'[f] = c
      /\ \A g \in Files \ {f} : stamp'[g] = stamp[g] /\ content'[g] = content[g]
  BY <1>1 DEF ValidationInv, ValidationTyped
<1>4. \A g \in Files : /\ stamp[g] \in Nat /\ cache[g].stamp \in Nat
                       /\ stamp[g] <= edits /\ cache[g].stamp <= edits
  BY DEF ValidationInv, ValidationTyped, Dated
<1>5. edits \in Nat BY DEF ValidationInv, ValidationTyped
<1>6. Dated' BY <1>1, <1>3, <1>4, <1>5 DEF ValidationInv, Dated, V!Present
<1>7. \A g \in (V!Present \ silent)' : V!Digest(g)' = content'[g]
  <2> SUFFICES ASSUME NEW g \in Files, g \in V!Present', g \notin silent'
               PROVE  V!Digest(g)' = content'[g]
    BY DEF V!Present
  <2>1. CASE g = f
    <3>1. cache'[f].stamp # stamp'[f] BY <1>1, <1>3, <1>4, <1>5
    <3> QED BY <2>1, <3>1 DEF V!Digest, V!Unchanged
  <2>2. CASE g # f
    BY <1>1, <1>3, <2>2 DEF ValidationInv, V!Present, V!Digest, V!Unchanged
  <2> QED BY <2>1, <2>2
<1> QED BY <1>1, <1>2, <1>6, <1>7 DEF ValidationInv

LEMMA ReplaceKeeps ==
  ASSUME ValidationInv, NEW f \in Files, V!Replace(f) \/ V!Remove(f) PROVE ValidationInv'
<1>1. PICK c \in Contents \cup {V!Absent} :
           /\ content' = [content EXCEPT ![f] = c] /\ f \in V!Present
           /\ c # V!Absent => silent' = silent \cup {f}
           /\ c = V!Absent => f \in silent' \/ silent' = silent \ {f}
           /\ \A g \in Files \ {f} : g \in silent' <=> g \in silent
           /\ silent' \subseteq silent \cup {f}
           /\ label' = label \/ label' = [label EXCEPT ![f] = V!Absent]
           /\ stamp' = stamp /\ edits' = edits + 1 /\ checked' = FALSE
           /\ UNCHANGED <<cache, yaml>>
  BY DEF V!Replace, V!Remove, V!Edit
<1>2. ValidationTyped'
  <2>1. /\ content' \in [Files -> Contents \cup {V!Absent}]
        /\ label' \in [Files -> V!Rows \cup {V!Absent}]
    BY <1>1 DEF ValidationInv, ValidationTyped
  <2>2. edits' \in Nat /\ stamp' \in [Files -> Nat]
    BY <1>1 DEF ValidationInv, ValidationTyped
  <2>3. /\ cache' \in [Files -> [stamp : Nat, digest : Contents \cup {V!Absent}]]
        /\ checked' \in BOOLEAN /\ silent' \subseteq Files /\ yaml' \in Manifests
    BY <1>1 DEF ValidationInv, ValidationTyped
  <2> QED BY <2>1, <2>2, <2>3 DEF ValidationTyped
<1>3. content'[f] = c /\ \A g \in Files \ {f} : content'[g] = content[g]
  BY <1>1 DEF ValidationInv, ValidationTyped
<1>4. Dated'
  <2>1. \A g \in Files : stamp[g] \in Nat /\ cache[g].stamp \in Nat /\ edits \in Nat
    BY DEF ValidationInv, ValidationTyped
  <2> QED BY <1>1, <1>3, <2>1 DEF ValidationInv, Dated, V!Present
<1>5. \A g \in (V!Present \ silent)' : V!Digest(g)' = content'[g]
  <2> SUFFICES ASSUME NEW g \in Files, g \in V!Present', g \notin silent'
               PROVE  V!Digest(g)' = content'[g]
    BY DEF V!Present
  <2>1. g # f BY <1>1, <1>3 DEF V!Present
  <2> QED BY <1>1, <1>3, <2>1 DEF ValidationInv, V!Present, V!Digest, V!Unchanged
<1> QED BY <1>1, <1>2, <1>4, <1>5 DEF ValidationInv

LEMMA AnalysisKeeps == ASSUME ValidationInv, V!Check PROVE ValidationInv'
<1>1. /\ report' = V!Issues /\ blockers' = V!Blockers /\ checked' = TRUE
      /\ UNCHANGED <<content, label, stamp, yaml, silent, edits>>
      /\ cache' = [f \in Files |-> IF f \in V!Present
                                   THEN [stamp |-> stamp[f], digest |-> V!Digest(f)] ELSE V!NoEntry]
  BY DEF V!Check
<1>2. \A f \in V!Present : /\ f \in Files /\ stamp[f] \in Nat /\ stamp[f] # 0
                           /\ V!Digest(f) \in Contents \cup {V!Absent}
  BY DEF V!Present, V!Digest, ValidationInv, ValidationTyped, Dated
<1>3. V!Present' = V!Present BY <1>1 DEF V!Present
<1>4. ASSUME NEW f \in Files
      PROVE  /\ cache'[f] \in [stamp : Nat, digest : Contents \cup {V!Absent}]
             /\ f \in V!Present => cache'[f].stamp = stamp[f] /\ cache'[f].digest = V!Digest(f)
             /\ f \notin V!Present => cache'[f].stamp = 0
  <2>1. CASE f \in V!Present
    <3>1. cache'[f] = [stamp |-> stamp[f], digest |-> V!Digest(f)] BY <1>1, <2>1
    <3>2. stamp[f] \in Nat /\ V!Digest(f) \in Contents \cup {V!Absent} BY <1>2, <2>1
    <3> QED BY <2>1, <3>1, <3>2
  <2>2. CASE f \notin V!Present
    <3>1. cache'[f] = V!NoEntry BY <1>1, <2>2
    <3> QED BY <2>2, <3>1 DEF V!NoEntry
  <2> QED BY <2>1, <2>2
<1>5. ValidationTyped'
  <2>1. cache' = [f \in Files |-> cache'[f]] BY <1>1
  <2>2. cache' \in [Files -> [stamp : Nat, digest : Contents \cup {V!Absent}]] BY <1>4, <2>1
  <2> QED BY <1>1, <2>2 DEF ValidationInv, ValidationTyped
<1>6. Dated'
  <2>1. edits \in Nat BY DEF ValidationInv, ValidationTyped
  <2>2. \A f \in Files : cache'[f].stamp <= edits
    BY <1>4, <2>1 DEF ValidationInv, Dated
  <2> QED BY <1>1, <1>3, <2>2 DEF ValidationInv, Dated
<1>7. \A f \in V!Present : V!Digest(f)' = V!Digest(f)
  <2> SUFFICES ASSUME NEW f \in V!Present PROVE V!Digest(f)' = V!Digest(f) OBVIOUS
  <2>1. cache'[f].stamp = stamp[f] /\ cache'[f].digest = V!Digest(f) BY <1>2, <1>4
  <2>2. cache'[f] # V!NoEntry
    <3>1. V!NoEntry.stamp = 0 BY DEF V!NoEntry
    <3> QED BY <1>2, <2>1, <3>1
  <2>3. V!Unchanged(f)' BY <1>1, <2>1, <2>2 DEF V!Unchanged
  <2> QED BY <2>1, <2>3 DEF V!Digest
<1>8. V!Issues' = V!Issues BY <1>1, <1>3, <1>7 DEF V!Issues, V!Leaks
<1>9. V!Blockers' = V!Blockers
  BY <1>1, <1>3 DEF V!Blockers, V!Led, V!LedTo, V!Labels, V!Outside, V!Order
<1> QED BY <1>1, <1>3, <1>5, <1>6, <1>7, <1>8, <1>9 DEF ValidationInv

LEMMA DescribeKeeps == ASSUME ValidationInv, V!Describe PROVE ValidationInv'
<1>1. /\ yaml' \in Manifests /\ checked' = FALSE /\ edits' = edits + 1
      /\ UNCHANGED <<content, label, stamp, cache, report, blockers, silent>>
  BY DEF V!Describe
<1>2. ValidationTyped'
  <2>1. edits' \in Nat BY <1>1 DEF ValidationInv, ValidationTyped
  <2> QED BY <1>1, <2>1 DEF ValidationInv, ValidationTyped
<1>3. Dated'
  <2>1. edits \in Nat /\ edits <= edits + 1 BY DEF ValidationInv, ValidationTyped
  <2>2. \A f \in Files : stamp[f] \in Nat /\ cache[f].stamp \in Nat
    BY DEF ValidationInv, ValidationTyped
  <2> QED BY <1>1, <2>1, <2>2 DEF ValidationInv, Dated, V!Present
<1>4. \A f \in (V!Present \ silent)' : V!Digest(f)' = content'[f]
  BY <1>1 DEF ValidationInv, V!Present, V!Digest, V!Unchanged
<1> QED BY <1>1, <1>2, <1>3, <1>4 DEF ValidationInv

LEMMA ValidationStep == ValidationInv /\ [V!Next]_V!vars => ValidationInv'
<1> SUFFICES ASSUME ValidationInv, [V!Next]_V!vars PROVE ValidationInv' OBVIOUS
<1>1. CASE UNCHANGED V!vars
  <2>1. UNCHANGED <<content, label, stamp, cache, yaml, report, blockers, checked, silent, edits>>
    BY <1>1 DEF V!vars
  <2>2. ValidationTyped' /\ Dated' BY <2>1 DEF ValidationInv, ValidationTyped, Dated, V!Present
  <2>3. V!Issues' = V!Issues
    BY <2>1 DEF V!Issues, V!Leaks, V!Present, V!Digest, V!Unchanged, V!Order
  <2>4. V!Blockers' = V!Blockers
    BY <2>1 DEF V!Blockers, V!Led, V!LedTo, V!Labels, V!Outside, V!Order, V!Present
  <2>5. \A f \in (V!Present \ silent)' : V!Digest(f)' = content'[f]
    BY <2>1 DEF ValidationInv, V!Present, V!Digest, V!Unchanged
  <2> QED BY <2>1, <2>2, <2>3, <2>4, <2>5 DEF ValidationInv
<1> QED BY <1>1, PutKeeps, ReplaceKeeps, AnalysisKeeps, DescribeKeeps DEF V!Next

(* Through any sequence of edits and validations: a digest that counts is    *)
(* that of the content, unless the file changed behind its modification time.*)
THEOREM ValidationInvariant == V!Spec => []ValidationInv
  BY ValidationInitial, ValidationStep, PTL DEF V!Spec

(* The type invariant of the files, their digests and the reports.           *)
THEOREM ValidationTypeCorrect == V!Spec => []V!TypeOK
<1>1. ValidationInv => V!TypeOK BY DEF ValidationInv, ValidationTyped, V!TypeOK
<1> QED BY <1>1, ValidationInvariant, PTL

(* LeaksAreFound: a validation reports a leak exactly when two splits hold   *)
(* one image, and corruption where it is, unless an image changed behind its *)
(* modification time; what it passes is blocked by an empty split only,      *)
(* where data.yaml keeps to the release and to images that are there.        *)
THEOREM LeaksFound == ASSUME SplitsKnown PROVE V!Spec => []V!LeaksAreFound
<1>1. ASSUME ValidationInv PROVE V!LeaksAreFound
  <2> SUFFICES ASSUME checked
               PROVE  /\ silent = {} =>
                          /\ (\E f \in Files : <<f, "split_hash_leakage">> \in report)
                               <=> V!Shared # {}
                          /\ \A f \in Files : <<f, "corrupt_image">> \in report
                                                <=> content[f] \in Corrupt
                      /\ report = {} /\ V!Plain
                           => blockers \subseteq {"empty_train_split", "empty_val_split"}
    BY DEF V!LeaksAreFound
  <2>0. report = V!Issues /\ blockers = V!Blockers BY <1>1 DEF ValidationInv
  <2>2. \A f \in V!Present : f \in Files /\ label[f] \in V!Rows \cup {V!Absent}
    BY <1>1 DEF ValidationInv, ValidationTyped, V!Present
  <2>3. \A f : <<f, "split_hash_leakage">> \in report <=> f \in V!Present /\ V!Leaks(f)
    BY <2>0 DEF V!Issues
  <2>4. \A f : <<f, "corrupt_image">> \in report <=> f \in V!Present /\ V!Digest(f) \in Corrupt
    BY <2>0 DEF V!Issues
  <2>5. ASSUME silent = {}
        PROVE  /\ (\E f \in Files : <<f, "split_hash_leakage">> \in report) <=> V!Shared # {}
               /\ \A f \in Files : <<f, "corrupt_image">> \in report <=> content[f] \in Corrupt
    <3>1. \A f \in V!Present : V!Digest(f) = content[f] BY <1>1, <2>5 DEF ValidationInv
    <3>2. \A f \in Files : f \notin V!Present => content[f] \notin Corrupt
      BY DEF V!Present, SplitsKnown
    <3>3. \A s, t \in Splits : s # t <=> V!Order[s] < V!Order[t] \/ V!Order[t] < V!Order[s]
      BY DEF Splits, V!Order
    <3>4. \A f \in V!Present : SplitOf[f] \in Splits BY <2>2 DEF SplitsKnown
    <3>5. (\E f \in V!Present : V!Leaks(f)) <=> V!Shared # {}
      <4>1. ASSUME NEW f \in V!Present, V!Leaks(f) PROVE V!Shared # {}
        <5>1. PICK g \in V!Present : content[g] = content[f]
               /\ V!Order[SplitOf[g]] < V!Order[SplitOf[f]]
          BY <3>1, <4>1 DEF V!Leaks
        <5>2. SplitOf[f] # SplitOf[g] BY <3>3, <3>4, <5>1
        <5> QED BY <5>1, <5>2 DEF V!Shared
      <4>2. ASSUME NEW f \in V!Shared PROVE \E g \in V!Present : V!Leaks(g)
        <5>1. PICK g \in V!Present : SplitOf[f] # SplitOf[g] /\ content[f] = content[g]
          BY <4>2 DEF V!Shared
        <5>2. f \in V!Present BY DEF V!Shared
        <5>3. V!Order[SplitOf[f]] < V!Order[SplitOf[g]] \/ V!Order[SplitOf[g]] < V!Order[SplitOf[f]]
          BY <3>3, <3>4, <5>1, <5>2
        <5> QED BY <3>1, <5>1, <5>2, <5>3 DEF V!Leaks
      <4> QED BY <4>1, <4>2
    <3> QED BY <2>2, <2>3, <2>4, <3>1, <3>2, <3>5
  <2>6. ASSUME report = {}, V!Plain
        PROVE  blockers \subseteq {"empty_train_split", "empty_val_split"}
    <3>1. ASSUME NEW f \in V!Present PROVE label[f] = "good"
      <4>1. label[f] \in {"good", "lax", "bad"} \/ label[f] = V!Absent BY <2>2 DEF V!Rows
      <4>2. label[f] = V!Absent => <<f, "missing_label">> \in V!Issues BY DEF V!Issues
      <4>3. label[f] \in {"lax", "bad"} => <<f, "invalid_label">> \in V!Issues BY DEF V!Issues
      <4> QED BY <2>0, <2>6, <4>1, <4>2, <4>3
    <3>2. /\ yaml.there /\ yaml.inside /\ V!Present \cap Nested = {}
          /\ \A s \in DOMAIN V!Order : \A r \in yaml.refs[s] :
               ~r.out /\ (r.list => r.files \subseteq V!Present)
      BY <2>6 DEF V!Plain
    <3>3. \A s \in DOMAIN V!Order : V!Led(s) \subseteq V!Present BY <3>2 DEF V!Led
    <3>4. \A f \in V!LedTo : f \in V!Present BY <3>3 DEF V!LedTo
    <3>5. \A f \in V!LedTo : V!Labels(f) = "good" BY <3>1, <3>2, <3>4 DEF V!Labels
    <3>6. \A b \in V!Blockers : b \in {"empty_train_split", "empty_val_split"}
      BY <3>2, <3>5 DEF V!Blockers, V!Absent
    <3> QED BY <2>0, <3>6
  <2> QED BY <2>5, <2>6
<1> QED BY <1>1, ValidationInvariant, PTL

-----------------------------------------------------------------------------
(* Training limits: safe retries shrink, fit and end.                       *)

-----------------------------------------------------------------------------
LEMMA Halves ==
  ASSUME NEW b \in Nat
  PROVE  /\ IsFiniteSet(L!Halved(b)) /\ L!Cardinality(L!Halved(b)) \in Nat
         /\ b > 1 => /\ b \div 2 \in Nat /\ b \div 2 < b
                     /\ L!Cardinality(L!Halved(b \div 2)) + 1 <= L!Cardinality(L!Halved(b))
<1>1. ASSUME NEW n \in Nat
      PROVE  IsFiniteSet(L!Halved(n)) /\ L!Cardinality(L!Halved(n)) \in Nat
  <2>1. n - 1 \in Int /\ 1 \in Int OBVIOUS
  <2>2. IsFiniteSet(1..(n - 1)) BY <2>1, FS_Interval
  <2>3. L!Halved(n) \subseteq 1..(n - 1) BY DEF L!Halved
  <2>4. IsFiniteSet(L!Halved(n)) BY <2>2, <2>3, FS_Subset
  <2> QED BY <2>4, FS_CardinalityType, Counted
<1>2. ASSUME b > 1
      PROVE  /\ b \div 2 \in Nat /\ b \div 2 < b
             /\ L!Cardinality(L!Halved(b \div 2)) + 1 <= L!Cardinality(L!Halved(b))
  <2> DEFINE c == b \div 2
  <2>1. c \in Nat /\ c < b /\ c >= 1 /\ c <= b - 1 BY <1>2
  <2> HIDE DEF c
  <2>2. c \notin L!Halved(c) BY <2>1 DEF L!Halved
  <2>3. c \in L!Halved(b)
    <3>1. c \in 1..(b - 1) BY <2>1
    <3>2. \A S \in SUBSET (1..b) :
            b \in S /\ (\A d \in S : d > 1 => d \div 2 \in S) => c \in S
      BY <1>2 DEF c
    <3> QED BY <3>1, <3>2 DEF L!Halved
  <2>4. ASSUME NEW x \in L!Halved(c) PROVE x \in L!Halved(b)
    <3>1. x \in 1..(c - 1) BY DEF L!Halved
    <3>2. x \in 1..(b - 1) BY <2>1, <3>1
    <3>3. ASSUME NEW S \in SUBSET (1..b), b \in S, \A d \in S : d > 1 => d \div 2 \in S
          PROVE  x \in S
      <4> DEFINE U == S \cap (1..c)
      <4>1. c \in S BY <1>2, <3>3 DEF c
      <4>2. U \in SUBSET (1..c) /\ c \in U BY <2>1, <4>1
      <4>3. ASSUME NEW d \in U, d > 1 PROVE d \div 2 \in U
        <5>1. d \in 1..c /\ d \in S /\ d \div 2 \in S BY <3>3, <4>3
        <5>2. d \div 2 \in 1..c BY <2>1, <4>3, <5>1
        <5> QED BY <5>1, <5>2
      <4> HIDE DEF U
      <4>4. x \in U BY <4>2, <4>3 DEF L!Halved
      <4> QED BY <4>4 DEF U
    <3> QED BY <3>2, <3>3 DEF L!Halved
  <2>5. L!Halved(c) \cup {c} \in SUBSET L!Halved(b) BY <2>3, <2>4
  <2>6. /\ IsFiniteSet(L!Halved(c)) /\ IsFiniteSet(L!Halved(b))
        /\ L!Cardinality(L!Halved(c)) \in Nat /\ L!Cardinality(L!Halved(b)) \in Nat
    BY <1>1, <2>1
  <2>7. L!Cardinality(L!Halved(c) \cup {c}) = L!Cardinality(L!Halved(c)) + 1
    BY <2>2, <2>6, FS_AddElement, Counted
  <2>8. L!Cardinality(L!Halved(c) \cup {c}) <= L!Cardinality(L!Halved(b))
    BY <2>5, <2>6, FS_Subset, Counted
  <2>9. L!Cardinality(L!Halved(c)) + 1 <= L!Cardinality(L!Halved(b)) BY <2>6, <2>7, <2>8
  <2> QED BY <2>1, <2>9 DEF c
<1> QED BY <1>1, <1>2

LEMMA SizesEnd ==
  ASSUME NEW pixels \in Nat
  PROVE  /\ IsFiniteSet(L!Below(pixels)) /\ L!Cardinality(L!Below(pixels)) \in Nat
         /\ L!Below(pixels) # {} =>
              LET s == CHOOSE s \in L!Below(pixels) : \A t \in L!Below(pixels) : t <= s
              IN  s \in Nat /\ s < pixels
                   /\ L!Cardinality(L!Below(s)) + 1 = L!Cardinality(L!Below(pixels))
<1>1. IsFiniteSet(L!Steps)
  <2>1. 320 \in Int /\ 640 \in Int /\ L!Steps \subseteq 320..640 BY DEF L!Steps
  <2>2. ASSUME NEW a \in Int, NEW b \in Int PROVE IsFiniteSet(a..b) BY FS_Interval
  <2>3. IsFiniteSet(320..640) BY <2>1, <2>2
  <2> QED BY <2>1, <2>3, FS_Subset
<1>2. ASSUME NEW n \in Nat PROVE IsFiniteSet(L!Below(n)) /\ L!Cardinality(L!Below(n)) \in Nat
  <2>1. L!Below(n) \subseteq L!Steps BY DEF L!Below
  <2>2. IsFiniteSet(L!Below(n)) BY <1>1, <2>1, FS_Subset
  <2> QED BY <2>2, FS_CardinalityType, Counted
<1>3. ASSUME L!Below(pixels) # {}
      PROVE  LET s == CHOOSE s \in L!Below(pixels) : \A t \in L!Below(pixels) : t <= s
             IN  s \in Nat /\ s < pixels
                  /\ L!Cardinality(L!Below(s)) + 1 = L!Cardinality(L!Below(pixels))
  <2> DEFINE s == CHOOSE s \in L!Below(pixels) : \A t \in L!Below(pixels) : t <= s
  <2>1. \E m \in L!Below(pixels) : \A t \in L!Below(pixels) : t <= m BY <1>3 DEF L!Below, L!Steps
  <2>2. s \in L!Below(pixels) /\ \A t \in L!Below(pixels) : t <= s BY <2>1
  <2> HIDE DEF s
  <2>3. s \in Nat /\ s < pixels BY <2>2 DEF L!Below, L!Steps
  <2>4. L!Below(s) = L!Below(pixels) \ {s} BY <2>2, <2>3 DEF L!Below, L!Steps
  <2>5. L!Cardinality(L!Below(s)) = L!Cardinality(L!Below(pixels)) - 1
    BY <1>2, <2>2, <2>4, FS_RemoveElement, Counted
  <2>6. L!Cardinality(L!Below(pixels)) \in Nat BY <1>2
  <2>7. L!Cardinality(L!Below(s)) + 1 = L!Cardinality(L!Below(pixels)) BY <2>5, <2>6
  <2> QED BY <2>3, <2>7 DEF s
<1> QED BY <1>2, <1>3

-----------------------------------------------------------------------------
(* A run that asks for no more than an allowed one is allowed.               *)
LEMMA FitsLess ==
  ASSUME Measured, NEW e \in Environments, NEW d \in L!Devices, NEW k \in L!Kinds,
         NEW b \in Nat, NEW s \in Nat, NEW c \in Nat, NEW t \in Nat,
         L!Fits(e, d, k, b, s), c <= b, t <= s
  PROVE  L!Fits(e, d, k, c, t)
<1>1. /\ e.detectBatch \in Limits /\ e.segmentBatch \in Limits
      /\ e.maxSize \in Limits
  BY DEF Measured, Policies
<1>2. /\ (IF k = "segment" THEN e.segmentBatch ELSE e.detectBatch)[d] \in Int
      /\ e.maxSize[d] \in Int
  BY <1>1 DEF Limits
<1> QED BY <1>2 DEF L!Fits

(* A run that starts: what it asks for is allowed and there was room.        *)
LEMMA Starts ==
  ASSUME Measured, LimitsInv, state = "up", NEW d \in L!Devices, NEW k \in L!Kinds,
         NEW b \in Nat, NEW s \in Nat, NEW mode \in {"train", "evaluate_existing"},
         NEW r \in Readings, L!Fits(policy, d, k, b, s), L!Room(r),
         L!Start(d, k, L!Ask(b, s), mode, r)
  PROVE  /\ run' \in Runs /\ run'.status = "running" /\ admitted' = policy
         /\ run'.device = d /\ run'.kind = k /\ run'.batch = b /\ run'.size = s
         /\ L!Fits(admitted, run.device, run.kind, run.batch, run.size)'
         /\ ~ L!Pressed(run.seen)'
<1>1. /\ L!Ask(b, s).batch = b /\ L!Ask(b, s).size = s BY DEF L!Ask
<1>2. /\ admitted' = policy
      /\ run' = [status |-> "running", device |-> d, kind |-> k, batch |-> b,
                 size |-> s, mode |-> mode, code |-> "none", best |-> FALSE, seen |-> r.commit]
  BY <1>1 DEF L!Start
<1>3. r.commit \in Int BY DEF Measured
<1>4. policy.runtime \in Int /\ policy.commit \in Int /\ policy.runtime <= policy.commit
  BY DEF LimitsInv, LimitsTyped, Measured, Policies, L!Valid
<1>5. L!Enough(r.commit, policy.runtime) BY <1>3, <1>4 DEF L!Room, L!Enough
<1>6. /\ run'.status = "running" /\ run'.device = d /\ run'.kind = k /\ run'.batch = b
      /\ run'.size = s /\ run'.seen = r.commit
  BY <1>2
<1>7. run' \in Runs BY <1>2, <1>3 DEF Runs, L!Signatures
<1>8. ~ L!Pressed(run.seen)' BY <1>2, <1>5, <1>6 DEF L!Pressed, L!Enough
<1>9. L!Fits(admitted, run.device, run.kind, run.batch, run.size)'
  BY <1>2, <1>6 DEF L!Fits
<1> QED BY <1>2, <1>6, <1>7, <1>8, <1>9

(* Nothing starts: the last run and its limits stay.                         *)
LEMMA LimitsStay ==
  ASSUME LimitsInv, LimitsTyped', UNCHANGED <<admitted, run, origin, retries>>,
         state' = "up" => L!Valid(policy)',
         answer' = "unsafe retry" => policy' # admitted'
  PROVE  LimitsInv'
  BY DEF LimitsInv, Left, L!Fits, L!Pressed, L!Enough, L!Remaining, L!Ask, L!Halved, L!Below

(* Settings that were valid are, as long as the API runs with them.          *)
LEMMA ValidStays ==
  ASSUME LimitsInv, state = "up", policy' = policy PROVE L!Valid(policy) /\ L!Valid(policy)'
  BY DEF LimitsInv, L!Valid, L!Positive

LEMMA RequestKeeps ==
  ASSUME Measured, LimitsInv, NEW d \in L!Devices, NEW k \in L!Kinds, NEW p \in L!Presets,
         NEW r \in Readings, L!Request(d, k, p, r)
  PROVE  LimitsInv'
<1>1. PICK lot \in BatchSizes, pixels \in ImageSizes :
        LET ask == IF p = "custom" THEN L!Ask(lot, pixels) ELSE L!PresetAsk(p, d, k)
        IN  /\ answer' = IF p = "gpu-quality" /\ d = "cpu" THEN "no preset"
                         ELSE IF ~L!Fits(policy, d, k, ask.batch, ask.size) THEN "unsafe"
                         ELSE IF ~L!Room(r) THEN "no room" ELSE "created"
            /\ IF answer' = "created"
               THEN L!Start(d, k, ask, "train", r) /\ origin' = ask
               ELSE UNCHANGED <<admitted, run, origin>>
  BY DEF L!Request
<1>2. state = "up" /\ run = L!None /\ UNCHANGED <<policy, state, retries, children>>
  BY DEF L!Request
<1> DEFINE ask == IF p = "custom" THEN L!Ask(lot, pixels) ELSE L!PresetAsk(p, d, k)
<1>3. \E b, s \in Nat : ask = L!Ask(b, s)
  <2>1. lot \in Nat /\ pixels \in Nat BY DEF Measured
  <2>2. \E b, s \in Nat : L!PresetAsk(p, d, k) = L!Ask(b, s)
    <3> DEFINE b == IF p = "smoke" THEN 1
                    ELSE IF d = "gpu" THEN 8 ELSE IF k = "segment" THEN 1 ELSE 2
               s == IF p = "smoke" THEN 320 ELSE 640
    <3>1. L!PresetAsk(p, d, k) = L!Ask(b, s) BY DEF L!PresetAsk
    <3>2. b \in Nat /\ s \in Nat OBVIOUS
    <3> QED BY <3>1, <3>2
  <2> QED BY <2>1, <2>2
<1>4. PICK b \in Nat, s \in Nat : ask = L!Ask(b, s) BY <1>3
<1>5. ask.batch = b /\ ask.size = s BY <1>4 DEF L!Ask
<1>6. L!None.status = "none" /\ retries = 0 BY <1>2 DEF L!None, LimitsInv
<1>7. answer' \in Answers /\ answer' # "unsafe retry" BY <1>1 DEF Answers
<1>8. CASE answer' = "created"
  <2>1. L!Fits(policy, d, k, b, s) /\ L!Room(r) /\ L!Start(d, k, L!Ask(b, s), "train", r)
         /\ origin' = L!Ask(b, s)
    BY <1>1, <1>4, <1>5, <1>8
  <2>2. /\ run' \in Runs /\ run'.status = "running" /\ admitted' = policy
        /\ run'.device = d /\ run'.kind = k /\ run'.batch = b /\ run'.size = s
        /\ L!Fits(admitted, run.device, run.kind, run.batch, run.size)'
        /\ ~ L!Pressed(run.seen)'
    BY <1>2, <2>1, Starts
  <2>3. origin' \in [batch : Nat, size : Nat] BY <2>1 DEF L!Ask
  <2>4. LimitsTyped' BY <1>2, <1>7, <2>2, <2>3 DEF LimitsInv, LimitsTyped
  <2>5. Left' = L!Remaining(origin') BY <2>1, <2>2 DEF Left, L!Remaining, L!Halved, L!Below
  <2>6. L!Remaining(origin') \in Nat
    <3>1. L!Ask(b, s).batch = b /\ L!Ask(b, s).size = s BY DEF L!Ask
    <3>2. origin'.batch = b /\ origin'.size = s BY <2>1, <3>1
    <3>3. L!Cardinality(L!Halved(b)) \in Nat /\ L!Cardinality(L!Below(s)) \in Nat
      BY Halves, SizesEnd
    <3>4. L!Remaining(origin') = L!Cardinality(L!Halved(b)) + L!Cardinality(L!Below(s))
      BY <3>2 DEF L!Remaining
    <3> QED BY <3>3, <3>4
  <2>7. retries' + Left' <= L!Remaining(origin)'
    <3>1. L!Remaining(origin)' = L!Remaining(origin') BY DEF L!Remaining, L!Halved, L!Below
    <3> QED BY <1>2, <1>6, <2>5, <2>6, <3>1
  <2>8. L!Valid(policy)' BY <1>2, ValidStays
  <2> QED BY <1>2, <1>7, <2>2, <2>4, <2>7, <2>8 DEF LimitsInv
<1>9. CASE answer' # "created"
  <2>1. UNCHANGED <<admitted, run, origin>> BY <1>1, <1>9
  <2>2. LimitsTyped' BY <1>2, <1>7, <2>1 DEF LimitsInv, LimitsTyped
  <2>3. L!Valid(policy)' BY <1>2, ValidStays
  <2> QED BY <1>2, <1>7, <2>1, <2>2, <2>3, LimitsStay
<1> QED BY <1>8, <1>9

(* A run that fails asks for what it asked before.                           *)
LEMMA FailKeeps ==
  ASSUME Measured, LimitsInv, NEW code \in L!Signatures \cup {"runner_failed"},
         L!FailAs(code)
  PROVE  LimitsInv'
<1>1. PICK best \in BOOLEAN :
           run' = [run EXCEPT !.status = "failed", !.code = code,
                              !.best = best /\ run.mode = "train"]
  BY DEF L!FailAs
<1>2. /\ state = "up" /\ run.status = "running"
      /\ UNCHANGED <<policy, state, admitted, origin, retries, children, answer>>
  BY DEF L!FailAs
<1>3. run \in Runs BY DEF LimitsInv, LimitsTyped
<1> DEFINE good == best /\ run.mode = "train"
<1>4. good \in BOOLEAN OBVIOUS
<1> HIDE DEF good
<1>5. run' = [run EXCEPT !.status = "failed", !.code = code, !.best = good]
  BY <1>1 DEF good
<1>6. /\ run'.status = "failed" /\ run'.device = run.device /\ run'.kind = run.kind
      /\ run'.batch = run.batch /\ run'.size = run.size /\ run'.seen = run.seen
  BY <1>3, <1>5 DEF Runs
<1>7. run' \in Runs BY <1>3, <1>4, <1>5 DEF Runs
<1>8. LimitsTyped' BY <1>2, <1>7 DEF LimitsInv, LimitsTyped
<1>9. Left' = Left BY <1>6 DEF Left, L!Remaining, L!Ask, L!Halved, L!Below
<1>10. /\ L!Fits(admitted, run.device, run.kind, run.batch, run.size)
       /\ retries + Left <= L!Remaining(origin) /\ ~ L!Pressed(run.seen)
       /\ answer = "unsafe retry" => policy # admitted
  BY <1>2 DEF LimitsInv
<1>11. L!Valid(policy)' BY <1>2, ValidStays
<1>12. /\ L!Fits(admitted, run.device, run.kind, run.batch, run.size)'
       /\ ~ L!Pressed(run.seen)' /\ L!Remaining(origin)' = L!Remaining(origin)
  BY <1>2, <1>6, <1>10 DEF L!Fits, L!Pressed, L!Enough, L!Remaining, L!Halved, L!Below
<1>13. retries' + Left' <= L!Remaining(origin)' BY <1>2, <1>9, <1>10, <1>12
<1>14. answer' = "unsafe retry" => policy' # admitted' BY <1>2, <1>10
<1>15. run'.status # "none" BY <1>6
<1> QED BY <1>8, <1>11, <1>12, <1>13, <1>14, <1>15 DEF LimitsInv

LEMMA EndsKeep ==
  ASSUME Measured, LimitsInv, L!Fail \/ \E r \in Readings : L!Pressure(r) PROVE LimitsInv'
<1>1. CASE L!Fail
  <2>1. PICK exit \in {"killed", "access violation", "other"}, text \in L!Signatures :
             L!FailAs(L!Classify(exit, text, FALSE))
    BY <1>1 DEF L!Fail
  <2>2. L!Classify(exit, text, FALSE) \in L!Signatures \cup {"runner_failed"}
    BY DEF L!Classify, L!Signatures
  <2> QED BY <2>1, <2>2, FailKeeps
<1>2. CASE \E r \in Readings : L!Pressure(r)
  <2>1. L!FailAs(L!Classify("other", "none", TRUE))
    BY <1>2 DEF L!Pressure
  <2>2. L!Classify("other", "none", TRUE) \in L!Signatures \cup {"runner_failed"}
    BY DEF L!Classify, L!Signatures
  <2> QED BY <2>1, <2>2, FailKeeps
<1> QED BY <1>1, <1>2

(* What is planned for a retry: less of one, never more.                     *)
LEMMA PlansLess ==
  ASSUME NEW b \in Nat, NEW s \in Nat, b > 1 \/ L!Below(s) # {}
  PROVE  \E c, t \in Nat :
           /\ L!Less(b, s) = L!Ask(c, t) /\ c <= b /\ t <= s
           /\ L!Remaining(L!Ask(b, s)) \in Nat /\ L!Remaining(L!Ask(c, t)) \in Nat
           /\ L!Remaining(L!Ask(c, t)) + 1 <= L!Remaining(L!Ask(b, s))
<1>1. ASSUME NEW c \in Nat, NEW t \in Nat
      PROVE  /\ L!Remaining(L!Ask(c, t)) = L!Cardinality(L!Halved(c)) + L!Cardinality(L!Below(t))
             /\ L!Cardinality(L!Halved(c)) \in Nat /\ L!Cardinality(L!Below(t)) \in Nat
             /\ L!Remaining(L!Ask(c, t)) \in Nat
  <2>1. L!Ask(c, t).batch = c /\ L!Ask(c, t).size = t BY DEF L!Ask
  <2>2. L!Remaining(L!Ask(c, t)) = L!Cardinality(L!Halved(c)) + L!Cardinality(L!Below(t))
    BY <2>1 DEF L!Remaining
  <2>3. L!Cardinality(L!Halved(c)) \in Nat /\ L!Cardinality(L!Below(t)) \in Nat BY Halves, SizesEnd
  <2> QED BY <2>2, <2>3
<1>2. CASE b > 1
  <2> DEFINE c == b \div 2
  <2>1. /\ c \in Nat /\ c < b /\ L!Cardinality(L!Halved(c)) + 1 <= L!Cardinality(L!Halved(b))
        /\ L!Less(b, s) = L!Ask(c, s)
    BY <1>2, Halves DEF L!Less
  <2> HIDE DEF c
  <2>2. L!Remaining(L!Ask(c, s)) + 1 <= L!Remaining(L!Ask(b, s)) BY <1>1, <2>1
  <2> QED BY <1>1, <2>1, <2>2
<1>3. CASE ~ (b > 1)
  <2> DEFINE t == CHOOSE t \in L!Below(s) : \A u \in L!Below(s) : u <= t
  <2>1. /\ t \in Nat /\ t < s /\ L!Cardinality(L!Below(t)) + 1 = L!Cardinality(L!Below(s))
        /\ L!Less(b, s) = L!Ask(b, t)
    BY <1>3, SizesEnd DEF L!Less
  <2> HIDE DEF t
  <2>2. L!Remaining(L!Ask(b, t)) + 1 <= L!Remaining(L!Ask(b, s)) BY <1>1, <2>1
  <2> QED BY <1>1, <2>1, <2>2
<1> QED BY <1>2, <1>3

LEMMA RetryKeeps ==
  ASSUME Measured, LimitsInv, NEW r \in Readings, L!Retry(r) PROVE LimitsInv'
<1>1. /\ state = "up" /\ run.status = "failed" /\ UNCHANGED <<policy, state, origin>>
      /\ answer' = IF ~L!Allowed THEN "no plan"
                   ELSE IF ~L!Fits(policy, run.device, run.kind, L!Less(run.batch, run.size).batch,
                                 L!Less(run.batch, run.size).size)
                   THEN "unsafe retry"
                   ELSE IF ~L!Room(r) THEN "no room" ELSE "retried"
      /\ IF answer' = "retried"
         THEN /\ L!Start(run.device, run.kind, L!Less(run.batch, run.size), "train", r)
              /\ retries' = retries + 1 /\ children' = children + 1
         ELSE UNCHANGED <<admitted, run, retries, children>>
  BY DEF L!Retry
<1>2. /\ run \in Runs /\ run.batch \in Nat /\ run.size \in Nat /\ run.device \in L!Devices
      /\ run.kind \in L!Kinds /\ policy \in Environments /\ admitted \in Environments
      /\ retries \in Nat /\ children \in Nat /\ origin \in [batch : Nat, size : Nat]
  BY DEF LimitsInv, LimitsTyped, Runs
<1>3. /\ L!Fits(admitted, run.device, run.kind, run.batch, run.size)
      /\ retries + Left <= L!Remaining(origin)
  BY <1>1 DEF LimitsInv
<1>4. L!Valid(policy)' BY <1>1, ValidStays
<1>5. ASSUME L!Allowed
      PROVE  \E c, t \in Nat :
               /\ L!Less(run.batch, run.size) = L!Ask(c, t)
               /\ L!Less(run.batch, run.size).batch = c /\ L!Less(run.batch, run.size).size = t
               /\ Left \in Nat /\ L!Remaining(L!Ask(c, t)) \in Nat
               /\ L!Remaining(L!Ask(c, t)) + 1 <= Left
               /\ L!Fits(admitted, run.device, run.kind, c, t)
  <2>1. run.batch > 1 \/ L!Below(run.size) # {} BY <1>5 DEF L!Allowed
  <2>2. PICK c \in Nat, t \in Nat :
             /\ L!Less(run.batch, run.size) = L!Ask(c, t) /\ c <= run.batch /\ t <= run.size
             /\ Left \in Nat /\ L!Remaining(L!Ask(c, t)) \in Nat
             /\ L!Remaining(L!Ask(c, t)) + 1 <= Left
    BY <1>2, <2>1, PlansLess DEF Left
  <2>3. L!Ask(c, t).batch = c /\ L!Ask(c, t).size = t BY DEF L!Ask
  <2>4. L!Fits(admitted, run.device, run.kind, c, t) BY <1>2, <1>3, <2>2, FitsLess
  <2> QED BY <2>2, <2>3, <2>4
<1>6. CASE answer' # "retried"
  <2>1. UNCHANGED <<admitted, run, retries, children>> BY <1>1, <1>6
  <2>2. answer' \in Answers BY <1>1 DEF Answers
  <2>3. LimitsTyped' BY <1>1, <2>1, <2>2 DEF LimitsInv, LimitsTyped
  <2>4. ASSUME answer' = "unsafe retry" PROVE policy' # admitted'
    <3>1. /\ L!Allowed
          /\ ~ L!Fits(policy, run.device, run.kind, L!Less(run.batch, run.size).batch,
                      L!Less(run.batch, run.size).size)
      BY <1>1, <2>4
    <3> QED BY <1>1, <1>5, <2>1, <3>1
  <2> QED BY <1>1, <1>4, <2>1, <2>3, <2>4, LimitsStay
<1>7. CASE answer' = "retried"
  <2>1. L!Allowed BY <1>1, <1>7
  <2>2. PICK c \in Nat, t \in Nat :
             /\ L!Less(run.batch, run.size) = L!Ask(c, t)
             /\ L!Less(run.batch, run.size).batch = c /\ L!Less(run.batch, run.size).size = t
             /\ Left \in Nat /\ L!Remaining(L!Ask(c, t)) \in Nat
             /\ L!Remaining(L!Ask(c, t)) + 1 <= Left
    BY <1>5, <2>1
  <2>3. /\ L!Fits(policy, run.device, run.kind, c, t) /\ L!Room(r)
        /\ retries' = retries + 1 /\ children' = children + 1
        /\ L!Start(run.device, run.kind, L!Ask(c, t), "train", r)
    BY <1>1, <1>7, <2>1, <2>2
  <2>4. /\ run' \in Runs /\ run'.status = "running" /\ admitted' = policy
        /\ run'.batch = c /\ run'.size = t
        /\ L!Fits(admitted, run.device, run.kind, run.batch, run.size)'
        /\ ~ L!Pressed(run.seen)'
    BY <1>1, <1>2, <2>3, Starts
  <2>5. LimitsTyped'
    <3>1. retries' \in Nat /\ children' \in Nat BY <1>2, <2>3
    <3>2. answer' \in Answers BY <1>7 DEF Answers
    <3>3. LimitsTyped BY DEF LimitsInv
    <3> QED BY <1>1, <1>2, <2>4, <3>1, <3>2, <3>3 DEF LimitsTyped
  <2>6. Left' = L!Remaining(L!Ask(c, t)) BY <2>4 DEF Left, L!Remaining, L!Ask, L!Halved, L!Below
  <2>7. L!Remaining(origin) \in Nat /\ L!Remaining(origin)' = L!Remaining(origin)
    <3>1. L!Cardinality(L!Halved(origin.batch)) \in Nat
           /\ L!Cardinality(L!Below(origin.size)) \in Nat
      BY <1>2, Halves, SizesEnd
    <3>2. L!Remaining(origin) \in Nat BY <3>1 DEF L!Remaining
    <3>3. L!Remaining(origin)' = L!Remaining(origin) BY <1>1 DEF L!Remaining, L!Halved, L!Below
    <3> QED BY <3>2, <3>3
  <2>8. retries' + Left' <= L!Remaining(origin)' BY <1>2, <1>3, <2>2, <2>3, <2>6, <2>7
  <2> QED BY <1>1, <1>4, <1>7, <2>4, <2>5, <2>8 DEF LimitsInv
<1> QED BY <1>6, <1>7

LEMMA RecoverKeeps ==
  ASSUME Measured, LimitsInv, NEW r \in Readings, L!RecoverEvaluation(r) PROVE LimitsInv'
<1>1. /\ state = "up" /\ run.status = "failed" /\ UNCHANGED <<policy, state, origin, retries>>
      /\ answer' = IF ~run.best THEN "no weight"
                   ELSE IF ~L!Fits(policy, run.device, run.kind, run.batch, run.size)
                   THEN "unsafe retry"
                   ELSE IF ~L!Room(r) THEN "no room" ELSE "recovered"
      /\ IF answer' = "recovered"
         THEN /\ L!Start(run.device, run.kind, L!Ask(run.batch, run.size), "evaluate_existing", r)
              /\ children' = children + 1
         ELSE UNCHANGED <<admitted, run, children>>
  BY DEF L!RecoverEvaluation
<1>2. /\ run \in Runs /\ run.batch \in Nat /\ run.size \in Nat /\ run.device \in L!Devices
      /\ run.kind \in L!Kinds /\ children \in Nat /\ policy \in Environments
  BY DEF LimitsInv, LimitsTyped, Runs
<1>3. /\ L!Fits(admitted, run.device, run.kind, run.batch, run.size)
      /\ retries + Left <= L!Remaining(origin)
  BY <1>1 DEF LimitsInv
<1>4. L!Valid(policy)' /\ L!Remaining(origin)' = L!Remaining(origin)
  BY <1>1, ValidStays DEF L!Remaining, L!Halved, L!Below
<1>5. answer' \in Answers BY <1>1 DEF Answers
<1>6. CASE answer' # "recovered"
  <2>1. UNCHANGED <<admitted, run, children>> BY <1>1, <1>6
  <2>2. LimitsTyped' BY <1>1, <1>5, <2>1 DEF LimitsInv, LimitsTyped
  <2>3. answer' = "unsafe retry" => policy' # admitted' BY <1>1, <1>3, <2>1
  <2> QED BY <1>1, <1>4, <2>1, <2>2, <2>3, LimitsStay
<1>7. CASE answer' = "recovered"
  <2>1. /\ L!Fits(policy, run.device, run.kind, run.batch, run.size) /\ L!Room(r)
        /\ children' = children + 1
        /\ L!Start(run.device, run.kind, L!Ask(run.batch, run.size), "evaluate_existing", r)
    BY <1>1, <1>7
  <2>2. /\ run' \in Runs /\ run'.status = "running" /\ admitted' = policy
        /\ run'.batch = run.batch /\ run'.size = run.size
        /\ L!Fits(admitted, run.device, run.kind, run.batch, run.size)'
        /\ ~ L!Pressed(run.seen)'
    BY <1>1, <1>2, <2>1, Starts
  <2>3. LimitsTyped'
    <3>1. children' \in Nat BY <1>2, <2>1
    <3>2. LimitsTyped BY DEF LimitsInv
    <3> QED BY <1>1, <1>2, <1>5, <2>2, <3>1, <3>2 DEF LimitsTyped
  <2>4. Left' = Left BY <2>2 DEF Left, L!Remaining, L!Ask, L!Halved, L!Below
  <2> QED BY <1>1, <1>3, <1>4, <1>7, <2>2, <2>3, <2>4 DEF LimitsInv
<1> QED BY <1>6, <1>7

LEMMA LimitsStep == ASSUME Measured, LimitsInv, [L!Next]_L!vars PROVE LimitsInv'
<1>1. CASE L!Boot
  <2>1. /\ UNCHANGED <<admitted, run, origin, retries, children>>
        /\ policy' \in Environments /\ answer' = "none"
        /\ state' = IF L!Valid(policy') THEN "up" ELSE "refused"
    BY <1>1 DEF L!Boot
  <2>2. LimitsTyped' BY <2>1 DEF LimitsInv, LimitsTyped, Answers
  <2>3. state' = "up" => L!Valid(policy)' BY <2>1 DEF L!Valid, L!Positive
  <2> QED BY <2>1, <2>2, <2>3, LimitsStay
<1>2. CASE L!Stop
  <2>1. /\ UNCHANGED <<policy, admitted, run, origin, retries, children, answer>>
        /\ state' = "off"
    BY <1>2 DEF L!Stop
  <2>2. LimitsTyped' BY <2>1 DEF LimitsInv, LimitsTyped
  <2>3. answer' = "unsafe retry" => policy' # admitted' BY <2>1 DEF LimitsInv
  <2> QED BY <2>1, <2>2, <2>3, LimitsStay
<1>3. CASE UNCHANGED L!vars
  <2>1. UNCHANGED <<policy, state, admitted, run, origin, retries, children, answer>>
    BY <1>3 DEF L!vars
  <2>2. LimitsTyped' BY <2>1 DEF LimitsInv, LimitsTyped
  <2>3. /\ state' = "up" => L!Valid(policy)'
        /\ answer' = "unsafe retry" => policy' # admitted'
    BY <2>1 DEF LimitsInv, L!Valid, L!Positive
  <2> QED BY <2>1, <2>2, <2>3, LimitsStay
<1> QED BY <1>1, <1>2, <1>3, EndsKeep, RequestKeeps, RetryKeeps, RecoverKeeps DEF L!Next

LEMMA LimitsInitial == L!Init => LimitsInv
<1> SUFFICES ASSUME L!Init PROVE LimitsInv OBVIOUS
<1>1. L!None \in Runs
       /\ L!None.status = "none" BY DEF L!None, Runs, L!Devices, L!Kinds, L!Signatures,
              L!Unknown
<1>2. L!Ask(1, 1) \in [batch : Nat, size : Nat] BY DEF L!Ask
<1> QED BY <1>1, <1>2 DEF L!Init, LimitsInv, LimitsTyped, Answers

(* Whatever fails and is retried, and whatever settings the API is started   *)
(* with in between: a run asks for what its settings allow, and its retries  *)
(* have used up what they promised.                                          *)
THEOREM LimitsInvariant == ASSUME Measured PROVE L!Spec => []LimitsInv
<1>1. L!Init => LimitsInv BY LimitsInitial
<1>2. LimitsInv /\ [L!Next]_L!vars => LimitsInv' BY LimitsStep
<1> QED BY <1>1, <1>2, PTL DEF L!Spec

(* The type invariant of the chain of runs and its limits.                   *)
THEOREM LimitsTypeCorrect == ASSUME Measured PROVE L!Spec => []L!TypeOK
<1>1. LimitsInv => L!TypeOK BY DEF LimitsInv, LimitsTyped, Runs, Answers, L!TypeOK
<1> QED BY <1>1, LimitsInvariant, PTL

(* RetriesEnd: each safe retry asks for strictly less, so a chain of them    *)
(* ends, for all settings and first requests; what runs is within its        *)
(* limits, and only other settings refuse a planned retry as unsafe.         *)
THEOREM RetriesShrink == ASSUME Measured PROVE L!Spec => []L!RetriesEnd
<1>1. LimitsInv => L!RetriesEnd BY DEF LimitsInv, LimitsTyped, Answers, Left, L!RetriesEnd
<1> QED BY <1>1, LimitsInvariant, PTL

(* AdmittedMayTrain: the memory that let a run start would not stop it.      *)
THEOREM AdmittedTrain == ASSUME Measured PROVE L!Spec => []L!AdmittedMayTrain
<1>1. LimitsInv => L!AdmittedMayTrain BY DEF LimitsInv, L!AdmittedMayTrain
<1> QED BY <1>1, LimitsInvariant, PTL

-----------------------------------------------------------------------------
(* Uploaded images: every row has its file.                                 *)

LEMMA StepsOf ==
  /\ I!Alone \subseteq I!Uploading /\ Early \subseteq ImportAts /\ ImportAts \subseteq I!Uploading
  /\ AppendAts \subseteq I!Uploading
  /\ "idle" \notin I!Uploading /\ "unlink" \notin I!Uploading
  /\ "batch" \in I!Alone /\ "frames" \in I!Alone /\ "batch" \in Early
  BY DEF I!Alone, I!Uploading, Early, ImportAts, AppendAts

LEMMA BatchFacts ==
  ASSUME BatchInv
  PROVE  /\ BatchTyped /\ Framed /\ Unrepeated /\ Kept /\ Listed
         /\ \A w \in Workers : /\ job[w] \in Handling /\ Owning(job[w]) /\ Importing(job[w])
                               /\ Appending(job[w]) /\ Removing(job[w])
         /\ \A v, w \in Workers : v # w => BatchBeside(v, w)
  BY DEF BatchInv, Working, BatchTyped

(* So the others keep what they rely on.                                     *)
LEMMA OthersWork ==
  ASSUME BatchInv, NEW w \in Workers, Alongside(w), NEW v \in Workers \ {w}
  PROVE  Working(job[v])' /\ BatchBeside(v, w)'
<1>1. /\ Owning(job[v]) /\ Importing(job[v]) /\ Appending(job[v]) /\ Removing(job[v])
      /\ Owning(job[w]) /\ BatchBeside(v, w) /\ Framed /\ job[v] \in Handling /\ job[w] \in Handling
      /\ requests \in Nat /\ job'[w] \in Handling
  BY BatchFacts DEF BatchTyped, Alongside
<1>2. job'[v] = job[v] /\ requests' \in Nat /\ requests <= requests'
      /\ (troubles' = 0 => troubles = 0) /\ overlapped \subseteq overlapped'
  BY DEF Alongside
<1>3. job[v].no \in Nat /\ job[w].no \in Nat /\ job'[w].no \in Nat BY <1>1 DEF Handling
<1>4. Owning(job[v])'
  <2>1. job[v].no <= requests => job[v].no <= requests' BY <1>1, <1>2, <1>3
  <2> QED BY <1>1, <1>2, <2>1 DEF Owning
<1>5. ASSUME NEW f \in frames', f \notin frames
      PROVE  /\ f.no = job[w].no /\ job[w].at \in I!Alone /\ batch
  BY <1>1, <1>5 DEF Alongside, Owning
<1>6. ASSUME job[v].at \in I!Uploading, NEW f \in frames', f \notin frames
      PROVE  /\ f.no # job[v].no /\ f.no \in overlapped /\ job[v].no \in overlapped
  BY <1>1, <1>5, <1>6, StepsOf DEF BatchBeside
<1>7. Importing(job[v])'
  <2> SUFFICES ASSUME job[v].at \in ImportAts
               PROVE  Importing(job[v])'
    BY <1>2 DEF Importing
  <2>0. job[v].at \in I!Uploading BY StepsOf
  <2>1. \A f \in frames' : f.no # job[v].no /\ f.no \in overlapped'
    BY <1>1, <1>2, <1>6, <2>0 DEF Importing
  <2>2. job[v].at \in Early /\ batch' => job[v].no \in overlapped'
    BY <1>1, <1>2, <2>0, StepsOf DEF Importing, Alongside, BatchBeside
  <2>3. job[v].at # "clear" /\ job[v].no \notin overlapped' => job[v].taken \subseteq files'
    BY <1>1, <1>2, <2>0 DEF Importing, Alongside
  <2>4. job[v].at = "batch" => ~batch'
    BY <1>1, StepsOf DEF Importing, Alongside, BatchBeside
  <2>5. job[v].at = "frames" => frames' = {}
    BY <1>1, StepsOf DEF Importing, Alongside, BatchBeside
  <2>6. job[v].at \in {"collection", "batch", "frames"} /\ troubles' = 0 /\ manifest' # {}
          => manifest' = job[v].taken
    BY <1>1, <1>2 DEF Importing, Alongside, I!Alone
  <2> QED BY <1>2, <2>1, <2>2, <2>3, <2>4, <2>5, <2>6 DEF Importing
<1>8. Appending(job[v])'
  <2> SUFFICES ASSUME job[v].at \in {"collect", "rows", "undo"}
               PROVE  Appending(job[v])'
    BY <1>2 DEF Appending
  <2>0. job[v].at \in I!Uploading BY DEF I!Uploading, I!Alone
  <2>1. \A f \in frames' : f.no # job[v].no
    BY <1>1, <1>6, <2>0 DEF Appending
  <2>2. job[v].at # "undo" =>
          \A f \in frames' :
            (f.no \in overlapped' /\ job[v].no \in overlapped') \/ Foreseen(f, job[v])
    BY <1>1, <1>2, <1>6, <2>0 DEF Appending
  <2> QED BY <1>1, <1>2, <2>1, <2>2 DEF Appending, Foreseen
<1>9. Removing(job[v])'
  <2> SUFFICES ASSUME job[v].at = "unlink"
               PROVE  Removing(job[v])'
    BY <1>2 DEF Removing
  <2>0. v \in Workers /\ job[v].no <= requests /\ 1 <= job[v].no BY <1>1 DEF Owning
  <2>1. ASSUME NEW f \in frames' PROVE f.no > job[v].no \/ f.no \in overlapped'
    <3>1. CASE f \in frames BY <1>1, <1>2, <3>1 DEF Removing
    <3>2. CASE f \notin frames
      <4>1. f.no = job[w].no /\ job[w].at \in I!Uploading /\ job[w].at # "idle" /\ batch
        BY <1>5, <3>2, StepsOf
      <4>2. job[w].no # job[v].no BY <1>1, <4>1 DEF BatchBeside
      <4>3. job[w].no < job[v].no => job[w].no \in overlapped BY <1>1, <4>1 DEF Removing
      <4> QED BY <1>2, <1>3, <4>1, <4>2, <4>3
    <3> QED BY <3>1, <3>2
  <2>2. ASSUME NEW u \in Workers, job'[u].no < job[v].no,
               job'[u].at \in Early \/ (job'[u].at \in I!Uploading /\ batch')
        PROVE  job'[u].no \in overlapped'
    <3>0. job'[u].at \in I!Uploading /\ job'[u].at # "idle" BY <2>2, StepsOf
    <3>1. job[u].at \in I!Uploading /\ job'[u].no = job[u].no
      <4>1. CASE u # w BY <3>0, <4>1 DEF Alongside
      <4>2. CASE u = w
        <5>1. ~ (job'[w].no = requests + 1) BY <1>1, <2>0, <2>2, <4>2, <1>3
        <5>2. job'[w].no = job[w].no /\ job[w].at # "idle" BY <3>0, <4>2, <5>1 DEF Alongside
        <5> QED BY <3>0, <4>2, <5>2 DEF Alongside
      <4> QED BY <4>1, <4>2
    <3>2. job'[u].at \in Early => job[u].at \in Early
      <4>1. CASE u # w BY <4>1 DEF Alongside
      <4>2. CASE u = w BY <3>1, <4>2, StepsOf DEF Alongside
      <4> QED BY <4>1, <4>2
    <3>3. CASE job[u].at \in Early \/ batch
      BY <1>1, <1>2, <2>2, <3>1, <3>3 DEF Removing
    <3>4. CASE ~batch /\ job'[u].at \notin Early
      <4>1. job[w].at = "batch" /\ job[w].at \in Early /\ job[w].at \in I!Uploading
        BY <2>2, <3>4, StepsOf DEF Alongside
      <4>2. CASE u = w BY <1>1, <1>2, <2>2, <3>1, <4>1, <4>2 DEF Removing
      <4>3. CASE u # w
        <5>1. BatchBeside(u, w) BY <4>3, BatchFacts
        <5> QED BY <1>2, <3>1, <4>1, <5>1 DEF BatchBeside
      <4> QED BY <4>2, <4>3
    <3> QED BY <3>2, <3>3, <3>4
  <2> QED BY <1>2, <2>1, <2>2 DEF Removing
<1>10. BatchBeside(v, w)'
  <2>1. ~(job[v].at \in I!Alone /\ job'[w].at \in I!Alone)
    BY <1>1 DEF Alongside, BatchBeside, I!LoopFree
  <2>2. job[v].at # "idle" /\ job'[w].at # "idle" => job[v].no # job'[w].no
    <3> SUFFICES ASSUME job[v].at # "idle", job'[w].at # "idle" PROVE job[v].no # job'[w].no
      OBVIOUS
    <3>1. job[v].no <= requests BY <1>1 DEF Owning
    <3>2. CASE job'[w].no = job[w].no /\ job[w].at # "idle" BY <1>1, <3>2 DEF BatchBeside
    <3>3. CASE job'[w].no = requests + 1 BY <1>1, <1>3, <3>1, <3>3
    <3> QED BY <3>2, <3>3 DEF Alongside
  <2>3. job[v].at \in I!Uploading /\ job'[w].at \in I!Uploading
          => job[v].no \in overlapped' /\ job'[w].no \in overlapped'
    <3> SUFFICES ASSUME job[v].at \in I!Uploading, job'[w].at \in I!Uploading
                 PROVE  job[v].no \in overlapped' /\ job'[w].no \in overlapped'
      OBVIOUS
    <3>1. CASE job[w].at \in I!Uploading
      <4>1. job'[w].no = job[w].no BY <3>1, StepsOf DEF Alongside
      <4> QED BY <1>1, <1>2, <3>1, <4>1 DEF BatchBeside
    <3>2. CASE job[w].at \notin I!Uploading BY <3>2 DEF Alongside
    <3> QED BY <3>1, <3>2
  <2> QED BY <1>2, <2>1, <2>2, <2>3 DEF BatchBeside
<1> QED BY <1>4, <1>7, <1>8, <1>9, <1>10 DEF Working

(* It is enough to look at the worker that moves and at the rows and files.  *)
LEMMA MoveWorks ==
  ASSUME BatchInv, NEW w \in Workers, Alongside(w), BatchTyped', Working(job[w])',
         Framed', Unrepeated', Kept', Listed'
  PROVE  BatchInv'
<1>1. \A v \in Workers : Working(job[v])' BY OthersWork
<1>2. ASSUME NEW v \in Workers, NEW u \in Workers, v # u PROVE BatchBeside(v, u)'
  <2>1. CASE u = w BY <1>2, <2>1, OthersWork
  <2>2. CASE v = w
    <3>1. BatchBeside(u, w)' BY <1>2, <2>2, OthersWork
    <3> QED BY <2>2, <3>1 DEF BatchBeside
  <2>3. CASE u # w /\ v # w
    <3>1. /\ job'[u] = job[u] /\ job'[v] = job[v] /\ BatchBeside(v, u)
          /\ overlapped \subseteq overlapped'
      BY <1>2, <2>3, BatchFacts DEF Alongside
    <3> QED BY <3>1 DEF BatchBeside
  <2> QED BY <2>1, <2>2, <2>3
<1> QED BY <1>1, <1>2 DEF BatchInv

LEMMA HandlerMoves ==
  ASSUME BatchTyped, NEW w \in Workers, NEW k \in Handling, job' = [job EXCEPT ![w] = k]
  PROVE  /\ job' \in [Workers -> Handling] /\ job'[w] = k
         /\ \A v \in Workers \ {w} : job'[v] = job[v]
  BY DEF BatchTyped

(* What the rows promise holds on when they do not change.                   *)
LEMMA RowsStay ==
  ASSUME BatchInv, UNCHANGED I!rows, requests' \in Nat, requests <= requests',
         overlapped \subseteq overlapped',
         \A f \in frames : f \in files => f \in files' \/ f.no \in overlapped'
  PROVE  Framed' /\ Unrepeated' /\ Kept'
<1>1. /\ Framed /\ Unrepeated /\ Kept /\ frames \subseteq Pieces /\ requests \in Nat
      /\ batch' = batch /\ frames' = frames /\ collection' = collection
  BY BatchFacts DEF BatchTyped, I!rows
<1>2. \A f \in frames : f.no <= requests' BY <1>1 DEF Framed, Pieces
<1>3. Framed' BY <1>1, <1>2 DEF Framed
<1>4. Unrepeated' BY <1>1 DEF Unrepeated, Repeats
<1>5. Kept' BY <1>1 DEF Kept
<1> QED BY <1>3, <1>4, <1>5

LEMMA NextIndex ==
  ASSUME BatchTyped, frames # {}
  PROVE  /\ I!Max({f.index : f \in frames}) + 1 \in Nat
         /\ \A f \in frames : f.index < I!Max({g.index : g \in frames}) + 1
<1> DEFINE S == {f.index : f \in frames}
<1>1. S \in SUBSET Nat BY DEF BatchTyped, Pieces
<1>2. IsFiniteSet(S)
  <2> DEFINE place == [f \in frames |-> f.index]
  <2>1. place \in Surjection(frames, S) BY DEF Surjection
  <2> HIDE DEF place
  <2> QED BY <2>1, FS_Surjection DEF BatchTyped
<1>3. S # {} OBVIOUS
<1>4. \E m \in S : \A q \in S : q <= m BY <1>1, <1>2, <1>3, Extremes
<1>5. \A f \in frames : f.index \in S OBVIOUS
<1> HIDE DEF S
<1>6. I!Max(S) \in S /\ \A q \in S : q <= I!Max(S) BY <1>1, <1>4 DEF I!Max
<1> DEFINE top == I!Max(S)
<1> HIDE DEF top
<1>6a. top \in S /\ \A q \in S : q <= top BY <1>6 DEF top
<1>7. ASSUME NEW f \in frames PROVE f.index < top + 1
  <2>1. f.index \in S BY <1>5
  <2>2. f.index \in Nat /\ top \in Nat /\ f.index <= top BY <1>1, <1>6a, <2>1
  <2> QED BY <2>2
<1>8. top + 1 \in Nat BY <1>1, <1>6a
<1> QED BY <1>7, <1>8 DEF S, top

LEMMA BeginGoes ==
  ASSUME BatchInv, NEW w \in Workers, NEW first \in {"store", "collect"}, NEW todo \in I!Uploads,
         I!Begin(w, first, todo)
  PROVE  /\ \E k \in Handling :
              /\ job' = [job EXCEPT ![w] = k]
              /\ k.at = first /\ k.no = requests + 1 /\ k.taken = {}
              /\ \A f \in frames : f.image \in k.known /\ f.index < k.next
         /\ job[w].at = "idle" /\ I!LoopFree(w)
         /\ requests' = requests + 1 /\ UNCHANGED <<I!rows, troubles>>
         /\ overlapped \subseteq overlapped' /\ overlapped' \subseteq 1..requests'
         /\ \A v \in Workers \ {w} :
              job[v].at \in I!Uploading => job[v].no \in overlapped' /\ requests + 1 \in overlapped'
<1> DEFINE others == {job[o].no : o \in {u \in Workers : job[u].at \in I!Uploading}}
           noted == {f.image : f \in frames}
           next == IF frames = {} THEN 0 ELSE I!Max({f.index : f \in frames}) + 1
           k == [I!Idle EXCEPT !.at = first, !.no = requests + 1, !.todo = todo, !.known = noted,
                             !.next = next]
<1>0. BatchTyped /\ requests \in Nat /\ overlapped \subseteq 1..requests /\ frames \subseteq Pieces
  BY BatchFacts DEF BatchTyped
<1>1. next \in Nat /\ \A f \in frames : f.index < next BY <1>0, NextIndex
<1>2. noted \subseteq Images /\ \A f \in frames : f.image \in noted BY <1>0 DEF Pieces
<1>3. todo \in Seq(Images)
  <2>1. PICK n \in 1..2 : todo \in [1..n -> Images] BY DEF I!Uploads
  <2> QED BY <2>1
<1>4. first \in BatchAts BY DEF BatchAts, ImportAts, AppendAts
<1>5. /\ job' = [job EXCEPT ![w] = k] /\ job[w] = I!Idle /\ I!LoopFree(w)
      /\ requests' = requests + 1 /\ UNCHANGED <<I!rows, troubles>>
      /\ overlapped' = overlapped \cup others \cup (IF others = {} THEN {} ELSE {requests + 1})
  BY DEF I!Begin
<1>6. job[w].at = "idle" BY <1>5 DEF I!Idle
<1>7. others \subseteq 1..requests
  <2> SUFFICES ASSUME NEW v \in Workers, job[v].at \in I!Uploading PROVE job[v].no \in 1..requests
    OBVIOUS
  <2>1. job[v].at # "idle" /\ job[v].no \in Nat BY BatchFacts, StepsOf DEF Handling
  <2> QED BY <1>0, <2>1, BatchFacts DEF Owning
<1>8. \A v \in Workers \ {w} :
        job[v].at \in I!Uploading => job[v].no \in others /\ others # {}
  OBVIOUS
<1> HIDE DEF others, noted, next
<1>9. k \in Handling
  <2>1. requests + 1 \in Nat /\ {} \in SUBSET Pieces BY <1>0
  <2> QED BY <1>1, <1>2, <1>3, <1>4, <2>1 DEF Handling, I!Idle
<1>10. k.at = first /\ k.no = requests + 1 /\ k.taken = {} /\ k.known = noted /\ k.next = next
  BY DEF I!Idle
<1> HIDE DEF k
<1>11. overlapped' \subseteq 1..requests' BY <1>0, <1>5, <1>7
<1>12. overlapped \subseteq overlapped' BY <1>5
<1>13. \A v \in Workers \ {w} :
         job[v].at \in I!Uploading => job[v].no \in overlapped' /\ requests + 1 \in overlapped'
  BY <1>5, <1>8
<1> QED BY <1>1, <1>2, <1>5, <1>6, <1>9, <1>10, <1>11, <1>12, <1>13

LEMMA UploadBegins ==
  ASSUME BatchInv, NEW w \in Workers, NEW todo \in I!Uploads, I!Import(w, todo) \/ I!Add(w, todo)
  PROVE  BatchInv'
<1> DEFINE first == IF I!Import(w, todo) THEN "store" ELSE "collect"
<1>0. first \in {"store", "collect"} /\ I!Begin(w, first, todo) BY DEF I!Import, I!Add
<1>1. /\ IF first = "store"
         THEN ~batch /\ dir' = TRUE /\ files' = {} /\ manifest' = {}
         ELSE batch /\ UNCHANGED I!disk
  BY DEF I!Import, I!Add
<1> HIDE DEF first
<1>2. PICK k \in Handling :
        /\ job' = [job EXCEPT ![w] = k]
        /\ k.at = first /\ k.no = requests + 1 /\ k.taken = {}
        /\ \A f \in frames : f.image \in k.known /\ f.index < k.next
  BY <1>0, BeginGoes
<1>3. /\ job[w].at = "idle" /\ I!LoopFree(w)
      /\ requests' = requests + 1 /\ UNCHANGED <<I!rows, troubles>>
      /\ overlapped \subseteq overlapped' /\ overlapped' \subseteq 1..requests'
      /\ \A v \in Workers \ {w} :
           job[v].at \in I!Uploading => job[v].no \in overlapped' /\ requests + 1 \in overlapped'
  BY <1>0, BeginGoes
<1>4. /\ job' \in [Workers -> Handling] /\ job'[w] = k
      /\ \A v \in Workers \ {w} : job'[v] = job[v]
  BY <1>2, BatchFacts, HandlerMoves
<1>5. /\ BatchTyped /\ Framed /\ Kept /\ Listed /\ requests \in Nat /\ requests' \in Nat
      /\ requests <= requests' /\ frames \subseteq Pieces /\ (~batch => frames = {})
  BY <1>3, BatchFacts DEF BatchTyped, Framed
<1>6. frames' = frames /\ batch' = batch /\ collection' = collection /\ troubles' = troubles
  BY <1>3 DEF I!rows
<1>7. Alongside(w)
  <2>1. \A v \in Workers \ {w} :
          /\ job[v].at \in I!Uploading => files \subseteq files' \/ job[v].no \in overlapped'
          /\ job[v].at \in I!Alone => manifest' = manifest \/ manifest' = {}
    BY <1>1, <1>3 DEF I!disk
  <2>2. first \in I!Uploading /\ job'[w].at = first BY <1>0, <1>2, <1>4 DEF I!Uploading
  <2> QED BY <1>2, <1>3, <1>4, <1>5, <1>6, <2>1, <2>2 DEF Alongside
<1>8. BatchTyped'
  <2>1. dir' \in BOOLEAN /\ files' \subseteq Pieces /\ manifest' \subseteq Pieces
    BY <1>1, <1>5 DEF BatchTyped, I!disk
  <2> QED BY <1>3, <1>4, <1>5, <1>6, <2>1 DEF BatchTyped
<1>9. Framed' /\ Unrepeated' /\ Kept'
  <2>1. \A f \in frames : f \in files => f \in files' \/ f.no \in overlapped'
    BY <1>1, <1>5 DEF I!disk
  <2> QED BY <1>3, <1>5, <2>1, RowsStay
<1>10. Listed'
  <2>1. CASE first = "store" BY <1>1, <1>6, <2>1 DEF Listed
  <2>2. CASE first = "collect"
    <3>1. manifest' = manifest BY <1>1, <2>2 DEF I!disk
    <3>2. \A v \in Workers : job'[v].at \notin Unlisted => job[v].at \notin Unlisted
      BY <1>3, <1>4 DEF Unlisted
    <3> QED BY <1>5, <1>6, <3>1, <3>2 DEF Listed
  <2> QED BY <1>0, <2>1, <2>2
<1>11. Working(k)'
  <2>1. Owning(k)'
    <3>1. 1 <= k.no /\ k.no <= requests' BY <1>2, <1>3, <1>5
    <3> QED BY <1>2, <3>1, FS_EmptySet DEF Owning
  <2>2. Importing(k)'
    <3>1. k.at \in ImportAts => first = "store" /\ frames = {} /\ ~batch
      BY <1>0, <1>1, <1>2, <1>5 DEF ImportAts
    <3> QED BY <1>2, <1>6, <3>1 DEF Importing
  <2>3. Appending(k)'
    <3>1. \A f \in frames : f.no < k.no /\ f.no # k.no
      BY <1>2, <1>5 DEF Framed, Pieces
    <3> QED BY <1>2, <1>6, <3>1 DEF Appending, Foreseen
  <2>4. Removing(k)' BY <1>0, <1>2 DEF Removing
  <2> QED BY <2>1, <2>2, <2>3, <2>4 DEF Working
<1>12. Working(job[w])' BY <1>4, <1>11 DEF Working, Owning, Importing, Appending, Removing, Foreseen
<1> QED BY <1>7, <1>8, <1>9, <1>10, <1>12, MoveWorks

(* A step that leaves the rows and the history alone.                        *)
LEMMA QuietMoves ==
  ASSUME BatchInv, NEW w \in Workers, NEW k \in Handling, job' = [job EXCEPT ![w] = k],
         UNCHANGED <<I!rows, requests, overlapped>>,
         troubles' \in Nat, troubles' = 0 => troubles = 0,
         job[w].at # "idle", k.no = job[w].no \/ k.at = "idle",
         k.at \in I!Uploading => job[w].at \in I!Uploading,
         k.at \in I!Alone => job[w].at \in I!Alone \/ I!LoopFree(w),
         k.at \in Early => job[w].at \in Early,
         dir' \in BOOLEAN, files' \subseteq Pieces, manifest' \subseteq Pieces,
         \A v \in Workers \ {w} :
           /\ job[v].at \in I!Uploading => files \subseteq files' \/ job[v].no \in overlapped
           /\ job[v].at \in I!Alone => manifest' = manifest \/ manifest' = {},
         \A f \in frames : f \in files => f \in files' \/ f.no \in overlapped,
         Working(k)', Listed'
  PROVE  BatchInv'
<1>1. /\ job' \in [Workers -> Handling] /\ job'[w] = k
      /\ \A v \in Workers \ {w} : job'[v] = job[v]
  BY BatchFacts, HandlerMoves
<1>2. BatchTyped /\ requests \in Nat BY BatchFacts DEF BatchTyped
<1>3. /\ frames' = frames /\ batch' = batch /\ collection' = collection
      /\ requests' = requests /\ overlapped' = overlapped
  BY DEF I!rows
<1>4. Alongside(w) BY <1>1, <1>2, <1>3 DEF Alongside
<1>5. BatchTyped' BY <1>1, <1>2, <1>3 DEF BatchTyped
<1>6. Framed' /\ Unrepeated' /\ Kept' BY <1>2, <1>3, RowsStay
<1>7. Working(job[w])' BY <1>1 DEF Working, Owning, Importing, Appending, Removing, Foreseen
<1> QED BY <1>4, <1>5, <1>6, <1>7, MoveWorks

LEMMA Turns ==
  ASSUME BatchInv, NEW w \in Workers, NEW step \in BatchAts,
         job' = [job EXCEPT ![w] = [job[w] EXCEPT !.at = step]]
  PROVE  \E k \in Handling :
           /\ job' = [job EXCEPT ![w] = k]
           /\ k.at = step /\ k.no = job[w].no /\ k.taken = job[w].taken
           /\ k.known = job[w].known /\ k.next = job[w].next
<1> DEFINE k == [job[w] EXCEPT !.at = step]
<1>1. job[w] \in Handling BY BatchFacts
<1>2. k \in Handling BY <1>1 DEF Handling
<1>3. /\ k.at = step /\ k.no = job[w].no /\ k.taken = job[w].taken
      /\ k.known = job[w].known /\ k.next = job[w].next
  BY <1>1 DEF Handling
<1>4. job' = [job EXCEPT ![w] = k] OBVIOUS
<1> HIDE DEF k
<1> QED BY <1>2, <1>3, <1>4

LEMMA IdleHandles == I!Idle \in Handling /\ I!Idle.at = "idle" /\ I!Idle.taken = {}
<1>1. {} \in SUBSET Images /\ {} \in SUBSET Pieces /\ <<>> \in Seq(Images) OBVIOUS
<1>2. "idle" \in BatchAts BY DEF BatchAts
<1> QED BY <1>1, <1>2 DEF I!Idle, Handling

LEMMA IdleWorks == Working(I!Idle)'
<1>1. IsFiniteSet(I!Idle.taken) BY IdleHandles, FS_EmptySet
<1>2. "idle" \notin ImportAts \cup {"collect", "rows", "undo", "unlink"} BY DEF ImportAts
<1> QED BY <1>1, <1>2, IdleHandles DEF Working, Owning, Importing, Appending, Removing

(* An import that fails goes to remove its directory.                        *)
LEMMA GivesUp ==
  ASSUME BatchInv, NEW w \in Workers,
         job[w].at \in {"store", "collection", "batch", "frames"},
         job[w].at = "store" => I!LoopFree(w),
         job' = [job EXCEPT ![w] = [job[w] EXCEPT !.at = "clear"]],
         UNCHANGED <<I!rows, I!disk, requests, overlapped>>,
         troubles' \in Nat, troubles' = 0 => troubles = 0
  PROVE  BatchInv'
<1>1. "clear" \in BatchAts /\ "clear" \in I!Uploading /\ "clear" \notin Early
      /\ "clear" \in ImportAts /\ "clear" \notin AppendAts
  BY DEF BatchAts, ImportAts, AppendAts, I!Uploading, I!Alone, Early
<1>2. PICK k \in Handling :
        /\ job' = [job EXCEPT ![w] = k]
        /\ k.at = "clear" /\ k.no = job[w].no /\ k.taken = job[w].taken
        /\ k.known = job[w].known /\ k.next = job[w].next
  BY <1>1, Turns
<1>3. job[w].at \in ImportAts /\ job[w].at \in I!Uploading /\ job[w].at # "idle"
      /\ job[w].at \notin AppendAts /\ (job[w].at \in I!Alone \/ I!LoopFree(w))
  BY DEF ImportAts, AppendAts, I!Uploading, I!Alone
<1>4. /\ files' = files /\ manifest' = manifest /\ dir' = dir /\ frames' = frames
      /\ batch' = batch /\ overlapped' = overlapped /\ requests' = requests
  BY DEF I!rows, I!disk
<1>5. /\ Owning(job[w]) /\ Importing(job[w]) /\ BatchTyped
      /\ dir \in BOOLEAN /\ files \subseteq Pieces /\ manifest \subseteq Pieces
  BY BatchFacts DEF BatchTyped
<1>6. Working(k)'
  <2>1. Owning(k)' BY <1>1, <1>2, <1>3, <1>4, <1>5 DEF Owning
  <2>2. Importing(k)' BY <1>1, <1>2, <1>3, <1>4, <1>5 DEF Importing
  <2> QED BY <1>2, <2>1, <2>2 DEF Working, Appending, Removing
<1>7. Listed'
  <2>1. job'[w].at = "clear" BY <1>2, <1>5, HandlerMoves
  <2> QED BY <2>1 DEF Listed, Unlisted
<1> QED BY <1>1, <1>2, <1>3, <1>4, <1>5, <1>6, <1>7, QuietMoves

(* What is taken next belongs to the request and has the next place.         *)
LEMMA Takes ==
  ASSUME BatchInv, NEW w \in Workers, NEW picture \in Images, NEW appended \in BOOLEAN,
         job[w].at \in I!Uploading
  PROVE  /\ I!Item(job[w], picture, appended) \in Pieces
         /\ I!Item(job[w], picture, appended).no = job[w].no
         /\ I!Item(job[w], picture, appended).index = job[w].next
         /\ I!Item(job[w], picture, appended).image = picture
         /\ I!Item(job[w], picture, appended).appended = appended
<1>1. job[w].no \in Nat /\ job[w].next \in Nat BY BatchFacts DEF Handling
<1> QED BY <1>1 DEF I!Item, Pieces

LEMMA StoreWorks == ASSUME BatchInv, NEW w \in Workers, I!Store(w) PROVE BatchInv'
<1>1. job[w].at = "store" /\ I!LoopFree(w) BY DEF I!Store
<1>2. /\ job[w] \in Handling /\ Owning(job[w]) /\ Importing(job[w]) /\ BatchTyped /\ Listed
      /\ troubles \in Nat /\ dir \in BOOLEAN /\ files \subseteq Pieces /\ manifest \subseteq Pieces
  BY BatchFacts DEF BatchTyped
<1>3. job[w].at \in I!Uploading /\ job[w].at \in ImportAts /\ job[w].at \notin AppendAts
      /\ job[w].at \in Early
  BY <1>1 DEF I!Uploading, I!Alone, ImportAts, AppendAts, Early
<1>4. CASE I!At(w, "clear") /\ UNCHANGED <<I!rows, I!disk>>
  BY <1>1, <1>2, <1>4, GivesUp DEF I!At, I!Go
<1>5. CASE /\ I!At(w, "collection") /\ manifest' = job[w].taken
           /\ UNCHANGED <<I!rows, dir, files>>
  <2>1. "collection" \in BatchAts /\ "collection" \in I!Uploading /\ "collection" \in Early
        /\ "collection" \in ImportAts /\ "collection" \notin AppendAts
    BY DEF BatchAts, ImportAts, AppendAts, I!Uploading, I!Alone, Early
  <2>2. /\ job' = [job EXCEPT ![w] = [job[w] EXCEPT !.at = "collection"]]
        /\ UNCHANGED <<requests, troubles, overlapped>>
    BY <1>5 DEF I!At, I!Go
  <2>3. PICK k \in Handling :
          /\ job' = [job EXCEPT ![w] = k]
          /\ k.at = "collection" /\ k.no = job[w].no /\ k.taken = job[w].taken
          /\ k.known = job[w].known /\ k.next = job[w].next
    BY <2>1, <2>2, Turns
  <2>4. /\ files' = files /\ dir' = dir /\ frames' = frames /\ manifest' = k.taken
        /\ batch' = batch /\ overlapped' = overlapped /\ requests' = requests
    BY <1>5, <2>2, <2>3 DEF I!rows
  <2>5. manifest' \subseteq Pieces BY <2>4 DEF Handling
  <2>6. Working(k)'
    <3>1. Owning(k)' BY <1>1, <1>2, <1>3, <2>1, <2>3, <2>4 DEF Owning
    <3>2. Importing(k)' BY <1>1, <1>2, <1>3, <2>1, <2>3, <2>4 DEF Importing
    <3> QED BY <2>3, <3>1, <3>2 DEF Working, Appending, Removing
  <2>7. Listed'
    <3>1. job'[w].at = "collection" BY <1>2, <2>3, HandlerMoves
    <3> QED BY <3>1 DEF Listed, Unlisted
  <2>8. \A v \in Workers \ {w} : job[v].at \notin I!Alone BY <1>1 DEF I!LoopFree
  <2> QED
    BY <1>1, <1>2, <1>3, <1>5, <2>1, <2>2, <2>3, <2>4, <2>5, <2>6, <2>7, <2>8, QuietMoves
<1>6. CASE /\ job[w].todo # <<>>
           /\ I!Go(w, [job[w] EXCEPT !.todo = Tail(@), !.next = @ + 1,
                                   !.taken = @ \cup {I!Item(job[w], Head(job[w].todo), FALSE)}])
           /\ files' = files \cup {I!Item(job[w], Head(job[w].todo), FALSE)}
           /\ UNCHANGED <<I!rows, dir, manifest>>
  <2> DEFINE i == I!Item(job[w], Head(job[w].todo), FALSE)
             more == [job[w] EXCEPT !.todo = Tail(@), !.next = @ + 1, !.taken = @ \cup {i}]
  <2>0. job[w].todo \in Seq(Images) /\ job[w].next \in Nat /\ job[w].taken \subseteq Pieces
    BY <1>2 DEF Handling
  <2>1. Head(job[w].todo) \in Images /\ Tail(job[w].todo) \in Seq(Images) BY <1>6, <2>0
  <2>2. i \in Pieces /\ i.no = job[w].no /\ i.index = job[w].next /\ i.appended = FALSE
    BY <1>3, <2>1, Takes
  <2>3. /\ job' = [job EXCEPT ![w] = more] /\ UNCHANGED <<requests, troubles, overlapped>>
        /\ files' = files \cup {i}
    BY <1>6 DEF I!Go
  <2> HIDE DEF i
  <2>4. more \in Handling
    <3>1. job[w].next + 1 \in Nat /\ job[w].taken \cup {i} \in SUBSET Pieces BY <2>0, <2>2
    <3> QED BY <1>2, <2>1, <3>1 DEF Handling
  <2>5. /\ more.at = "store" /\ more.no = job[w].no /\ more.taken = job[w].taken \cup {i}
        /\ more.next = job[w].next + 1
    BY <1>1, <1>2 DEF Handling
  <2> HIDE DEF more
  <2>10. PICK k \in Handling :
           /\ job' = [job EXCEPT ![w] = k]
           /\ k.at = "store" /\ k.no = job[w].no /\ k.taken = job[w].taken \cup {i}
           /\ k.next = job[w].next + 1
    BY <2>3, <2>4, <2>5
  <2>6. /\ dir' = dir /\ frames' = frames /\ manifest' = manifest
        /\ batch' = batch /\ overlapped' = overlapped /\ requests' = requests
        /\ troubles' = troubles
    BY <1>6, <2>3 DEF I!rows
  <2>7. Working(k)'
    <3>1. Owning(k)'
      <4>1. IsFiniteSet(k.taken) BY <1>2, <2>10, FS_AddElement DEF Owning
      <4>2. ASSUME NEW t \in k.taken
            PROVE  t.no = k.no /\ t.index < k.next /\ t.appended = (k.at \in AppendAts)
        <5>0. (k.at \in AppendAts) = FALSE /\ (job[w].at \in AppendAts) = FALSE
          BY <1>1, <1>3, <2>10
        <5>1. CASE t = i
          <6>1. t.index < k.next BY <2>0, <2>2, <2>10, <5>1
          <6> QED BY <2>2, <2>10, <5>0, <5>1, <6>1
        <5>2. CASE t \in job[w].taken
          <6>1. t.index \in Nat /\ t.index < job[w].next BY <1>2, <2>0, <5>2 DEF Owning, Pieces
          <6>2. t.index < k.next BY <2>0, <2>10, <6>1
          <6> QED BY <1>1, <1>2, <2>10, <5>0, <5>2, <6>2 DEF Owning
        <5> QED BY <2>10, <5>1, <5>2
      <4> QED BY <1>1, <1>2, <2>10, <2>6, <4>1, <4>2 DEF Owning
    <3>2. Importing(k)' BY <1>1, <1>2, <1>3, <2>3, <2>10, <2>6 DEF Importing
    <3> QED BY <2>10, <3>1, <3>2 DEF Working, Appending, Removing
  <2>8. Listed'
    <3>1. \A v \in Workers : job'[v].at = job[v].at BY <1>1, <1>2, <2>3, <2>10, HandlerMoves
    <3> QED BY <1>2, <2>6, <3>1 DEF Listed
  <2>9. files' \subseteq Pieces BY <1>2, <2>2, <2>3
  <2> QED
    BY <1>1, <1>2, <1>3, <1>6, <2>2, <2>3, <2>10, <2>6, <2>7, <2>8, <2>9, QuietMoves
<1> QED BY <1>4, <1>5, <1>6 DEF I!Store

LEMMA ImportSessions ==
  ASSUME BatchInv, NEW w \in Workers,
         I!InsertCollection(w) \/ I!InsertBatch(w) \/ I!InsertFrames(w)
  PROVE  BatchInv'
<1>1. /\ job[w] \in Handling /\ Owning(job[w]) /\ Importing(job[w]) /\ BatchTyped /\ Framed
      /\ troubles \in Nat /\ requests \in Nat /\ frames \subseteq Pieces /\ IsFiniteSet(frames)
      /\ (~batch => frames = {}) /\ (batch => collection)
  BY BatchFacts DEF BatchTyped, Framed
<1>2. job[w].at \in {"collection", "batch", "frames"}
  BY DEF I!InsertCollection, I!InsertBatch, I!InsertFrames
<1>3. /\ job[w].at \in I!Uploading /\ job[w].at \in ImportAts /\ job[w].at \notin AppendAts
      /\ job[w].at \in I!Alone /\ job[w].at # "idle" /\ job[w].at # "store"
  BY <1>2 DEF I!Uploading, I!Alone, ImportAts, AppendAts
<1>4. CASE I!At(w, "clear") /\ UNCHANGED <<I!rows, I!disk>>
  BY <1>1, <1>2, <1>3, <1>4, GivesUp DEF I!At, I!Go
<1>5. CASE I!Fail(w, "clear") /\ UNCHANGED I!disk
  <2>1. /\ job' = [job EXCEPT ![w] = [job[w] EXCEPT !.at = "clear"]]
        /\ UNCHANGED <<I!rows, I!disk, requests, overlapped>>
        /\ troubles' = troubles + 1
    BY <1>5 DEF I!Fail, I!rows
  <2>2. troubles' \in Nat /\ ~ (troubles' = 0) BY <1>1, <2>1
  <2> QED BY <1>2, <1>3, <2>1, <2>2, GivesUp
<1>6. CASE /\ job[w].at = "collection" /\ ~collection /\ collection' = TRUE
           /\ I!At(w, "batch") /\ UNCHANGED <<batch, frames, I!disk>>
  <2>1. "batch" \in BatchAts /\ "batch" \in I!Uploading /\ "batch" \in Early
        /\ "batch" \in ImportAts /\ "batch" \notin AppendAts /\ job[w].at \in Early
    BY <1>6 DEF BatchAts, ImportAts, AppendAts, I!Uploading, I!Alone, Early
  <2>2. /\ job' = [job EXCEPT ![w] = [job[w] EXCEPT !.at = "batch"]]
        /\ requests' = requests /\ troubles' = troubles /\ overlapped' = overlapped
        /\ batch' = batch /\ frames' = frames /\ dir' = dir /\ files' = files
        /\ manifest' = manifest
    BY <1>6 DEF I!At, I!Go, I!disk
  <2>3. PICK k \in Handling :
          /\ job' = [job EXCEPT ![w] = k]
          /\ k.at = "batch" /\ k.no = job[w].no /\ k.taken = job[w].taken
          /\ k.known = job[w].known /\ k.next = job[w].next
    BY <2>1, <2>2, Turns
  <2>4. /\ job' \in [Workers -> Handling] /\ job'[w] = k
        /\ \A v \in Workers \ {w} : job'[v] = job[v]
    BY <1>1, <2>3, HandlerMoves
  <2>5. ~batch /\ frames = {} BY <1>1, <1>6
  <2>6. Alongside(w) BY <1>1, <1>3, <2>1, <2>2, <2>3, <2>4 DEF Alongside
  <2>7. BatchTyped' BY <1>1, <1>6, <2>2, <2>4 DEF BatchTyped
  <2>8. Framed' /\ Unrepeated' /\ Kept' /\ Listed'
    BY <2>2, <2>5 DEF Framed, Unrepeated, Kept, Listed
  <2>9. Working(k)'
    <3>1. Owning(k)' BY <1>1, <1>3, <2>1, <2>2, <2>3 DEF Owning
    <3>2. Importing(k)' BY <1>1, <1>3, <1>6, <2>1, <2>2, <2>3, <2>5 DEF Importing
    <3> QED BY <2>3, <3>1, <3>2 DEF Working, Appending, Removing
  <2>10. Working(job[w])'
    BY <2>4, <2>9 DEF Working, Owning, Importing, Appending, Removing, Foreseen
  <2> QED BY <2>6, <2>7, <2>8, <2>10, MoveWorks
<1>7. CASE /\ job[w].at = "batch" /\ collection /\ ~batch /\ batch' = TRUE
           /\ I!At(w, "frames") /\ UNCHANGED <<collection, frames, I!disk>>
  <2>1. "frames" \in BatchAts /\ "frames" \in I!Uploading /\ "frames" \notin Early
        /\ "frames" \in ImportAts /\ "frames" \notin AppendAts
    BY DEF BatchAts, ImportAts, AppendAts, I!Uploading, I!Alone, Early
  <2>2. /\ job' = [job EXCEPT ![w] = [job[w] EXCEPT !.at = "frames"]]
        /\ requests' = requests /\ troubles' = troubles /\ overlapped' = overlapped
        /\ collection' = collection /\ frames' = frames /\ dir' = dir /\ files' = files
        /\ manifest' = manifest
    BY <1>7 DEF I!At, I!Go, I!disk
  <2>3. PICK k \in Handling :
          /\ job' = [job EXCEPT ![w] = k]
          /\ k.at = "frames" /\ k.no = job[w].no /\ k.taken = job[w].taken
          /\ k.known = job[w].known /\ k.next = job[w].next
    BY <2>1, <2>2, Turns
  <2>4. /\ job' \in [Workers -> Handling] /\ job'[w] = k
        /\ \A v \in Workers \ {w} : job'[v] = job[v]
    BY <1>1, <2>3, HandlerMoves
  <2>5. frames = {} BY <1>1, <1>7
  <2>6. Alongside(w) BY <1>1, <1>3, <1>7, <2>1, <2>2, <2>3, <2>4 DEF Alongside
  <2>7. BatchTyped' BY <1>1, <1>7, <2>2, <2>4 DEF BatchTyped
  <2>8. Framed' /\ Unrepeated' /\ Kept'
    BY <1>7, <2>2, <2>5 DEF Framed, Unrepeated, Kept
  <2>9. Listed' BY <2>3, <2>4 DEF Listed, Unlisted
  <2>10. Working(k)'
    <3>1. Owning(k)' BY <1>1, <1>3, <2>1, <2>2, <2>3 DEF Owning
    <3>2. Importing(k)' BY <1>1, <1>3, <1>7, <2>1, <2>2, <2>3, <2>5 DEF Importing
    <3> QED BY <2>3, <3>1, <3>2 DEF Working, Appending, Removing
  <2>11. Working(job[w])'
    BY <2>4, <2>10 DEF Working, Owning, Importing, Appending, Removing, Foreseen
  <2> QED BY <2>6, <2>7, <2>8, <2>9, <2>11, MoveWorks
<1>8. CASE /\ job[w].at = "frames" /\ batch /\ frames' = frames \cup job[w].taken
           /\ I!Go(w, I!Idle) /\ UNCHANGED <<collection, batch, I!disk>>
  <2>1. /\ job' = [job EXCEPT ![w] = I!Idle]
        /\ requests' = requests /\ troubles' = troubles /\ overlapped' = overlapped
        /\ collection' = collection /\ batch' = batch /\ dir' = dir /\ files' = files
        /\ manifest' = manifest
    BY <1>8 DEF I!Go, I!disk
  <2>2. frames = {} /\ frames' = job[w].taken BY <1>1, <1>3, <1>8 DEF Importing
  <2>3. /\ job' \in [Workers -> Handling] /\ job'[w] = I!Idle /\ job'[w].at = "idle"
        /\ \A v \in Workers \ {w} : job'[v] = job[v]
    BY <1>1, <2>1, HandlerMoves, IdleHandles
  <2>4. "idle" \notin I!Alone \cup I!Uploading \cup Early BY DEF I!Alone, I!Uploading, Early
  <2>5. Alongside(w) BY <1>1, <1>3, <1>8, <2>1, <2>3, <2>4 DEF Alongside
  <2>6. \A t \in job[w].taken : t \in Pieces /\ t.no = job[w].no /\ t.appended = FALSE
    <3>1. (job[w].at \in AppendAts) = FALSE BY <1>3
    <3> QED BY <1>1, <3>1 DEF Owning, Handling
  <2>7. BatchTyped'
    <3>1. frames' \subseteq Pieces /\ IsFiniteSet(frames') BY <1>1, <2>2, <2>6 DEF Owning
    <3> QED BY <1>1, <2>1, <2>3, <3>1 DEF BatchTyped
  <2>8. Framed'
    <3>1. job[w].no <= requests BY <1>1, <1>3 DEF Owning
    <3>2. \A f \in frames' : f.no <= requests' BY <2>1, <2>2, <2>6, <3>1
    <3>3. \A f, g \in frames' : f.appended = g.appended BY <2>2, <2>6
    <3>4. batch' /\ collection' BY <1>1, <1>8, <2>1
    <3> QED BY <3>2, <3>3, <3>4 DEF Framed
  <2>9. Unrepeated'
    <3>1. \A f, g \in frames' : ~ Repeats(f, g) BY <2>2, <2>6 DEF Repeats
    <3> QED BY <3>1 DEF Unrepeated, Repeats
  <2>10. Kept' BY <1>1, <1>3, <1>8, <2>1, <2>2, <2>6 DEF Kept, Importing
  <2>11. Listed' BY <1>1, <1>3, <1>8, <2>1, <2>2 DEF Listed, Importing
  <2>12. Working(job[w])'
    BY <2>3, IdleWorks DEF Working, Owning, Importing, Appending, Removing, Foreseen
  <2> QED BY <2>5, <2>7, <2>8, <2>9, <2>10, <2>11, <2>12, MoveWorks
<1> QED BY <1>4, <1>5, <1>6, <1>7, <1>8
  DEF I!InsertCollection, I!InsertBatch, I!InsertFrames, I!rows, I!disk, I!Fail

(* A step that ends a request and leaves the rows alone.                     *)
LEMMA QuietEnds ==
  ASSUME BatchInv, NEW w \in Workers, job' = [job EXCEPT ![w] = I!Idle], job[w].at # "idle",
         UNCHANGED <<I!rows, requests, overlapped, troubles>>,
         dir' \in BOOLEAN, files' \subseteq Pieces, manifest' \subseteq Pieces,
         \A v \in Workers \ {w} :
           /\ job[v].at \in I!Uploading => files \subseteq files' \/ job[v].no \in overlapped
           /\ job[v].at \in I!Alone => manifest' = manifest \/ manifest' = {},
         \A f \in frames : f \in files => f \in files' \/ f.no \in overlapped,
         Listed'
  PROVE  BatchInv'
<1>1. "idle" \notin I!Alone \cup I!Uploading \cup Early BY DEF I!Alone, I!Uploading, Early
<1>2. troubles' \in Nat /\ (troubles' = 0 => troubles = 0) BY BatchFacts DEF BatchTyped
<1> QED BY <1>1, <1>2, IdleHandles, IdleWorks, QuietMoves

LEMMA ClearWorks == ASSUME BatchInv, NEW w \in Workers, I!Clear(w) PROVE BatchInv'
<1>1. /\ job[w].at = "clear" /\ dir' = FALSE /\ files' = {} /\ manifest' = {}
      /\ job' = [job EXCEPT ![w] = I!Idle]
      /\ UNCHANGED <<I!rows, requests, overlapped, troubles>>
  BY DEF I!Clear, I!Go
<1>2. job[w].at \in I!Uploading /\ job[w].at \in ImportAts
  BY <1>1 DEF I!Uploading, I!Alone, ImportAts
<1>3. \A v \in Workers \ {w} : job[v].at \in I!Uploading => job[v].no \in overlapped
  BY <1>2, BatchFacts DEF BatchBeside
<1>4. \A f \in frames : f.no \in overlapped BY <1>2, BatchFacts DEF Importing
<1>5. Listed' BY <1>1 DEF Listed
<1> QED BY <1>1, <1>3, <1>4, <1>5, QuietEnds

LEMMA CollectWorks == ASSUME BatchInv, NEW w \in Workers, I!Collect(w) PROVE BatchInv'
<1>1. job[w].at = "collect" /\ I!LoopFree(w) /\ UNCHANGED <<I!rows, I!disk>> BY DEF I!Collect
<1>2. /\ job[w] \in Handling /\ Owning(job[w]) /\ Appending(job[w]) /\ BatchTyped /\ Listed
      /\ troubles \in Nat /\ dir \in BOOLEAN /\ files \subseteq Pieces /\ manifest \subseteq Pieces
      /\ frames \subseteq Pieces
  BY BatchFacts DEF BatchTyped
<1>3. /\ job[w].at \in I!Uploading /\ job[w].at \in AppendAts /\ job[w].at \notin ImportAts
      /\ (job[w].at \in AppendAts) = TRUE
  BY <1>1 DEF I!Uploading, I!Alone, ImportAts, AppendAts
<1>4. /\ dir' = dir /\ frames' = frames /\ manifest' = manifest /\ files' = files
      /\ batch' = batch
  BY <1>1 DEF I!rows, I!disk
<1>5. CASE I!Go(w, I!Idle)
  <2>1. /\ job' = [job EXCEPT ![w] = I!Idle]
        /\ UNCHANGED <<requests, troubles, overlapped>>
    BY <1>5 DEF I!Go
  <2>2. /\ job'[w].at = "idle" /\ \A v \in Workers \ {w} : job'[v] = job[v]
    BY <1>2, <2>1, HandlerMoves, IdleHandles
  <2>3. Listed'
    <3>1. \A v \in Workers : job'[v].at \notin Unlisted => job[v].at \notin Unlisted
      BY <1>1, <2>2 DEF Unlisted
    <3> QED BY <1>2, <1>4, <2>1, <3>1 DEF Listed
  <2> QED BY <1>1, <1>2, <1>4, <2>1, <2>3, QuietEnds
<1>6. CASE I!At(w, "rows")
  <2>1. "rows" \in BatchAts /\ "rows" \in I!Uploading /\ "rows" \notin Early
        /\ "rows" \notin ImportAts /\ ("rows" \in AppendAts) = TRUE
    BY DEF BatchAts, ImportAts, AppendAts, I!Uploading, I!Alone, Early
  <2>2. /\ job' = [job EXCEPT ![w] = [job[w] EXCEPT !.at = "rows"]]
        /\ UNCHANGED <<requests, troubles, overlapped>>
    BY <1>6 DEF I!At, I!Go
  <2>3. PICK k \in Handling :
          /\ job' = [job EXCEPT ![w] = k]
          /\ k.at = "rows" /\ k.no = job[w].no /\ k.taken = job[w].taken
          /\ k.known = job[w].known /\ k.next = job[w].next
    BY <2>1, <2>2, Turns
  <2>4. Working(k)'
    <3>1. Owning(k)' BY <1>1, <1>2, <1>3, <2>1, <2>2, <2>3 DEF Owning
    <3>2. Appending(k)' BY <1>1, <1>2, <1>4, <2>2, <2>3 DEF Appending, Foreseen
    <3> QED BY <2>1, <2>3, <3>1, <3>2 DEF Working, Importing, Removing
  <2>5. Listed'
    <3>1. /\ job'[w].at = "rows" /\ \A v \in Workers \ {w} : job'[v] = job[v]
      BY <1>2, <2>3, HandlerMoves
    <3>2. \A v \in Workers : job'[v].at \notin Unlisted => job[v].at \notin Unlisted
      BY <1>1, <3>1 DEF Unlisted
    <3> QED BY <1>2, <1>4, <2>2, <3>2 DEF Listed
  <2> QED BY <1>1, <1>2, <1>3, <1>4, <2>1, <2>2, <2>3, <2>4, <2>5, QuietMoves
<1>7. CASE job[w].todo # <<>> /\ ~ I!Go(w, I!Idle)
  <2> DEFINE picture == Head(job[w].todo)
             i == I!Item(job[w], picture, TRUE)
             skip == [job[w] EXCEPT !.todo = Tail(@)]
             more == [job[w] EXCEPT !.todo = Tail(@), !.next = @ + 1,
                                    !.known = I!Known(job[w], picture),
                                    !.taken = @ \cup {i}]
  <2>0. job[w].todo \in Seq(Images) /\ job[w].next \in Nat /\ job[w].taken \subseteq Pieces
        /\ job[w].known \subseteq Images
    BY <1>2 DEF Handling
  <2>1. picture \in Images /\ Tail(job[w].todo) \in Seq(Images) BY <1>7, <2>0
  <2>2. i \in Pieces /\ i.no = job[w].no /\ i.index = job[w].next /\ i.appended = TRUE
        /\ i.image = picture
    BY <1>3, <2>1, Takes
  <2>3. UNCHANGED <<requests, troubles, overlapped>>
    BY <1>7 DEF I!Collect, I!Go, I!At
  <2>4. CASE picture \in job[w].known
    <3>1. job' = [job EXCEPT ![w] = skip] BY <1>7, <2>4 DEF I!Collect, I!Go
    <3>2. skip \in Handling BY <1>2, <2>1 DEF Handling
    <3>3. /\ skip.at = "collect" /\ skip.no = job[w].no /\ skip.taken = job[w].taken
          /\ skip.known = job[w].known /\ skip.next = job[w].next
      BY <1>1, <1>2 DEF Handling
    <3> HIDE DEF skip
    <3>4. PICK k \in Handling :
            /\ job' = [job EXCEPT ![w] = k]
            /\ k.at = "collect" /\ k.no = job[w].no /\ k.taken = job[w].taken
            /\ k.known = job[w].known /\ k.next = job[w].next
      BY <3>1, <3>2, <3>3
    <3>5. Working(k)'
      <4>1. Owning(k)' BY <1>1, <1>2, <1>3, <2>3, <3>4 DEF Owning
      <4>2. Appending(k)' BY <1>1, <1>2, <1>4, <2>3, <3>4 DEF Appending, Foreseen
      <4> QED BY <1>1, <1>3, <3>4, <4>1, <4>2 DEF Working, Importing, Removing
    <3>6. Listed'
      <4>1. \A v \in Workers : job'[v].at = job[v].at BY <1>1, <1>2, <3>4, HandlerMoves
      <4> QED BY <1>2, <1>4, <2>3, <4>1 DEF Listed
    <3> QED BY <1>1, <1>2, <1>3, <1>4, <2>3, <3>4, <3>5, <3>6, QuietMoves
  <2>5. CASE picture \notin job[w].known
    <3>1. job' = [job EXCEPT ![w] = more] BY <1>7, <2>5 DEF I!Collect, I!Go
    <3> HIDE DEF i, picture
    <3>2. more \in Handling
      <4>1. job[w].next + 1 \in Nat /\ job[w].taken \cup {i} \in SUBSET Pieces BY <2>0, <2>2
      <4>2. I!Known(job[w], picture) \in SUBSET Images BY <2>0, <2>1 DEF I!Known
      <4> QED BY <1>2, <2>1, <4>1, <4>2 DEF Handling
    <3>3. /\ more.at = "collect" /\ more.no = job[w].no /\ more.taken = job[w].taken \cup {i}
          /\ more.known = job[w].known \cup {picture} /\ more.next = job[w].next + 1
      BY <1>1, <1>2 DEF Handling, I!Known
    <3> HIDE DEF more
    <3>4. PICK k \in Handling :
            /\ job' = [job EXCEPT ![w] = k]
            /\ k.at = "collect" /\ k.no = job[w].no /\ k.taken = job[w].taken \cup {i}
            /\ k.known = job[w].known \cup {picture} /\ k.next = job[w].next + 1
      BY <3>1, <3>2, <3>3
    <3>5. ASSUME NEW t \in job[w].taken
          PROVE  t.index \in Nat /\ t.index < job[w].next /\ t.index < k.next /\ t.index # i.index
      <4>1. t.index \in Nat /\ t.index < job[w].next BY <1>2, <2>0 DEF Owning, Pieces
      <4> QED BY <2>0, <2>2, <3>4, <4>1
    <3>6. i.index < k.next BY <2>0, <2>2, <3>4
    <3>7. Owning(k)'
      <4>1. IsFiniteSet(k.taken) BY <1>2, <3>4, FS_AddElement DEF Owning
      <4>2. ASSUME NEW t \in k.taken
            PROVE  t.no = k.no /\ t.index < k.next /\ t.appended = (k.at \in AppendAts)
        <5>0. (k.at \in AppendAts) = TRUE BY <1>1, <1>3, <3>4
        <5>1. CASE t = i BY <2>2, <3>4, <3>6, <5>0, <5>1
        <5>2. CASE t \in job[w].taken BY <1>2, <1>3, <3>4, <3>5, <5>0, <5>2 DEF Owning
        <5> QED BY <3>4, <5>1, <5>2
      <4> QED BY <1>1, <1>2, <2>3, <3>4, <4>1, <4>2 DEF Owning
    <3>8. Appending(k)'
      <4>1. \A g \in frames : g.no # k.no BY <1>1, <1>2, <3>4 DEF Appending
      <4>2. ASSUME NEW g \in frames, ~ (g.no \in overlapped /\ k.no \in overlapped)
            PROVE  Foreseen(g, k)
        <5>1. Foreseen(g, job[w]) BY <1>1, <1>2, <3>4, <4>2 DEF Appending
        <5>2. g.index \in Nat /\ g.index < job[w].next BY <1>2, <5>1 DEF Foreseen, Pieces
        <5>3. g.index < k.next /\ i.index # g.index BY <2>0, <2>2, <3>4, <5>2
        <5>4. g.image \in job[w].known BY <5>1 DEF Foreseen
        <5>5. i.image # g.image BY <2>2, <2>5, <5>4
        <5> QED BY <3>4, <5>1, <5>3, <5>5 DEF Foreseen
      <4>3. \A t \in k.taken : t.image \in k.known
        BY <1>1, <1>2, <2>2, <3>4 DEF Appending
      <4>4. ASSUME NEW t \in k.taken, NEW u \in k.taken, t # u
            PROVE  t.image # u.image /\ t.index # u.index
        <5>1. \A s \in job[w].taken : s.image # i.image
          BY <1>1, <1>2, <2>2, <2>5 DEF Appending
        <5> QED BY <1>1, <1>2, <3>4, <3>5, <4>4, <5>1 DEF Appending
      <4> QED BY <1>4, <2>3, <4>1, <4>2, <4>3, <4>4 DEF Appending, Foreseen
    <3>9. Working(k)' BY <1>1, <1>3, <3>4, <3>7, <3>8 DEF Working, Importing, Removing
    <3>10. Listed'
      <4>1. \A v \in Workers : job'[v].at = job[v].at BY <1>1, <1>2, <3>4, HandlerMoves
      <4> QED BY <1>2, <1>4, <2>3, <4>1 DEF Listed
    <3> QED BY <1>1, <1>2, <1>3, <1>4, <2>3, <3>4, <3>9, <3>10, QuietMoves
  <2> QED BY <2>4, <2>5
<1> QED BY <1>5, <1>6, <1>7 DEF I!Collect

LEMMA AppendSteps ==
  ASSUME BatchInv, NEW w \in Workers, I!Write(w) \/ I!InsertAppended(w) \/ I!Undo(w) \/ I!Rewrite(w)
  PROVE  BatchInv'
<1>1. /\ job[w] \in Handling /\ Owning(job[w]) /\ Appending(job[w]) /\ BatchTyped /\ Framed
      /\ Unrepeated /\ Kept /\ Listed
      /\ troubles \in Nat /\ requests \in Nat /\ dir \in BOOLEAN /\ files \subseteq Pieces
      /\ manifest \subseteq Pieces /\ frames \subseteq Pieces /\ IsFiniteSet(frames)
      /\ job[w].taken \subseteq Pieces /\ IsFiniteSet(job[w].taken)
  BY BatchFacts DEF BatchTyped, Handling, Owning
<1>2. job[w].at \in {"rows", "undo", "manifest"} BY DEF I!Write, I!InsertAppended, I!Undo, I!Rewrite
<1>3. /\ job[w].at \in I!Uploading /\ job[w].at \in AppendAts /\ job[w].at \notin ImportAts
      /\ (job[w].at \in AppendAts) = TRUE /\ job[w].at \in I!Alone /\ job[w].at # "idle"
      /\ job[w].at \notin Early /\ job[w].at # "unlink"
  BY <1>2 DEF I!Uploading, I!Alone, ImportAts, AppendAts, Early
<1>4. \A v \in Workers \ {w} :
        job[v].at \notin I!Alone /\ (job[v].at \in I!Uploading => job[v].no \in overlapped)
  BY <1>3, BatchFacts DEF BatchBeside
<1>5. job[w].no \in Nat /\ job[w].no <= requests
      /\ \A t \in job[w].taken : t.no = job[w].no /\ t.appended = TRUE
  BY <1>1, <1>3 DEF Owning, Handling
<1>6. CASE I!Write(w)
  <2>1. PICK k \in Handling : k = job[w] BY <1>1
  <2>2. /\ k.at = job[w].at /\ k.no = job[w].no /\ k.taken = job[w].taken
        /\ k.known = job[w].known /\ k.next = job[w].next /\ job[w].at = "rows"
    BY <1>6, <2>1 DEF I!Write
  <2>3. /\ job' = [job EXCEPT ![w] = k] /\ UNCHANGED <<requests, troubles, overlapped>>
        /\ dir' = TRUE /\ files' = files \cup job[w].taken /\ UNCHANGED <<I!rows, manifest>>
    BY <1>6, <2>1 DEF I!Write, I!Go
  <2>4. frames' = frames /\ batch' = batch BY <2>3 DEF I!rows
  <2>5. Working(k)'
    <3>1. Owning(k)' BY <1>1, <1>3, <2>2, <2>3 DEF Owning
    <3>2. Appending(k)' BY <1>1, <2>2, <2>3, <2>4 DEF Appending, Foreseen
    <3> QED BY <1>3, <2>2, <3>1, <3>2 DEF Working, Importing, Removing
  <2>6. Listed'
    <3>1. \A v \in Workers : job'[v].at = job[v].at BY <1>1, <2>2, <2>3, HandlerMoves
    <3> QED BY <1>1, <2>3, <2>4, <3>1 DEF Listed
  <2> QED BY <1>1, <1>3, <2>2, <2>3, <2>5, <2>6, QuietMoves
<1>7. CASE /\ job[w].at = "rows" /\ job[w].taken \subseteq files /\ (job[w].taken = {} \/ batch)
           /\ frames' = frames \cup job[w].taken
           /\ I!At(w, "manifest") /\ UNCHANGED <<collection, batch, I!disk>>
  <2>1. "manifest" \in BatchAts /\ "manifest" \in I!Uploading /\ "manifest" \notin Early
        /\ "manifest" \notin ImportAts /\ ("manifest" \in AppendAts) = TRUE
    BY DEF BatchAts, ImportAts, AppendAts, I!Uploading, I!Alone, Early
  <2>2. /\ job' = [job EXCEPT ![w] = [job[w] EXCEPT !.at = "manifest"]]
        /\ requests' = requests /\ troubles' = troubles /\ overlapped' = overlapped
        /\ collection' = collection /\ batch' = batch /\ dir' = dir /\ files' = files
        /\ manifest' = manifest
    BY <1>7 DEF I!At, I!Go, I!disk
  <2>3. PICK k \in Handling :
          /\ job' = [job EXCEPT ![w] = k]
          /\ k.at = "manifest" /\ k.no = job[w].no /\ k.taken = job[w].taken
          /\ k.known = job[w].known /\ k.next = job[w].next
    BY <2>1, <2>2, Turns
  <2>4. /\ job' \in [Workers -> Handling] /\ job'[w] = k
        /\ \A v \in Workers \ {w} : job'[v] = job[v]
    BY <1>1, <2>3, HandlerMoves
  <2>5. Alongside(w)
    <3>1. frames' \subseteq frames \/ (batch /\ frames' = frames \cup job[w].taken) BY <1>7
    <3> QED BY <1>1, <1>3, <1>4, <2>1, <2>2, <2>3, <2>4, <3>1 DEF Alongside
  <2>6. BatchTyped'
    <3>1. frames' \subseteq Pieces /\ IsFiniteSet(frames') BY <1>1, <1>7, FS_Union
    <3> QED BY <1>1, <2>2, <2>4, <3>1 DEF BatchTyped
  <2>7. \A g \in frames : g.no # job[w].no BY <1>1, <1>7 DEF Appending
  <2>8. Framed'
    <3>1. frames' # {} => batch' BY <1>1, <1>7, <2>2 DEF Framed
    <3>2. \A f \in frames' : f.no <= requests' BY <1>1, <1>5, <1>7, <2>2 DEF Framed
    <3>3. ASSUME NEW f \in frames', NEW g \in frames', f.no = g.no
          PROVE  f.appended = g.appended
      <4>1. CASE f \in frames /\ g \in frames BY <1>1, <3>3, <4>1 DEF Framed
      <4>2. CASE f \in job[w].taken /\ g \in job[w].taken
        <5>1. f.appended = TRUE /\ g.appended = TRUE BY <1>5, <4>2
        <5> QED BY <5>1
      <4> QED BY <1>5, <1>7, <2>7, <3>3, <4>1, <4>2
    <3> QED BY <1>1, <2>2, <3>1, <3>2, <3>3 DEF Framed
  <2>9. Unrepeated'
    <3> SUFFICES ASSUME NEW f \in frames', NEW g \in frames', Repeats(f, g)
                 PROVE  f.no \in overlapped /\ g.no \in overlapped
      BY <2>2 DEF Unrepeated, Repeats
    <3>1. f # g /\ f.appended /\ g.no <= f.no /\ (f.image = g.image \/ f.index = g.index)
      BY DEF Repeats
    <3>2. CASE f \in frames /\ g \in frames BY <1>1, <3>2 DEF Unrepeated
    <3>3. CASE f \in job[w].taken /\ g \in job[w].taken
      BY <1>1, <1>7, <3>1, <3>3 DEF Appending
    <3>4. CASE f \in job[w].taken /\ g \in frames
      <4>1. ~ Foreseen(g, job[w]) BY <3>1, <3>4 DEF Foreseen
      <4> QED BY <1>1, <1>5, <1>7, <3>4, <4>1 DEF Appending
    <3>5. CASE f \in frames /\ g \in job[w].taken
      <4>1. f.no \in Nat /\ job[w].no <= f.no BY <1>1, <1>5, <3>1, <3>5 DEF Pieces
      <4>2. ~ Foreseen(f, job[w]) BY <1>5, <4>1 DEF Foreseen
      <4> QED BY <1>1, <1>5, <1>7, <3>5, <4>2 DEF Appending
    <3> QED BY <1>7, <3>2, <3>3, <3>4, <3>5
  <2>10. Kept' BY <1>1, <1>7, <2>2 DEF Kept
  <2>11. Listed' BY <2>3, <2>4 DEF Listed, Unlisted
  <2>12. Working(k)'
    <3>1. Owning(k)' BY <1>1, <1>3, <2>1, <2>2, <2>3 DEF Owning
    <3> QED BY <2>1, <2>3, <3>1 DEF Working, Importing, Appending, Removing
  <2>13. Working(job[w])'
    BY <2>4, <2>12 DEF Working, Owning, Importing, Appending, Removing, Foreseen
  <2> QED BY <2>5, <2>6, <2>8, <2>9, <2>10, <2>11, <2>13, MoveWorks
<1>8. CASE /\ job[w].at = "rows"
           /\ job' = [job EXCEPT ![w] = [job[w] EXCEPT !.at = "undo"]]
           /\ UNCHANGED <<I!rows, I!disk, requests, overlapped>>
           /\ \/ troubles' = troubles /\ ~batch
              \/ troubles' = troubles + 1
  <2>1. "undo" \in BatchAts /\ "undo" \in I!Uploading /\ "undo" \notin Early
        /\ "undo" \notin ImportAts /\ ("undo" \in AppendAts) = TRUE
    BY DEF BatchAts, ImportAts, AppendAts, I!Uploading, I!Alone, Early
  <2>2. PICK k \in Handling :
          /\ job' = [job EXCEPT ![w] = k]
          /\ k.at = "undo" /\ k.no = job[w].no /\ k.taken = job[w].taken
          /\ k.known = job[w].known /\ k.next = job[w].next
    BY <1>8, <2>1, Turns
  <2>3. /\ frames' = frames /\ batch' = batch /\ dir' = dir /\ files' = files
        /\ manifest' = manifest /\ requests' = requests /\ overlapped' = overlapped
    BY <1>8 DEF I!rows, I!disk
  <2>4. troubles' \in Nat /\ (troubles' = 0 => troubles = 0) /\ (troubles' = 0 => ~batch)
    BY <1>1, <1>8
  <2>5. Working(k)'
    <3>1. Owning(k)' BY <1>1, <1>3, <2>1, <2>2, <2>3 DEF Owning
    <3>2. Appending(k)' BY <1>1, <1>8, <2>2, <2>3 DEF Appending
    <3> QED BY <2>1, <2>2, <3>1, <3>2 DEF Working, Importing, Removing
  <2>6. Listed' BY <2>3, <2>4 DEF Listed
  <2> QED BY <1>1, <1>3, <1>8, <2>1, <2>2, <2>3, <2>4, <2>5, <2>6, QuietMoves
<1>9. CASE I!Undo(w)
  <2>1. /\ job[w].at = "undo" /\ files' = files \ job[w].taken
        /\ job' = [job EXCEPT ![w] = I!Idle]
        /\ UNCHANGED <<requests, troubles, overlapped, I!rows, dir, manifest>>
    BY <1>9 DEF I!Undo, I!Go
  <2>2. frames' = frames /\ batch' = batch BY <2>1 DEF I!rows
  <2>3. \A f \in frames : f \in files => f \in files' BY <1>1, <1>5, <2>1 DEF Appending
  <2>4. /\ job'[w].at = "idle" /\ \A v \in Workers \ {w} : job'[v] = job[v]
    BY <1>1, <2>1, HandlerMoves, IdleHandles
  <2>5. Listed'
    <3>1. \A v \in Workers : job'[v].at \notin Unlisted => job[v].at \notin Unlisted
      BY <2>1, <2>4 DEF Unlisted
    <3> QED BY <1>1, <2>1, <2>2, <3>1 DEF Listed
  <2> QED BY <1>1, <1>3, <1>4, <2>1, <2>3, <2>5, QuietEnds
<1>10. CASE I!Rewrite(w)
  <2>1. /\ dir' = TRUE /\ manifest' = (IF manifest = {} THEN {} ELSE frames)
        /\ job' = [job EXCEPT ![w] = I!Idle]
        /\ UNCHANGED <<requests, troubles, overlapped, I!rows, files>>
    BY <1>10 DEF I!Rewrite, I!Go
  <2>2. frames' = frames BY <2>1 DEF I!rows
  <2>3. Listed' BY <2>1, <2>2 DEF Listed
  <2>4. manifest' \subseteq Pieces BY <1>1, <2>1
  <2> QED BY <1>1, <1>3, <1>4, <2>1, <2>3, <2>4, QuietEnds
<1>11. CASE I!InsertAppended(w)
  <2>1. CASE I!At(w, "undo") /\ UNCHANGED <<I!rows, I!disk>> /\ ~batch
    BY <1>8, <1>11, <2>1 DEF I!InsertAppended, I!At, I!Go
  <2>2. CASE I!Fail(w, "undo") /\ UNCHANGED I!disk
    <3>1. /\ job' = [job EXCEPT ![w] = [job[w] EXCEPT !.at = "undo"]]
          /\ troubles' = troubles + 1 /\ UNCHANGED <<I!rows, I!disk, requests, overlapped>>
      BY <2>2 DEF I!Fail, I!rows
    <3> QED BY <1>8, <1>11, <3>1 DEF I!InsertAppended
  <2> QED BY <1>7, <1>11, <2>1, <2>2 DEF I!InsertAppended, I!disk
<1> QED BY <1>6, <1>9, <1>10, <1>11

LEMMA DeleteWorks ==
  ASSUME BatchInv, NEW w \in Workers, NEW whole \in BOOLEAN, I!Delete(w, whole)
  PROVE  BatchInv'
<1> DEFINE goes == IF batch THEN [I!Idle EXCEPT !.at = "unlink", !.no = requests + 1] ELSE I!Idle
<1>1. /\ job[w] = I!Idle /\ job' = [job EXCEPT ![w] = goes] /\ batch' = FALSE /\ frames' = {}
      /\ collection' \in BOOLEAN /\ requests' = requests + 1
      /\ dir' = dir /\ files' = files /\ manifest' = manifest
      /\ troubles' = troubles /\ overlapped' = overlapped
  BY BatchFacts DEF I!Delete, I!disk, BatchTyped
<1>2. /\ BatchTyped /\ requests \in Nat /\ requests' \in Nat /\ requests <= requests'
      /\ requests + 1 \in Nat /\ 1 <= requests + 1 /\ overlapped \subseteq 1..requests
  BY <1>1, BatchFacts DEF BatchTyped
<1>3. job[w].at = "idle" BY <1>1, IdleHandles
<1>4. "unlink" \notin ImportAts \cup AppendAts \cup I!Uploading \cup Early /\ "unlink" \in BatchAts
  BY DEF ImportAts, AppendAts, I!Uploading, I!Alone, Early, BatchAts
<1>5. "idle" \notin I!Alone \cup I!Uploading \cup Early /\ "unlink" \notin I!Alone
  BY DEF I!Alone, I!Uploading, Early
<1>6. goes \in Handling
  <2>1. [I!Idle EXCEPT !.at = "unlink", !.no = requests + 1] \in Handling
    BY <1>2, <1>4, IdleHandles DEF Handling
  <2> QED BY <2>1, IdleHandles
<1>7. /\ goes.taken = {}
      /\ goes.at = "idle" \/ (goes.at = "unlink" /\ goes.no = requests + 1 /\ batch)
  <2>1. CASE batch
    <3>1. goes = [I!Idle EXCEPT !.at = "unlink", !.no = requests + 1] BY <2>1
    <3>2. goes.at = "unlink" /\ goes.no = requests + 1 /\ goes.taken = {} BY <3>1 DEF I!Idle
    <3> QED BY <2>1, <3>2
  <2>2. CASE ~batch
    <3>1. goes = I!Idle BY <2>2
    <3> QED BY <3>1, IdleHandles
  <2> QED BY <2>1, <2>2
<1> HIDE DEF goes
<1>8. PICK k \in Handling :
        /\ job' = [job EXCEPT ![w] = k] /\ k.taken = {}
        /\ k.at = "idle" \/ (k.at = "unlink" /\ k.no = requests + 1 /\ batch)
  BY <1>1, <1>6, <1>7
<1>9. /\ job' \in [Workers -> Handling] /\ job'[w] = k
      /\ \A v \in Workers \ {w} : job'[v] = job[v]
  BY <1>2, <1>8, HandlerMoves
<1>10. Alongside(w) BY <1>1, <1>2, <1>3, <1>4, <1>5, <1>8, <1>9 DEF Alongside
<1>11. BatchTyped'
  <2>1. overlapped' \subseteq 1..requests' BY <1>1, <1>2
  <2> QED BY <1>1, <1>2, <1>9, <2>1, FS_EmptySet DEF BatchTyped
<1>12. Framed' /\ Unrepeated' /\ Kept' /\ Listed'
  BY <1>1 DEF Framed, Unrepeated, Kept, Listed
<1>13. Working(job[w])'
  <2>1. Owning(job[w])'
    <3>1. k.at # "idle" => 1 <= k.no /\ k.no <= requests' BY <1>1, <1>2, <1>8
    <3> QED BY <1>8, <1>9, <3>1, FS_EmptySet DEF Owning
  <2>2. Importing(job[w])' /\ Appending(job[w])'
    BY <1>4, <1>8, <1>9 DEF Importing, Appending, ImportAts
  <2>3. Removing(job[w])'
    <3>1. ASSUME NEW v \in Workers, job'[v].at \in Early, batch PROVE job'[v].no \in overlapped'
      <4>1. v # w BY <1>4, <1>5, <1>8, <1>9, <3>1
      <4>2. job[v].at \in Early /\ job'[v].no = job[v].no BY <1>9, <3>1, <4>1
      <4> QED BY <1>1, <3>1, <4>2, BatchFacts, StepsOf DEF Importing
    <3> QED BY <1>1, <1>8, <1>9, <3>1 DEF Removing
  <2> QED BY <2>1, <2>2, <2>3 DEF Working
<1> QED BY <1>10, <1>11, <1>12, <1>13, MoveWorks

LEMMA UnlinkWorks == ASSUME BatchInv, NEW w \in Workers, I!Unlink(w) PROVE BatchInv'
<1> DEFINE met == {job[o].no : o \in {u \in Workers : job[u].at \in I!Uploading}}
<1>1. /\ job[w].at = "unlink" /\ dir' = FALSE /\ files' = {} /\ manifest' = {}
      /\ overlapped' = overlapped \cup (job[w].no + 1)..requests \cup met
      /\ job' = [job EXCEPT ![w] = I!Idle] /\ UNCHANGED <<I!rows, requests, troubles>>
  BY DEF I!Unlink
<1>2. /\ BatchTyped /\ Framed /\ requests \in Nat /\ overlapped \subseteq 1..requests
      /\ Removing(job[w]) /\ Owning(job[w]) /\ job[w].no \in Nat /\ frames \subseteq Pieces
  BY BatchFacts DEF BatchTyped, Handling
<1>3. /\ job' \in [Workers -> Handling] /\ job'[w] = I!Idle /\ job'[w].at = "idle"
      /\ \A v \in Workers \ {w} : job'[v] = job[v]
  BY <1>1, <1>2, HandlerMoves, IdleHandles
<1>4. "idle" \notin I!Alone \cup I!Uploading \cup Early BY DEF I!Alone, I!Uploading, Early
<1>5. met \subseteq 1..requests
  <2> SUFFICES ASSUME NEW v \in Workers, job[v].at \in I!Uploading PROVE job[v].no \in 1..requests
    OBVIOUS
  <2>1. job[v].at # "idle" /\ job[v].no \in Nat BY BatchFacts, StepsOf DEF Handling
  <2> QED BY <1>2, <2>1, BatchFacts DEF Owning
<1>6. \A v \in Workers : job[v].at \in I!Uploading => job[v].no \in overlapped' BY <1>1
<1>7. /\ frames' = frames /\ batch' = batch /\ collection' = collection
      /\ requests' = requests /\ troubles' = troubles
  BY <1>1 DEF I!rows
<1>8. Alongside(w) BY <1>1, <1>2, <1>3, <1>4, <1>6, <1>7 DEF Alongside
<1>9. BatchTyped'
  <2>1. (job[w].no + 1)..requests \subseteq 1..requests BY <1>2
  <2>2. overlapped' \subseteq 1..requests' BY <1>1, <1>2, <1>5, <1>7, <2>1
  <2> QED BY <1>1, <1>2, <1>3, <1>7, <2>2 DEF BatchTyped
<1>10. \A f \in frames : f.no \in overlapped'
  <2> SUFFICES ASSUME NEW f \in frames PROVE f.no \in overlapped'
    OBVIOUS
  <2>1. f.no \in Nat /\ f.no <= requests BY <1>2 DEF Framed, Pieces
  <2>2. f.no > job[w].no \/ f.no \in overlapped BY <1>1, <1>2 DEF Removing
  <2>3. f.no > job[w].no => f.no \in (job[w].no + 1)..requests BY <1>2, <2>1
  <2> QED BY <1>1, <2>2, <2>3
<1>11. Framed' /\ Unrepeated' /\ Kept'
  BY <1>1, <1>2, <1>7, <1>10, RowsStay
<1>12. Listed' BY <1>1 DEF Listed
<1>13. Working(job[w])'
  BY <1>3, IdleWorks DEF Working, Owning, Importing, Appending, Removing, Foreseen
<1> QED BY <1>8, <1>9, <1>11, <1>12, <1>13, MoveWorks

LEMMA CrashWorks == ASSUME BatchInv, I!Crash PROVE BatchInv'
<1>1. /\ job' = [w \in Workers |-> I!Idle] /\ troubles' = troubles + 1
      /\ UNCHANGED <<I!rows, I!disk, requests, overlapped>>
  BY DEF I!Crash
<1>2. /\ frames' = frames /\ batch' = batch /\ collection' = collection /\ dir' = dir
      /\ files' = files /\ manifest' = manifest /\ requests' = requests
      /\ overlapped' = overlapped
  BY <1>1 DEF I!rows, I!disk
<1>3. BatchTyped /\ troubles \in Nat /\ requests \in Nat BY BatchFacts DEF BatchTyped
<1>4. BatchTyped' BY <1>1, <1>2, <1>3, IdleHandles DEF BatchTyped
<1>5. Framed' /\ Unrepeated' /\ Kept' BY <1>1, <1>2, <1>3, RowsStay
<1>6. Listed' BY <1>1, <1>3 DEF Listed
<1>7. \A w \in Workers : Working(job[w])'
  BY <1>1, IdleWorks DEF Working, Owning, Importing, Appending, Removing, Foreseen
<1>8. \A v, w \in Workers : BatchBeside(v, w)'
  <2>1. "idle" \notin I!Alone /\ "idle" \notin I!Uploading BY DEF I!Alone, I!Uploading
  <2> QED BY <1>1, <2>1, IdleHandles DEF BatchBeside
<1> QED BY <1>4, <1>5, <1>6, <1>7, <1>8 DEF BatchInv

LEMMA BatchStep == BatchInv /\ [I!Next]_I!vars => BatchInv'
<1> SUFFICES ASSUME BatchInv, [I!Next]_I!vars PROVE BatchInv'
  OBVIOUS
<1>1. CASE I!Crash BY <1>1, CrashWorks
<1>2. CASE \E w \in Workers : I!Step(w)
  BY <1>2, StoreWorks, ImportSessions, ClearWorks, CollectWorks, AppendSteps, UnlinkWorks DEF I!Step
<1>3. CASE \E w \in Workers, todo \in I!Uploads : I!Import(w, todo) \/ I!Add(w, todo)
  BY <1>3, UploadBegins
<1>4. CASE \E w \in Workers, whole \in BOOLEAN : I!Delete(w, whole) BY <1>4, DeleteWorks
<1>5. CASE UNCHANGED I!vars
  BY <1>5 DEF I!vars, BatchInv, BatchTyped, Working, Owning, Importing, Appending, Removing,
    Foreseen, BatchBeside, I!LoopFree, Framed, Unrepeated, Repeats, Kept, Listed
<1> QED BY <1>1, <1>2, <1>3, <1>4, <1>5 DEF I!Next

LEMMA BatchInitial == I!Init => BatchInv
<1> SUFFICES ASSUME I!Init PROVE BatchInv
  OBVIOUS
<1>1. /\ collection = FALSE /\ batch = FALSE /\ frames = {} /\ dir = FALSE /\ files = {}
      /\ manifest = {} /\ job = [w \in Workers |-> I!Idle] /\ requests = 0 /\ troubles = 0
      /\ overlapped = {}
  BY DEF I!Init
<1>2. BatchTyped BY <1>1, IdleHandles, FS_EmptySet DEF BatchTyped
<1>3. Framed /\ Unrepeated /\ Kept /\ Listed BY <1>1 DEF Framed, Unrepeated, Kept, Listed
<1>4. \A w \in Workers : Working(job[w])
  <2>1. "idle" \notin ImportAts \cup {"collect", "rows", "undo", "unlink"} BY DEF ImportAts
  <2> QED
    BY <1>1, <2>1, IdleHandles, FS_EmptySet DEF Working, Owning, Importing, Appending, Removing
<1>5. \A v, w \in Workers : BatchBeside(v, w)
  <2>1. "idle" \notin I!Alone /\ "idle" \notin I!Uploading BY DEF I!Alone, I!Uploading
  <2> QED BY <1>1, <2>1, IdleHandles DEF BatchBeside
<1> QED BY <1>2, <1>3, <1>4, <1>5 DEF BatchInv

(* The inductive invariant holds always, for any number of workers, images   *)
(* and troubles.                                                             *)
THEOREM UploadInvariant == I!Spec => []BatchInv
  BY BatchInitial, BatchStep, PTL DEF I!Spec

(* TypeOK: the variables of an image batch keep their types.                 *)
THEOREM UploadTypeCorrect == I!Spec => []I!TypeOK
<1>1. BatchInv => I!TypeOK
  <2> SUFFICES ASSUME BatchInv PROVE I!TypeOK
    OBVIOUS
  <2>1. BatchTyped BY BatchFacts
  <2>2. BatchAts = I!Uploading \cup {"idle", "unlink"}
    BY DEF BatchAts, ImportAts, AppendAts, I!Uploading, I!Alone
  <2>3. \A w \in Workers : job[w].at \in I!Uploading \cup {"idle", "unlink"}
    BY <2>1, <2>2 DEF BatchTyped, Handling
  <2> QED BY <2>1, <2>3 DEF BatchTyped, I!TypeOK, Pieces
<1> QED BY <1>1, UploadInvariant, PTL

(* ImageBatchHolds: every frame row has its file whatever failed, and an     *)
(* image added to the batch repeats neither an image nor an index of it,     *)
(* both for requests that did not overlap others; when all is quiet and      *)
(* nothing failed, a manifest that is there lists the frames.                *)
THEOREM UploadsHold == I!Spec => []I!ImageBatchHolds
<1>1. BatchInv => I!ImageBatchHolds
  <2> SUFFICES ASSUME BatchInv PROVE I!ImageBatchHolds
    OBVIOUS
  <2>1. Unrepeated /\ Kept /\ Listed BY BatchFacts
  <2>2. "idle" \notin Unlisted BY DEF Unlisted
  <2>3. \A f, g \in frames :
          f # g /\ f.appended /\ g.no <= f.no /\ (f.image = g.image \/ f.index = g.index)
            => {f.no, g.no} \subseteq overlapped
    BY <2>1 DEF Unrepeated, Repeats
  <2>4. batch /\ manifest # {} /\ troubles = 0 /\ (\A w \in Workers : job[w] = I!Idle)
          => manifest = frames
    BY <2>1, <2>2, IdleHandles DEF Listed
  <2> QED BY <2>1, <2>3, <2>4 DEF Kept, I!ImageBatchHolds
<1> QED BY <1>1, UploadInvariant, PTL

-----------------------------------------------------------------------------
(* Captures: imports, extractions and deletions of videos and frames.       *)

LEMMA CaptureFacts ==
  ASSUME CaptureInv
  PROVE  /\ RowsTyped /\ DiskTyped /\ CountsTyped /\ job \in [Workers -> Duties]
         /\ \A w \in Workers : job[w] \in Duties
         /\ \A v, w \in Workers :
              v # w => C!Touched(job[v]) \cap C!Touched(job[w]) \subseteq contested
         /\ \A c \in Collections : Gathered(c)
         /\ \A w \in Workers : Bringing(job[w]) /\ Taking(job[w]) /\ Dropping(job[w])
         /\ \A r \in frames : Pictured(r)
  BY DEF CaptureInv

LEMMA IdleDuty ==
  /\ C!Idle \in Duties /\ C!Touched(C!Idle) = {} /\ Bringing(C!Idle) /\ Taking(C!Idle)
  /\ Dropping(C!Idle)
  /\ Bringing(C!Idle)' /\ Taking(C!Idle)' /\ Dropping(C!Idle)'
<1>1. /\ C!Idle.at = "idle" /\ C!Idle.c = Nobody /\ C!Idle.b = Nobody /\ C!Idle.doomed = {}
      /\ "idle" \in CaptureAts /\ "idle" \notin BringAts /\ "idle" \notin ShootAts
  BY DEF C!Idle, CaptureAts, BringAts, ShootAts
<1>2. C!Idle \in Duties
  <2>1. "idle" \in CaptureAts /\ <<>> \in Seq(Videos) /\ <<>> \in Seq(Pictures) BY <1>1
  <2> QED BY <2>1 DEF C!Idle, Duties
<1>3. C!Touched(C!Idle) = {} BY <1>1 DEF C!Touched
<1>4. Bringing(C!Idle) /\ Taking(C!Idle) /\ Dropping(C!Idle) BY <1>1 DEF Bringing, Taking, Dropping
<1>5. Bringing(C!Idle)' /\ Taking(C!Idle)' /\ Dropping(C!Idle)'
  BY <1>1 DEF Bringing, Taking, Dropping
<1> QED BY <1>2, <1>3, <1>4, <1>5

(* What a job has done stays as long as a step of another takes nothing from *)
(* a collection or batch of it that is not contested.                        *)
LEMMA OthersKeep ==
  ASSUME CaptureInv, NobodyApart, CountsTyped', NEW w \in Workers, NEW k \in Duties,
         job' = [job EXCEPT ![w] = k], contested \subseteq contested',
         \A v \in Workers \ {w} : C!Touched(k) \cap C!Touched(job[v]) \subseteq contested',
         \A b \in Batches : mixed[b] \subseteq mixed'[b],
         \A c \in Collections : c \notin contested' /\ c \notin C!Touched(job[w]) =>
           /\ assets'[c] = assets[c] /\ (c \in collections' => c \in collections)
           /\ \A u \in Videos : <<c, u>> \in stored => <<c, u>> \in stored',
         \A p \in images : p.batch \notin contested' /\ p.batch \notin C!Touched(job[w])
                             => p \in images',
         \A r \in frames' : r \in frames \/ r.batch \in C!Touched(job[w])
  PROVE  /\ job' \in [Workers -> Duties]
         /\ \A v, o \in Workers :
              v # o => C!Touched(job'[v]) \cap C!Touched(job'[o]) \subseteq contested'
         /\ \A v \in Workers \ {w} :
              /\ job'[v] = job[v]
              /\ Bringing(job[v])' /\ Taking(job[v])' /\ Dropping(job[v])'
         /\ job'[w] = k
<1>1. /\ job \in [Workers -> Duties] /\ CountsTyped
      /\ \A v, o \in Workers : v # o => C!Touched(job[v]) \cap C!Touched(job[o]) \subseteq contested
      /\ RowsTyped /\ DiskTyped
  BY CaptureFacts
<1>2. job' \in [Workers -> Duties] /\ job'[w] = k /\ \A v \in Workers \ {w} : job'[v] = job[v]
  BY <1>1
<1>3. \A v, o \in Workers : v # o => C!Touched(job'[v]) \cap C!Touched(job'[o]) \subseteq contested'
  BY <1>1, <1>2
<1>4. ASSUME NEW v \in Workers \ {w}
      PROVE  Bringing(job[v])' /\ Taking(job[v])' /\ Dropping(job[v])'
  <2>1. PICK j \in Duties : j = job[v] BY <1>1
  <2>2. job'[v] = j /\ Bringing(j) /\ Taking(j) /\ Dropping(j) BY <1>2, <2>1, CaptureFacts
  <2>3. C!Touched(j) \cap C!Touched(job[w]) \subseteq contested BY <1>1, <2>1
  <2>4. ASSUME j.c \in Collections, j.c \notin contested'
        PROVE  /\ j.c \notin contested /\ assets'[j.c] = assets[j.c]
               /\ j.c \in collections' => j.c \in collections
               /\ \A u \in Videos : <<j.c, u>> \in stored => <<j.c, u>> \in stored'
    <3>1. j.c \in C!Touched(j) BY <2>4 DEF C!Touched, NobodyApart
    <3>2. j.c \notin C!Touched(job[w]) BY <2>3, <2>4, <3>1
    <3> QED BY <2>4, <3>2
  <2>5. Bringing(j)'
    <3>1. CASE j.at \in BringAts
      <4>1. \A i \in DOMAIN j.list : j.list[i] \in Videos BY DEF Duties
      <4> QED BY <2>2, <2>4, <3>1, <4>1 DEF Bringing
    <3> QED BY <3>1 DEF Bringing
  <2>6. Taking(j)'
    <3>1. CASE j.at \in ShootAts
      <4>1. /\ j.c \in Collections /\ j.b \in Batches /\ j.every \in mixed[j.b]
            /\ \A i \in DOMAIN j.shot : j.shot[i].batch = j.b /\ j.shot[i].collection = j.c
            /\ j.at # "extract" => j.shot = <<>>
        BY <2>2, <3>1 DEF Taking
      <4>2. j.every \in mixed'[j.b] BY <4>1
      <4>3. j.b \notin contested' => \A i \in DOMAIN j.shot : j.shot[i] \in images'
        <5> SUFFICES ASSUME j.b \notin contested', NEW i \in DOMAIN j.shot
                     PROVE  j.shot[i] \in images'
          OBVIOUS
        <5>1. j.b \notin contested /\ j.b \in C!Touched(j) BY <4>1 DEF C!Touched, NobodyApart
        <5>2. j.b \notin C!Touched(job[w]) BY <2>3, <5>1
        <5>3. j.shot[i] \in images /\ j.shot[i].batch = j.b BY <2>2, <3>1, <4>1, <5>1 DEF Taking
        <5> QED BY <5>2, <5>3
      <4>4. j.at # "list" /\ j.c \notin contested' => Aligned(j)'
        <5> SUFFICES ASSUME j.at # "list", j.c \notin contested' PROVE Aligned(j)'
          OBVIOUS
        <5>1. Aligned(j) BY <2>2, <2>4, <3>1, <4>1 DEF Taking
        <5>2. assets'[j.c] = assets[j.c] BY <2>4, <4>1
        <5> QED BY <5>1, <5>2 DEF Aligned
      <4> QED BY <4>1, <4>2, <4>3, <4>4 DEF Taking
    <3> QED BY <3>1 DEF Taking
  <2>7. Dropping(j)'
    <3>1. j.at = "delete" => (j.b = Nobody) # (j.c = Nobody) BY <2>2 DEF Dropping
    <3>2. CASE j.at = "unlink"
      <4>1. j.made \subseteq {j.c} \X Videos BY <2>2, <3>2 DEF Dropping
      <4>2. j.c \in Collections \ contested' => assets'[j.c] = <<>>
        BY <2>2, <2>4, <3>2 DEF Dropping
      <4>3. ASSUME NEW r \in frames', r.batch \in j.doomed PROVE r.batch \in contested'
        <5>1. CASE r \in frames BY <2>2, <3>2, <4>3, <5>1 DEF Dropping
        <5>2. CASE r.batch \in C!Touched(job[w])
          <6>1. r.batch \in C!Touched(j) BY <4>3 DEF C!Touched, NobodyApart, Duties
          <6> QED BY <2>3, <5>2, <6>1
        <5> QED BY <5>1, <5>2
      <4> QED BY <3>1, <4>1, <4>2, <4>3 DEF Dropping
    <3> QED BY <3>1, <3>2 DEF Dropping
  <2> QED BY <2>1, <2>2, <2>5, <2>6, <2>7
<1> QED BY <1>2, <1>3, <1>4

LEMMA PictureKept ==
  ASSUME CaptureInv, CountsTyped', contested \subseteq contested',
         \A b \in Batches : mixed[b] \subseteq mixed'[b],
         NEW r \in frames, r.video \in C!Imported',
         r.batch \notin contested' => (r.file \in images => r.file \in images'),
         r.batch \notin contested' /\ r.file.collection \notin contested'
           => \A n \in {1, 2} : Placed(r, n) => Placed(r, n)'
  PROVE  Pictured(r)'
<1>1. r \in PictureRows /\ r.batch \in Batches BY CaptureFacts DEF RowsTyped, PictureRows
<1>2. Pictured(r) BY CaptureFacts
<1>3. r = C!Row(r.file, r.index) BY <1>2 DEF Pictured
<1>4. mixed[r.batch] # {} /\ mixed[r.batch] \subseteq mixed'[r.batch] BY <1>1, <1>2 DEF Pictured
<1>5. r.batch \notin contested' => r.file \in images' BY <1>2 DEF Pictured
<1>6. ASSUME r.batch \notin contested', r.file.collection \notin contested', NEW n \in {1, 2},
             mixed'[r.batch] = {n}
      PROVE  Placed(r, n)'
  <2>1. mixed[r.batch] = {n} BY <1>4, <1>6
  <2>2. Placed(r, n) BY <1>2, <1>6, <2>1 DEF Pictured
  <2> QED BY <1>6, <2>2
<1> QED BY <1>3, <1>4, <1>5, <1>6 DEF Pictured, C!Row

LEMMA PictureStays ==
  ASSUME CaptureInv, CountsTyped', contested \subseteq contested',
         \A b \in Batches : mixed[b] \subseteq mixed'[b],
         NEW r \in frames, r.video \in C!Imported',
         r.batch \notin contested' => (r.file \in images => r.file \in images'),
         r.batch \notin contested' /\ r.file.collection \notin contested'
           => assets'[r.file.collection] = assets[r.file.collection]
  PROVE  Pictured(r)'
<1>1. r.batch \notin contested' /\ r.file.collection \notin contested'
        => \A n \in {1, 2} : Placed(r, n) => Placed(r, n)'
  BY DEF Placed
<1> QED BY <1>1, PictureKept

(* A step that moves one job and changes at most temporary copies,           *)
(* directories and batch rows.                                               *)
LEMMA QuietStep ==
  ASSUME CaptureInv, NobodyApart, NEW w \in Workers, NEW k \in Duties,
         job' = [job EXCEPT ![w] = k], C!Touched(k) \subseteq C!Touched(job[w]),
         UNCHANGED <<collections, assets, frames, stored, images, jobs, contested, mixed>>,
         batch' \in [Batches -> Collections \cup {Nobody}],
         tmps' \subseteq Collections \X Videos, dirs' \subseteq Batches, troubles' \in Nat,
         Bringing(k), Taking(k), Dropping(k)
  PROVE  CaptureInv'
<1>0. /\ RowsTyped /\ DiskTyped /\ CountsTyped
      /\ \A v, o \in Workers : v # o => C!Touched(job[v]) \cap C!Touched(job[o]) \subseteq contested
  BY CaptureFacts
<1>1. RowsTyped' /\ DiskTyped' /\ CountsTyped' BY <1>0 DEF RowsTyped, DiskTyped, CountsTyped
<1>2. /\ job' \in [Workers -> Duties] /\ job'[w] = k
      /\ \A v, o \in Workers :
           v # o => C!Touched(job'[v]) \cap C!Touched(job'[o]) \subseteq contested'
      /\ \A v \in Workers \ {w} : /\ job'[v] = job[v]
                                  /\ Bringing(job[v])' /\ Taking(job[v])' /\ Dropping(job[v])'
  BY <1>0, <1>1, OthersKeep
<1>3. Bringing(k)' /\ Taking(k)' /\ Dropping(k)'
  <2>1. Bringing(k)' BY DEF Bringing
  <2>2. Taking(k)'
    <3>1. Aligned(k) => Aligned(k)' BY DEF Aligned
    <3> QED BY <3>1 DEF Taking
  <2>3. Dropping(k)' BY DEF Dropping
  <2> QED BY <2>1, <2>2, <2>3
<1>4. \A v \in Workers : Bringing(job[v])' /\ Taking(job[v])' /\ Dropping(job[v])'
  BY <1>2, <1>3
<1>5. \A c \in Collections : Gathered(c)' BY CaptureFacts DEF Gathered
<1>6. \A r \in frames' : Pictured(r)'
  <2>1. \A r \in frames : r.video \in C!Imported'
    BY CaptureFacts DEF Pictured, C!Imported
  <2> QED BY <1>1, <2>1, PictureStays
<1> QED BY <1>1, <1>2, <1>4, <1>5, <1>6 DEF CaptureInv

LEMMA JobEnds ==
  ASSUME CaptureInv, NobodyApart, NEW w \in Workers, job' = [job EXCEPT ![w] = C!Idle],
         UNCHANGED <<collections, assets, frames, stored, images, jobs, contested, mixed>>,
         UNCHANGED <<batch, tmps, troubles>>, dirs' \subseteq Batches
  PROVE  CaptureInv'
<1>1. /\ batch \in [Batches -> Collections \cup {Nobody}]
      /\ tmps \subseteq Collections \X Videos /\ troubles \in Nat
  BY CaptureFacts DEF RowsTyped, DiskTyped, CountsTyped
<1>2. C!Idle \in Duties /\ C!Touched(C!Idle) = {} /\ Bringing(C!Idle) /\ Taking(C!Idle)
      /\ Dropping(C!Idle)
  BY IdleDuty
<1>3. C!Touched(C!Idle) \subseteq C!Touched(job[w]) BY <1>2
<1> QED BY <1>1, <1>2, <1>3, QuietStep

(* A job at its next step.                                                   *)
LEMMA NextStep ==
  ASSUME NEW j \in Duties, NEW a \in CaptureAts
  PROVE  \E k \in Duties :
           /\ k = [j EXCEPT !.at = a] /\ k.at = a /\ k.c = j.c /\ k.b = j.b /\ k.every = j.every
           /\ k.known = j.known /\ k.made = j.made /\ k.doomed = j.doomed /\ k.list = j.list
           /\ k.shot = j.shot /\ C!Touched(k) = C!Touched(j)
<1> DEFINE k == [j EXCEPT !.at = a]
<1>1. /\ k \in Duties /\ k.at = a /\ k.c = j.c /\ k.b = j.b /\ k.every = j.every
      /\ k.known = j.known /\ k.made = j.made /\ k.doomed = j.doomed /\ k.list = j.list
      /\ k.shot = j.shot
  BY DEF Duties
<1>2. C!Touched(k) = C!Touched(j) BY <1>1 DEF C!Touched
<1> QED BY <1>1, <1>2

LEMMA JobFails ==
  ASSUME CaptureInv, NobodyApart, NEW w \in Workers, job[w].at \in {"copy", "place"},
         job' = [job EXCEPT ![w] = [job[w] EXCEPT !.at = "undo"]],
         UNCHANGED <<collections, assets, frames, stored, images, jobs, contested, mixed>>,
         UNCHANGED <<batch, tmps, dirs>>, troubles' \in Nat
  PROVE  CaptureInv'
<1>1. /\ batch \in [Batches -> Collections \cup {Nobody}] /\ job[w] \in Duties
      /\ tmps \subseteq Collections \X Videos /\ dirs \subseteq Batches
  BY CaptureFacts DEF RowsTyped, DiskTyped
<1>2. "undo" \in CaptureAts /\ "undo" \in BringAts /\ "undo" \notin ShootAts
  BY DEF CaptureAts, BringAts, ShootAts
<1>3. PICK k \in Duties :
        /\ k = [job[w] EXCEPT !.at = "undo"] /\ k.at = "undo" /\ k.c = job[w].c
        /\ k.made = job[w].made /\ k.list = job[w].list /\ C!Touched(k) = C!Touched(job[w])
  BY <1>1, <1>2, NextStep
<1>4. Bringing(k)
  <2>1. job[w].at \in BringAts /\ job[w].at # "look" BY DEF BringAts
  <2>2. Bringing(job[w]) BY CaptureFacts
  <2> QED BY <1>2, <1>3, <2>1, <2>2 DEF Bringing
<1>5. Taking(k) /\ Dropping(k) BY <1>2, <1>3 DEF Taking, Dropping
<1> QED BY <1>1, <1>3, <1>4, <1>5, QuietStep

LEMMA LookKeeps ==
  ASSUME CaptureInv, NobodyApart, NEW w \in Workers, C!Look(w) PROVE CaptureInv'
<1>1. /\ job[w].at = "look" /\ UNCHANGED <<jobs, troubles, contested, mixed>>
      /\ UNCHANGED <<collections, assets, batch, frames, stored, tmps, images, dirs>>
      /\ IF job[w].c \in collections THEN job' = [job EXCEPT ![w] = C!Idle]
         ELSE job' = [job EXCEPT ![w] = [job[w] EXCEPT !.at = "copy", !.known = C!Imported]]
  BY DEF C!Look, C!End, C!Go, C!counts, C!rows, C!disk
<1>2. /\ batch \in [Batches -> Collections \cup {Nobody}] /\ job[w] \in Duties
      /\ tmps \subseteq Collections \X Videos /\ dirs \subseteq Batches /\ troubles \in Nat
      /\ assets \in [Collections -> Seq(Videos)]
  BY CaptureFacts DEF RowsTyped, DiskTyped, CountsTyped
<1>3. CASE job[w].c \in collections BY <1>1, <1>2, <1>3, JobEnds
<1>4. CASE job[w].c \notin collections
  <2> DEFINE j == [job[w] EXCEPT !.at = "copy", !.known = C!Imported]
  <2>1. "copy" \in CaptureAts /\ "copy" \in BringAts /\ "look" \in BringAts
      /\ "copy" \notin ShootAts
    BY DEF CaptureAts, BringAts, ShootAts
  <2>2. C!Imported \subseteq Videos BY <1>2 DEF C!Imported, C!ToSet
  <2>3. j \in Duties /\ j.at = "copy" /\ j.c = job[w].c /\ j.b = job[w].b
        /\ j.made = job[w].made /\ j.list = job[w].list /\ j.doomed = job[w].doomed
    BY <1>2, <2>1, <2>2 DEF Duties
  <2> HIDE DEF j
  <2>4. PICK k \in Duties : /\ k = j /\ k.at = "copy" /\ k.c = job[w].c /\ k.b = job[w].b
                            /\ k.made = job[w].made /\ k.list = job[w].list
                            /\ k.doomed = job[w].doomed
    BY <2>3
  <2>5. C!Touched(k) = C!Touched(job[w]) BY <2>4 DEF C!Touched
  <2>6. Bringing(job[w]) /\ job[w].at = "look" BY <1>1, CaptureFacts
  <2>7. Bringing(k)
    <3>1. /\ k.c \in Collections /\ k.made \subseteq {k.c} \X Videos /\ k.list = <<>>
          /\ k.c \notin collections
      BY <1>4, <2>1, <2>4, <2>6 DEF Bringing
    <3> QED BY <2>4, <3>1 DEF Bringing, Distinct
  <2>8. Taking(k) /\ Dropping(k) BY <2>1, <2>4 DEF Taking, Dropping
  <2>9. job' = [job EXCEPT ![w] = k] BY <1>1, <1>4, <2>4 DEF j
  <2> QED BY <1>1, <1>2, <2>4, <2>5, <2>7, <2>8, <2>9, QuietStep
<1> QED BY <1>3, <1>4

LEMMA CopyKeeps ==
  ASSUME CaptureInv, NobodyApart, NEW w \in Workers, NEW u \in Videos, C!Copy(w, u)
  PROVE  CaptureInv'
<1>1. /\ job[w].at = "copy" /\ UNCHANGED <<jobs, troubles, contested, mixed>>
      /\ UNCHANGED <<collections, assets, batch, frames, stored, images, dirs>>
      /\ IF u \in job[w].known
         THEN job' = [job EXCEPT ![w] = [job[w] EXCEPT !.todo = @ \ {u}]] /\ UNCHANGED tmps
         ELSE /\ tmps' = tmps \cup {<<job[w].c, u>>}
              /\ job' = [job EXCEPT ![w] =
                   [job[w] EXCEPT !.at = "place", !.todo = @ \ {u}, !.known = @ \cup {u},
                                  !.list = Append(@, u)]]
  BY DEF C!Copy, C!Go, C!counts, C!rows
<1>2. /\ batch \in [Batches -> Collections \cup {Nobody}] /\ job[w] \in Duties
      /\ tmps \subseteq Collections \X Videos /\ dirs \subseteq Batches /\ troubles \in Nat
  BY CaptureFacts DEF RowsTyped, DiskTyped, CountsTyped
<1>3. Bringing(job[w]) /\ job[w].at \in BringAts /\ job[w].at # "look"
  BY <1>1, CaptureFacts DEF BringAts
<1>4. /\ "copy" \in BringAts /\ "place" \in BringAts /\ "place" \in CaptureAts
      /\ "copy" \notin ShootAts /\ "place" \notin ShootAts
  BY DEF CaptureAts, BringAts, ShootAts
<1>5. CASE u \in job[w].known
  <2> DEFINE j == [job[w] EXCEPT !.todo = @ \ {u}]
  <2>1. j \in Duties /\ j.at = "copy" /\ j.c = job[w].c /\ j.b = job[w].b
        /\ j.made = job[w].made /\ j.list = job[w].list /\ j.doomed = job[w].doomed
        /\ j.known = job[w].known
    BY <1>1, <1>2 DEF Duties
  <2> HIDE DEF j
  <2>2. PICK k \in Duties : /\ k = j /\ k.at = "copy" /\ k.c = job[w].c /\ k.b = job[w].b
                            /\ k.made = job[w].made /\ k.list = job[w].list
                            /\ k.doomed = job[w].doomed /\ k.known = job[w].known
    BY <2>1
  <2>3. C!Touched(k) = C!Touched(job[w]) BY <2>2 DEF C!Touched
  <2>4. Bringing(k) BY <1>1, <1>3, <2>2 DEF Bringing
  <2>5. Taking(k) /\ Dropping(k) BY <1>4, <2>2 DEF Taking, Dropping
  <2>6. job' = [job EXCEPT ![w] = k] BY <1>1, <1>5, <2>2 DEF j
  <2> QED BY <1>1, <1>2, <1>5, <2>3, <2>4, <2>5, <2>6, QuietStep
<1>6. CASE u \notin job[w].known
  <2> DEFINE j == [job[w] EXCEPT !.at = "place", !.todo = @ \ {u}, !.known = @ \cup {u},
                                 !.list = Append(@, u)]
  <2>1. j \in Duties /\ j.at = "place" /\ j.c = job[w].c /\ j.b = job[w].b
        /\ j.made = job[w].made /\ j.list = Append(job[w].list, u)
        /\ j.doomed = job[w].doomed /\ j.known = job[w].known \cup {u}
    <3>2. /\ job[w].todo \ {u} \in SUBSET Videos /\ job[w].known \cup {u} \in SUBSET Videos
          /\ Append(job[w].list, u) \in Seq(Videos)
      BY <1>2 DEF Duties
    <3>3. j = [job[w] EXCEPT !.at = "place", !.todo = job[w].todo \ {u},
                             !.known = job[w].known \cup {u}, !.list = Append(job[w].list, u)]
      OBVIOUS
    <3>4. j \in Duties /\ j.at = "place" /\ j.c = job[w].c /\ j.b = job[w].b
          /\ j.made = job[w].made /\ j.doomed = job[w].doomed
      BY <1>2, <1>4, <3>2, <3>3 DEF Duties
    <3>5. j.list = Append(job[w].list, u) /\ j.known = job[w].known \cup {u}
      BY <1>2, <3>3 DEF Duties
    <3> QED BY <3>4, <3>5
  <2> HIDE DEF j
  <2>2. PICK k \in Duties :
          /\ k = j /\ k.at = "place" /\ k.c = job[w].c /\ k.b = job[w].b
          /\ k.made = job[w].made /\ k.list = Append(job[w].list, u)
          /\ k.doomed = job[w].doomed /\ k.known = job[w].known \cup {u}
    BY <2>1
  <2>3. C!Touched(k) = C!Touched(job[w]) BY <2>2 DEF C!Touched
  <2>4. Bringing(k)
    <3> DEFINE list == job[w].list
    <3>1. /\ list \in Seq(Videos) /\ Distinct(list)
          /\ \A i \in DOMAIN list : list[i] \in job[w].known
          /\ job[w].c \in Collections /\ job[w].made \subseteq {job[w].c} \X Videos
          /\ job[w].c \notin contested => job[w].c \notin collections
          /\ job[w].c \notin contested => \A i \in DOMAIN list : <<job[w].c, list[i]>> \in stored
      BY <1>1, <1>2, <1>3 DEF Bringing, Duties
    <3>2. /\ Len(k.list) = Len(list) + 1 /\ k.list[Len(list) + 1] = u /\ k.list # <<>>
          /\ \A i \in DOMAIN list : k.list[i] = list[i]
          /\ DOMAIN k.list = 1..(Len(list) + 1) /\ DOMAIN list = 1..Len(list) /\ Len(list) \in Nat
      BY <2>2, <3>1
    <3>3. \A i \in DOMAIN k.list : i \in DOMAIN list \/ i = Len(list) + 1 BY <3>2
    <3>4. Distinct(k.list) BY <1>6, <3>1, <3>2, <3>3 DEF Distinct
    <3>5. \A i \in DOMAIN k.list : k.list[i] \in k.known BY <2>2, <3>1, <3>2, <3>3
    <3>6. \A i \in DOMAIN k.list : i < Len(k.list) => i \in DOMAIN list BY <3>2
    <3> QED BY <2>2, <3>1, <3>2, <3>4, <3>5, <3>6 DEF Bringing
  <2>5. Taking(k) /\ Dropping(k) BY <1>4, <2>2 DEF Taking, Dropping
  <2>6. job' = [job EXCEPT ![w] = k] BY <1>1, <1>6, <2>2 DEF j
  <2>7. tmps' \subseteq Collections \X Videos BY <1>1, <1>2, <1>3, <1>6 DEF Bringing
  <2> QED BY <1>1, <1>2, <2>2, <2>3, <2>4, <2>5, <2>6, <2>7, QuietStep
<1> QED BY <1>5, <1>6

LEMMA PlaceKeeps ==
  ASSUME CaptureInv, NobodyApart, NEW w \in Workers, C!Place(w) PROVE CaptureInv'
<1> DEFINE f == <<job[w].c, job[w].list[Len(job[w].list)]>>
<1>1. /\ job[w].at = "place" /\ UNCHANGED <<jobs, troubles, contested, mixed>>
      /\ UNCHANGED <<collections, assets, batch, frames, images, dirs>>
      /\ IF f \in tmps
         THEN /\ stored' = stored \cup {f} /\ tmps' = tmps \ {f}
              /\ job' = [job EXCEPT ![w] =
                   [job[w] EXCEPT !.at = "copy",
                                  !.made = IF f \in stored THEN @ ELSE @ \cup {f}]]
         ELSE /\ job' = [job EXCEPT ![w] = [job[w] EXCEPT !.at = "undo"]]
              /\ UNCHANGED <<stored, tmps>>
  BY DEF C!Place, C!At, C!Go, C!counts, C!rows
<1>2. /\ RowsTyped /\ DiskTyped /\ CountsTyped /\ job[w] \in Duties
  BY CaptureFacts
<1>3. CASE f \notin tmps
  <2>1. troubles' \in Nat BY <1>1, <1>2 DEF CountsTyped
  <2> QED BY <1>1, <1>3, <2>1, JobFails
<1>4. CASE f \in tmps
  <2> DEFINE wrote == IF f \in stored THEN job[w].made ELSE job[w].made \cup {f}
             j == [job[w] EXCEPT !.at = "copy", !.made = wrote]
  <2>1. /\ "copy" \in BringAts /\ "copy" \in CaptureAts /\ "copy" \notin ShootAts
        /\ "place" \in BringAts
    BY DEF CaptureAts, BringAts, ShootAts
  <2>2. Bringing(job[w]) /\ job[w].at \in BringAts BY <1>1, <2>1, CaptureFacts
  <2>3. /\ job[w].list \in Seq(Videos) /\ job[w].c \in Collections /\ job[w].list # <<>>
        /\ job[w].made \subseteq {job[w].c} \X Videos /\ Distinct(job[w].list)
        /\ \A i \in DOMAIN job[w].list : job[w].list[i] \in job[w].known
        /\ job[w].c \notin contested =>
             /\ job[w].c \notin collections
             /\ \A i \in DOMAIN job[w].list :
                  i < Len(job[w].list) => <<job[w].c, job[w].list[i]>> \in stored
    BY <1>1, <1>2, <2>2 DEF Bringing, Duties
  <2>4. Len(job[w].list) \in DOMAIN job[w].list
    BY <2>3
  <2>5. f \in {job[w].c} \X Videos BY <2>3, <2>4
  <2>6. wrote \subseteq {job[w].c} \X Videos /\ wrote \subseteq Collections \X Videos
    BY <2>3, <2>5
  <2> HIDE DEF wrote
  <2>7. j \in Duties /\ j.at = "copy" /\ j.c = job[w].c /\ j.b = job[w].b
        /\ j.made = wrote /\ j.list = job[w].list /\ j.doomed = job[w].doomed
        /\ j.known = job[w].known
    BY <1>2, <2>1, <2>6 DEF Duties
  <2> HIDE DEF j
  <2>8. PICK k \in Duties : /\ k = j /\ k.at = "copy" /\ k.c = job[w].c /\ k.b = job[w].b
                            /\ k.made = wrote /\ k.list = job[w].list
                            /\ k.doomed = job[w].doomed /\ k.known = job[w].known
    BY <2>7
  <2>9. C!Touched(k) = C!Touched(job[w]) BY <2>8 DEF C!Touched
  <2>10. job' = [job EXCEPT ![w] = k] BY <1>1, <1>4, <2>8 DEF j, wrote
  <2>11. stored' = stored \cup {f} /\ tmps' \subseteq tmps BY <1>1, <1>4
  <2>12. RowsTyped' /\ DiskTyped' /\ CountsTyped'
    BY <1>1, <1>2, <2>3, <2>5, <2>11 DEF RowsTyped, DiskTyped, CountsTyped
  <2>13. /\ job' \in [Workers -> Duties] /\ job'[w] = k
         /\ \A v, o \in Workers :
              v # o => C!Touched(job'[v]) \cap C!Touched(job'[o]) \subseteq contested'
         /\ \A v \in Workers \ {w} : /\ job'[v] = job[v]
                                     /\ Bringing(job[v])' /\ Taking(job[v])' /\ Dropping(job[v])'
    BY <1>1, <2>9, <2>10, <2>11, <2>12, CaptureFacts, OthersKeep
  <2>14. Bringing(k)'
    <3>1. \A i \in DOMAIN job[w].list : i < Len(job[w].list) \/ i = Len(job[w].list)
      BY <2>3
    <3>2. job[w].c \notin contested
            => \A i \in DOMAIN job[w].list : <<job[w].c, job[w].list[i]>> \in stored'
      BY <2>3, <2>11, <3>1
    <3> QED BY <1>1, <2>3, <2>6, <2>8, <3>2 DEF Bringing
  <2>15. Taking(k)' /\ Dropping(k)' BY <2>1, <2>8 DEF Taking, Dropping
  <2>16. \A v \in Workers : Bringing(job[v])' /\ Taking(job[v])' /\ Dropping(job[v])'
    BY <2>13, <2>14, <2>15
  <2>17. \A c \in Collections : Gathered(c)' BY <1>1, <2>11, CaptureFacts DEF Gathered
  <2>18. \A r \in frames' : Pictured(r)'
    <3>1. \A r \in frames : r.video \in C!Imported' BY <1>1, CaptureFacts DEF Pictured, C!Imported
    <3> QED BY <1>1, <2>12, <3>1, PictureStays
  <2> QED BY <2>12, <2>13, <2>16, <2>17, <2>18 DEF CaptureInv
<1> QED BY <1>3, <1>4

LEMMA UndoKeeps ==
  ASSUME CaptureInv, NobodyApart, NEW w \in Workers, C!Undo(w) PROVE CaptureInv'
<1>1. /\ job[w].at = "undo" /\ UNCHANGED <<jobs, troubles, contested, mixed>>
      /\ UNCHANGED <<collections, assets, batch, frames, images, dirs>>
      /\ tmps' \subseteq tmps /\ stored' = stored \ job[w].made
      /\ job' = [job EXCEPT ![w] = C!Idle]
  BY DEF C!Undo, C!End, C!Go, C!counts, C!rows
<1>2. RowsTyped /\ DiskTyped /\ CountsTyped /\ job[w] \in Duties BY CaptureFacts
<1>3. RowsTyped' /\ DiskTyped' /\ CountsTyped'
  BY <1>1, <1>2 DEF RowsTyped, DiskTyped, CountsTyped
<1>4. /\ job[w].c \in Collections /\ job[w].made \subseteq {job[w].c} \X Videos
      /\ job[w].c \notin contested => job[w].c \notin collections
  BY <1>1, CaptureFacts DEF Bringing, BringAts
<1>5. job[w].c \in C!Touched(job[w]) BY <1>4 DEF C!Touched, NobodyApart
<1>6. \A c, u : <<c, u>> \in stored /\ c # job[w].c => <<c, u>> \in stored' BY <1>1, <1>4
<1>7. /\ job' \in [Workers -> Duties] /\ job'[w] = C!Idle
      /\ \A v, o \in Workers :
           v # o => C!Touched(job'[v]) \cap C!Touched(job'[o]) \subseteq contested'
      /\ \A v \in Workers \ {w} : /\ job'[v] = job[v]
                                  /\ Bringing(job[v])' /\ Taking(job[v])' /\ Dropping(job[v])'
  <2>1. \A v \in Workers \ {w} : C!Touched(C!Idle) \cap C!Touched(job[v]) \subseteq contested'
    BY IdleDuty
  <2>2. \A c \in Collections : c \notin contested' /\ c \notin C!Touched(job[w]) =>
           /\ assets'[c] = assets[c] /\ (c \in collections' => c \in collections)
           /\ \A u \in Videos : <<c, u>> \in stored => <<c, u>> \in stored'
    BY <1>1, <1>5, <1>6
  <2> QED BY <1>1, <1>3, <2>1, <2>2, IdleDuty, OthersKeep
<1>8. \A v \in Workers : Bringing(job[v])' /\ Taking(job[v])' /\ Dropping(job[v])'
  BY <1>7, IdleDuty
<1>9. \A c \in Collections : Gathered(c)'
  <2> SUFFICES ASSUME NEW c \in Collections PROVE Gathered(c)'
    OBVIOUS
  <2>1. Gathered(c) BY CaptureFacts
  <2>2. CASE c = job[w].c /\ c \notin contested
    <3>1. assets[c] = <<>> /\ assets'[c] = <<>> BY <1>1, <1>4, <2>1, <2>2 DEF Gathered
    <3> QED BY <3>1 DEF Gathered, Distinct
  <2>3. CASE c = job[w].c /\ c \in contested BY <1>1, <2>1, <2>3 DEF Gathered
  <2>4. CASE c # job[w].c BY <1>1, <1>6, <2>1, <2>4 DEF Gathered
  <2> QED BY <2>2, <2>3, <2>4
<1>10. \A r \in frames' : Pictured(r)'
  <2>1. \A r \in frames : r.video \in C!Imported' BY <1>1, CaptureFacts DEF Pictured, C!Imported
  <2> QED BY <1>1, <1>3, <2>1, PictureStays
<1> QED BY <1>3, <1>7, <1>8, <1>9, <1>10 DEF CaptureInv

LEMMA FailCopyKeeps ==
  ASSUME CaptureInv, NobodyApart, NEW w \in Workers, C!FailCopy(w) PROVE CaptureInv'
<1>1. /\ job[w].at = "place" /\ troubles' = troubles + 1
      /\ job' = [job EXCEPT ![w] = [job[w] EXCEPT !.at = "undo"]]
      /\ UNCHANGED <<collections, assets, frames, stored, images, jobs, contested, mixed>>
      /\ UNCHANGED <<batch, tmps, dirs>>
  BY DEF C!FailCopy, C!rows, C!disk
<1>2. troubles' \in Nat BY <1>1, CaptureFacts DEF CountsTyped
<1> QED BY <1>1, <1>2, JobFails

LEMMA InsertKeeps ==
  ASSUME CaptureInv, NobodyApart, NEW w \in Workers, C!Insert(w) PROVE CaptureInv'
<1>1. /\ job[w].at = "copy" /\ UNCHANGED <<jobs, troubles, contested, mixed>>
      /\ UNCHANGED <<batch, frames, stored, tmps, images, dirs>>
      /\ IF job[w].c \notin collections /\ C!ToSet(job[w].list) \cap C!Imported = {}
         THEN /\ collections' = collections \cup {job[w].c}
              /\ assets' = [assets EXCEPT ![job[w].c] = job[w].list]
              /\ job' = [job EXCEPT ![w] = C!Idle]
         ELSE /\ job' = [job EXCEPT ![w] = [job[w] EXCEPT !.at = "undo"]]
              /\ UNCHANGED <<collections, assets>>
  BY DEF C!Insert, C!At, C!End, C!Go, C!counts, C!disk
<1>2. RowsTyped /\ DiskTyped /\ CountsTyped /\ job[w] \in Duties BY CaptureFacts
<1>3. CASE ~(job[w].c \notin collections /\ C!ToSet(job[w].list) \cap C!Imported = {})
  <2>1. troubles' \in Nat BY <1>1, <1>2 DEF CountsTyped
  <2> QED BY <1>1, <1>3, <2>1, JobFails
<1>4. CASE job[w].c \notin collections /\ C!ToSet(job[w].list) \cap C!Imported = {}
  <2>1. /\ job[w].c \in Collections /\ Distinct(job[w].list) /\ job[w].list \in Seq(Videos)
        /\ job[w].c \notin contested =>
             \A i \in DOMAIN job[w].list : <<job[w].c, job[w].list[i]>> \in stored
    BY <1>1, <1>2, CaptureFacts DEF Bringing, BringAts, Duties
  <2>2. /\ collections' = collections \cup {job[w].c}
        /\ assets' = [assets EXCEPT ![job[w].c] = job[w].list]
        /\ job' = [job EXCEPT ![w] = C!Idle]
    BY <1>1, <1>4
  <2>3. RowsTyped' /\ DiskTyped' /\ CountsTyped'
    BY <1>1, <1>2, <2>1, <2>2 DEF RowsTyped, DiskTyped, CountsTyped
  <2>4. /\ assets'[job[w].c] = job[w].list /\ assets[job[w].c] = <<>>
        /\ \A c \in Collections \ {job[w].c} : assets'[c] = assets[c]
    <3>1. Gathered(job[w].c) BY <2>1, CaptureFacts
    <3>2. assets[job[w].c] = <<>> BY <1>4, <3>1 DEF Gathered
    <3> QED BY <1>2, <2>1, <2>2, <3>2 DEF RowsTyped
  <2>5. job[w].c \in C!Touched(job[w]) BY <2>1 DEF C!Touched, NobodyApart
  <2>6. /\ job' \in [Workers -> Duties] /\ job'[w] = C!Idle
        /\ \A v, o \in Workers :
             v # o => C!Touched(job'[v]) \cap C!Touched(job'[o]) \subseteq contested'
        /\ \A v \in Workers \ {w} : /\ job'[v] = job[v]
                                    /\ Bringing(job[v])' /\ Taking(job[v])' /\ Dropping(job[v])'
    <3>1. \A v \in Workers \ {w} : C!Touched(C!Idle) \cap C!Touched(job[v]) \subseteq contested'
      BY IdleDuty
    <3>2. \A c \in Collections : c \notin contested' /\ c \notin C!Touched(job[w]) =>
             /\ assets'[c] = assets[c] /\ (c \in collections' => c \in collections)
             /\ \A u \in Videos : <<c, u>> \in stored => <<c, u>> \in stored'
      BY <1>1, <2>2, <2>4, <2>5
    <3> QED BY <1>1, <2>2, <2>3, <3>1, <3>2, IdleDuty, OthersKeep
  <2>7. \A v \in Workers : Bringing(job[v])' /\ Taking(job[v])' /\ Dropping(job[v])'
    BY <2>6, IdleDuty
  <2>8. \A c \in Collections : Gathered(c)'
    <3> SUFFICES ASSUME NEW c \in Collections PROVE Gathered(c)'
      OBVIOUS
    <3>1. CASE c = job[w].c BY <1>1, <2>1, <2>2, <2>4, <3>1 DEF Gathered
    <3>2. CASE c # job[w].c
      <4>1. Gathered(c) BY CaptureFacts
      <4> QED BY <1>1, <2>2, <2>4, <3>2, <4>1 DEF Gathered
    <3> QED BY <3>1, <3>2
  <2>9. \A r \in frames' : Pictured(r)'
    <3> SUFFICES ASSUME NEW r \in frames PROVE Pictured(r)'
      BY <1>1
    <3>1. r.video \in C!Imported /\ r.file.collection \in Collections
      BY <1>2, CaptureFacts DEF Pictured, RowsTyped, PictureRows, Pictures
    <3>2. r.video \in C!Imported'
      <4>1. PICK c \in Collections : r.video \in C!ToSet(assets[c]) BY <3>1 DEF C!Imported
      <4>2. c # job[w].c BY <2>4, <4>1 DEF C!ToSet
      <4> QED BY <2>4, <4>1, <4>2 DEF C!Imported
    <3>3. \A n \in {1, 2} : Placed(r, n) => Placed(r, n)'
      <4>1. CASE r.file.collection = job[w].c BY <2>4, <4>1 DEF Placed
      <4>2. CASE r.file.collection # job[w].c BY <2>4, <3>1, <4>2 DEF Placed
      <4> QED BY <4>1, <4>2
    <3> QED BY <1>1, <2>3, <3>2, <3>3, PictureKept
  <2> QED BY <2>3, <2>6, <2>7, <2>8, <2>9 DEF CaptureInv
<1> QED BY <1>3, <1>4

LEMMA ListKeeps ==
  ASSUME CaptureInv, NobodyApart, NEW w \in Workers, C!List(w) PROVE CaptureInv'
<1>1. /\ job[w].at = "list" /\ UNCHANGED <<jobs, troubles, contested, mixed>>
      /\ UNCHANGED <<collections, assets, batch, frames, stored, tmps, images, dirs>>
      /\ IF assets[job[w].c] = <<>> THEN job' = [job EXCEPT ![w] = C!Idle]
         ELSE job' = [job EXCEPT ![w] =
                [job[w] EXCEPT !.at = "batch", !.list = assets[job[w].c]]]
  BY DEF C!List, C!End, C!Go, C!counts, C!rows, C!disk
<1>2. RowsTyped /\ DiskTyped /\ CountsTyped /\ job[w] \in Duties BY CaptureFacts
<1>3. CASE assets[job[w].c] = <<>>
  <2>1. dirs' \subseteq Batches BY <1>1, <1>2 DEF DiskTyped
  <2> QED BY <1>1, <1>3, <2>1, JobEnds
<1>4. CASE assets[job[w].c] # <<>>
  <2> DEFINE list == assets[job[w].c]
             j == [job[w] EXCEPT !.at = "batch", !.list = list]
  <2>1. /\ "batch" \in ShootAts /\ "batch" \in CaptureAts /\ "batch" \notin BringAts
        /\ "list" \in ShootAts
    BY DEF CaptureAts, BringAts, ShootAts
  <2>2. Taking(job[w]) /\ job[w].at \in ShootAts BY <1>1, <2>1, CaptureFacts
  <2>3. /\ job[w].c \in Collections /\ job[w].b \in Batches /\ job[w].every \in mixed[job[w].b]
        /\ job[w].shot = <<>>
    BY <1>1, <2>2 DEF Taking
  <2>4. list \in Seq(Videos) BY <1>2, <2>3 DEF RowsTyped
  <2> HIDE DEF list
  <2>5. j \in Duties /\ j.at = "batch" /\ j.c = job[w].c /\ j.b = job[w].b
        /\ j.every = job[w].every /\ j.shot = <<>> /\ j.list = list /\ j.doomed = job[w].doomed
    BY <1>2, <2>1, <2>3, <2>4 DEF Duties
  <2> HIDE DEF j
  <2>6. PICK k \in Duties : /\ k = j /\ k.at = "batch" /\ k.c = job[w].c /\ k.b = job[w].b
                            /\ k.every = job[w].every /\ k.shot = <<>> /\ k.list = list
                            /\ k.doomed = job[w].doomed
    BY <2>5
  <2>7. C!Touched(k) = C!Touched(job[w]) BY <2>6 DEF C!Touched
  <2>8. Aligned(k)
    <3>1. Len(assets[k.c]) - Len(k.list) = 0 /\ Len(k.shot) = 0 /\ k.list = assets[k.c]
          /\ DOMAIN k.shot = {} /\ \A i \in DOMAIN k.list : 0 + i = i
      BY <2>4, <2>6 DEF list
    <3> QED BY <3>1 DEF Aligned
  <2>9. Taking(k) BY <2>3, <2>6, <2>8 DEF Taking
  <2>10. Bringing(k) /\ Dropping(k) BY <2>1, <2>6 DEF Bringing, Dropping
  <2>11. job' = [job EXCEPT ![w] = k] BY <1>1, <1>4, <2>6 DEF j, list
  <2>12. /\ batch' \in [Batches -> Collections \cup {Nobody}] /\ troubles' \in Nat
         /\ tmps' \subseteq Collections \X Videos /\ dirs' \subseteq Batches
    BY <1>1, <1>2 DEF RowsTyped, DiskTyped, CountsTyped
  <2> QED BY <1>1, <2>7, <2>9, <2>10, <2>11, <2>12, QuietStep
<1> QED BY <1>3, <1>4

LEMMA BatchKeeps ==
  ASSUME CaptureInv, NobodyApart, NEW w \in Workers, C!Batch(w) PROVE CaptureInv'
<1>1. /\ job[w].at = "batch" /\ UNCHANGED <<jobs, troubles, contested, mixed>>
      /\ UNCHANGED <<collections, assets, frames, stored, tmps, images>>
      /\ dirs' = dirs \cup {job[w].b}
      /\ \/ job' = [job EXCEPT ![w] = C!Idle] /\ UNCHANGED batch
         \/ /\ job' = [job EXCEPT ![w] = [job[w] EXCEPT !.at = "extract"]]
            /\ batch' = batch \/ batch' = [batch EXCEPT ![job[w].b] = job[w].c]
  BY DEF C!Batch, C!End, C!At, C!Go, C!counts
<1>2. RowsTyped /\ DiskTyped /\ CountsTyped /\ job[w] \in Duties BY CaptureFacts
<1>3. /\ "batch" \in ShootAts /\ "extract" \in CaptureAts /\ "extract" \in ShootAts
      /\ "extract" \notin BringAts
  BY DEF CaptureAts, BringAts, ShootAts
<1>4. /\ Taking(job[w]) /\ job[w].at \in ShootAts /\ job[w].c \in Collections
      /\ job[w].b \in Batches
  BY <1>1, <1>3, CaptureFacts DEF Taking
<1>5. dirs' \subseteq Batches BY <1>1, <1>2, <1>4 DEF DiskTyped
<1>6. CASE job' = [job EXCEPT ![w] = C!Idle] /\ UNCHANGED batch BY <1>1, <1>5, <1>6, JobEnds
<1>7. CASE /\ job' = [job EXCEPT ![w] = [job[w] EXCEPT !.at = "extract"]]
           /\ batch' = batch \/ batch' = [batch EXCEPT ![job[w].b] = job[w].c]
  <2>1. PICK k \in Duties :
          /\ k = [job[w] EXCEPT !.at = "extract"] /\ k.at = "extract" /\ k.c = job[w].c
          /\ k.b = job[w].b /\ k.every = job[w].every /\ k.list = job[w].list
          /\ k.shot = job[w].shot /\ C!Touched(k) = C!Touched(job[w])
    BY <1>2, <1>3, NextStep
  <2>2. Taking(k)
    <3>1. ASSUME NEW j \in Duties, NEW i \in Duties, i.c = j.c, i.every = j.every,
                 i.list = j.list, i.shot = j.shot, Aligned(j)
          PROVE  Aligned(i)
      BY <3>1 DEF Aligned
    <3>2. Aligned(job[w]) => Aligned(k) BY <1>2, <2>1, <3>1
    <3> QED BY <1>1, <1>4, <2>1, <3>2 DEF Taking
  <2>3. Bringing(k) /\ Dropping(k) BY <1>3, <2>1 DEF Bringing, Dropping
  <2>4. /\ batch' \in [Batches -> Collections \cup {Nobody}] /\ troubles' \in Nat
        /\ tmps' \subseteq Collections \X Videos
    BY <1>1, <1>2, <1>4, <1>7 DEF RowsTyped, DiskTyped, CountsTyped
  <2> QED BY <1>1, <1>5, <1>7, <2>1, <2>2, <2>3, <2>4, QuietStep
<1> QED BY <1>1, <1>6, <1>7

LEMMA TouchedNames ==
  ASSUME NEW j \in Duties PROVE C!Touched(j) \subseteq Collections \cup Batches
  BY DEF C!Touched, Duties

LEMMA CaptureCrashKeeps ==
  ASSUME CaptureInv, C!Crash PROVE CaptureInv'
<1>1. /\ job' = [w \in Workers |-> C!Idle] /\ troubles' = troubles + 1
      /\ UNCHANGED <<collections, assets, batch, frames, stored, tmps, images, dirs, jobs,
                     contested, mixed>>
  BY DEF C!Crash, C!rows, C!disk
<1>2. RowsTyped' /\ DiskTyped' /\ CountsTyped'
  BY <1>1, CaptureFacts DEF RowsTyped, DiskTyped, CountsTyped
<1>3. job' \in [Workers -> Duties] /\ \A w \in Workers : job'[w] = C!Idle BY <1>1, IdleDuty
<1>4. \A v, w \in Workers : v # w => C!Touched(job'[v]) \cap C!Touched(job'[w]) \subseteq contested'
  BY <1>3, IdleDuty
<1>5. \A w \in Workers : Bringing(job[w])' /\ Taking(job[w])' /\ Dropping(job[w])'
  BY <1>3, IdleDuty
<1>6. \A c \in Collections : Gathered(c)' BY <1>1, CaptureFacts DEF Gathered
<1>7. \A r \in frames' : Pictured(r)'
  <2>1. \A r \in frames : r.video \in C!Imported' BY <1>1, CaptureFacts DEF Pictured, C!Imported
  <2> QED BY <1>1, <1>2, <2>1, PictureStays
<1> QED BY <1>2, <1>3, <1>4, <1>5, <1>6, <1>7 DEF CaptureInv

LEMMA CaptureBeginKeeps ==
  ASSUME CaptureInv, NobodyApart, NEW w \in Workers, NEW k \in Duties, C!Begin(w, k),
         mixed' \in [Batches -> SUBSET {1, 2}], \A b \in Batches : mixed[b] \subseteq mixed'[b],
         Bringing(k)', Taking(k)', Dropping(k)'
  PROVE  CaptureInv'
<1>1. /\ job' = [job EXCEPT ![w] = k] /\ jobs' = jobs + 1
      /\ contested' = contested \cup (C!Touched(k) \cap UNION {C!Touched(job[o]) : o \in Workers})
      /\ UNCHANGED <<collections, assets, batch, frames, stored, tmps, images, dirs, troubles>>
  BY DEF C!Begin, C!rows, C!disk
<1>2. RowsTyped /\ DiskTyped /\ CountsTyped BY CaptureFacts
<1>3. RowsTyped' /\ DiskTyped' /\ CountsTyped'
  <2>1. contested' \subseteq Collections \cup Batches
    BY <1>1, <1>2, TouchedNames DEF CountsTyped
  <2> QED BY <1>1, <1>2, <2>1 DEF RowsTyped, DiskTyped, CountsTyped
<1>4. contested \subseteq contested' BY <1>1
<1>5. /\ job' \in [Workers -> Duties] /\ job'[w] = k
      /\ \A v, o \in Workers :
           v # o => C!Touched(job'[v]) \cap C!Touched(job'[o]) \subseteq contested'
      /\ \A v \in Workers \ {w} : /\ job'[v] = job[v]
                                  /\ Bringing(job[v])' /\ Taking(job[v])' /\ Dropping(job[v])'
  <2>1. \A v \in Workers \ {w} : C!Touched(k) \cap C!Touched(job[v]) \subseteq contested' BY <1>1
  <2>2. /\ job' = [job EXCEPT ![w] = k]
        /\ UNCHANGED <<collections, assets, frames, stored, images>>
    BY <1>1
  <2>3. \A c \in Collections : c \notin contested' /\ c \notin C!Touched(job[w]) =>
           /\ assets'[c] = assets[c] /\ (c \in collections' => c \in collections)
           /\ \A u \in Videos : <<c, u>> \in stored => <<c, u>> \in stored'
    BY <2>2
  <2>4. \A p \in images : p.batch \notin contested' /\ p.batch \notin C!Touched(job[w])
                             => p \in images'
    BY <2>2
  <2>5. \A r \in frames' : r \in frames \/ r.batch \in C!Touched(job[w]) BY <2>2
  <2> QED BY <1>3, <1>4, <2>1, <2>2, <2>3, <2>4, <2>5, OthersKeep
<1>6. \A v \in Workers : Bringing(job[v])' /\ Taking(job[v])' /\ Dropping(job[v])' BY <1>5
<1>7. \A c \in Collections : Gathered(c)' BY <1>1, <1>4, CaptureFacts DEF Gathered
<1>8. \A r \in frames' : Pictured(r)'
  <2>1. \A r \in frames : r.video \in C!Imported' BY <1>1, CaptureFacts DEF Pictured, C!Imported
  <2> QED BY <1>1, <1>3, <1>4, <2>1, PictureStays
<1> QED BY <1>3, <1>5, <1>6, <1>7, <1>8 DEF CaptureInv

LEMMA BeginImportKeeps ==
  ASSUME CaptureInv, NobodyApart, NEW w \in Workers, NEW c \in Collections,
         NEW S \in SUBSET Videos, C!BeginImport(w, c, S)
  PROVE  CaptureInv'
<1> DEFINE j == [C!Idle EXCEPT !.at = "look", !.c = c, !.todo = S]
<1>1. "look" \in CaptureAts /\ "look" \in BringAts /\ "look" \notin ShootAts
  BY DEF CaptureAts, BringAts, ShootAts
<1>2. /\ C!Idle \in Duties /\ C!Idle.made = {} /\ C!Idle.list = <<>>
  BY IdleDuty DEF C!Idle
<1>3. j \in Duties /\ j.at = "look" /\ j.c = c /\ j.made = {} /\ j.list = <<>>
  BY <1>1, <1>2 DEF Duties
<1>4. C!Begin(w, j) /\ mixed' = mixed BY DEF C!BeginImport
<1> HIDE DEF j
<1>5. PICK k \in Duties : k = j /\ k.at = "look" /\ k.c = c /\ k.made = {} /\ k.list = <<>>
  BY <1>3
<1>6. Bringing(k)' BY <1>1, <1>5 DEF Bringing, Distinct
<1>7. Taking(k)' /\ Dropping(k)' BY <1>1, <1>5 DEF Taking, Dropping
<1>8. C!Begin(w, k) BY <1>4, <1>5
<1>9. mixed \in [Batches -> SUBSET {1, 2}] BY CaptureFacts DEF CountsTyped
<1> QED BY <1>4, <1>6, <1>7, <1>8, <1>9, CaptureBeginKeeps

LEMMA BeginExtractKeeps ==
  ASSUME CaptureInv, NobodyApart, NEW w \in Workers, NEW c \in Collections,
         NEW b \in Batches, NEW n \in {1, 2}, C!BeginExtract(w, c, b, n)
  PROVE  CaptureInv'
<1> DEFINE j == [C!Idle EXCEPT !.at = "list", !.c = c, !.b = b, !.every = n]
<1>1. "list" \in CaptureAts /\ "list" \notin BringAts /\ "list" \in ShootAts
  BY DEF CaptureAts, BringAts, ShootAts
<1>2. C!Idle \in Duties /\ C!Idle.shot = <<>> BY IdleDuty DEF C!Idle
<1>3. j \in Duties /\ j.at = "list" /\ j.c = c /\ j.b = b /\ j.every = n /\ j.shot = <<>>
  BY <1>1, <1>2 DEF Duties
<1>4. C!Begin(w, j) /\ mixed' = [mixed EXCEPT ![b] = @ \cup {n}] BY DEF C!BeginExtract
<1> HIDE DEF j
<1>5. PICK k \in Duties : /\ k = j /\ k.at = "list" /\ k.c = c /\ k.b = b /\ k.every = n
                          /\ k.shot = <<>>
  BY <1>3
<1>6. mixed \in [Batches -> SUBSET {1, 2}] BY CaptureFacts DEF CountsTyped
<1>7. /\ mixed' \in [Batches -> SUBSET {1, 2}] /\ n \in mixed'[b]
      /\ \A a \in Batches : mixed[a] \subseteq mixed'[a]
  BY <1>4, <1>6
<1>8. Taking(k)' BY <1>1, <1>5, <1>7 DEF Taking
<1>9. Bringing(k)' /\ Dropping(k)' BY <1>1, <1>5 DEF Bringing, Dropping
<1>10. C!Begin(w, k) BY <1>4, <1>5
<1> QED BY <1>7, <1>8, <1>9, <1>10, CaptureBeginKeeps

LEMMA BeginDeleteKeeps ==
  ASSUME CaptureInv, NobodyApart, NEW w \in Workers,
         NEW j \in Duties, j.at = "delete", (j.b = Nobody) # (j.c = Nobody),
         C!Begin(w, j), mixed' = mixed
  PROVE  CaptureInv'
<1>1. "delete" \notin BringAts /\ "delete" \notin ShootAts BY DEF BringAts, ShootAts
<1>2. Bringing(j)' /\ Taking(j)' /\ Dropping(j)' BY <1>1 DEF Bringing, Taking, Dropping
<1>3. mixed \in [Batches -> SUBSET {1, 2}] BY CaptureFacts DEF CountsTyped
<1> QED BY <1>2, <1>3, CaptureBeginKeeps

LEMMA BeginDeleteBatchKeeps ==
  ASSUME CaptureInv, NobodyApart, NEW w \in Workers, NEW b \in Batches, NEW a \in BOOLEAN,
         C!BeginDeleteBatch(w, b, a)
  PROVE  CaptureInv'
<1>1. "delete" \in CaptureAts BY DEF CaptureAts
<1>2. C!Idle \in Duties /\ C!Idle.b = Nobody /\ C!Idle.c = Nobody BY IdleDuty DEF C!Idle
<1> DEFINE j == [C!Idle EXCEPT !.at = "delete", !.b = b, !.artifacts = a]
<1>3. j \in Duties /\ j.at = "delete" /\ j.b = b /\ j.c = Nobody BY <1>1, <1>2 DEF Duties
<1>4. C!Begin(w, j) /\ mixed' = mixed BY DEF C!BeginDeleteBatch
<1> HIDE DEF j
<1>5. PICK k \in Duties : k = j /\ k.at = "delete" /\ k.b = b /\ k.c = Nobody BY <1>3
<1>6. (k.b = Nobody) # (k.c = Nobody) BY <1>5 DEF NobodyApart
<1> QED BY <1>4, <1>5, <1>6, BeginDeleteKeeps

LEMMA BeginDeleteCollectionKeeps ==
  ASSUME CaptureInv, NobodyApart, NEW w \in Workers, NEW c \in Collections,
         NEW a \in BOOLEAN, NEW x \in BOOLEAN, C!BeginDeleteCollection(w, c, a, x)
  PROVE  CaptureInv'
<1>1. "delete" \in CaptureAts BY DEF CaptureAts
<1>2. C!Idle \in Duties /\ C!Idle.b = Nobody /\ C!Idle.c = Nobody BY IdleDuty DEF C!Idle
<1> DEFINE j == [C!Idle EXCEPT !.at = "delete", !.c = c, !.artifacts = a, !.cascade = x]
<1>3. j \in Duties /\ j.at = "delete" /\ j.c = c /\ j.b = Nobody BY <1>1, <1>2 DEF Duties
<1>4. C!Begin(w, j) /\ mixed' = mixed BY DEF C!BeginDeleteCollection
<1> HIDE DEF j
<1>5. PICK k \in Duties : k = j /\ k.at = "delete" /\ k.c = c /\ k.b = Nobody BY <1>3
<1>6. (k.b = Nobody) # (k.c = Nobody) BY <1>5 DEF NobodyApart
<1> QED BY <1>4, <1>5, <1>6, BeginDeleteKeeps

LEMMA ShotList ==
  ASSUME NEW b \in Batches, NEW c \in Collections, NEW u \in Videos, NEW n \in {1, 2}
  PROVE  ShotsOf(C!Shots(b, c, u, n), b, c, u, n)
<1> DEFINE s == C!Shots(b, c, u, n)
           many == IF n = 1 THEN 2 ELSE 1
<1>1. /\ C!Every(n) \in Seq(C!Moments) /\ Len(C!Every(n)) = many
      /\ DOMAIN C!Every(n) = 1..many /\ \A p \in 1..many : C!Every(n)[p] = p - 1
  <2>1. CASE n = 1 BY <2>1 DEF C!Every, C!Moments
  <2>2. CASE n = 2 BY <2>2 DEF C!Every, C!Moments
  <2> QED BY <2>1, <2>2
<1>2. s = [p \in 1..many |->
             [batch |-> b, collection |-> c, video |-> u, pos |-> C!Every(n)[p]]]
  BY <1>1 DEF C!Shots
<1>3. many \in Nat /\ \A p \in 1..many : C!Every(n)[p] \in C!Moments
  <2>1. \A p \in 1..many : p - 1 \in {0, 1} OBVIOUS
  <2> QED BY <1>1, <2>1 DEF C!Moments
<1> HIDE DEF many, s
<1>4. \A p \in 1..many :
        /\ s[p] \in Pictures /\ s[p].batch = b /\ s[p].collection = c /\ s[p].video = u
        /\ s[p].pos = C!Every(n)[p]
  BY <1>2, <1>3 DEF Pictures
<1>5. s \in [1..many -> Pictures] BY <1>2, <1>4
<1>6. s \in Seq(Pictures) /\ Len(s) = many /\ DOMAIN s = 1..many BY <1>3, <1>5
<1>7. s = C!Shots(b, c, u, n) /\ many = (IF n = 1 THEN 2 ELSE 1) BY DEF s, many
<1>8. ShotsOf(s, b, c, u, n) BY <1>1, <1>4, <1>6, <1>7 DEF ShotsOf
<1> QED BY <1>7, <1>8

LEMMA Arithmetic ==
  ASSUME NEW d \in Int, NEW i \in Int
  PROVE  /\ d + (i + 1) = (d + 1) + i /\ 2 * d + 2 = 2 * (d + 1)
         /\ 2 * d + i = 2 * (d + 1) - 1 + (i - 1)
         /\ d = (d - i) + i /\ d - (i - 1) = (d - i) + 1 /\ (i <= d => i <= d + 1)
  OBVIOUS

LEMMA After ==
  ASSUME NEW a \in Int, NEW d \in Nat, NEW c \in Nat, ~(1 <= a /\ a <= d), 1 <= a, a <= d + c
  PROVE  \E p \in 1..c : a = d + p
<1>1. a - d \in 1..c /\ a = d + (a - d) OBVIOUS
<1> QED BY <1>1

(* Taking the pictures of the next video keeps the list in place.            *)
LEMMA StillAligned ==
  ASSUME NEW j \in Duties, NEW k \in Duties, Aligned(j), j.list # <<>>,
         NEW u \in Videos, NEW s \in Seq(Pictures), assets[j.c] \in Seq(Videos),
         u = Head(j.list), DOMAIN s = 1..(IF j.every = 1 THEN 2 ELSE 1),
         \A p \in DOMAIN s : s[p].video = u /\ s[p].pos = p - 1,
         k.c = j.c, k.every = j.every, k.list = Tail(j.list), k.shot = j.shot \o s
  PROVE  Aligned(k)
<1> DEFINE many == IF j.every = 1 THEN 2 ELSE 1
<1>1. /\ j.list \in Seq(Videos) /\ j.shot \in Seq(Pictures) /\ j.every \in {1, 2}
      /\ Len(j.list) \in Nat
  BY DEF Duties
<1>2. PICK all \in Seq(Videos) : all = assets[j.c] OBVIOUS
<1>0. PICK done \in Nat : done = Len(all) - Len(j.list)
  <2>1. 0 <= Len(all) - Len(j.list) BY <1>2 DEF Aligned
  <2>2. Len(all) \in Nat /\ Len(j.list) \in Nat BY <1>1, <1>2
  <2>3. \A a, d \in Nat : 0 <= a - d => \E n \in Nat : n = a - d OBVIOUS
  <2> QED BY <2>1, <2>2, <2>3
<1>11. Len(j.shot) = (IF j.every = 1 THEN 2 * done ELSE done)
  BY <1>2, <1>0 DEF Aligned
<1>12. \A i \in DOMAIN j.list : j.list[i] = all[done + i]
  BY <1>2, <1>0 DEF Aligned
<1>13. \A i \in DOMAIN j.shot : \E m \in 1..done :
         j.shot[i].video = all[m] /\ i = Position(m, j.shot[i].pos, j.every)
  BY <1>2, <1>0 DEF Aligned
<1>3. /\ Len(k.list) = Len(j.list) - 1 /\ DOMAIN j.list = 1..Len(j.list) /\ Len(j.list) >= 1
      /\ DOMAIN k.list = 1..(Len(j.list) - 1)
      /\ \A i \in 1..(Len(j.list) - 1) : k.list[i] = j.list[i + 1]
  BY <1>1
<1>4. Len(all) - Len(k.list) = done + 1
  <2>1. Len(all) \in Nat BY <1>2
  <2>2. Len(all) - (Len(j.list) - 1) = (Len(all) - Len(j.list)) + 1 BY <1>1, <2>1, Arithmetic
  <2> QED BY <1>0, <1>3, <2>2
<1>5. Len(s) = many /\ many \in Nat BY DEF many
<1>6. /\ Len(k.shot) = Len(j.shot) + Len(s) /\ DOMAIN k.shot = 1..(Len(j.shot) + Len(s))
      /\ \A i \in 1..Len(j.shot) : k.shot[i] = j.shot[i]
      /\ \A p \in 1..Len(s) : k.shot[Len(j.shot) + p] = s[p]
      /\ DOMAIN j.shot = 1..Len(j.shot) /\ Len(j.shot) \in Nat
  BY <1>1
<1>7. \A i \in DOMAIN k.list : k.list[i] = all[(done + 1) + i]
  <2> SUFFICES ASSUME NEW i \in DOMAIN k.list PROVE k.list[i] = all[(done + 1) + i]
    OBVIOUS
  <2>1. i \in Nat /\ i + 1 \in DOMAIN j.list BY <1>1, <1>3
  <2>2. k.list[i] = j.list[i + 1] BY <1>3
  <2>3. done + (i + 1) = (done + 1) + i BY <2>1, Arithmetic
  <2> QED BY <1>12, <2>1, <2>2, <2>3
<1>8. u = all[done + 1]
  <2>1. 1 \in DOMAIN j.list /\ u = j.list[1] BY <1>1, <1>3
  <2> QED BY <1>12, <2>1
<1>9. Len(k.shot) = (IF k.every = 1 THEN 2 * (done + 1) ELSE done + 1)
  <2>1. Len(k.shot) = (IF j.every = 1 THEN 2 * done ELSE done) + (IF j.every = 1 THEN 2 ELSE 1)
    BY <1>11, <1>5, <1>6 DEF many
  <2>2. 2 * done + 2 = 2 * (done + 1) BY Arithmetic
  <2> QED BY <2>1, <2>2
<1>10. ASSUME NEW i \in DOMAIN k.shot
       PROVE  \E m \in 1..(done + 1) :
                k.shot[i].video = all[m] /\ i = Position(m, k.shot[i].pos, k.every)
  <2>1. CASE i \in DOMAIN j.shot
    <3>1. PICK m \in 1..done : j.shot[i].video = all[m] /\ i = Position(m, j.shot[i].pos, j.every)
      BY <1>13, <2>1
    <3>2. m \in 1..(done + 1) BY Arithmetic
    <3>3. k.shot[i] = j.shot[i] BY <1>6, <2>1
    <3> QED BY <3>1, <3>2, <3>3
  <2>2. CASE i \notin DOMAIN j.shot
    <3>1. PICK p \in 1..Len(s) : i = Len(j.shot) + p
      <4>1. i \in Int /\ ~(1 <= i /\ i <= Len(j.shot)) /\ 1 <= i /\ i <= Len(j.shot) + Len(s)
        BY <1>6, <2>2
      <4>2. Len(j.shot) \in Nat /\ Len(s) \in Nat BY <1>5, <1>6
      <4> QED BY <4>1, <4>2, After
    <3>2. k.shot[i] = s[p] /\ p \in DOMAIN s BY <1>5, <1>6, <3>1
    <3>3. k.shot[i].video = all[done + 1] /\ k.shot[i].pos = p - 1 BY <1>8, <3>2
    <3>4. i = Position(done + 1, p - 1, j.every)
      <4>1. /\ p \in Int /\ 1 <= p /\ p <= (IF j.every = 1 THEN 2 ELSE 1)
            /\ i = (IF j.every = 1 THEN 2 * done ELSE done) + p
        BY <1>11, <1>5, <3>1 DEF many
      <4>2. 2 * done + p = 2 * (done + 1) - 1 + (p - 1) BY <4>1, Arithmetic
      <4>3. CASE j.every = 1 BY <4>1, <4>2, <4>3 DEF Position
      <4>4. CASE j.every # 1
        <5>1. p = 1 BY <4>1, <4>4
        <5> QED BY <4>1, <4>4, <5>1 DEF Position
      <4> QED BY <4>3, <4>4
    <3>5. done + 1 \in 1..(done + 1) BY <1>0
    <3> QED BY <3>3, <3>4, <3>5
  <2> QED BY <2>1, <2>2
<1> QED
  <2>1. 0 <= done + 1 BY <1>0
  <2>2. Len(assets[k.c]) - Len(k.list) = done + 1 BY <1>2, <1>4
  <2>3. \A i \in DOMAIN k.list : k.list[i] = assets[k.c][(done + 1) + i] BY <1>2, <1>7
  <2>4. \A i \in DOMAIN k.shot : \E m \in 1..(done + 1) :
          k.shot[i].video = assets[k.c][m] /\ i = Position(m, k.shot[i].pos, k.every)
    BY <1>2, <1>10
  <2>6. done + 1 \in Nat BY <1>0
  <2>5. PICK n \in Nat : n = done + 1 BY <2>6
  <2> QED BY <1>9, <2>1, <2>2, <2>3, <2>4, <2>5 DEF Aligned

LEMMA ExtractKeeps ==
  ASSUME CaptureInv, NobodyApart, NEW w \in Workers, C!Extract(w) PROVE CaptureInv'
<1> DEFINE u == Head(job[w].list)
           s == C!Shots(job[w].b, job[w].c, u, job[w].every)
<1>1. /\ job[w].at = "extract" /\ job[w].list # <<>>
      /\ UNCHANGED <<jobs, troubles, contested, mixed>>
      /\ UNCHANGED <<collections, assets, batch, frames, stored, tmps, dirs>>
      /\ \/ /\ images' = images \cup C!ToSet(s)
            /\ job' = [job EXCEPT ![w] = [job[w] EXCEPT !.list = Tail(@), !.shot = @ \o s]]
         \/ job' = [job EXCEPT ![w] = C!Idle] /\ UNCHANGED images
  BY DEF C!Extract, C!Go, C!End, C!counts, C!rows
<1>2. RowsTyped /\ DiskTyped /\ CountsTyped /\ job[w] \in Duties BY CaptureFacts
<1>3. "extract" \in ShootAts /\ "extract" \notin BringAts BY DEF ShootAts, BringAts
<1>4. CASE job' = [job EXCEPT ![w] = C!Idle] /\ UNCHANGED images
  <2>1. dirs' \subseteq Batches BY <1>1, <1>2 DEF DiskTyped
  <2> QED BY <1>1, <1>4, <2>1, JobEnds
<1>5. CASE /\ images' = images \cup C!ToSet(s)
           /\ job' = [job EXCEPT ![w] = [job[w] EXCEPT !.list = Tail(@), !.shot = @ \o s]]
  <2>1. Taking(job[w]) /\ job[w].at \in ShootAts BY <1>1, <1>3, CaptureFacts
  <2>2. /\ job[w].c \in Collections /\ job[w].b \in Batches /\ job[w].every \in mixed[job[w].b]
        /\ \A i \in DOMAIN job[w].shot :
             job[w].shot[i].batch = job[w].b /\ job[w].shot[i].collection = job[w].c
        /\ job[w].b \notin contested => \A i \in DOMAIN job[w].shot : job[w].shot[i] \in images
        /\ job[w].c \notin contested => Aligned(job[w])
    BY <1>1, <2>1 DEF Taking
  <2>3. /\ job[w].list \in Seq(Videos) /\ u \in Videos /\ Tail(job[w].list) \in Seq(Videos)
        /\ job[w].shot \in Seq(Pictures) /\ job[w].every \in {1, 2}
    BY <1>1, <1>2 DEF Duties
  <2>4. /\ s \in Seq(Pictures) /\ DOMAIN s = 1..(IF job[w].every = 1 THEN 2 ELSE 1)
        /\ \A p \in DOMAIN s : /\ s[p].batch = job[w].b /\ s[p].collection = job[w].c
                               /\ s[p].video = u /\ s[p].pos = p - 1
    <3>1. job[w].c \in Collections /\ job[w].b \in Batches /\ u \in Videos
      BY <2>2, <2>3
    <3>2. PICK v \in Videos : v = u BY <3>1
    <3>3. PICK c \in Collections : c = job[w].c BY <3>1
    <3>4. PICK b \in Batches : b = job[w].b BY <3>1
    <3>5. PICK n \in {1, 2} : n = job[w].every BY <2>3
    <3>6. s = C!Shots(b, c, v, n) BY <3>2, <3>3, <3>4, <3>5
    <3> HIDE DEF u, s
    <3>7. ShotsOf(s, b, c, v, n) BY <3>6, ShotList
    <3>8. ShotsOf(s, job[w].b, job[w].c, u, job[w].every) BY <3>2, <3>3, <3>4, <3>5, <3>7
    <3> QED BY <3>8 DEF ShotsOf
  <2> HIDE DEF s
  <2> DEFINE shot == job[w].shot \o s
             list == Tail(job[w].list)
             j == [job[w] EXCEPT !.list = list, !.shot = shot]
  <2>5. /\ shot \in Seq(Pictures) /\ Len(shot) = Len(job[w].shot) + Len(s)
        /\ \A i \in DOMAIN shot :
             \/ i \in DOMAIN job[w].shot /\ shot[i] = job[w].shot[i]
             \/ \E p \in DOMAIN s : shot[i] = s[p]
    <3>1. /\ shot \in Seq(Pictures) /\ Len(shot) = Len(job[w].shot) + Len(s)
          /\ DOMAIN shot = 1..(Len(job[w].shot) + Len(s))
          /\ DOMAIN s = 1..Len(s) /\ DOMAIN job[w].shot = 1..Len(job[w].shot)
          /\ Len(s) \in Nat /\ Len(job[w].shot) \in Nat
      BY <2>3, <2>4
    <3>2. ASSUME NEW i \in DOMAIN shot
          PROVE  \/ i \in DOMAIN job[w].shot /\ shot[i] = job[w].shot[i]
                 \/ \E p \in DOMAIN s : shot[i] = s[p]
      <4>1. CASE i <= Len(job[w].shot) BY <2>3, <2>4, <3>1, <4>1
      <4>2. CASE ~(i <= Len(job[w].shot))
        <5>1. i - Len(job[w].shot) \in DOMAIN s BY <3>1, <4>2
        <5>2. shot[i] = s[i - Len(job[w].shot)] BY <2>3, <2>4, <3>1, <4>2
        <5> QED BY <5>1, <5>2
      <4> QED BY <4>1, <4>2
    <3> QED BY <3>1, <3>2
  <2> HIDE DEF shot, list
  <2>6. list \in Seq(Videos) BY <2>3 DEF list
  <2>7. j \in Duties /\ j.at = "extract" /\ j.c = job[w].c /\ j.b = job[w].b
        /\ j.every = job[w].every /\ j.list = list /\ j.shot = shot /\ j.doomed = job[w].doomed
    BY <1>1, <1>2, <2>5, <2>6 DEF Duties
  <2> HIDE DEF j
  <2>8. PICK k \in Duties : /\ k = j /\ k.at = "extract" /\ k.c = job[w].c /\ k.b = job[w].b
                            /\ k.every = job[w].every /\ k.list = list /\ k.shot = shot
                            /\ k.doomed = job[w].doomed
    BY <2>7
  <2>9. C!Touched(k) = C!Touched(job[w]) BY <2>8 DEF C!Touched
  <2>10. job' = [job EXCEPT ![w] = k] BY <1>5, <2>8 DEF j, list, shot
  <2>11. images' = images \cup C!ToSet(s) /\ C!ToSet(s) \subseteq Pictures
    BY <1>5, <2>4 DEF C!ToSet
  <2>12. RowsTyped' /\ DiskTyped' /\ CountsTyped'
    BY <1>1, <1>2, <2>11 DEF RowsTyped, DiskTyped, CountsTyped
  <2>13. /\ job' \in [Workers -> Duties] /\ job'[w] = k
         /\ \A v, o \in Workers :
              v # o => C!Touched(job'[v]) \cap C!Touched(job'[o]) \subseteq contested'
         /\ \A v \in Workers \ {w} : /\ job'[v] = job[v]
                                     /\ Bringing(job[v])' /\ Taking(job[v])' /\ Dropping(job[v])'
    <3>1. \A v \in Workers \ {w} : C!Touched(k) \cap C!Touched(job[v]) \subseteq contested'
      BY <1>1, <2>9, CaptureFacts
    <3>2. \A c \in Collections : c \notin contested' /\ c \notin C!Touched(job[w]) =>
             /\ assets'[c] = assets[c] /\ (c \in collections' => c \in collections)
             /\ \A v \in Videos : <<c, v>> \in stored => <<c, v>> \in stored'
      BY <1>1
    <3>3. \A p \in images : p.batch \notin contested' /\ p.batch \notin C!Touched(job[w])
                               => p \in images'
      BY <2>11
    <3>4. \A r \in frames' : r \in frames \/ r.batch \in C!Touched(job[w]) BY <1>1
    <3>5. contested \subseteq contested' /\ \A b \in Batches : mixed[b] \subseteq mixed'[b]
      BY <1>1
    <3> QED BY <2>10, <2>12, <3>1, <3>2, <3>3, <3>4, <3>5, OthersKeep
  <2>14. Taking(k)'
    <3>1. Aligned(job[w]) => Aligned(k)
      <4>1. assets[job[w].c] \in Seq(Videos) BY <1>2, <2>2 DEF RowsTyped
      <4>2. k.list = Tail(job[w].list) /\ k.shot = job[w].shot \o s BY <2>8 DEF list, shot
      <4>3. \A p \in DOMAIN s : s[p].video = u /\ s[p].pos = p - 1 BY <2>4
      <4> HIDE DEF u
      <4> QED BY <1>1, <1>2, <2>3, <2>4, <2>8, <4>1, <4>2, <4>3, StillAligned DEF u
    <3>2. Aligned(k) => Aligned(k)' BY <1>1 DEF Aligned
    <3>3. \A i \in DOMAIN k.shot : k.shot[i].batch = k.b /\ k.shot[i].collection = k.c
      BY <2>2, <2>4, <2>5, <2>8
    <3>4. k.b \notin contested' => \A i \in DOMAIN k.shot : k.shot[i] \in images'
      BY <1>1, <2>2, <2>5, <2>8, <2>11 DEF C!ToSet
    <3> QED BY <1>1, <2>2, <2>8, <3>1, <3>2, <3>3, <3>4 DEF Taking
  <2>15. Bringing(k)' /\ Dropping(k)' BY <1>3, <2>8 DEF Bringing, Dropping
  <2>16. \A v \in Workers : Bringing(job[v])' /\ Taking(job[v])' /\ Dropping(job[v])'
    BY <2>13, <2>14, <2>15
  <2>17. \A c \in Collections : Gathered(c)' BY <1>1, CaptureFacts DEF Gathered
  <2>18. \A r \in frames' : Pictured(r)'
    <3>1. \A r \in frames : r.video \in C!Imported' BY <1>1, CaptureFacts DEF Pictured, C!Imported
    <3> QED BY <1>1, <2>11, <2>12, <3>1, PictureStays
  <2> QED BY <2>12, <2>13, <2>16, <2>17, <2>18 DEF CaptureInv
<1> QED BY <1>1, <1>4, <1>5

LEMMA CaptureRowFields ==
  ASSUME NEW f \in Pictures, NEW i \in Nat
  PROVE  /\ C!Row(f, i) \in PictureRows /\ C!Row(f, i).batch = f.batch
         /\ C!Row(f, i).video = f.video
         /\ C!Row(f, i).pos = f.pos /\ C!Row(f, i).index = i /\ C!Row(f, i).file = f
  BY DEF C!Row, PictureRows, Pictures

(* The rows of a list that is done are in their places.                      *)
LEMMA RowsPlaced ==
  ASSUME NEW j \in Duties, j.c \in Collections, assets[j.c] \in Seq(Videos),
         j.list = <<>>, Aligned(j), NEW i \in DOMAIN j.shot
  PROVE  \E k \in DOMAIN assets[j.c] :
           j.shot[i].video = assets[j.c][k] /\ i = Position(k, j.shot[i].pos, j.every)
<1>1. PICK all \in Seq(Videos) : all = assets[j.c] OBVIOUS
<1>2. \E k \in 1..(Len(all) - Len(j.list)) :
        j.shot[i].video = all[k] /\ i = Position(k, j.shot[i].pos, j.every)
  BY <1>1 DEF Aligned
<1>3. Len(j.list) = 0 /\ Len(all) \in Nat /\ DOMAIN all = 1..Len(all) BY <1>1
<1>4. 1..(Len(all) - Len(j.list)) = DOMAIN all BY <1>3
<1> QED BY <1>1, <1>2, <1>4

LEMMA RegisterKeeps ==
  ASSUME CaptureInv, NobodyApart, NEW w \in Workers, C!Register(w) PROVE CaptureInv'
<1>1. /\ job[w].at = "extract" /\ job[w].list = <<>>
      /\ UNCHANGED <<jobs, troubles, contested, mixed>>
      /\ UNCHANGED <<collections, assets, batch, stored, tmps, images, dirs>>
      /\ job' = [job EXCEPT ![w] = C!Idle]
  BY DEF C!Register, C!End, C!Go, C!counts, C!disk
<1>2. RowsTyped /\ DiskTyped /\ CountsTyped /\ job[w] \in Duties BY CaptureFacts
<1>3. PICK j \in Duties : j = job[w] BY <1>2
<1>4. j.at = "extract" /\ j.list = <<>> /\ "extract" \in ShootAts BY <1>1, <1>3 DEF ShootAts
<1>5. Taking(j) BY <1>3, CaptureFacts
<1>6. /\ j.c \in Collections /\ j.b \in Batches /\ j.every \in mixed[j.b]
      /\ \A i \in DOMAIN j.shot : j.shot[i].batch = j.b /\ j.shot[i].collection = j.c
      /\ j.b \notin contested => \A i \in DOMAIN j.shot : j.shot[i] \in images
      /\ j.c \notin contested => Aligned(j)
  BY <1>4, <1>5 DEF Taking
<1>7. \A r \in frames' : r \in frames \/ (r \in C!Numbered(j.shot) /\ r.video \in C!Imported)
  <2> DEFINE new == {r \in C!Numbered(j.shot) : ~\E q \in frames : C!Same(r, q)}
  <2>1. frames' = IF \A r \in new : batch[j.b] # Nobody /\ r.video \in C!Imported
                  THEN frames \cup new ELSE frames
    BY <1>3 DEF C!Register
  <2>2. \A r \in new : r \in C!Numbered(j.shot) OBVIOUS
  <2> HIDE DEF new
  <2> QED BY <2>1, <2>2
<1>8. ASSUME NEW r \in C!Numbered(j.shot)
      PROVE  \E i \in DOMAIN j.shot : /\ r = C!Row(j.shot[i], i) /\ i \in Nat
                                      /\ j.shot[i] \in Pictures
  <2>1. PICK i \in DOMAIN j.shot : r = C!Row(j.shot[i], i) BY DEF C!Numbered
  <2>2. j.shot \in Seq(Pictures) BY DEF Duties
  <2>3. i \in Nat /\ j.shot[i] \in Pictures BY <2>2
  <2> QED BY <2>1, <2>3
<1>9. ASSUME NEW r \in C!Numbered(j.shot)
      PROVE  /\ r \in PictureRows /\ r.batch = j.b /\ r.file.collection = j.c
             /\ r = C!Row(r.file, r.index)
             /\ j.b \notin contested => r.file \in images
             /\ j.c \notin contested => Placed(r, j.every)
  <2>1. PICK i \in DOMAIN j.shot : /\ r = C!Row(j.shot[i], i) /\ i \in Nat
                                   /\ j.shot[i] \in Pictures
    BY <1>8
  <2>2. /\ r \in PictureRows /\ r.batch = j.shot[i].batch /\ r.video = j.shot[i].video
        /\ r.pos = j.shot[i].pos /\ r.index = i /\ r.file = j.shot[i]
    BY <2>1, CaptureRowFields
  <2>3. j.c \notin contested => Placed(r, j.every)
    <3> SUFFICES ASSUME j.c \notin contested PROVE Placed(r, j.every)
      OBVIOUS
    <3>1. assets[j.c] \in Seq(Videos) BY <1>2, <1>6 DEF RowsTyped
    <3>2. \E k \in DOMAIN assets[j.c] :
            j.shot[i].video = assets[j.c][k] /\ i = Position(k, j.shot[i].pos, j.every)
      BY <1>4, <1>6, <3>1, RowsPlaced
    <3> QED BY <1>6, <2>2, <3>2 DEF Placed
  <2> QED BY <1>6, <2>1, <2>2, <2>3
<1>10. RowsTyped' /\ DiskTyped' /\ CountsTyped'
  <2>1. frames' \subseteq PictureRows BY <1>2, <1>7, <1>9 DEF RowsTyped
  <2> QED BY <1>1, <1>2, <2>1 DEF RowsTyped, DiskTyped, CountsTyped
<1>11. /\ job' \in [Workers -> Duties] /\ job'[w] = C!Idle
       /\ \A v, o \in Workers :
            v # o => C!Touched(job'[v]) \cap C!Touched(job'[o]) \subseteq contested'
       /\ \A v \in Workers \ {w} : /\ job'[v] = job[v]
                                   /\ Bringing(job[v])' /\ Taking(job[v])' /\ Dropping(job[v])'
  <2>1. \A v \in Workers \ {w} : C!Touched(C!Idle) \cap C!Touched(job[v]) \subseteq contested'
    BY IdleDuty
  <2>2. \A c \in Collections : c \notin contested' /\ c \notin C!Touched(job[w]) =>
           /\ assets'[c] = assets[c] /\ (c \in collections' => c \in collections)
           /\ \A u \in Videos : <<c, u>> \in stored => <<c, u>> \in stored'
    BY <1>1
  <2>3. j.b \in C!Touched(job[w]) BY <1>3, <1>6 DEF C!Touched, NobodyApart
  <2>4. \A r \in frames' : r \in frames \/ r.batch \in C!Touched(job[w]) BY <1>7, <1>9, <2>3
  <2>5. contested \subseteq contested' /\ \A b \in Batches : mixed[b] \subseteq mixed'[b]
    BY <1>1
  <2>6. \A p \in images : p.batch \notin contested' /\ p.batch \notin C!Touched(job[w])
                            => p \in images'
    BY <1>1
  <2>7. C!Idle \in Duties BY IdleDuty
  <2> QED BY <1>1, <1>10, <2>1, <2>2, <2>4, <2>5, <2>6, <2>7, OthersKeep
<1>12. \A v \in Workers : Bringing(job[v])' /\ Taking(job[v])' /\ Dropping(job[v])'
  BY <1>11, IdleDuty
<1>13. \A c \in Collections : Gathered(c)' BY <1>1, CaptureFacts DEF Gathered
<1>14. ASSUME NEW r \in frames' PROVE Pictured(r)'
  <2>1. CASE r \in frames
    <3>1. r.video \in C!Imported' BY <1>1, <2>1, CaptureFacts DEF Pictured, C!Imported
    <3> QED BY <1>1, <1>10, <2>1, <3>1, PictureStays
  <2>2. CASE r \in C!Numbered(j.shot) /\ r.video \in C!Imported
    <3>1. r.batch = j.b /\ r.file.collection = j.c /\ r = C!Row(r.file, r.index)
      BY <1>9, <2>2
    <3>2. mixed'[r.batch] # {} /\ r.video \in C!Imported' BY <1>1, <1>6, <2>2, <3>1 DEF C!Imported
    <3>3. r.batch \notin contested' => r.file \in images' BY <1>1, <1>9, <2>2, <3>1
    <3>4. r.file.collection \notin contested'
            => \A n \in {1, 2} : mixed'[r.batch] = {n} => Placed(r, n)'
      <4> SUFFICES ASSUME r.file.collection \notin contested', NEW n \in {1, 2},
                          mixed'[r.batch] = {n}
                   PROVE  Placed(r, n)'
        OBVIOUS
      <4>1. n = j.every BY <1>1, <1>6, <3>1
      <4>2. Placed(r, n) BY <1>1, <1>9, <2>2, <3>1, <4>1
      <4> QED BY <1>1, <4>2 DEF Placed
    <3> QED BY <3>1, <3>2, <3>3, <3>4 DEF Pictured, C!Row
  <2> QED BY <1>7, <2>1, <2>2
<1> QED BY <1>10, <1>11, <1>12, <1>13, <1>14 DEF CaptureInv

(* What a deletion does to the rows leaves the rows of other jobs alone, and *)
(* a frame that stays keeps its video.                                       *)
LEMMA RowsGo ==
  ASSUME CaptureInv, NobodyApart, NEW w \in Workers, NEW k \in Duties, NEW dropped, NEW videos,
         (job[w].b = Nobody) # (job[w].c = Nobody), job' = [job EXCEPT ![w] = k],
         videos = (IF job[w].c = Nobody THEN {} ELSE C!ToSet(assets[job[w].c])),
         job[w].c # Nobody => \A r \in frames' : r.video \notin videos,
         frames' = {r \in frames : r.batch \notin dropped},
         batch' = [b \in Batches |-> IF b \in dropped THEN Nobody ELSE batch[b]],
         collections' = collections \ {job[w].c},
         assets' = [c \in Collections |-> IF c = job[w].c THEN <<>> ELSE assets[c]],
         UNCHANGED <<stored, tmps, images, dirs, jobs, troubles, mixed>>,
         contested \subseteq contested', contested' \subseteq Collections \cup Batches,
         \A v \in Workers \ {w} : C!Touched(k) \cap C!Touched(job[v]) \subseteq contested',
         Bringing(k)', Taking(k)', Dropping(k)'
  PROVE  CaptureInv'
<1>1. RowsTyped /\ DiskTyped /\ CountsTyped /\ job[w] \in Duties BY CaptureFacts
<1>2. RowsTyped' /\ DiskTyped' /\ CountsTyped'
  <2>1. collections' \subseteq Collections /\ frames' \subseteq PictureRows
    BY <1>1 DEF RowsTyped
  <2>2. batch' \in [Batches -> Collections \cup {Nobody}] BY <1>1 DEF RowsTyped
  <2>3. assets' \in [Collections -> Seq(Videos)]
    <3>1. <<>> \in Seq(Videos) /\ \A c \in Collections : assets[c] \in Seq(Videos)
      BY <1>1 DEF RowsTyped
    <3> QED BY <3>1
  <2> QED BY <1>1, <2>1, <2>2, <2>3 DEF RowsTyped, DiskTyped, CountsTyped
<1>3. \A c \in Collections : c # job[w].c => assets'[c] = assets[c] OBVIOUS
<1>4. job[w].c \in Collections => job[w].c \in C!Touched(job[w]) BY DEF C!Touched, NobodyApart
<1>5. /\ job' \in [Workers -> Duties] /\ job'[w] = k
      /\ \A v, o \in Workers :
           v # o => C!Touched(job'[v]) \cap C!Touched(job'[o]) \subseteq contested'
      /\ \A v \in Workers \ {w} : /\ job'[v] = job[v]
                                  /\ Bringing(job[v])' /\ Taking(job[v])' /\ Dropping(job[v])'
  <2>1. \A c \in Collections : c \notin contested' /\ c \notin C!Touched(job[w]) =>
           /\ assets'[c] = assets[c] /\ (c \in collections' => c \in collections)
           /\ \A u \in Videos : <<c, u>> \in stored => <<c, u>> \in stored'
    BY <1>3, <1>4
  <2>2. \A r \in frames' : r \in frames \/ r.batch \in C!Touched(job[w]) OBVIOUS
  <2>3. \A b \in Batches : mixed[b] \subseteq mixed'[b] OBVIOUS
  <2>4. \A p \in images : p.batch \notin contested' /\ p.batch \notin C!Touched(job[w])
                            => p \in images'
    OBVIOUS
  <2> QED BY <1>2, <2>1, <2>2, <2>3, <2>4, OthersKeep
<1>6. \A v \in Workers : Bringing(job[v])' /\ Taking(job[v])' /\ Dropping(job[v])'
  BY <1>5
<1>7. ASSUME NEW c \in Collections PROVE Gathered(c)'
  <2>1. Gathered(c) BY CaptureFacts
  <2>2. CASE c = job[w].c
    <3>1. assets'[c] = <<>> BY <2>2
    <3> QED BY <3>1 DEF Gathered, Distinct
  <2>3. CASE c # job[w].c
    <3>1. assets'[c] = assets[c] /\ (c \notin collections' => c \notin collections)
      BY <1>3, <2>3
    <3> QED BY <2>1, <3>1 DEF Gathered
  <2> QED BY <2>2, <2>3
<1>8. ASSUME NEW r \in frames' PROVE Pictured(r)'
  <2>1. r \in frames /\ Pictured(r) BY CaptureFacts
  <2>2. job[w].c \in Collections => r.video \notin C!ToSet(assets[job[w].c])
    BY DEF NobodyApart
  <2>3. r.video \in C!Imported'
    <3>1. PICK c \in Collections : r.video \in C!ToSet(assets[c])
      BY <2>1 DEF Pictured, C!Imported
    <3>2. assets'[c] = assets[c] BY <1>3, <2>2, <3>1
    <3>3. r.video \in C!ToSet(assets'[c]) BY <3>1, <3>2
    <3> QED BY <3>3 DEF C!Imported
  <2>4. ASSUME NEW n \in {1, 2}, Placed(r, n) PROVE Placed(r, n)'
    <3>1. r.file.collection \in Collections
      BY <1>1, <2>1 DEF RowsTyped, PictureRows, Pictures
    <3>2. PICK list \in Seq(Videos) : list = assets[r.file.collection]
      BY <1>1, <3>1 DEF RowsTyped
    <3>3. r.video \in C!ToSet(list) BY <2>4, <3>2 DEF Placed, C!ToSet
    <3>4. assets'[r.file.collection] = assets[r.file.collection]
      BY <1>3, <2>2, <3>1, <3>2, <3>3
    <3> QED BY <2>4, <3>4 DEF Placed
  <2> QED BY <1>2, <2>1, <2>3, <2>4, PictureKept
<1> QED BY <1>2, <1>5, <1>6, <1>7, <1>8 DEF CaptureInv

LEMMA CaptureDeleteKeeps ==
  ASSUME CaptureInv, NobodyApart, NEW w \in Workers, C!Delete(w) PROVE CaptureInv'
<1> DEFINE dropped == IF job[w].b # Nobody THEN {job[w].b} ELSE C!BatchesOf(job[w].c)
           kept == {r \in frames : r.batch \notin dropped}
           videos == IF job[w].c = Nobody THEN {} ELSE C!ToSet(assets[job[w].c])
           allowed == IF job[w].b # Nobody THEN batch[job[w].b] # Nobody
                      ELSE /\ job[w].c \in collections
                           /\ dropped = {} \/ job[w].cascade
                           /\ \A r \in kept : r.video \notin videos
           others == UNION {C!Touched(job[o]) : o \in Workers \ {w}}
<1>1. /\ job[w].at = "delete" /\ UNCHANGED <<stored, tmps, images, dirs>>
      /\ UNCHANGED <<jobs, troubles, mixed>>
  BY DEF C!Delete, C!disk, C!End, C!Go, C!counts
<1>2. RowsTyped /\ DiskTyped /\ CountsTyped /\ job[w] \in Duties /\ Dropping(job[w])
  BY CaptureFacts
<1>3. (job[w].b = Nobody) # (job[w].c = Nobody) BY <1>1, <1>2 DEF Dropping
<1>4. CASE ~allowed
  <2>1. job' = [job EXCEPT ![w] = C!Idle] /\ UNCHANGED contested
        /\ UNCHANGED <<collections, assets, batch, frames>>
    BY <1>4 DEF C!Delete, C!End, C!Go, C!counts, C!rows
  <2>2. dirs' \subseteq Batches BY <1>1, <1>2 DEF DiskTyped
  <2> QED BY <1>1, <2>1, <2>2, JobEnds
<1>5. CASE allowed
  <2>1. /\ frames' = kept
        /\ batch' = [b \in Batches |-> IF b \in dropped THEN Nobody ELSE batch[b]]
        /\ collections' = collections \ {job[w].c}
        /\ assets' = [c \in Collections |-> IF c = job[w].c THEN <<>> ELSE assets[c]]
        /\ \/ /\ job' = [job EXCEPT ![w].at = "unlink", ![w].doomed = dropped,
                                    ![w].made = {<<job[w].c, v>> : v \in videos}]
              /\ contested' = contested \cup (dropped \cap others)
           \/ job' = [job EXCEPT ![w] = C!Idle] /\ contested' = contested
    BY <1>5 DEF C!Delete, C!End, C!Go, C!counts
  <2>2. job[w].c # Nobody => \A r \in frames' : r.video \notin videos BY <1>3, <1>5, <2>1
  <2>3. dropped \subseteq Batches BY <1>2 DEF C!BatchesOf, Duties
  <2>4. videos \subseteq Videos /\ (job[w].c = Nobody => videos = {})
    <3>1. job[w].c # Nobody => assets[job[w].c] \in Seq(Videos)
      BY <1>2 DEF RowsTyped, Duties
    <3> QED BY <3>1 DEF C!ToSet
  <2>5. contested \subseteq contested' /\ contested' \subseteq Collections \cup Batches
    BY <1>2, <2>1, <2>3 DEF CountsTyped
  <2>6. videos = (IF job[w].c = Nobody THEN {} ELSE C!ToSet(assets[job[w].c])) OBVIOUS
  <2> HIDE DEF dropped, videos, others, allowed
  <2>7. CASE job' = [job EXCEPT ![w] = C!Idle] /\ contested' = contested
    <3>1. /\ C!Idle \in Duties /\ Bringing(C!Idle)' /\ Taking(C!Idle)' /\ Dropping(C!Idle)'
          /\ \A v \in Workers \ {w} : C!Touched(C!Idle) \cap C!Touched(job[v]) \subseteq contested'
      BY IdleDuty
    <3> QED BY <1>1, <1>3, <2>1, <2>2, <2>5, <2>6, <2>7, <3>1, RowsGo
  <2>8. CASE /\ job' = [job EXCEPT ![w].at = "unlink", ![w].doomed = dropped,
                                   ![w].made = {<<job[w].c, v>> : v \in videos}]
             /\ contested' = contested \cup (dropped \cap others)
    <3> DEFINE wrote == {<<job[w].c, v>> : v \in videos}
               j == [job[w] EXCEPT !.at = "unlink", !.doomed = dropped, !.made = wrote]
    <3>1. "unlink" \in CaptureAts /\ "unlink" \notin BringAts /\ "unlink" \notin ShootAts
      BY DEF CaptureAts, BringAts, ShootAts
    <3>2. wrote \subseteq {job[w].c} \X Videos /\ wrote \subseteq Collections \X Videos
      <4>1. wrote \subseteq {job[w].c} \X Videos BY <2>4
      <4>2. job[w].c \in Collections \/ wrote = {} BY <1>2, <2>4 DEF Duties
      <4> QED BY <4>1, <4>2
    <3>3. job' = [job EXCEPT ![w] = j] BY <2>8
    <3> HIDE DEF wrote
    <3>4. /\ j \in Duties /\ j.at = "unlink" /\ j.c = job[w].c /\ j.b = job[w].b
          /\ j.doomed = dropped /\ j.made = wrote
      BY <1>2, <2>3, <3>1, <3>2 DEF Duties
    <3> HIDE DEF j
    <3>5. PICK k \in Duties : /\ k = j /\ k.at = "unlink" /\ k.c = job[w].c /\ k.b = job[w].b
                              /\ k.doomed = dropped /\ k.made = wrote
      BY <3>4
    <3>6. \A v \in Workers \ {w} : C!Touched(k) \cap C!Touched(job[v]) \subseteq contested'
      <4> SUFFICES ASSUME NEW v \in Workers \ {w}, NEW x \in C!Touched(k), x \in C!Touched(job[v])
                   PROVE  x \in contested'
        OBVIOUS
      <4>1. x \in C!Touched(job[w]) \/ x \in dropped BY <3>5 DEF C!Touched
      <4>2. CASE x \in C!Touched(job[w])
        <5>1. x \in contested BY <4>2, CaptureFacts
        <5> QED BY <2>5, <5>1
      <4>3. CASE x \in dropped
        <5>1. x \in others BY DEF others
        <5> QED BY <2>8, <4>3, <5>1
      <4> QED BY <4>1, <4>2, <4>3
    <3>7. Bringing(k)' /\ Taking(k)' BY <3>1, <3>5 DEF Bringing, Taking
    <3>8. Dropping(k)'
      <4>1. k.c \in Collections => assets'[k.c] = <<>> BY <2>1, <3>5
      <4>2. \A r \in frames' : r.batch \notin k.doomed BY <2>1, <3>5
      <4> QED BY <3>2, <3>5, <4>1, <4>2 DEF Dropping
    <3>9. job' = [job EXCEPT ![w] = k] BY <3>3, <3>5
    <3> QED BY <1>1, <1>3, <2>1, <2>2, <2>5, <2>6, <3>6, <3>7, <3>8, <3>9, RowsGo
  <2> QED BY <2>1, <2>7, <2>8
<1> QED BY <1>4, <1>5

LEMMA CaptureUnlinkKeeps ==
  ASSUME CaptureInv, NobodyApart, NEW w \in Workers, C!Unlink(w) PROVE CaptureInv'
<1>1. /\ job[w].at = "unlink" /\ UNCHANGED <<jobs, troubles, contested, mixed>>
      /\ UNCHANGED <<collections, assets, batch, frames, tmps>>
      /\ dirs' \subseteq dirs /\ images' = {f \in images : f.batch \notin job[w].doomed}
      /\ stored' = stored \ job[w].made
      /\ job' = [job EXCEPT ![w] = C!Idle]
  BY DEF C!Unlink, C!End, C!Go, C!counts, C!rows
<1>2. RowsTyped /\ DiskTyped /\ CountsTyped /\ job[w] \in Duties BY CaptureFacts
<1>3. RowsTyped' /\ DiskTyped' /\ CountsTyped'
  BY <1>1, <1>2 DEF RowsTyped, DiskTyped, CountsTyped
<1>4. /\ job[w].made \subseteq {job[w].c} \X Videos
      /\ job[w].c \in Collections \ contested => assets[job[w].c] = <<>>
      /\ \A r \in frames : r.batch \in job[w].doomed => r.batch \in contested
  BY <1>1, CaptureFacts DEF Dropping
<1>5. job[w].c \in Collections => job[w].c \in C!Touched(job[w]) BY DEF C!Touched, NobodyApart
<1>6. \A c, u : <<c, u>> \in stored /\ c # job[w].c => <<c, u>> \in stored' BY <1>1, <1>4
<1>7. /\ job' \in [Workers -> Duties] /\ job'[w] = C!Idle
      /\ \A v, o \in Workers :
           v # o => C!Touched(job'[v]) \cap C!Touched(job'[o]) \subseteq contested'
      /\ \A v \in Workers \ {w} : /\ job'[v] = job[v]
                                  /\ Bringing(job[v])' /\ Taking(job[v])' /\ Dropping(job[v])'
  <2>1. \A v \in Workers \ {w} : C!Touched(C!Idle) \cap C!Touched(job[v]) \subseteq contested'
    BY IdleDuty
  <2>2. \A c \in Collections : c \notin contested' /\ c \notin C!Touched(job[w]) =>
           /\ assets'[c] = assets[c] /\ (c \in collections' => c \in collections)
           /\ \A u \in Videos : <<c, u>> \in stored => <<c, u>> \in stored'
    BY <1>1, <1>5, <1>6
  <2>3. \A p \in images : p.batch \notin contested' /\ p.batch \notin C!Touched(job[w])
                            => p \in images'
    <3>1. Nobody \notin job[w].doomed BY <1>2 DEF Duties, NobodyApart
    <3>2. job[w].doomed \subseteq C!Touched(job[w]) BY <3>1 DEF C!Touched
    <3> QED BY <1>1, <3>2
  <2>4. \A r \in frames' : r \in frames \/ r.batch \in C!Touched(job[w]) BY <1>1
  <2>5. contested \subseteq contested' /\ \A b \in Batches : mixed[b] \subseteq mixed'[b]
    BY <1>1
  <2> QED BY <1>1, <1>3, <2>1, <2>2, <2>3, <2>4, <2>5, IdleDuty, OthersKeep
<1>8. \A v \in Workers : Bringing(job[v])' /\ Taking(job[v])' /\ Dropping(job[v])'
  BY <1>7, IdleDuty
<1>9. \A c \in Collections : Gathered(c)'
  <2> SUFFICES ASSUME NEW c \in Collections PROVE Gathered(c)'
    OBVIOUS
  <2>1. Gathered(c) BY CaptureFacts
  <2>2. CASE c = job[w].c /\ c \notin contested
    <3>1. assets[c] = <<>> /\ assets'[c] = <<>> BY <1>1, <1>4, <2>1, <2>2
    <3> QED BY <3>1 DEF Gathered, Distinct
  <2>3. CASE c = job[w].c /\ c \in contested BY <1>1, <2>1, <2>3 DEF Gathered
  <2>4. CASE c # job[w].c BY <1>1, <1>6, <2>1, <2>4 DEF Gathered
  <2> QED BY <2>2, <2>3, <2>4
<1>10. ASSUME NEW r \in frames' PROVE Pictured(r)'
  <2>1. r \in frames /\ Pictured(r) BY <1>1, CaptureFacts
  <2>2. r.video \in C!Imported' BY <1>1, <2>1 DEF Pictured, C!Imported
  <2>3. r.file.batch = r.batch
    <3>1. r.file \in Pictures /\ r.index \in Nat BY <1>2, <2>1 DEF RowsTyped, PictureRows
    <3> QED BY <2>1, <3>1, CaptureRowFields DEF Pictured
  <2>4. r.batch \notin contested' => (r.file \in images => r.file \in images')
    BY <1>1, <1>4, <2>1, <2>3
  <2> QED BY <1>1, <1>3, <2>1, <2>2, <2>4, PictureStays
<1> QED BY <1>3, <1>7, <1>8, <1>9, <1>10 DEF CaptureInv

LEMMA CaptureInitial == C!Init => CaptureInv
<1> SUFFICES ASSUME C!Init PROVE CaptureInv
  OBVIOUS
<1>1. RowsTyped /\ DiskTyped /\ CountsTyped
  <2>1. <<>> \in Seq(Videos) OBVIOUS
  <2> QED BY <2>1 DEF C!Init, RowsTyped, DiskTyped, CountsTyped
<1>2. job = [w \in Workers |-> C!Idle] /\ C!Idle \in Duties /\ C!Touched(C!Idle) = {}
  BY IdleDuty DEF C!Init
<1>3. /\ job \in [Workers -> Duties]
      /\ \A v, w \in Workers : v # w => C!Touched(job[v]) \cap C!Touched(job[w]) \subseteq contested
  BY <1>2
<1>4. \A w \in Workers : Bringing(job[w]) /\ Taking(job[w]) /\ Dropping(job[w])
  BY <1>2, IdleDuty
<1>5. ASSUME NEW c \in Collections PROVE Gathered(c)
  <2>1. assets[c] = <<>> BY DEF C!Init
  <2> QED BY <2>1 DEF Gathered, Distinct
<1>6. \A r \in frames : Pictured(r) BY DEF C!Init
<1> QED BY <1>1, <1>3, <1>4, <1>5, <1>6 DEF CaptureInv

LEMMA CaptureQuiet == CaptureInv /\ UNCHANGED C!vars => CaptureInv'
<1> SUFFICES ASSUME CaptureInv, UNCHANGED C!vars PROVE CaptureInv'
  OBVIOUS
<1>1. UNCHANGED <<collections, assets, stored, tmps, batch, frames, images, dirs, job, jobs,
                  troubles, contested, mixed>>
  BY DEF C!vars
<1>2. RowsTyped' /\ DiskTyped' /\ CountsTyped'
  BY <1>1, CaptureFacts DEF RowsTyped, DiskTyped, CountsTyped
<1>3. \A c \in Collections : Gathered(c)' BY <1>1, CaptureFacts DEF Gathered
<1>4. ASSUME NEW w \in Workers
      PROVE  Bringing(job[w])' /\ Taking(job[w])' /\ Dropping(job[w])'
  <2>1. PICK j \in Duties : j = job[w] BY CaptureFacts
  <2>2. Bringing(j) /\ Taking(j) /\ Dropping(j) BY <2>1, CaptureFacts
  <2>3. Bringing(j)' /\ Dropping(j)' BY <1>1, <2>2 DEF Bringing, Dropping
  <2>4. Aligned(j) => Aligned(j)' BY <1>1 DEF Aligned
  <2>5. Taking(j)' BY <1>1, <2>2, <2>4 DEF Taking
  <2>6. job'[w] = j BY <1>1, <2>1
  <2> QED BY <2>3, <2>5, <2>6
<1>5. \A r \in frames' : Pictured(r)'
  <2>1. \A r \in frames : r.video \in C!Imported' BY <1>1, CaptureFacts DEF Pictured, C!Imported
  <2> QED BY <1>1, <1>2, <2>1, PictureStays
<1>6. /\ job' \in [Workers -> Duties]
      /\ \A v, w \in Workers :
           v # w => C!Touched(job'[v]) \cap C!Touched(job'[w]) \subseteq contested'
  BY <1>1, CaptureFacts
<1> QED BY <1>2, <1>3, <1>4, <1>5, <1>6 DEF CaptureInv

LEMMA CaptureStep ==
  ASSUME CaptureInv, NobodyApart, [C!Next]_C!vars PROVE CaptureInv'
<1>1. CASE UNCHANGED C!vars BY <1>1, CaptureQuiet
<1>2. CASE C!Crash BY <1>2, CaptureCrashKeeps
<1>3. ASSUME NEW w \in Workers, C!Step(w) PROVE CaptureInv'
  <2>1. CASE C!Look(w) BY <2>1, LookKeeps
  <2>2. CASE \E v \in Videos : C!Copy(w, v) BY <2>2, CopyKeeps
  <2>3. CASE C!Place(w) BY <2>3, PlaceKeeps
  <2>4. CASE C!Insert(w) BY <2>4, InsertKeeps
  <2>5. CASE C!Undo(w) BY <2>5, UndoKeeps
  <2>6. CASE C!List(w) BY <2>6, ListKeeps
  <2>7. CASE C!Batch(w) BY <2>7, BatchKeeps
  <2>8. CASE C!Extract(w) BY <2>8, ExtractKeeps
  <2>9. CASE C!Register(w) BY <2>9, RegisterKeeps
  <2>10. CASE C!Delete(w) BY <2>10, CaptureDeleteKeeps
  <2>11. CASE C!Unlink(w) BY <2>11, CaptureUnlinkKeeps
  <2>12. CASE C!FailCopy(w) BY <2>12, FailCopyKeeps
  <2> QED
    BY <1>3, <2>1, <2>2, <2>3, <2>4, <2>5, <2>6, <2>7, <2>8, <2>9, <2>10, <2>11, <2>12 DEF C!Step
<1>4. ASSUME NEW w \in Workers, NEW c \in Collections, NEW S \in SUBSET Videos,
             C!BeginImport(w, c, S)
      PROVE  CaptureInv'
  BY <1>4, BeginImportKeeps
<1>5. ASSUME NEW w \in Workers, NEW c \in Collections, NEW b \in Batches, NEW n \in {1, 2},
             C!BeginExtract(w, c, b, n)
      PROVE  CaptureInv'
  BY <1>5, BeginExtractKeeps
<1>6. ASSUME NEW w \in Workers, NEW c \in Collections, NEW a \in BOOLEAN, NEW x \in BOOLEAN,
             C!BeginDeleteCollection(w, c, a, x)
      PROVE  CaptureInv'
  BY <1>6, BeginDeleteCollectionKeeps
<1>7. ASSUME NEW w \in Workers, NEW b \in Batches, NEW a \in BOOLEAN, C!BeginDeleteBatch(w, b, a)
      PROVE  CaptureInv'
  BY <1>7, BeginDeleteBatchKeeps
<1> QED BY <1>1, <1>2, <1>3, <1>4, <1>5, <1>6, <1>7 DEF C!Next

(* The rows and files of imports, extractions and deletions agree with what  *)
(* every job has done, whatever the jobs that run at once.                   *)
THEOREM CaptureInvariant == ASSUME NobodyApart PROVE C!Spec => []CaptureInv
<1>1. CaptureInv /\ [C!Next]_C!vars => CaptureInv' BY CaptureStep
<1> QED BY <1>1, CaptureInitial, PTL DEF C!Spec

(* The type invariant of the captures.                                       *)
THEOREM CaptureTypeCorrect == ASSUME NobodyApart PROVE C!Spec => []C!TypeOK
<1>1. CaptureInv => C!TypeOK
  <2> SUFFICES ASSUME CaptureInv PROVE C!TypeOK
    OBVIOUS
  <2>1. RowsTyped /\ DiskTyped /\ CountsTyped BY CaptureFacts
  <2>2. \A c \in Collections : C!ToSet(assets[c]) \subseteq Videos
    BY <2>1 DEF RowsTyped, C!ToSet
  <2>3. C!Imported \subseteq Videos BY <2>2 DEF C!Imported
  <2>4. \A r \in frames : r.batch \in Batches /\ r.video \in C!Imported
    BY <2>1, CaptureFacts DEF Pictured, RowsTyped, PictureRows
  <2> QED BY <2>1, <2>3, <2>4 DEF C!TypeOK, RowsTyped, DiskTyped, CountsTyped
<1> QED BY <1>1, CaptureInvariant, PTL

LEMMA OneInterval ==
  ASSUME NEW m \in SUBSET {1, 2}, Cardinality(m) = 1 PROVE \E n \in {1, 2} : m = {n}
<1>1. m = {} \/ m = {1} \/ m = {2} \/ m = {1, 2} OBVIOUS
<1>2. Cardinality({}) = 0 BY FS_EmptySet
<1>3. Cardinality({1, 2}) = 2
  <2>1. IsFiniteSet({1}) /\ Cardinality({1}) = 1 BY FS_Singleton
  <2>2. 2 \notin {1} /\ {1} \cup {2} = {1, 2} OBVIOUS
  <2> QED BY <2>1, <2>2, FS_AddElement
<1>4. CASE m = {} BY <1>2, <1>4
<1>5. CASE m = {1, 2} BY <1>3, <1>5
<1>6. CASE m = {1} \/ m = {2} BY <1>6
<1> QED BY <1>1, <1>4, <1>5, <1>6

(* A row's number follows from its picture.                                  *)
LEMMA OneRow ==
  ASSUME CaptureInv, NEW r \in frames, NEW q \in frames, r.file = q.file,
         Cardinality(mixed[r.batch]) = 1,
         r.batch \notin contested, r.file.collection \notin contested
  PROVE  r = q
<1>1. r \in PictureRows /\ q \in PictureRows /\ mixed \in [Batches -> SUBSET {1, 2}]
  BY CaptureFacts DEF RowsTyped, CountsTyped
<1>2. Pictured(r) /\ Pictured(q) BY CaptureFacts
<1>3. r = C!Row(r.file, r.index) /\ q = C!Row(q.file, q.index) BY <1>2 DEF Pictured
<1>4. /\ r.batch \in Batches /\ r.file \in Pictures /\ r.index \in Nat /\ q.index \in Nat
      /\ r.file.collection \in Collections
  BY <1>1 DEF PictureRows, Pictures
<1>5. r.batch = q.batch /\ r.video = q.video /\ r.pos = q.pos BY <1>3, <1>4, CaptureRowFields
<1>6. PICK n \in {1, 2} : mixed[r.batch] = {n}
  <2>1. mixed[r.batch] \in SUBSET {1, 2} BY <1>1, <1>4
  <2> QED BY <2>1, OneInterval
<1>7. Placed(r, n) /\ Placed(q, n) BY <1>2, <1>5, <1>6 DEF Pictured
<1>8. Distinct(assets[r.file.collection]) BY <1>4, CaptureFacts DEF Gathered
<1>9. r.index = q.index BY <1>5, <1>7, <1>8 DEF Placed, Distinct
<1> QED BY <1>3, <1>9

(* CaptureFilesHold: a video row keeps its file and a frame row its image,   *)
(* and a batch extracted with one interval has one row per image, whatever   *)
(* fails, unless two jobs worked on the collection or batch at once.         *)
THEOREM CaptureFilesKept == ASSUME NobodyApart PROVE C!Spec => []C!CaptureFilesHold
<1>1. CaptureInv => C!CaptureFilesHold
  <2> SUFFICES ASSUME CaptureInv PROVE C!CaptureFilesHold
    OBVIOUS
  <2>1. \A c \in Collections \ contested : \A v \in C!ToSet(assets[c]) : <<c, v>> \in stored
    BY CaptureFacts DEF Gathered, C!ToSet
  <2>2. \A r \in frames : r.batch \notin contested => r.file \in images
    BY CaptureFacts DEF Pictured
  <2>3. \A r, q \in frames :
          /\ r.file = q.file /\ C!Cardinality(mixed[r.batch]) = 1
          /\ r.batch \notin contested /\ r.file.collection \notin contested
          => r = q
    <3> SUFFICES ASSUME NEW r \in frames, NEW q \in frames, r.file = q.file,
                        C!Cardinality(mixed[r.batch]) = 1, r.batch \notin contested,
                        r.file.collection \notin contested
                 PROVE  r = q
      OBVIOUS
    <3>1. Cardinality(mixed[r.batch]) = 1 BY Counted
    <3> QED BY <3>1, OneRow
  <2> QED BY <2>1, <2>2, <2>3 DEF C!CaptureFilesHold
<1> QED BY <1>1, CaptureInvariant, PTL

-----------------------------------------------------------------------------
(* Release plans: every split gets its share.                               *)

LEMMA Smaller ==
  ASSUME NEW S, IsFiniteSet(S), NEW Q, Q \subseteq SUBSET S, Q # {}
  PROVE  \E t \in Q : \A u \in SUBSET t : u # t => u \notin Q
<1>1. IsWellFoundedOn(StrictSubsetOrdering(S), FiniteSubsetsOf(S))
  BY FS_StrictSubsetOrderingWellFounded
<1>2. Q \subseteq FiniteSubsetsOf(S) BY FS_FiniteSubsetsOfFinite
<1>3. PICK t \in Q : \A u \in Q : ~ (<<u, t>> \in StrictSubsetOrdering(S))
  BY <1>1, <1>2, WFMin
<1>4. ASSUME NEW u \in SUBSET t, u # t PROVE u \notin Q
  <2>1. <<u, t>> \in StrictSubsetOrdering(S) BY <1>4 DEF StrictSubsetOrdering
  <2> QED BY <1>3, <2>1
<1> QED BY <1>4

LEMMA Somebody == ASSUME NEW s, s # {} PROVE Some(s) \in s /\ s \ {Some(s)} # s
<1>1. Some(s) \in s BY DEF Some
<1> QED BY <1>1

(* What two of the functions say of a set is the same.                       *)
LEMMA SumsAgree ==
  ASSUME NEW z, NEW S, IsFiniteSet(S), NEW Y, NEW f, NEW h, Sums(f, z, S), Sums(h, z, Y),
         NEW s \in SUBSET S, s \subseteq Y
  PROVE  f[s] = h[s]
<1> DEFINE differ == {t \in SUBSET S : t \subseteq Y /\ f[t] # h[t]}
<1> SUFFICES ASSUME differ # {} PROVE FALSE
  OBVIOUS
<1>1. PICK t \in differ : \A u \in SUBSET t : u # t => u \notin differ
  <2>1. differ \subseteq SUBSET S OBVIOUS
  <2> HIDE DEF differ
  <2> QED BY <2>1, Smaller
<1>2. t \in SUBSET S /\ t \in SUBSET Y /\ f[t] # h[t] OBVIOUS
<1>3. /\ f[t] = IF t = {} THEN 0 ELSE z[Some(t)] + f[t \ {Some(t)}]
      /\ h[t] = IF t = {} THEN 0 ELSE z[Some(t)] + h[t \ {Some(t)}]
  BY <1>2 DEF Sums
<1>4. t # {} BY <1>2, <1>3
<1>5. t \ {Some(t)} \notin differ BY <1>1, <1>4, Somebody
<1>6. f[t \ {Some(t)}] = h[t \ {Some(t)}] BY <1>2, <1>5
<1> QED BY <1>2, <1>3, <1>6

LEMMA SumsExist ==
  ASSUME NEW z, NEW S, IsFiniteSet(S) PROVE \A U \in SUBSET S : \E f : Sums(f, z, U)
<1> DEFINE without == {U \in SUBSET S : ~\E f : Sums(f, z, U)}
<1> SUFFICES ASSUME without # {} PROVE FALSE
  OBVIOUS
<1>1. PICK Y \in without : \A u \in SUBSET Y : u # Y => u \notin without
  <2>1. without \subseteq SUBSET S OBVIOUS
  <2> HIDE DEF without
  <2> QED BY <2>1, Smaller
<1>2. Y \in SUBSET S /\ IsFiniteSet(Y) BY FS_Subset
<1>3. ASSUME NEW u \in SUBSET Y, u # Y
      PROVE  /\ Sums(CHOOSE f : Sums(f, z, u), z, u) /\ IsFiniteSet(u)
             /\ u = {} => Sum(z, u) = 0
             /\ u # {} => Sum(z, u) = z[Some(u)] + Sum(z, u \ {Some(u)})
  <2>1. \A v \in SUBSET u : (\E f : Sums(f, z, v)) /\ IsFiniteSet(v)
    <3> SUFFICES ASSUME NEW v \in SUBSET u PROVE (\E f : Sums(f, z, v)) /\ IsFiniteSet(v)
      OBVIOUS
    <3>1. v # Y /\ v \in SUBSET Y BY <1>3
    <3> QED BY <1>1, <1>2, <3>1, FS_Subset
  <2>2. PICK f : f = (CHOOSE e : Sums(e, z, u)) OBVIOUS
  <2>3. Sums(f, z, u) BY <2>1, <2>2
  <2>4. Sum(z, u) = f[u] BY <2>2 DEF Sum
  <2>5. f[u] = IF u = {} THEN 0 ELSE z[Some(u)] + f[u \ {Some(u)}] BY <2>3 DEF Sums
  <2>6. ASSUME u # {} PROVE f[u \ {Some(u)}] = Sum(z, u \ {Some(u)})
    <3>1. PICK v : v = u \ {Some(u)} OBVIOUS
    <3>2. PICK h : h = (CHOOSE e : Sums(e, z, v)) OBVIOUS
    <3>3. Sums(h, z, v) /\ v \in SUBSET u BY <2>1, <3>1, <3>2
    <3>4. f[v] = h[v] BY <2>1, <2>3, <3>3, SumsAgree
    <3> QED BY <3>1, <3>2, <3>4 DEF Sum
  <2> QED BY <2>1, <2>2, <2>3, <2>4, <2>5, <2>6
<1> DEFINE g == [s \in SUBSET Y |->
                   IF s = {} THEN 0 ELSE z[Some(s)] + Sum(z, s \ {Some(s)})]
<1>4. ASSUME NEW s \in SUBSET Y, s # {} PROVE g[s \ {Some(s)}] = Sum(z, s \ {Some(s)})
  <2>1. PICK u \in SUBSET Y : u = s \ {Some(s)} OBVIOUS
  <2>2. u # Y BY <1>4, <2>1, Somebody
  <2> QED BY <1>3, <2>1, <2>2
<1>5. g = [s \in SUBSET Y |-> IF s = {} THEN 0 ELSE z[Some(s)] + g[s \ {Some(s)}]]
  <2>1. \A s \in SUBSET Y : g[s] = IF s = {} THEN 0 ELSE z[Some(s)] + Sum(z, s \ {Some(s)})
    OBVIOUS
  <2>2. g = [s \in SUBSET Y |-> g[s]] OBVIOUS
  <2> HIDE DEF g
  <2> QED BY <1>4, <2>1, <2>2
<1> HIDE DEF g
<1>6. Sums(g, z, Y) BY <1>5 DEF Sums
<1> QED BY <1>6

LEMMA SumUnfolds ==
  ASSUME NEW z, NEW S, IsFiniteSet(S), NEW U \in SUBSET S
  PROVE  Sum(z, U) = IF U = {} THEN 0 ELSE z[Some(U)] + Sum(z, U \ {Some(U)})
<1>1. /\ IsFiniteSet(U) /\ \A v \in SUBSET U : \E f : Sums(f, z, v) BY FS_Subset, SumsExist
<1>2. PICK f : f = (CHOOSE e : Sums(e, z, U)) OBVIOUS
<1>3. Sums(f, z, U) /\ Sum(z, U) = f[U] BY <1>1, <1>2 DEF Sum
<1>4. f[U] = IF U = {} THEN 0 ELSE z[Some(U)] + f[U \ {Some(U)}] BY <1>3 DEF Sums
<1>5. PICK v : v = U \ {Some(U)} OBVIOUS
<1>6. PICK h : h = (CHOOSE e : Sums(e, z, v)) OBVIOUS
<1>7. Sums(h, z, v) /\ v \in SUBSET U /\ Sum(z, v) = h[v] BY <1>1, <1>5, <1>6 DEF Sum
<1>8. f[v] = h[v] BY <1>1, <1>3, <1>7, SumsAgree
<1> QED BY <1>3, <1>4, <1>5, <1>7, <1>8

LEMMA SumNat ==
  ASSUME NEW z, NEW S, IsFiniteSet(S), \A x \in S : z[x] \in Nat
  PROVE  \A U \in SUBSET S : Sum(z, U) \in Nat
<1> DEFINE wrong == {U \in SUBSET S : Sum(z, U) \notin Nat}
<1> SUFFICES ASSUME wrong # {} PROVE FALSE
  OBVIOUS
<1>1. PICK t \in wrong : \A u \in SUBSET t : u # t => u \notin wrong
  <2>1. wrong \subseteq SUBSET S OBVIOUS
  <2> HIDE DEF wrong
  <2> QED BY <2>1, Smaller
<1>2. t \in SUBSET S /\ Sum(z, t) \notin Nat OBVIOUS
<1>3. Sum(z, t) = IF t = {} THEN 0 ELSE z[Some(t)] + Sum(z, t \ {Some(t)})
  BY <1>2, SumUnfolds
<1>4. t # {} BY <1>2, <1>3
<1>5. Some(t) \in t /\ t \ {Some(t)} # t BY <1>4, Somebody
<1>6. Sum(z, t \ {Some(t)}) \in Nat BY <1>1, <1>2, <1>5
<1>7. z[Some(t)] \in Nat BY <1>2, <1>5
<1> QED BY <1>2, <1>3, <1>4, <1>6, <1>7

(* One more adds its own.                                                    *)
LEMMA SumAdds ==
  ASSUME NEW z, NEW S, IsFiniteSet(S), \A x \in S : z[x] \in Nat
  PROVE  \A U \in SUBSET S : \A g \in S \ U : Sum(z, U \cup {g}) = Sum(z, U) + z[g]
<1> DEFINE wrong == {U \in SUBSET S : \E g \in S \ U : Sum(z, U \cup {g}) # Sum(z, U) + z[g]}
<1> SUFFICES ASSUME wrong # {} PROVE FALSE
  OBVIOUS
<1>1. PICK U \in wrong : \A u \in SUBSET U : u # U => u \notin wrong
  <2>1. wrong \subseteq SUBSET S OBVIOUS
  <2> HIDE DEF wrong
  <2> QED BY <2>1, Smaller
<1>2. U \in SUBSET S OBVIOUS
<1>3. PICK g \in S \ U : Sum(z, U \cup {g}) # Sum(z, U) + z[g] OBVIOUS
<1>4. PICK Z \in SUBSET S : Z = U \cup {g} BY <1>2, <1>3
<1>5. PICK x : x = Some(Z) OBVIOUS
<1>6. x \in Z /\ Sum(z, Z) = z[x] + Sum(z, Z \ {x})
  <2>1. Z # {} BY <1>4
  <2> QED BY <1>5, <2>1, Somebody, SumUnfolds
<1>7. CASE x = g
  <2>1. Z \ {x} = U BY <1>3, <1>4, <1>7
  <2>2. Sum(z, U) \in Nat /\ z[g] \in Nat BY <1>2, <1>3, SumNat
  <2> QED BY <1>3, <1>4, <1>6, <1>7, <2>1, <2>2
<1>8. CASE x # g
  <2>1. PICK W \in SUBSET S : W = U \ {x} BY <1>2
  <2>2. x \in U /\ W # U /\ W \in SUBSET U BY <1>4, <1>6, <1>8, <2>1
  <2>3. W \notin wrong BY <1>1, <2>2
  <2>4. x \in S \ W /\ g \in S \ W BY <1>2, <1>3, <2>1, <2>2
  <2>5. Sum(z, W \cup {g}) = Sum(z, W) + z[g] /\ Sum(z, W \cup {x}) = Sum(z, W) + z[x]
    BY <2>3, <2>4
  <2>6. W \cup {x} = U /\ Z \ {x} = W \cup {g} BY <1>3, <1>4, <1>8, <2>1, <2>2
  <2>7. Sum(z, W) \in Nat /\ z[g] \in Nat /\ z[x] \in Nat BY <2>4, SumNat
  <2>8. Sum(z, Z) = z[x] + (Sum(z, W) + z[g]) /\ Sum(z, U) = Sum(z, W) + z[x]
    BY <1>6, <2>5, <2>6
  <2>9. Sum(z, Z) = Sum(z, U) + z[g]
    <3>1. PICK a \in Nat, b \in Nat, c \in Nat : a = Sum(z, W) /\ b = z[g] /\ c = z[x] BY <2>7
    <3>2. b + 0 = b /\ c + (a + b) = (a + c) + b OBVIOUS
    <3> QED BY <2>8, <3>1, <3>2
  <2> QED BY <1>3, <1>4, <2>9
<1> QED BY <1>7, <1>8

(* A part has no more than the whole.                                        *)
LEMMA SumWithin ==
  ASSUME NEW z, NEW S, IsFiniteSet(S), \A x \in S : z[x] \in Nat
  PROVE  \A U \in SUBSET S : Sum(z, U) <= Sum(z, S)
<1> DEFINE wrong == {N \in SUBSET S : ~ (Sum(z, S \ N) <= Sum(z, S))}
<1>1. wrong = {}
  <2> SUFFICES ASSUME wrong # {} PROVE FALSE
    OBVIOUS
  <2>1. PICK N \in wrong : \A u \in SUBSET N : u # N => u \notin wrong
    <3>1. wrong \subseteq SUBSET S OBVIOUS
    <3> HIDE DEF wrong
    <3> QED BY <3>1, Smaller
  <2>2. N \in SUBSET S /\ ~ (Sum(z, S \ N) <= Sum(z, S)) OBVIOUS
  <2>3. \A U \in SUBSET S : Sum(z, U) \in Nat BY SumNat
  <2>4. N # {}
    <3>1. S \ {} = S /\ Sum(z, S) \in Nat BY <2>3
    <3> QED BY <2>2, <3>1
  <2>5. PICK d \in N : TRUE BY <2>4
  <2>6. PICK M \in SUBSET S : M = S \ N OBVIOUS
  <2>7. N \ {d} \notin wrong /\ N \ {d} \in SUBSET S BY <2>1, <2>2
  <2>8. Sum(z, S \ (N \ {d})) <= Sum(z, S) BY <2>7
  <2>9. S \ (N \ {d}) = M \cup {d} /\ d \in S \ M BY <2>2, <2>6
  <2>10. Sum(z, M \cup {d}) = Sum(z, M) + z[d] BY <2>9, SumAdds
  <2>11. Sum(z, M) \in Nat /\ z[d] \in Nat /\ Sum(z, S) \in Nat BY <2>3, <2>9
  <2> QED BY <2>2, <2>6, <2>8, <2>9, <2>10, <2>11
<1>2. ASSUME NEW U \in SUBSET S PROVE Sum(z, U) <= Sum(z, S)
  <2>1. S \ U \notin wrong /\ S \ U \in SUBSET S BY <1>1
  <2>2. S \ (S \ U) = U OBVIOUS
  <2> QED BY <2>1, <2>2
<1> QED BY <1>2

LEMMA FramesSum == \A S : R!Frames(S) = Sum(size, S)
  BY DEF R!Frames, R!MapThenSumSet, R!MapThenFoldSet, Sum, Sums, Some

-----------------------------------------------------------------------------
LEMMA Products ==
  ASSUME NEW a \in Nat, NEW b \in Nat
  PROVE  a * b \in Nat /\ (a > 0 /\ b > 0 => a * b > 0) /\ (a = 0 => a * b = 0)
  OBVIOUS

(* Three shares of a hundred: one of them is short as long as not all is     *)
(* placed.                                                                   *)
LEMMA SomeShort ==
  ASSUME NEW a \in Nat, NEW b \in Nat, NEW c \in Nat, NEW n \in Nat,
         NEW x \in Nat, NEW y \in Nat, NEW z \in Nat, a + b + c = 100, x + y + z < n
  PROVE  100 * x < a * n \/ 100 * y < b * n \/ 100 * z < c * n
<1>1. a * n \in Nat /\ b * n \in Nat /\ c * n \in Nat BY Products
<1>2. a * n + b * n + c * n = 100 * n
  <2>1. (a + b + c) * n = a * n + b * n + c * n OBVIOUS
  <2> QED BY <2>1
<1> QED BY <1>1, <1>2

LEMMA SplitsFinite == IsFiniteSet(R!Splits)
<1>1. IsFiniteSet({"train"}) BY FS_Singleton
<1>2. IsFiniteSet({"train"} \cup {"val"}) BY <1>1, FS_AddElement
<1>3. IsFiniteSet(({"train"} \cup {"val"}) \cup {"test"}) BY <1>2, FS_AddElement
<1>4. R!Splits = ({"train"} \cup {"val"}) \cup {"test"} BY DEF R!Splits
<1> QED BY <1>3, <1>4

LEMMA PlanFinite ==
  ASSUME Plannable, PlanTyped
  PROVE  /\ IsFiniteSet(R!Present) /\ IsFiniteSet(R!Active) /\ R!Active \subseteq R!Splits
         /\ \A g \in R!Present : size[g] \in Nat /\ size[g] > 0 /\ size[g] \in Sizes
         /\ \A g \in R!Placed : g \in R!Present /\ split[g] \in R!Splits
         /\ \A U \in SUBSET R!Present : R!Frames(U) \in Nat /\ R!Frames(U) <= R!Total
         /\ \A U \in SUBSET R!Present : \A g \in R!Present \ U :
              R!Frames(U \cup {g}) = R!Frames(U) + size[g]
         /\ \A s \in R!Splits : R!Of(s) \subseteq R!Present /\ R!Count(s) \in Nat
         /\ R!Frames({}) = 0
<1>1. IsFiniteSet(R!Present) BY FS_Subset DEF Plannable, PlanTyped
<1>2. IsFiniteSet(R!Active) /\ R!Active \subseteq R!Splits
  <2>1. R!Active \in SUBSET R!Splits BY DEF R!Active
  <2> QED BY <2>1, SplitsFinite, FS_Subset
<1>3. \A g \in R!Present : size[g] \in Nat /\ size[g] > 0 /\ size[g] \in Sizes
  <2>1. \A g \in R!Present : size[g] \in Sizes BY DEF PlanTyped
  <2>2. \A n \in Sizes : n \in Nat /\ n > 0 BY DEF Plannable
  <2> QED BY <2>1, <2>2
<1>4. \A g \in R!Placed : g \in R!Present /\ split[g] \in R!Splits BY DEF PlanTyped
<1>5. \A U \in SUBSET R!Present : Sum(size, U) \in Nat /\ Sum(size, U) <= Sum(size, R!Present)
  BY <1>1, <1>3, SumNat, SumWithin
<1>6. \A U \in SUBSET R!Present : \A g \in R!Present \ U :
        Sum(size, U \cup {g}) = Sum(size, U) + size[g]
  BY <1>1, <1>3, SumAdds
<1>7. \A s \in R!Splits : R!Of(s) \subseteq R!Present BY <1>4 DEF R!Of
<1>8. Sum(size, {}) = 0 BY <1>1, SumUnfolds
<1> QED BY <1>1, <1>2, <1>3, <1>4, <1>5, <1>6, <1>7, <1>8, FramesSum DEF R!Total, R!Count

LEMMA RatioNat ==
  ASSUME Plannable, ratio \in Ratios
  PROVE  /\ ratio["train"] \in Nat /\ ratio["val"] \in Nat /\ ratio["test"] \in Nat
         /\ \A s \in R!Splits : ratio[s] \in Nat
  BY DEF Plannable, R!Splits

(* A group goes to a split that is short.                                    *)
LEMMA ShareKeeps ==
  ASSUME Plannable, PlanInv, stage = "place", NEW g \in R!Present \ R!Placed, NEW s \in R!Active,
         R!Put(g, s), 100 * R!Count(s) < ratio[s] * R!Total,
         R!Of(s) = {} \/ \A t \in R!Active : R!Of(t) # {}
  PROVE  PlanInv'
<1>1. /\ split' = [h \in R!Placed \cup {g} |-> IF h = g THEN s ELSE split[h]]
      /\ UNCHANGED <<size, ratio, stage>>
  BY DEF R!Put
<1>2. PlanTyped /\ Sharing BY DEF PlanInv
<1>3. /\ s \in R!Splits /\ g \in R!Present
      /\ \A h \in R!Placed : h \in R!Present /\ split[h] \in R!Splits
      /\ \A t \in R!Splits : R!Of(t) \subseteq R!Present /\ R!Count(t) \in Nat
      /\ R!Active \subseteq R!Splits /\ size[g] \in Nat
  BY <1>2, PlanFinite
<1>4. R!Placed' = R!Placed \cup {g} /\ R!Present' = R!Present /\ R!Active' = R!Active
  BY <1>1 DEF R!Placed, R!Present, R!Active
<1>5. /\ split'[g] = s /\ \A h \in R!Placed : split'[h] = split[h]
  BY <1>1
<1>6. PlanTyped'
  <2>1. split' \in [R!Placed' -> R!Splits] BY <1>1, <1>3, <1>4
  <2> QED BY <1>1, <1>2, <1>3, <1>4, <2>1 DEF PlanTyped
<1>7. R!Of(s)' = R!Of(s) \cup {g} /\ \A t \in R!Splits : t # s => R!Of(t)' = R!Of(t)
  BY <1>4, <1>5 DEF R!Of
<1>8. g \notin R!Of(s) BY DEF R!Of
<1>9. \A U : R!Frames(U)' = Sum(size, U) /\ R!Frames(U) = Sum(size, U)
  <2>1. \A U : R!Frames(U)' = Sum(size', U)
    BY DEF R!Frames, R!MapThenSumSet, R!MapThenFoldSet, Sum, Sums, Some
  <2> QED BY <1>1, <2>1, FramesSum
<1>10. /\ R!Count(s)' = R!Count(s) + size[g] /\ R!Total' = R!Total
       /\ \A t \in R!Splits : t # s => R!Count(t)' = R!Count(t)
       /\ R!Frames(R!Placed)' = R!Frames(R!Placed) + size[g]
  <2>1. \A t \in R!Splits : R!Count(t)' = R!Frames(R!Of(t)') BY <1>9 DEF R!Count
  <2>2. R!Frames(R!Of(s) \cup {g}) = R!Frames(R!Of(s)) + size[g] BY <1>2, <1>3, <1>8, PlanFinite
  <2>3. R!Frames(R!Placed \cup {g}) = R!Frames(R!Placed) + size[g]
    <3>1. R!Placed \in SUBSET R!Present BY <1>3
    <3> QED BY <1>2, <3>1, PlanFinite
  <2>4. R!Total' = R!Total BY <1>4, <1>9 DEF R!Total
  <2>5. R!Frames(R!Placed)' = R!Frames(R!Placed') BY <1>9
  <2> QED BY <1>3, <1>4, <1>7, <2>1, <2>2, <2>3, <2>4, <2>5 DEF R!Count
<1>11. Sharing'
  <2>1. /\ (ratio \in Ratios /\ ratio["train"] + ratio["val"] + ratio["test"] = 100)'
        /\ (Cardinality(R!Active) <= Cardinality(R!Present))'
    BY <1>1, <1>2, <1>4 DEF Sharing
  <2>2. \A h \in R!Placed' : split'[h] \in R!Active' BY <1>2, <1>4, <1>5 DEF Sharing
  <2>3. (R!Count("train") + R!Count("val") + R!Count("test") = R!Frames(R!Placed))'
    <3>1. "train" \in R!Splits /\ "val" \in R!Splits /\ "test" \in R!Splits BY DEF R!Splits
    <3>2. R!Count("train") + R!Count("val") + R!Count("test") = R!Frames(R!Placed)
      BY <1>2 DEF Sharing
    <3>3. R!Count("train") \in Nat /\ R!Count("val") \in Nat /\ R!Count("test") \in Nat
      BY <1>3, <3>1
    <3>4. CASE s = "train" BY <1>3, <1>10, <3>1, <3>2, <3>3, <3>4
    <3>5. CASE s = "val" BY <1>3, <1>10, <3>1, <3>2, <3>3, <3>5
    <3>6. CASE s = "test" BY <1>3, <1>10, <3>1, <3>2, <3>3, <3>6
    <3> QED BY <1>3, <3>4, <3>5, <3>6 DEF R!Splits
  <2>4. ASSUME NEW t \in R!Active PROVE WithinShare(t)'
    <3>1. CASE t = s
      <4>1. PICK n \in Nat : n = R!Count(s) BY <1>3
      <4>2. PICK p \in Nat : p = ratio[s] * R!Total
        <5>1. ratio[s] \in Nat BY <1>2, <1>3, RatioNat DEF Sharing
        <5>2. R!Total \in Nat BY <1>2, PlanFinite DEF R!Total
        <5> QED BY <5>1, <5>2, Products
      <4>3. PICK m \in Nat : m = size[g] BY <1>3
      <4>4. 100 * n < p /\ 100 * (n + m) < p + 100 * m BY <4>1, <4>2
      <4>5. 100 * R!Count(s)' < ratio'[s] * R!Total' + 100 * size'[g]
        BY <1>1, <1>10, <4>1, <4>2, <4>3, <4>4
      <4> QED BY <1>4, <3>1, <4>5 DEF WithinShare
    <3>2. CASE t # s
      <4>1. WithinShare(t) /\ t \in R!Splits BY <1>2, <1>3 DEF Sharing
      <4>2. R!Count(t)' = R!Count(t) /\ R!Total' = R!Total BY <1>10, <3>2, <4>1
      <4> QED BY <1>1, <1>4, <4>1, <4>2 DEF WithinShare
    <3> QED BY <3>1, <3>2
  <2>5. Seeding'
    <3> SUFFICES ASSUME NEW t \in R!Active, R!Of(t)' = {}, NEW h \in R!Placed', NEW k \in R!Placed',
                        split'[h] = split'[k]
                 PROVE  h = k
      BY <1>4 DEF Seeding
    <3>1. t # s /\ R!Of(t) = {} BY <1>3, <1>7
    <3>2. R!Of(s) = {} BY <3>1
    <3>3. \A x, y \in R!Placed : split[x] = split[y] => x = y BY <1>2, <3>1 DEF Sharing, Seeding
    <3>4. \A x \in R!Placed : split[x] # s BY <3>2 DEF R!Of
    <3> QED BY <1>4, <1>5, <3>3, <3>4
  <2> QED BY <1>4, <2>1, <2>2, <2>3, <2>4, <2>5 DEF Sharing
<1> QED BY <1>1, <1>6, <1>11 DEF PlanInv

LEMMA SeedKeeps ==
  ASSUME Plannable, PlanInv, NEW g \in Groups, R!Seed(g) PROVE PlanInv'
<1>1. stage = "place" /\ g \in R!Present \ R!Placed BY DEF R!Seed
<1>2. PICK s \in R!Active : R!Of(s) = {} /\ R!Put(g, s) BY DEF R!Seed
<1>3. PlanTyped /\ Sharing BY <1>1 DEF PlanInv
<1>4. /\ s \in R!Splits /\ R!Count(s) = 0 /\ R!Total \in Nat /\ size[g] \in Nat /\ size[g] > 0
      /\ R!Frames({g}) = size[g] /\ R!Frames({g}) <= R!Total
  <2>1. {} \in SUBSET R!Present /\ g \in R!Present \ {} /\ {g} \in SUBSET R!Present BY <1>1
  <2>2. R!Frames({} \cup {g}) = R!Frames({}) + size[g] /\ R!Frames({}) = 0
    BY <1>3, <2>1, PlanFinite
  <2>3. {} \cup {g} = {g} OBVIOUS
  <2> QED BY <1>1, <1>2, <1>3, <2>1, <2>2, <2>3, PlanFinite DEF R!Count, R!Total
<1>5. R!Total > 0 BY <1>4
<1>6. ratio[s] \in Nat /\ ratio[s] > 0 BY <1>3, <1>4, RatioNat DEF Sharing, R!Active
<1>7. 100 * R!Count(s) < ratio[s] * R!Total
  <2>1. ratio[s] * R!Total \in Nat /\ ratio[s] * R!Total > 0 BY <1>4, <1>5, <1>6, Products
  <2> QED BY <1>4, <2>1
<1> QED BY <1>1, <1>2, <1>7, ShareKeeps

LEMMA SpreadKeeps ==
  ASSUME Plannable, PlanInv, NEW g \in Groups, R!Spread(g) PROVE PlanInv'
<1>1. /\ stage = "place" /\ g \in R!Present \ R!Placed /\ \A t \in R!Active : R!Of(t) # {}
  BY DEF R!Spread
<1>2. PICK s \in R!Active : (\A t \in R!Active : R!Deficit(s) >= R!Deficit(t)) /\ R!Put(g, s)
  BY DEF R!Spread
<1>3. PlanTyped /\ Sharing BY <1>1 DEF PlanInv
<1>4. /\ R!Total \in Nat /\ R!Active \subseteq R!Splits
      /\ \A t \in R!Splits : R!Count(t) \in Nat /\ ratio[t] \in Nat /\ ratio[t] * R!Total \in Nat
  <2>1. R!Total \in Nat BY <1>3, PlanFinite DEF R!Total
  <2>2. \A t \in R!Splits : ratio[t] \in Nat BY <1>3, RatioNat DEF Sharing
  <2>3. \A t \in R!Splits : R!Count(t) \in Nat BY <1>3, PlanFinite
  <2>4. R!Active \subseteq R!Splits BY DEF R!Active
  <2> QED BY <2>1, <2>2, <2>3, <2>4, Products
<1>5. R!Frames(R!Placed) < R!Total
  <2>1. R!Placed \in SUBSET R!Present /\ R!Placed \cup {g} \in SUBSET R!Present
    BY <1>1, <1>3 DEF PlanTyped
  <2>2. /\ R!Frames(R!Placed \cup {g}) = R!Frames(R!Placed) + size[g]
        /\ R!Frames(R!Placed \cup {g}) <= R!Total
        /\ R!Frames(R!Placed) \in Nat /\ size[g] \in Nat /\ size[g] > 0
    BY <1>1, <1>3, <2>1, PlanFinite
  <2> QED BY <1>4, <2>2
<1>6. PICK t \in R!Splits : 100 * R!Count(t) < ratio[t] * R!Total
  <2>1. "train" \in R!Splits /\ "val" \in R!Splits /\ "test" \in R!Splits BY DEF R!Splits
  <2>2. /\ ratio["train"] + ratio["val"] + ratio["test"] = 100
        /\ R!Count("train") + R!Count("val") + R!Count("test") < R!Total
    BY <1>3, <1>5 DEF Sharing
  <2>3. \/ 100 * R!Count("train") < ratio["train"] * R!Total
        \/ 100 * R!Count("val") < ratio["val"] * R!Total
        \/ 100 * R!Count("test") < ratio["test"] * R!Total
    BY <1>4, <2>1, <2>2, SomeShort
  <2> QED BY <2>1, <2>3
<1>7. t \in R!Active
  <2>1. ratio[t] # 0
    <3> SUFFICES ASSUME ratio[t] = 0 PROVE FALSE
      OBVIOUS
    <3>1. ratio[t] * R!Total = 0 BY <1>4, Products
    <3>2. R!Count(t) \in Nat BY <1>4
    <3> QED BY <1>6, <3>1, <3>2
  <2>2. ratio[t] > 0 BY <1>4, <2>1
  <2> QED BY <2>2 DEF R!Active
<1>8. 100 * R!Count(s) < ratio[s] * R!Total
  <2>1. /\ R!Deficit(s) >= R!Deficit(t) /\ R!Deficit(s) = ratio[s] * R!Total - 100 * R!Count(s)
        /\ R!Deficit(t) = ratio[t] * R!Total - 100 * R!Count(t)
    BY <1>2, <1>7 DEF R!Deficit
  <2>2. PICK a \in Nat, b \in Nat, c \in Nat, d \in Nat :
          /\ a = ratio[s] * R!Total /\ b = R!Count(s) /\ c = ratio[t] * R!Total /\ d = R!Count(t)
    BY <1>4
  <2>3. a - 100 * b >= c - 100 * d /\ 100 * d < c BY <1>6, <2>1, <2>2
  <2>4. 100 * b < a BY <2>3
  <2> QED BY <2>2, <2>4
<1> QED BY <1>1, <1>2, <1>8, ShareKeeps

LEMMA DoneKeeps ==
  ASSUME PlanInv, R!Done PROVE PlanInv'
<1>1. /\ stage = "place" /\ stage' = "done" /\ R!Placed = R!Present
      /\ UNCHANGED <<size, ratio, split>>
  BY DEF R!Done
<1>2. PlanTyped /\ Sharing BY <1>1 DEF PlanInv
<1>3. PlanTyped' BY <1>1, <1>2 DEF PlanTyped, R!Present, R!Placed
<1>4. Sharing'
  <2>1. R!Present' = R!Present /\ R!Placed' = R!Placed /\ R!Active' = R!Active
        /\ \A t \in R!Splits : R!Of(t)' = R!Of(t)
    BY <1>1 DEF R!Present, R!Placed, R!Active, R!Of
  <2>2. \A U : R!Frames(U)' = R!Frames(U)
    <3>1. \A U : R!Frames(U)' = Sum(size', U)
      BY DEF R!Frames, R!MapThenSumSet, R!MapThenFoldSet, Sum, Sums, Some
    <3> QED BY <1>1, <3>1, FramesSum
  <2>3. /\ R!Total' = R!Total /\ R!Frames(R!Placed)' = R!Frames(R!Placed)
        /\ \A t \in R!Splits : R!Count(t)' = R!Count(t)
    BY <2>1, <2>2 DEF R!Total, R!Count
  <2>4. \A t \in R!Active : t \in R!Splits /\ WithinShare(t)' BY <1>1, <1>2, <2>1, <2>3
    DEF Sharing, WithinShare, R!Active
  <2>5. Seeding' BY <1>1, <1>2, <2>1, <2>4 DEF Sharing, Seeding
  <2>6. (R!Count("train") + R!Count("val") + R!Count("test") = R!Frames(R!Placed))'
    BY <1>2, <2>3 DEF Sharing, R!Splits
  <2> QED BY <1>1, <1>2, <2>1, <2>4, <2>5, <2>6 DEF Sharing
<1> QED BY <1>1, <1>3, <1>4 DEF PlanInv, R!Present, R!Placed

LEMMA PlanKeeps ==
  ASSUME Plannable, PlanInv, R!Plan PROVE PlanInv'
<1>5. /\ stage = "idle" /\ ratio' \in Ratios /\ split' = split /\ R!Placed = {} /\ R!Placed' = {}
      /\ \E S \in SUBSET Groups : size' \in [S -> Sizes]
      /\ \/ stage' = "refused"
         \/ /\ stage' = "place" /\ ratio'["train"] + ratio'["val"] + ratio'["test"] = 100
            /\ R!Cardinality(DOMAIN size') >= R!Cardinality({s \in R!Splits : ratio'[s] > 0})
  BY DEF R!Plan, PlanInv, R!Placed
<1>1. /\ stage = "idle" /\ ratio' \in Ratios /\ split' = split /\ R!Placed = {} /\ R!Placed' = {}
      /\ \E S \in SUBSET Groups : size' \in [S -> Sizes]
      /\ \/ stage' = "refused"
         \/ /\ stage' = "place" /\ ratio'["train"] + ratio'["val"] + ratio'["test"] = 100
            /\ Cardinality(DOMAIN size') >= Cardinality({s \in R!Splits : ratio'[s] > 0})
  BY <1>5, Counted
<1>2. PlanTyped'
  <2>1. R!Present' \subseteq Groups /\ size' \in [R!Present' -> Sizes] BY <1>1 DEF R!Present
  <2>2. split' \in [R!Placed' -> R!Splits]
    BY <1>1 DEF PlanInv, PlanTyped
  <2> QED BY <1>1, <2>1, <2>2 DEF PlanTyped
<1>3. CASE stage' = "refused" BY <1>1, <1>2, <1>3 DEF PlanInv
<1>4. CASE /\ stage' = "place" /\ ratio'["train"] + ratio'["val"] + ratio'["test"] = 100
           /\ Cardinality(DOMAIN size') >= Cardinality({s \in R!Splits : ratio'[s] > 0})
  <2>1. \A t \in R!Splits : R!Of(t)' = {} BY <1>1 DEF R!Of
  <2>2. /\ R!Present' \subseteq Groups /\ IsFiniteSet(R!Present') /\ IsFiniteSet(R!Active')
        /\ R!Frames({})' = 0 /\ R!Total' \in Nat /\ R!Active' \subseteq R!Splits
        /\ \A h \in R!Present' : size'[h] \in Nat /\ size'[h] > 0
    <3>1. R!Present' \subseteq Groups /\ IsFiniteSet(R!Present')
      BY <1>2, FS_Subset DEF PlanTyped, Plannable
    <3>2. R!Active' \subseteq R!Splits /\ IsFiniteSet(R!Active')
      BY SplitsFinite, FS_Subset DEF R!Active
    <3>3. \A h \in R!Present' : size'[h] \in Nat /\ size'[h] > 0
      <4>1. \A h \in R!Present' : size'[h] \in Sizes BY <1>2 DEF PlanTyped
      <4>2. \A n \in Sizes : n \in Nat /\ n > 0 BY DEF Plannable
      <4> QED BY <4>1, <4>2
    <3>4. \A U : R!Frames(U)' = Sum(size', U)
      BY DEF R!Frames, R!MapThenSumSet, R!MapThenFoldSet, Sum, Sums, Some
    <3>5. Sum(size', {}) = 0 /\ Sum(size', R!Present') \in Nat
      BY <3>1, <3>3, SumUnfolds, SumNat
    <3> QED BY <3>1, <3>2, <3>3, <3>4, <3>5 DEF R!Total
  <2>3. \A t \in R!Splits : R!Count(t)' = 0 BY <2>1, <2>2 DEF R!Count
  <2>4. R!Frames(R!Placed)' = 0 BY <1>1, <2>2
  <2>5. Cardinality(R!Active') <= Cardinality(R!Present')
    <3>1. R!Active' = {s \in R!Splits : ratio'[s] > 0} /\ R!Present' = DOMAIN size'
      BY DEF R!Active, R!Present
    <3>2. Cardinality(R!Active') \in Nat /\ Cardinality(R!Present') \in Nat
      BY <2>2, FS_CardinalityType
    <3> QED BY <1>4, <3>1, <3>2
  <2>6. \A s \in R!Splits : ratio'[s] \in Nat
    BY <1>1 DEF Plannable
  <2>7. R!Present' # {}
    <3>1. R!Active' # {}
      <4>1. "train" \in R!Splits /\ "val" \in R!Splits /\ "test" \in R!Splits BY DEF R!Splits
      <4>2. ratio'["train"] > 0 \/ ratio'["val"] > 0 \/ ratio'["test"] > 0
        BY <1>4, <2>6, <4>1
      <4> QED BY <4>1, <4>2 DEF R!Active
    <3>2. Cardinality(R!Active') # 0 BY <2>2, <3>1, FS_EmptySet
    <3>3. Cardinality(R!Active') \in Nat /\ Cardinality(R!Present') \in Nat
      BY <2>2, FS_CardinalityType
    <3>4. Cardinality(R!Present') # 0 BY <2>5, <3>2, <3>3
    <3> QED BY <3>4, FS_EmptySet
  <2>8. ASSUME NEW s \in R!Active' PROVE WithinShare(s)'
    <3>1. PICK h \in R!Present' : size'[h] \in Nat /\ size'[h] > 0 BY <2>2, <2>7
    <3>2. s \in R!Splits /\ ratio'[s] \in Nat BY <2>2, <2>6
    <3>3. ratio'[s] * R!Total' \in Nat BY <2>2, <3>2, Products
    <3>4. 100 * R!Count(s)' < ratio'[s] * R!Total' + 100 * size'[h]
      <4>1. PICK p \in Nat : p = ratio'[s] * R!Total' BY <3>3
      <4>2. PICK n \in Nat : n = size'[h] /\ n > 0 BY <3>1
      <4>3. 100 * 0 < p + 100 * n BY <4>2
      <4>4. R!Count(s)' = 0 BY <2>3, <3>2
      <4> QED BY <4>1, <4>2, <4>3, <4>4
    <3> QED BY <3>4 DEF WithinShare
  <2>9. Seeding' BY <1>1 DEF Seeding
  <2>10. (R!Count("train") + R!Count("val") + R!Count("test") = R!Frames(R!Placed))'
    <3>1. R!Count("train")' = 0 /\ R!Count("val")' = 0 /\ R!Count("test")' = 0 BY <2>3 DEF R!Splits
    <3> QED BY <2>4, <3>1
  <2>11. Sharing' BY <1>1, <1>4, <2>5, <2>8, <2>9, <2>10 DEF Sharing
  <2> QED BY <1>1, <1>2, <1>4, <2>11 DEF PlanInv
<1> QED BY <1>1, <1>3, <1>4

LEMMA PlanInitial == ASSUME R!Init PROVE PlanInv
<1>1. /\ size = [g \in {} |-> 0] /\ ratio = R!Even /\ split = [g \in {} |-> "train"]
      /\ stage = "idle"
  BY DEF R!Init
<1>2. R!Present = {} /\ R!Placed = {} BY <1>1 DEF R!Present, R!Placed
<1>3. PlanTyped
  <2>1. size \in [{} -> Sizes] /\ split \in [{} -> R!Splits] BY <1>1
  <2> QED BY <1>1, <1>2, <2>1 DEF PlanTyped
<1> QED BY <1>1, <1>2, <1>3 DEF PlanInv

LEMMA PlanStays == ASSUME PlanInv, UNCHANGED R!vars PROVE PlanInv'
<1>1. UNCHANGED <<size, ratio, split, stage>> BY DEF R!vars
<1>2. PlanTyped' BY <1>1 DEF PlanInv, PlanTyped, R!Present, R!Placed
<1>3. Sharing => Sharing'
  <2>1. R!Present' = R!Present /\ R!Placed' = R!Placed /\ R!Active' = R!Active
        /\ \A t \in R!Splits : R!Of(t)' = R!Of(t)
    BY <1>1 DEF R!Present, R!Placed, R!Active, R!Of
  <2>2. \A U : R!Frames(U)' = R!Frames(U)
    <3>1. \A U : R!Frames(U)' = Sum(size', U)
      BY DEF R!Frames, R!MapThenSumSet, R!MapThenFoldSet, Sum, Sums, Some
    <3> QED BY <1>1, <3>1, FramesSum
  <2>3. /\ R!Total' = R!Total /\ R!Frames(R!Placed)' = R!Frames(R!Placed)
        /\ \A t \in R!Splits : R!Count(t)' = R!Count(t)
    BY <2>1, <2>2 DEF R!Total, R!Count
  <2>4. \A t \in R!Active : t \in R!Splits /\ (WithinShare(t) => WithinShare(t)')
    BY <1>1, <2>1, <2>3 DEF WithinShare, R!Active
  <2>5. Seeding => Seeding' BY <1>1, <2>1, <2>4 DEF Seeding
  <2>6. R!Count("train") + R!Count("val") + R!Count("test") = R!Frames(R!Placed)
          => (R!Count("train") + R!Count("val") + R!Count("test") = R!Frames(R!Placed))'
    BY <2>3 DEF R!Splits
  <2> QED BY <1>1, <2>1, <2>4, <2>5, <2>6 DEF Sharing
<1> QED BY <1>1, <1>2, <1>3 DEF PlanInv, R!Present, R!Placed

(* The splits of a release have the frames of the groups placed so far, none *)
(* is ahead of its share by a group or more, and while one is empty no other *)
(* has two groups.                                                           *)
THEOREM PlanInvariant == ASSUME Plannable PROVE R!Spec => []PlanInv
<1>1. PlanInv /\ [R!Next]_R!vars => PlanInv'
  <2> SUFFICES ASSUME PlanInv, [R!Next]_R!vars PROVE PlanInv'
    OBVIOUS
  <2>1. CASE R!Plan BY <2>1, PlanKeeps
  <2>2. CASE R!Done BY <2>2, DoneKeeps
  <2>3. CASE \E g \in Groups : R!Seed(g) \/ R!Spread(g) BY <2>3, SeedKeeps, SpreadKeeps
  <2>4. CASE UNCHANGED R!vars BY <2>4, PlanStays
  <2> QED BY <2>1, <2>2, <2>3, <2>4 DEF R!Next
<1>2. R!Init => PlanInv BY PlanInitial
<1> QED BY <1>1, <1>2, PTL DEF R!Spec

(* The type invariant of a plan.                                             *)
THEOREM PlanTypeCorrect == ASSUME Plannable PROVE R!Spec => []R!TypeOK
<1>1. PlanInv => R!TypeOK
  <2> SUFFICES ASSUME PlanInv PROVE R!TypeOK
    OBVIOUS
  <2>1. PlanTyped BY DEF PlanInv
  <2>2. (\A g \in R!Present : size[g] \in Sizes) /\ \A g \in R!Placed : split[g] \in R!Splits
    BY <2>1 DEF PlanTyped
  <2> QED BY <2>1, <2>2 DEF PlanTyped, R!TypeOK
<1> QED BY <1>1, PlanInvariant, PTL

(* Some group is the largest.                                                *)
LEMMA LargestIs ==
  ASSUME Plannable, PlanTyped, R!Present # {}
  PROVE  \A g \in R!Present : size[g] <= R!Largest /\ R!Largest \in Nat
<1>1. IsFiniteSet(R!Present) /\ \A g \in R!Present : size[g] \in Nat /\ size[g] \in Sizes
  BY PlanFinite
<1> DEFINE Over(g) == {h \in R!Present : size[h] > size[g]}
           overs == {Over(g) : g \in R!Present}
<1>2. PICK t \in overs : \A u \in SUBSET t : u # t => u \notin overs
  <2>1. overs \subseteq SUBSET R!Present /\ overs # {} OBVIOUS
  <2> HIDE DEF overs
  <2> QED BY <1>1, <2>1, Smaller
<1>3. PICK m \in R!Present : t = Over(m) BY <1>2
<1>4. \A h \in R!Present : size[h] <= size[m]
  <2> SUFFICES ASSUME NEW h \in R!Present, ~ (size[h] <= size[m]) PROVE FALSE
    OBVIOUS
  <2>1. size[h] > size[m] BY <1>1
  <2>2. \A k \in R!Present : size[k] > size[h] => size[k] > size[m] BY <1>1, <2>1
  <2>3. Over(h) \subseteq Over(m) BY <2>2
  <2>4. h \in Over(m) /\ h \notin Over(h)
    <3>1. ~ (size[h] > size[h]) BY <1>1
    <3> QED BY <2>1, <3>1
  <2>5. Over(h) \in overs OBVIOUS
  <2>6. Over(h) # t /\ Over(h) \in SUBSET t BY <1>3, <2>3, <2>4
  <2> QED BY <1>2, <2>5, <2>6
<1>5. PICK n \in Sizes : n = size[m] /\ n \in Nat BY <1>1
<1>6. (\E g \in R!Present : size[g] = n) /\ \A g \in R!Present : size[g] <= n BY <1>4, <1>5
<1>7. (\E g \in R!Present : size[g] = R!Largest) /\ \A g \in R!Present : size[g] <= R!Largest
  BY <1>6 DEF R!Largest
<1> QED BY <1>1, <1>7

LEMMA PlanSound ==
  ASSUME Plannable, PlanInv, stage = "done" PROVE R!SplitsSound
<1>1. PlanTyped /\ Sharing /\ R!Placed = R!Present BY DEF PlanInv
<1>2. /\ IsFiniteSet(R!Present) /\ IsFiniteSet(R!Active) /\ R!Active \subseteq R!Splits
      /\ \A g \in R!Present : size[g] \in Nat /\ size[g] > 0
      /\ \A s \in R!Splits : R!Of(s) \subseteq R!Present /\ R!Count(s) \in Nat
  BY <1>1, PlanFinite
<1>3. \A s \in R!Active : R!Of(s) # {}
  <2> SUFFICES ASSUME NEW s \in R!Active, R!Of(s) = {} PROVE FALSE
    OBVIOUS
  <2>1. \A g, h \in R!Placed : split[g] = split[h] => g = h BY <1>1 DEF Sharing, Seeding
  <2>2. split \in [R!Present -> R!Active \ {s}]
    <3>1. \A g \in R!Placed : split[g] \in R!Active /\ split[g] # s BY <1>1 DEF Sharing, R!Of
    <3> QED BY <1>1, <3>1 DEF PlanTyped
  <2>3. /\ IsFiniteSet(R!Active \ {s})
        /\ Cardinality(R!Active \ {s}) = Cardinality(R!Active) - 1
    BY <1>2, FS_RemoveElement
  <2>4. Cardinality(R!Active \ {s}) < Cardinality(R!Present)
    <3>1. Cardinality(R!Active) \in Nat /\ Cardinality(R!Present) \in Nat
      BY <1>2, FS_CardinalityType
    <3>2. Cardinality(R!Active) <= Cardinality(R!Present) BY <1>1 DEF Sharing
    <3> QED BY <2>3, <3>1, <3>2
  <2>5. \E x, y \in R!Present : x # y /\ split[x] = split[y]
    BY <1>2, <2>2, <2>3, <2>4, FS_PigeonHole
  <2> QED BY <1>1, <2>1, <2>5
<1>4. ASSUME NEW s \in R!Active
      PROVE  R!Count(s) > 0 /\ 100 * R!Count(s) < ratio[s] * R!Total + 100 * R!Largest
  <2>1. s \in R!Splits BY <1>2
  <2>2. PICK g \in R!Of(s) : g \in R!Present BY <1>2, <1>3, <2>1
  <2>3. R!Count(s) > 0
    <3>1. PICK U \in SUBSET R!Present : U = R!Of(s) \ {g} BY <1>2, <2>1
    <3>2. g \in R!Present \ U /\ U \cup {g} = R!Of(s) BY <2>2, <3>1
    <3>3. R!Frames(U \cup {g}) = R!Frames(U) + size[g] /\ R!Frames(U) \in Nat
      BY <1>1, <3>2, PlanFinite
    <3>4. R!Count(s) = R!Frames(U) + size[g] BY <3>2, <3>3 DEF R!Count
    <3>5. size[g] \in Nat /\ size[g] > 0 BY <1>2, <2>2
    <3> QED BY <3>3, <3>4, <3>5
  <2>4. PICK h \in R!Present : 100 * R!Count(s) < ratio[s] * R!Total + 100 * size[h]
    BY <1>1 DEF Sharing, WithinShare
  <2>5. size[h] <= R!Largest /\ R!Largest \in Nat /\ size[h] \in Nat BY <1>1, <1>2, LargestIs
  <2>6. ratio[s] * R!Total \in Nat
    <3>1. ratio[s] \in Nat /\ R!Total \in Nat
      BY <1>1, <2>1, RatioNat, PlanFinite DEF Sharing, R!Total
    <3> QED BY <3>1, Products
  <2>7. PICK a \in Nat, b \in Nat, c \in Nat, d \in Nat :
          a = R!Count(s) /\ b = ratio[s] * R!Total /\ c = size[h] /\ d = R!Largest
    BY <1>2, <2>1, <2>5, <2>6
  <2>8. 100 * a < b + 100 * c /\ c <= d BY <2>4, <2>5, <2>7
  <2>9. 100 * a < b + 100 * d BY <2>8
  <2> QED BY <2>3, <2>7, <2>9
<1>5. ASSUME NEW s \in R!Splits \ R!Active PROVE R!Of(s) = {}
  BY <1>1 DEF Sharing, R!Of
<1> QED BY <1>4, <1>5 DEF R!SplitsSound

(* SplitsSound: a finished plan has every split that was asked for and no    *)
(* other, and no split exceeds its share by as much as the largest group.    *)
THEOREM PlansSound == ASSUME Plannable PROVE R!Spec => []R!SplitsSound
<1>1. PlanInv => R!SplitsSound BY PlanSound DEF R!SplitsSound
<1> QED BY <1>1, PlanInvariant, PTL
===============================================================================
