------------------------ MODULE ModelRegistry_proofs ------------------------
(* What the registry guarantees of a model version for any number of       *)
(* requests at a time and of gate runs.                                    *)
EXTENDS ModelRegistry, TLAPS

(* The part of the type invariant the other invariants rest on.            *)
DataOK ==
  /\ row \in Rows
  /\ dir \in [Runs -> {"none", "open", "gone"} \cup Results]
  /\ job \in [Workers -> Jobs]

Open == {"candidate", "blocked"}

(* The changes of a row the repository allows.                             *)
Arc(old, new) ==
  \/ old.status \in Open /\ new.status \in Open
  \/ old.status \in Open /\ new.status = "published" /\ new.passed /\ tested
  \/ old.status \in {"published", "archived"} /\ new.status = "archived"

(* What a worker is about to do is allowed on the row it has read.         *)
Sound(j) ==
  /\ j.at = "write" => Arc(j.seen, j.goal)
  /\ j.at = "delete" => j.seen.status # "published"

RegistryInv ==
  /\ DataOK
  /\ \A w \in Workers : Sound(job[w])

(* The initial row, that of a deleted model and an idle job have their     *)
(* types.                                                                  *)
LEMMA Constants ==
  /\ Gone \in Rows /\ Idle \in Jobs
  /\ [status |-> "candidate", passed |-> FALSE, report |-> NoRun] \in Rows
<1>1. Gone \in Rows
  BY DEF Gone, Rows, Statuses
<1>2. Idle \in Jobs
  BY <1>1 DEF Idle, Jobs
<1>3. [status |-> "candidate", passed |-> FALSE, report |-> NoRun] \in Rows
  BY DEF Rows, Statuses
<1> QED
  BY <1>1, <1>2, <1>3

(* A verdict makes a row candidate or blocked, or leaves it archived.      *)
LEMMA Verdict ==
  ASSUME NEW p \in BOOLEAN
  PROVE  Judged(p) \in {"candidate", "blocked", "archived"}
BY DEF Judged

(* What is written column by column is a row, and the one that was wanted  *)
(* if nobody has changed it.                                               *)
LEMMA Merged ==
  ASSUME NEW mine \in Rows, NEW old \in Rows, NEW new \in Rows
  PROVE  /\ Merge(mine, old, new) \in Rows
         /\ mine = old => Merge(mine, old, new) = new
<1> DEFINE M == Merge(mine, old, new)
<1>1. DOMAIN mine = {"status", "passed", "report"}
  BY DEF Rows
<1>2. M = [status |-> IF old.status = new.status THEN mine.status ELSE new.status,
           passed |-> IF old.passed = new.passed THEN mine.passed ELSE new.passed,
           report |-> IF old.report = new.report THEN mine.report ELSE new.report]
  BY <1>1, Z3 DEF Merge, Rows
<1>3. M \in Rows
  BY <1>2 DEF Rows
<1>4. mine = old => M = new
  BY <1>2 DEF Rows
<1> QED
  BY <1>3, <1>4

(* A worker that takes up a well-formed and allowed job leaves the others' *)
(* as they were.                                                           *)
LEMMA Taken ==
  ASSUME RegistryInv, NEW w \in Workers, NEW j \in Jobs, Sound(j), Do(w, j), UNCHANGED tested
  PROVE  /\ job' \in [Workers -> Jobs]
         /\ \A v \in Workers : Sound(job'[v])
         /\ \A v \in Workers : Sound(job[v])'
<1>1. job' \in [Workers -> Jobs]
  BY DEF RegistryInv, DataOK, Do
<1>2. \A v \in Workers : job'[v] = job[v] \/ job'[v] = j
  BY DEF RegistryInv, DataOK, Do
<1>3. \A v \in Workers : Sound(job'[v])
  BY <1>2 DEF RegistryInv
<1>4. \A v \in Workers : Sound(job[v])'
  BY <1>3 DEF Sound, Arc
<1> QED
  BY <1>1, <1>3, <1>4

(* A worker decides on an allowed change.                                  *)
LEMMA Decides ==
  ASSUME RegistryInv, NEW w \in Workers, NEW g \in Rows, NEW t \in {"idle", "remove"},
         Arc(row, g), Decide(w, g, t), UNCHANGED <<row, tested, dir>>
  PROVE  RegistryInv'
<1> DEFINE j == [job[w] EXCEPT !.at = "write", !.seen = row, !.goal = g, !.then = t]
<1>1. job[w] \in Jobs /\ row \in Rows
  BY DEF RegistryInv, DataOK
<1>2. j \in Jobs /\ j.at = "write" /\ j.seen = row /\ j.goal = g
  BY <1>1 DEF Jobs
<1>3. Sound(j)
  BY <1>2 DEF Sound
<1>4. Do(w, j)
  BY DEF Decide
<1> HIDE DEF j
<1>5. job' \in [Workers -> Jobs] /\ \A v \in Workers : Sound(job[v])'
  BY <1>2, <1>3, <1>4, Taken
<1> QED
  BY <1>5 DEF RegistryInv, DataOK

(* A worker becomes idle.                                                  *)
LEMMA Rests ==
  ASSUME RegistryInv, NEW w \in Workers, Do(w, Idle), UNCHANGED tested
  PROVE  job' \in [Workers -> Jobs] /\ \A v \in Workers : Sound(job[v])'
<1>1. Idle \in Jobs
  BY Constants
<1>2. Sound(Idle)
  BY DEF Sound, Idle
<1> QED
  BY <1>1, <1>2, Taken

(* A worker whose next step writes or deletes nothing.                     *)
LEMMA Proceeds ==
  ASSUME RegistryInv, NEW w \in Workers, NEW j \in Jobs, j.at \notin {"write", "delete"},
         Do(w, j), UNCHANGED tested
  PROVE  job' \in [Workers -> Jobs] /\ \A v \in Workers : Sound(job[v])'
<1>1. Sound(j)
  BY DEF Sound
<1> QED
  BY <1>1, Taken

(* A worker that leaves the row alone and rests.                           *)
LEMMA Answered ==
  ASSUME RegistryInv, NEW w \in Workers, Do(w, Idle), UNCHANGED <<row, tested, dir>>
  PROVE  RegistryInv'
<1>1. job' \in [Workers -> Jobs] /\ \A v \in Workers : Sound(job[v])'
  BY Rests
<1> QED
  BY <1>1 DEF RegistryInv, DataOK

(* The write is that of an allowed change if nobody has changed the row,   *)
(* and the row stays well-formed in any case.                              *)
LEMMA Writes ==
  ASSUME RegistryInv, NEW w \in Workers, Write(w)
  PROVE  /\ RegistryInv'
         /\ ~lost' => row' = row \/ Arc(row, row')
<1>1. job[w] \in Jobs /\ row \in Rows /\ Sound(job[w]) /\ job[w].at = "write"
  BY DEF RegistryInv, DataOK, Write, At
<1>2. job[w].seen \in Rows /\ job[w].goal \in Rows
  BY <1>1 DEF Jobs
<1>3. UNCHANGED <<tested, dir>>
  BY DEF Write, disk
<1>4. CASE Exists
  <2>1. row' = Merge(row, job[w].seen, job[w].goal)
    BY <1>4 DEF Write
  <2>2. row' \in Rows /\ (row = job[w].seen => row' = job[w].goal)
    BY <1>1, <1>2, <2>1, Merged
  <2>3. ~lost' => row = job[w].seen
    BY <1>4 DEF Write
  <2>4. Arc(job[w].seen, job[w].goal)
    BY <1>1 DEF Sound
  <2>5. ~lost' => Arc(row, row')
    BY <2>2, <2>3, <2>4
  <2>6. CASE job[w].then = "idle"
    <3>1. Do(w, Idle)
      BY <1>4, <2>6 DEF Write, Answer
    <3>2. job' \in [Workers -> Jobs] /\ \A v \in Workers : Sound(job[v])'
      BY <1>3, <3>1, Rests
    <3> QED
      BY <1>3, <2>2, <2>5, <3>2 DEF RegistryInv, DataOK
  <2>7. CASE job[w].then # "idle"
    <3> DEFINE j == [Idle EXCEPT !.at = job[w].then, !.run = job[w].run]
    <3>1. Do(w, j)
      BY <1>4, <2>7 DEF Write
    <3>2. j \in Jobs /\ j.at \notin {"write", "delete"}
      BY <1>1, <2>7, Constants DEF Jobs
    <3> HIDE DEF j
    <3>3. job' \in [Workers -> Jobs] /\ \A v \in Workers : Sound(job[v])'
      BY <1>3, <3>1, <3>2, Proceeds
    <3> QED
      BY <1>3, <2>2, <2>5, <3>3 DEF RegistryInv, DataOK
  <2> QED
    BY <2>6, <2>7
<1>5. CASE ~Exists
  <2>1. Do(w, Idle) /\ row' = row
    BY <1>5 DEF Write, Answer
  <2> QED
    BY <1>3, <2>1, Answered
<1> QED
  BY <1>4, <1>5

(* The row disappears by a deletion that was allowed, or by a cascade.     *)
LEMMA Drops ==
  ASSUME RegistryInv, NEW w \in Workers, Drop(w)
  PROVE  /\ RegistryInv'
         /\ row' = row \/ row' = Gone
         /\ ~lost' /\ row.status = "published" => row' = row \/ At(w, "cascade")
<1>1. job' \in [Workers -> Jobs] /\ \A v \in Workers : Sound(job[v])'
  BY Rests DEF Drop
<1>2. row' = row \/ row' = Gone
  BY DEF Drop
<1>3. RegistryInv'
  BY <1>1, <1>2, Constants DEF RegistryInv, DataOK, Drop, disk
<1>4. ASSUME ~lost', row.status = "published", row' # row, ~At(w, "cascade")
      PROVE  FALSE
  <2>1. job[w].at = "delete" /\ row = job[w].seen
    BY <1>4 DEF Drop, At
  <2>2. job[w].seen.status # "published"
    BY <2>1 DEF RegistryInv, Sound
  <2> QED
    BY <1>4, <2>1, <2>2
<1> QED
  BY <1>2, <1>3, <1>4

(* A request about the model that leaves its row alone, or is a write.     *)
LEMMA Asks ==
  ASSUME RegistryInv, NEW w \in Workers, Ask(w)
  PROVE  RegistryInv' /\ row' = row
<1> USE Constants
<1>1. row \in Rows /\ row' = row /\ tested' = tested
  BY DEF Ask, Gates, Publish, Archive, DeleteRun, Delete, Cascade, Use, RegistryInv, DataOK
<1>2. CASE Gates(w)
  <2>1. PICK r \in Runs : /\ dir' = [dir EXCEPT ![r] = "open"]
                          /\ Do(w, [Idle EXCEPT !.at = "gates", !.run = r])
    BY <1>2 DEF Gates
  <2>2. [Idle EXCEPT !.at = "gates", !.run = r] \in Jobs
    BY DEF Jobs
  <2>3. [Idle EXCEPT !.at = "gates", !.run = r].at = "gates"
    BY DEF Idle
  <2>4. job' \in [Workers -> Jobs] /\ \A v \in Workers : Sound(job[v])'
    BY <1>1, <2>1, <2>2, <2>3, Proceeds
  <2> QED
    BY <1>1, <2>1, <2>4 DEF RegistryInv, DataOK
<1>3. CASE Publish(w)
  <2>1. [row EXCEPT !.status = "published"] \in Rows
    BY <1>1 DEF Rows, Statuses
  <2>2. Arc(row, [row EXCEPT !.status = "published"])
    BY <1>1, <1>3 DEF Publish, Arc, Open, Rows
  <2> QED
    BY <1>1, <1>3, <2>1, <2>2, Decides DEF Publish, disk
<1>4. CASE Archive(w)
  <2>1. [row EXCEPT !.status = "archived"] \in Rows
    BY <1>1 DEF Rows, Statuses
  <2>2. Arc(row, [row EXCEPT !.status = "archived"])
    BY <1>1, <1>4 DEF Archive, Arc, Rows
  <2> QED
    BY <1>1, <1>4, <2>1, <2>2, Decides DEF Archive, disk
<1>5. CASE DeleteRun(w)
  <2>1. PICK r \in Runs : Do(w, [Idle EXCEPT !.at = "list", !.seen = row, !.run = r])
    BY <1>5 DEF DeleteRun
  <2> DEFINE j == [Idle EXCEPT !.at = "list", !.seen = row, !.run = r]
  <2>2. j \in Jobs /\ j.at = "list"
    BY <1>1 DEF Jobs
  <2> HIDE DEF j
  <2>3. job' \in [Workers -> Jobs] /\ \A v \in Workers : Sound(job[v])'
    BY <1>1, <2>1, <2>2, Proceeds DEF j
  <2> QED
    BY <1>1, <1>5, <2>3 DEF RegistryInv, DataOK, DeleteRun, disk
<1>6. CASE Delete(w)
  <2> DEFINE j == [Idle EXCEPT !.at = "delete", !.seen = row]
  <2>1. j \in Jobs /\ j.at = "delete" /\ j.seen = row
    BY <1>1 DEF Jobs
  <2>2. Sound(j)
    BY <1>6, <2>1 DEF Sound, Delete
  <2> HIDE DEF j
  <2>3. job' \in [Workers -> Jobs] /\ \A v \in Workers : Sound(job[v])'
    BY <1>1, <1>6, <2>1, <2>2, Taken DEF Delete, j
  <2> QED
    BY <1>1, <1>6, <2>3 DEF RegistryInv, DataOK, Delete, disk
<1>7. CASE Cascade(w)
  <2> DEFINE j == [Idle EXCEPT !.at = "cascade", !.seen = row]
  <2>1. j \in Jobs /\ j.at = "cascade"
    BY <1>1 DEF Jobs
  <2> HIDE DEF j
  <2>2. job' \in [Workers -> Jobs] /\ \A v \in Workers : Sound(job[v])'
    BY <1>1, <1>7, <2>1, Proceeds DEF Cascade, j
  <2> QED
    BY <1>1, <1>7, <2>2 DEF RegistryInv, DataOK, Cascade, disk
<1>8. CASE Use(w)
  <2>1. [Idle EXCEPT !.at = "use"] \in Jobs /\ [Idle EXCEPT !.at = "use"].at = "use"
    BY DEF Jobs
  <2>2. job' \in [Workers -> Jobs] /\ \A v \in Workers : Sound(job[v])'
    BY <1>1, <1>8, <2>1, Proceeds DEF Use
  <2> QED
    BY <1>1, <1>8, <2>2 DEF RegistryInv, DataOK, Use, disk
<1> QED
  BY <1>1, <1>2, <1>3, <1>4, <1>5, <1>6, <1>7, <1>8 DEF Ask

(* A request that is served changes the row only where it writes it or     *)
(* drops it.                                                               *)
LEMMA Serves ==
  ASSUME RegistryInv, NEW w \in Workers, Serve(w)
  PROVE  RegistryInv' /\ (row' = row \/ Write(w) \/ Drop(w))
<1> USE Constants
<1>0. row \in Rows /\ job[w] \in Jobs
  BY DEF RegistryInv, DataOK
<1>1. CASE Write(w)
  BY <1>1, Writes
<1>2. CASE Drop(w)
  BY <1>2, Drops
<1>3. CASE Collect(w)
  <2>1. UNCHANGED <<row, tested, dir>>
    BY <1>3 DEF Collect, disk
  <2>2. CASE dir[job[w].run] \in Results
    <3> DEFINE p == dir[job[w].run] = "pass"
               j == [job[w] EXCEPT !.at = "update", !.goal.passed = p]
    <3>1. p \in BOOLEAN
      OBVIOUS
    <3> HIDE DEF p
    <3>2. j \in Jobs /\ j.at = "update"
      BY <1>0, <3>1 DEF Jobs, Rows
    <3>3. Do(w, j)
      BY <1>3, <2>2 DEF Collect, p
    <3> HIDE DEF j
    <3>4. job' \in [Workers -> Jobs] /\ \A v \in Workers : Sound(job[v])'
      BY <2>1, <3>2, <3>3, Proceeds
    <3> QED
      BY <2>1, <3>4 DEF RegistryInv, DataOK
  <2>3. CASE dir[job[w].run] \notin Results
    BY <1>3, <2>1, <2>3, Answered DEF Collect, Answer
  <2> QED
    BY <2>2, <2>3
<1>4. CASE UpdateGates(w)
  <2>1. UNCHANGED <<row, tested, dir>>
    BY <1>4 DEF UpdateGates, disk
  <2>2. CASE row.status \in {"candidate", "blocked"}
    <3> DEFINE g == [status |-> Judged(job[w].goal.passed), passed |-> job[w].goal.passed,
                     report |-> job[w].run]
    <3>1. job[w].goal.passed \in BOOLEAN /\ job[w].run \in Runs \cup {NoRun}
      BY <1>0 DEF Jobs, Rows
    <3>2. Judged(job[w].goal.passed) \in Open
      BY <2>2 DEF Judged, Open
    <3>3. g \in Rows /\ g.status \in Open
      BY <3>1, <3>2 DEF Rows, Statuses, Open
    <3>4. Arc(row, g)
      BY <2>2, <3>3 DEF Arc, Open
    <3> HIDE DEF g
    <3>5. Decide(w, g, "idle")
      BY <1>4, <2>2 DEF UpdateGates, g
    <3> QED
      BY <2>1, <3>3, <3>4, <3>5, Decides
  <2>3. CASE row.status \notin {"candidate", "blocked"}
    BY <1>4, <2>1, <2>3, Answered DEF UpdateGates, Answer
  <2> QED
    BY <2>2, <2>3
<1>5. CASE Switch(w)
  <2>1. UNCHANGED <<row, tested, dir>>
    BY <1>5 DEF Switch, disk
  <2>2. CASE row.status \in {"candidate", "blocked", "archived"}
    <3> DEFINE g == [status |-> Judged(job[w].goal.passed), passed |-> job[w].goal.passed,
                     report |-> job[w].to]
    <3>1. job[w].goal.passed \in BOOLEAN /\ job[w].to \in Runs \cup {NoRun}
      BY <1>0 DEF Jobs, Rows
    <3>2. IF row.status = "archived" THEN Judged(job[w].goal.passed) = "archived"
          ELSE Judged(job[w].goal.passed) \in Open
      BY DEF Judged, Open
    <3>3. g \in Rows /\ g.status = Judged(job[w].goal.passed)
      BY <3>1, <3>2 DEF Rows, Statuses, Open
    <3>4. Arc(row, g)
      BY <2>2, <3>2, <3>3 DEF Arc, Open
    <3> HIDE DEF g
    <3>5. Decide(w, g, "remove")
      BY <1>5, <2>2 DEF Switch, g
    <3> QED
      BY <2>1, <3>3, <3>4, <3>5, Decides
  <2>3. CASE row.status \notin {"candidate", "blocked", "archived"}
    BY <1>5, <2>1, <2>3, Answered DEF Switch
  <2> QED
    BY <2>2, <2>3
<1>6. CASE List(w)
  <2>1. UNCHANGED <<row, tested, dir>>
    BY <1>6 DEF List, disk
  <2>2. \/ Do(w, Idle)
        \/ Do(w, [Idle EXCEPT !.at = "remove", !.run = job[w].run])
        \/ Do(w, [Idle EXCEPT !.at = "switch", !.run = job[w].run])
        \/ \E s \in Runs : Do(w, [Idle EXCEPT !.at = "switch", !.run = job[w].run, !.to = s,
                                              !.goal.passed = dir[s] = "pass"])
    BY <1>6 DEF List, Completed
  <2>3. job[w].run \in Runs \cup {NoRun}
    BY <1>0 DEF Jobs
  <2>4. CASE Do(w, Idle)
    BY <2>1, <2>4, Answered
  <2>5. ASSUME NEW a \in {"remove", "switch"},
               Do(w, [Idle EXCEPT !.at = a, !.run = job[w].run])
        PROVE  RegistryInv'
    <3> DEFINE j == [Idle EXCEPT !.at = a, !.run = job[w].run]
    <3>1. j \in Jobs /\ j.at = a
      BY <2>3 DEF Jobs
    <3> HIDE DEF j
    <3>2. job' \in [Workers -> Jobs] /\ \A v \in Workers : Sound(job[v])'
      BY <2>1, <2>5, <3>1, Proceeds DEF j
    <3> QED
      BY <2>1, <3>2 DEF RegistryInv, DataOK
  <2>6. ASSUME NEW s \in Runs,
               Do(w, [Idle EXCEPT !.at = "switch", !.run = job[w].run, !.to = s,
                                  !.goal.passed = dir[s] = "pass"])
        PROVE  RegistryInv'
    <3> DEFINE p == dir[s] = "pass"
               j == [Idle EXCEPT !.at = "switch", !.run = job[w].run, !.to = s,
                                 !.goal.passed = p]
    <3>1. p \in BOOLEAN
      OBVIOUS
    <3>2. Do(w, j)
      BY <2>6
    <3> HIDE DEF p
    <3>3. j \in Jobs /\ j.at = "switch"
      BY <2>3, <3>1 DEF Jobs, Rows
    <3> HIDE DEF j
    <3>4. job' \in [Workers -> Jobs] /\ \A v \in Workers : Sound(job[v])'
      BY <2>1, <3>2, <3>3, Proceeds
    <3> QED
      BY <2>1, <3>4 DEF RegistryInv, DataOK
  <2> QED
    BY <2>1, <2>2, <2>4, <2>5, <2>6
<1>7. CASE Remove(w)
  <2>1. UNCHANGED <<row, tested>> /\ dir' = [dir EXCEPT ![job[w].run] = "gone"]
    BY <1>7 DEF Remove
  <2>2. job' \in [Workers -> Jobs] /\ \A v \in Workers : Sound(job[v])'
    BY <1>7, <2>1, Rests DEF Remove
  <2> QED
    BY <2>1, <2>2 DEF RegistryInv, DataOK
<1>8. CASE Insert(w)
  BY <1>8, Answered DEF Insert, Answer, disk
<1> QED
  BY <1>1, <1>2, <1>3, <1>4, <1>5, <1>6, <1>7, <1>8
     DEF Serve, Collect, UpdateGates, Switch, List, Remove, Insert

(* Of all steps only a write or a deletion changes the row.                *)
LEMMA Steps ==
  ASSUME RegistryInv, [Next]_vars
  PROVE  /\ RegistryInv'
         /\ row' = row \/ \E w \in Workers : Write(w) \/ Drop(w)
<1>1. ASSUME NEW w \in Workers, Ask(w)
      PROVE  RegistryInv' /\ row' = row
  BY <1>1, Asks
<1>2. ASSUME NEW w \in Workers, Serve(w)
      PROVE  RegistryInv' /\ (row' = row \/ Write(w) \/ Drop(w))
  BY <1>2, Serves
<1>3. ASSUME NEW r \in Runs, Result(r) \/ Stop(r)
      PROVE  RegistryInv' /\ row' = row
  <2>1. UNCHANGED <<row, tested, job>>
    BY <1>3 DEF Result, Stop
  <2>2. dir' \in [Runs -> {"none", "open", "gone"} \cup Results]
    BY <1>3 DEF Result, Stop, RegistryInv, DataOK
  <2> QED
    BY <2>1, <2>2 DEF RegistryInv, DataOK, Sound, Arc
<1>4. ASSUME EndUse \/ Forget \/ UNCHANGED vars
      PROVE  RegistryInv' /\ row' = row
  <2>1. UNCHANGED <<row, tested, dir, job>>
    BY <1>4 DEF EndUse, Forget, vars, disk
  <2> QED
    BY <2>1 DEF RegistryInv, DataOK, Sound, Arc
<1>5. ASSUME Crash
      PROVE  RegistryInv' /\ row' = row
  <2>1. UNCHANGED <<row, tested, dir>> /\ job' = [w \in Workers |-> Idle]
    BY <1>5 DEF Crash, disk
  <2>2. Idle \in Jobs /\ Idle.at = "idle"
    BY Constants DEF Idle
  <2>3. \A w \in Workers : Sound(job[w])'
    BY <2>1, <2>2 DEF Sound
  <2> QED
    BY <2>1, <2>2, <2>3 DEF RegistryInv, DataOK
<1> QED
  BY <1>1, <1>2, <1>3, <1>4, <1>5 DEF Next

(* A lost write is not forgotten, and the test of a model does not change. *)
LEMMA LostStays ==
  ASSUME [Next]_vars
  PROVE  (lost => lost') /\ tested' = tested
<1>1. ASSUME NEW w \in Workers, Ask(w)
      PROVE  lost' = lost /\ tested' = tested
  BY <1>1, Zenon DEF Ask, Gates, Publish, Archive, DeleteRun, Delete, Cascade, Use
<1>2. ASSUME NEW w \in Workers, Serve(w)
      PROVE  (lost => lost') /\ tested' = tested
  <2>1. Write(w) => (lost => lost') /\ tested' = tested
    BY Zenon DEF Write
  <2>2. Drop(w) => (lost => lost') /\ tested' = tested
    BY Zenon DEF Drop
  <2>3. Collect(w) \/ UpdateGates(w) \/ List(w) \/ Switch(w) => lost' = lost /\ tested' = tested
    BY Zenon DEF Collect, UpdateGates, List, Switch
  <2>4. Remove(w) \/ Insert(w) => lost' = lost /\ tested' = tested
    BY Zenon DEF Remove, Insert
  <2>5. lost' = lost /\ tested' = tested => (lost => lost') /\ tested' = tested
    BY SMT
  <2> QED
    BY <1>2, <2>1, <2>2, <2>3, <2>4, <2>5, Zenon DEF Serve
<1>3. ASSUME NEW r \in Runs, Result(r) \/ Stop(r)
      PROVE  lost' = lost /\ tested' = tested
  BY <1>3, Zenon DEF Result, Stop
<1>4. ASSUME EndUse \/ Forget \/ Crash \/ UNCHANGED vars
      PROVE  lost' = lost /\ tested' = tested
  BY <1>4, Zenon DEF EndUse, Forget, Crash, vars
<1> QED
  BY <1>1, <1>2, <1>3, <1>4 DEF Next

(* The inductive invariant: the row, the directories and the jobs are      *)
(* well-formed, and whatever a worker is about to write or delete is       *)
(* allowed on the row it has read.                                         *)
THEOREM RegistryInvariant == Spec => []RegistryInv
<1>1. Init => RegistryInv
  <2> SUFFICES ASSUME Init
               PROVE  RegistryInv
    OBVIOUS
  <2>1. Idle \in Jobs /\ Sound(Idle)
    BY Constants DEF Sound, Idle
  <2>2. row \in Rows
    BY Constants DEF Init
  <2> QED
    BY <2>1, <2>2 DEF Init, RegistryInv, DataOK
<1>2. RegistryInv /\ [Next]_vars => RegistryInv'
  BY Steps
<1> QED
  BY <1>1, <1>2, PTL DEF Spec

(* The guard, the processes and the inference runs have their types.       *)
RestOK ==
  /\ used \in {"no", "active", "ended"} /\ alive \subseteq Runs
  /\ guard \in Workers \cup {Nobody}

FlagsOK == lost \in BOOLEAN /\ overlap \in BOOLEAN /\ tested \in BOOLEAN

LEMMA RestStays ==
  ASSUME RestOK, [Next]_vars
  PROVE  RestOK'
<1> USE DEF RestOK
<1>1. ASSUME NEW w \in Workers, Ask(w)
      PROVE  RestOK'
  <2>1. CASE Gates(w)
    BY <2>1 DEF Gates
  <2>2. CASE Use(w)
    BY <2>2 DEF Use, disk
  <2>3. CASE Publish(w) \/ Archive(w) \/ DeleteRun(w) \/ Delete(w) \/ Cascade(w)
    <3>1. UNCHANGED <<used, alive, guard>>
      BY <2>3 DEF Publish, Archive, DeleteRun, Delete, Cascade, disk
    <3> QED
      BY <3>1
  <2> QED
    BY <1>1, <2>1, <2>2, <2>3 DEF Ask
<1>2. ASSUME NEW w \in Workers, Serve(w)
      PROVE  RestOK'
  <2>1. alive' = alive
    BY <1>2 DEF Serve, Collect, UpdateGates, Write, List, Switch, Remove, Drop, Insert, disk
  <2>2. used' \in {"no", "active", "ended"}
    BY <1>2 DEF Serve, Collect, UpdateGates, Write, List, Switch, Remove, Drop, Insert
  <2>3. guard' = guard \/ Leave(w)
    BY <1>2 DEF Serve, Collect, UpdateGates, Write, List, Switch, Remove, Drop, Insert, Answer
  <2>4. guard' \in Workers \cup {Nobody}
    BY <2>3 DEF Leave
  <2> QED
    BY <2>1, <2>2, <2>4
<1>3. ASSUME NEW r \in Runs, Result(r) \/ Stop(r)
      PROVE  RestOK'
  BY <1>3 DEF Result, Stop
<1>4. ASSUME EndUse \/ Forget \/ Crash \/ UNCHANGED vars
      PROVE  RestOK'
  BY <1>4 DEF EndUse, Forget, Crash, vars, disk
<1> QED
  BY <1>1, <1>2, <1>3, <1>4 DEF Next

LEMMA FlagsStay ==
  ASSUME FlagsOK, [Next]_vars
  PROVE  FlagsOK'
<1>1. tested' \in BOOLEAN
  BY LostStays DEF FlagsOK
<1>2. ASSUME NEW w \in Workers, Ask(w)
      PROVE  lost' \in BOOLEAN /\ overlap' \in BOOLEAN
  <2>1. lost' = lost /\ (overlap' = overlap \/ Concurs)
    BY <1>2, Zenon DEF Ask, Gates, Publish, Archive, DeleteRun, Delete, Cascade, Use
  <2>2. Concurs => overlap' \in BOOLEAN
    BY Zenon DEF Concurs
  <2> QED
    BY <2>1, <2>2, Zenon DEF FlagsOK
<1>3. ASSUME NEW w \in Workers, Serve(w)
      PROVE  lost' \in BOOLEAN /\ overlap' \in BOOLEAN
  <2>1. Write(w) => lost' \in BOOLEAN /\ overlap' = overlap
    BY Zenon DEF Write, FlagsOK
  <2>2. Drop(w) => lost' \in BOOLEAN /\ overlap' = overlap
    BY Zenon DEF Drop, FlagsOK
  <2>3. Collect(w) \/ UpdateGates(w) \/ List(w) \/ Switch(w) => lost' = lost /\ overlap' = overlap
    BY Zenon DEF Collect, UpdateGates, List, Switch
  <2>4. Remove(w) \/ Insert(w) => lost' = lost /\ overlap' = overlap
    BY Zenon DEF Remove, Insert
  <2> QED
    BY <1>3, <2>1, <2>2, <2>3, <2>4, Zenon DEF Serve, FlagsOK
<1>4. ASSUME NEW r \in Runs, Result(r) \/ Stop(r)
      PROVE  lost' = lost /\ overlap' = overlap
  BY <1>4, Zenon DEF Result, Stop
<1>5. ASSUME EndUse \/ Forget \/ Crash \/ UNCHANGED vars
      PROVE  lost' = lost /\ overlap' = overlap
  BY <1>5, Zenon DEF EndUse, Forget, Crash, vars
<1> QED
  BY <1>1, <1>2, <1>3, <1>4, <1>5, Zenon DEF FlagsOK, Next

(* Every variable has its type in every state, for any number of workers   *)
(* and of gate runs.                                                       *)
THEOREM TypeCorrect == Spec => []TypeOK
<1>1. Init => RestOK
  BY DEF Init, RestOK
<1>2. Init => FlagsOK
  BY Zenon DEF Init, FlagsOK
<1>3. RestOK /\ [Next]_vars => RestOK'
  BY RestStays
<1>4. FlagsOK /\ [Next]_vars => FlagsOK'
  BY FlagsStay
<1>5. RegistryInv /\ RestOK /\ FlagsOK => TypeOK
  BY Zenon DEF RegistryInv, DataOK, RestOK, FlagsOK, TypeOK
<1> QED
  BY <1>1, <1>2, <1>3, <1>4, <1>5, RegistryInvariant, PTL DEF Spec

(* "all release gates must pass before publication" (models/repository.py, *)
(* publish): a published model has passed its gates and its test, unless a *)
(* request wrote to a row that another had changed since it was read.      *)
THEOREM Published == Spec => []PublishedPassedUnlessLost
<1>1. Init => PublishedPassedUnlessLost
  BY DEF Init, PublishedPassedUnlessLost, PublishedPassed
<1>2. RegistryInv /\ PublishedPassedUnlessLost /\ [Next]_vars => PublishedPassedUnlessLost'
  <2> SUFFICES ASSUME RegistryInv, PublishedPassedUnlessLost, [Next]_vars,
                      ~lost', row'.status = "published"
               PROVE  row'.passed /\ tested'
    BY DEF PublishedPassedUnlessLost, PublishedPassed
  <2>1. ~lost /\ tested' = tested
    BY LostStays
  <2>2. CASE row' = row
    BY <2>1, <2>2 DEF PublishedPassedUnlessLost, PublishedPassed
  <2>3. ASSUME NEW w \in Workers, Write(w), row' # row
        PROVE  row'.passed /\ tested'
    <3>1. Arc(row, row')
      BY <2>3, Writes
    <3> QED
      BY <2>1, <3>1 DEF Arc, Open
  <2>4. ASSUME NEW w \in Workers, Drop(w), row' # row
        PROVE  row'.passed /\ tested'
    <3>1. row' = Gone
      BY <2>4, Drops
    <3> QED
      BY <3>1 DEF Gone
  <2> QED
    BY <2>2, <2>3, <2>4, Steps
<1> QED
  BY <1>1, <1>2, RegistryInvariant, PTL DEF Spec

(* Archived and published are terminal: they are left only for archived or *)
(* by the deletion the repository allows, unless a write was lost.         *)
THEOREM Terminal == Spec => TerminalStays
<1>1. RegistryInv /\ [Next]_vars =>
        [/\ ~lost' /\ row.status = "archived" => row'.status \in {"archived", "deleted"}
         /\ ~lost' /\ row.status = "published" =>
              \/ row'.status \in {"published", "archived"}
              \/ \E w \in Workers : At(w, "cascade") /\ row' = Gone]_vars
  <2> SUFFICES ASSUME RegistryInv, [Next]_vars, ~lost'
               PROVE  /\ row.status = "archived" => row'.status \in {"archived", "deleted"}
                      /\ row.status = "published" =>
                           \/ row'.status \in {"published", "archived"}
                           \/ \E w \in Workers : At(w, "cascade") /\ row' = Gone
    OBVIOUS
  <2>1. CASE row' = row
    BY <2>1
  <2>2. ASSUME NEW w \in Workers, Write(w), row' # row
        PROVE  row.status \in {"archived", "published"} => row'.status = "archived"
    <3>1. Arc(row, row')
      BY <2>2, Writes
    <3> QED
      BY <3>1 DEF Arc, Open
  <2>3. ASSUME NEW w \in Workers, Drop(w), row' # row
        PROVE  row' = Gone /\ (row.status = "published" => At(w, "cascade"))
    BY <2>3, Drops
  <2>4. Gone.status = "deleted"
    BY DEF Gone
  <2> QED
    BY <2>1, <2>2, <2>3, <2>4, Steps
<1> QED
  BY <1>1, RegistryInvariant, PTL DEF Spec, TerminalStays

-----------------------------------------------------------------------------
(* A verdict is that of the report it goes with.                           *)
Stands(r, p) == r # NoRun => dir[r] \in Results /\ (p = TRUE <=> dir[r] = "pass")

(* What a request about gate runs relies on while it is the only one.      *)
Judges(j) ==
  /\ j.at = "idle" => j.run = NoRun
  /\ j.at \in {"gates", "update", "list", "switch", "remove"} => j.run \in Runs
  /\ j.at = "write" /\ j.run = NoRun =>
       j.then = "idle" /\ j.goal.passed = j.seen.passed /\ j.goal.report = j.seen.report
  /\ j.at = "write" /\ j.run # NoRun =>
       /\ Exists => j.seen.passed = row.passed /\ j.seen.report = row.report
       /\ Stands(j.goal.report, j.goal.passed)
       /\ j.then = "remove" => j.goal.report # j.run
  /\ j.at = "update" => Stands(j.run, j.goal.passed)
  /\ j.at = "list" /\ Exists => j.seen.report = row.report
  /\ j.at = "switch" => j.to # j.run /\ Stands(j.to, j.goal.passed)
  /\ j.at = "remove" => row.report # j.run

OneJudge == \A w, x \in Workers : w # x => job[w].run = NoRun \/ job[x].run = NoRun

Standing == Stands(row.report, row.passed) /\ (~Exists => row.report = NoRun)

VerdictInv ==
  ~overlap => OneJudge /\ Standing /\ \A w \in Workers : Judges(job[w])

LEMMA IdleJudges == Judges(Idle)
  BY DEF Judges, Idle

(* One worker's step; the others judge as they did if it leaves to them    *)
(* what they rely on.                                                      *)
LEMMA OneMoves ==
  ASSUME RegistryInv, VerdictInv, ~overlap, NEW w \in Workers, NEW j, Do(w, j),
         \/ j.run = NoRun \/ j.run = job[w].run
         \/ \A v \in Workers : job[v].run = NoRun,
         Judges(j)', Standing',
         \A v \in Workers \ {w} : Judges(job[v]) => Judges(job[v])'
  PROVE  VerdictInv'
<1>1. job'[w] = j /\ \A v \in Workers \ {w} : job'[v] = job[v]
  BY DEF RegistryInv, DataOK, Do
<1>2. OneJudge'
  BY <1>1 DEF OneJudge, VerdictInv
<1>3. \A v \in Workers : Judges(job[v])'
  <2>1. Judges(job[w])'
    BY <1>1 DEF Judges, Stands, Exists
  <2>2. \A v \in Workers \ {w} : Judges(job[v])'
    BY <1>1 DEF VerdictInv
  <2> QED
    BY <2>1, <2>2
<1> QED
  BY <1>2, <1>3 DEF VerdictInv

(* The row and the directories stay.                                       *)
LEMMA QuietMove ==
  ASSUME RegistryInv, VerdictInv, ~overlap, NEW w \in Workers, NEW j, Do(w, j),
         \/ j.run = NoRun \/ j.run = job[w].run
         \/ \A v \in Workers : job[v].run = NoRun,
         Judges(j), UNCHANGED <<row, dir>>
  PROVE  VerdictInv'
<1>1. Judges(j)'
  BY DEF Judges, Stands, Exists
<1>2. Standing'
  BY DEF Standing, Stands, Exists, VerdictInv
<1>3. ASSUME NEW v \in Workers \ {w}, Judges(job[v]) PROVE Judges(job[v])'
  <2>1. job'[v] = job[v]
    BY DEF RegistryInv, DataOK, Do
  <2> QED
    BY <1>3, <2>1 DEF Judges, Stands, Exists
<1> QED
  BY <1>1, <1>2, <1>3, OneMoves

LEMMA QuietRest ==
  ASSUME RegistryInv, VerdictInv, ~overlap, NEW w \in Workers, Do(w, Idle), UNCHANGED <<row, dir>>
  PROVE  VerdictInv'
<1>1. Idle.run = NoRun
  BY DEF Idle
<1> QED
  BY <1>1, IdleJudges, QuietMove

(* Gates are started in a directory that no report lies in.                *)
LEMMA GatesJudge ==
  ASSUME RegistryInv, VerdictInv, ~overlap, ~overlap', NEW w \in Workers, Gates(w)
  PROVE  VerdictInv'
<1>1. PICK r \in Runs : /\ dir[r] = "none" /\ dir' = [dir EXCEPT ![r] = "open"]
                        /\ Do(w, [Idle EXCEPT !.at = "gates", !.run = r])
  BY DEF Gates
<1>2. row' = row /\ \A v \in Workers : job[v].run = NoRun
  BY DEF Gates, Concurs
<1>3. PICK j : j = [Idle EXCEPT !.at = "gates", !.run = r]
  OBVIOUS
<1>4. j.at = "gates" /\ j.run = r
  BY <1>3 DEF Idle
<1>5. Judges(j)'
  BY <1>4, NameAssumption DEF Judges
<1>6. \A s \in Runs : dir[s] \in Results => dir'[s] = dir[s]
  BY <1>1 DEF RegistryInv, DataOK, Results
<1>7. row.report \in Runs \cup {NoRun}
  BY DEF RegistryInv, DataOK, Rows
<1>8. Standing'
  BY <1>2, <1>6, <1>7 DEF Standing, Stands, Exists, VerdictInv
<1>9. ASSUME NEW v \in Workers \ {w}, Judges(job[v]) PROVE Judges(job[v])'
  <2>1. job'[v] = job[v]
    BY <1>1 DEF RegistryInv, DataOK, Do
  <2>2. job[v].run = NoRun
    BY <1>2
  <2> QED
    BY <1>9, <2>1, <2>2, NameAssumption DEF Judges
<1> QED
  BY <1>1, <1>2, <1>3, <1>5, <1>8, <1>9, OneMoves

(* A decision about the row alone leaves its verdict as it is.             *)
LEMMA StatusJudge ==
  ASSUME RegistryInv, VerdictInv, ~overlap, NEW w \in Workers, Publish(w) \/ Archive(w)
  PROVE  VerdictInv'
<1>1. row \in Rows /\ job[w] \in Jobs /\ Judges(job[w]) /\ job[w].at = "idle"
  BY DEF RegistryInv, DataOK, VerdictInv, Publish, Archive, At
<1>2. PICK g \in Rows : Decide(w, g, "idle") /\ g.passed = row.passed /\ g.report = row.report
  <2>1. PICK s \in Statuses : Decide(w, [row EXCEPT !.status = s], "idle")
    BY DEF Publish, Archive, Statuses
  <2>2. /\ [row EXCEPT !.status = s] \in Rows
        /\ [row EXCEPT !.status = s].passed = row.passed
        /\ [row EXCEPT !.status = s].report = row.report
    BY <1>1 DEF Rows
  <2> QED
    BY <2>1, <2>2
<1>3. PICK j : j = [job[w] EXCEPT !.at = "write", !.seen = row, !.goal = g, !.then = "idle"]
  OBVIOUS
<1>4. /\ j.at = "write" /\ j.run = job[w].run /\ j.goal = g /\ j.seen = row /\ j.then = "idle"
  BY <1>1, <1>3 DEF Jobs
<1>5. Judges(j)
  BY <1>1, <1>2, <1>4 DEF Judges
<1>6. Do(w, j) /\ UNCHANGED <<row, dir>>
  BY <1>2, <1>3, Zenon DEF Decide, Publish, Archive, disk
<1> QED
  BY <1>4, <1>5, <1>6, QuietMove

LEMMA AskJudges ==
  ASSUME RegistryInv, VerdictInv, ~overlap, ~overlap', NEW w \in Workers, Ask(w)
  PROVE  VerdictInv'
<1>1. CASE Gates(w)
  BY <1>1, GatesJudge
<1>2. CASE Publish(w) \/ Archive(w)
  BY <1>2, StatusJudge
<1>3. CASE DeleteRun(w)
  <2>1. PICK r \in Runs : Do(w, [Idle EXCEPT !.at = "list", !.seen = row, !.run = r])
    BY <1>3 DEF DeleteRun
  <2>2. PICK j : j = [Idle EXCEPT !.at = "list", !.seen = row, !.run = r]
    OBVIOUS
  <2>3. j.at = "list" /\ j.seen = row /\ j.run = r
    BY <2>2 DEF Idle
  <2>4. Judges(j)
    BY <2>3 DEF Judges
  <2>5. UNCHANGED <<row, dir>> /\ \A v \in Workers : job[v].run = NoRun
    BY <1>3 DEF DeleteRun, Concurs, disk
  <2> QED
    BY <2>1, <2>2, <2>4, <2>5, QuietMove
<1>4. CASE Delete(w) \/ Cascade(w) \/ Use(w)
  <2>1. PICK j : /\ Do(w, j)
                 /\ j \in {[Idle EXCEPT !.at = "delete", !.seen = row],
                           [Idle EXCEPT !.at = "cascade", !.seen = row], [Idle EXCEPT !.at = "use"]}
    BY <1>4, Zenon DEF Delete, Cascade, Use
  <2>4. j.at \in {"delete", "cascade", "use"} /\ j.run = NoRun
    BY <2>1 DEF Idle
  <2>2. Judges(j)
    BY <2>4 DEF Judges
  <2>3. UNCHANGED <<row, dir>>
    BY <1>4 DEF Delete, Cascade, Use, disk
  <2> QED
    BY <2>1, <2>2, <2>3, <2>4, QuietMove
<1> QED
  BY <1>1, <1>2, <1>3, <1>4 DEF Ask

(* The result that is collected is the verdict of its run.                 *)
LEMMA CollectJudges ==
  ASSUME RegistryInv, VerdictInv, ~overlap, NEW w \in Workers, Collect(w)
  PROVE  VerdictInv'
<1>1. /\ job[w] \in Jobs /\ Judges(job[w]) /\ job[w].at = "gates" /\ job[w].run \in Runs
      /\ UNCHANGED <<row, dir>>
  BY DEF RegistryInv, DataOK, VerdictInv, Collect, At, Judges, disk
<1>2. CASE dir[job[w].run] \in Results
  <2>1. PICK p \in BOOLEAN : p = (dir[job[w].run] = "pass")
    OBVIOUS
  <2>2. PICK j : j = [job[w] EXCEPT !.at = "update", !.goal.passed = p]
    OBVIOUS
  <2>3. j.at = "update" /\ j.run = job[w].run /\ j.goal.passed = p
    BY <1>1, <2>2 DEF Jobs, Rows
  <2>4. Do(w, j)
    BY <1>2, <2>1, <2>2 DEF Collect
  <2>5. Judges(j)
    BY <1>1, <1>2, <2>1, <2>3 DEF Judges, Stands
  <2> QED
    BY <1>1, <2>3, <2>4, <2>5, QuietMove
<1>3. CASE dir[job[w].run] \notin Results
  BY <1>1, <1>3, QuietRest DEF Collect, Answer
<1> QED
  BY <1>2, <1>3

LEMMA UpdateJudges ==
  ASSUME RegistryInv, VerdictInv, ~overlap, NEW w \in Workers, UpdateGates(w)
  PROVE  VerdictInv'
<1>1. /\ row \in Rows /\ job[w] \in Jobs /\ Judges(job[w]) /\ job[w].at = "update"
      /\ job[w].run \in Runs /\ UNCHANGED <<row, dir>>
  BY DEF RegistryInv, DataOK, VerdictInv, UpdateGates, At, Judges, disk
<1>2. CASE row.status \in {"candidate", "blocked"}
  <2>1. PICK g : g = [status |-> Judged(job[w].goal.passed), passed |-> job[w].goal.passed,
                      report |-> job[w].run]
    OBVIOUS
  <2>2. PICK j : j = [job[w] EXCEPT !.at = "write", !.seen = row, !.goal = g, !.then = "idle"]
    OBVIOUS
  <2>3. /\ j.at = "write" /\ j.run = job[w].run /\ j.seen = row /\ j.then = "idle"
        /\ j.goal.passed = job[w].goal.passed /\ j.goal.report = job[w].run
    BY <1>1, <2>1, <2>2 DEF Jobs
  <2>4. Do(w, j)
    BY <1>2, <2>1, <2>2 DEF UpdateGates, Decide
  <2>5. Judges(j)
    BY <1>1, <2>3, NameAssumption DEF Judges
  <2> QED
    BY <1>1, <2>3, <2>4, <2>5, QuietMove
<1>3. CASE row.status \notin {"candidate", "blocked"}
  BY <1>1, <1>3, QuietRest DEF UpdateGates, Answer
<1> QED
  BY <1>2, <1>3

(* The fallback is another run than the one to be removed, and completed.  *)
LEMMA ListJudges ==
  ASSUME RegistryInv, VerdictInv, ~overlap, NEW w \in Workers, List(w)
  PROVE  VerdictInv'
<1>1. /\ row \in Rows /\ job[w] \in Jobs /\ Judges(job[w]) /\ job[w].at = "list"
      /\ job[w].run \in Runs /\ UNCHANGED <<row, dir>>
  BY DEF RegistryInv, DataOK, VerdictInv, List, At, Judges, disk
<1>2. CASE Do(w, Idle)
  BY <1>1, <1>2, QuietRest
<1>3. CASE Do(w, [Idle EXCEPT !.at = "remove", !.run = job[w].run]) /\ job[w].seen.report # job[w].run
  <2>1. PICK j : j = [Idle EXCEPT !.at = "remove", !.run = job[w].run]
    OBVIOUS
  <2>2. j.at = "remove" /\ j.run = job[w].run
    BY <2>1 DEF Idle
  <2>3. row.report # job[w].run
    <3>1. CASE Exists
      BY <1>1, <1>3, <3>1 DEF Judges
    <3>2. CASE ~Exists
      BY <1>1, <3>2, NameAssumption DEF Standing, VerdictInv
    <3> QED
      BY <3>1, <3>2
  <2>4. Judges(j)
    BY <1>1, <2>2, <2>3 DEF Judges
  <2> QED
    BY <1>1, <1>3, <2>1, <2>2, <2>4, QuietMove
<1>4. CASE Do(w, [Idle EXCEPT !.at = "switch", !.run = job[w].run])
  <2>1. PICK j : j = [Idle EXCEPT !.at = "switch", !.run = job[w].run]
    OBVIOUS
  <2>2. j.at = "switch" /\ j.run = job[w].run /\ j.to = NoRun
    BY <2>1 DEF Idle
  <2>3. Judges(j)
    BY <1>1, <2>2, NameAssumption DEF Judges, Stands
  <2> QED
    BY <1>1, <1>4, <2>1, <2>2, <2>3, QuietMove
<1>5. ASSUME NEW s \in Completed(job[w].run),
             Do(w, [Idle EXCEPT !.at = "switch", !.run = job[w].run, !.to = s,
                                !.goal.passed = dir[s] = "pass"])
      PROVE  VerdictInv'
  <2>1. PICK p \in BOOLEAN : p = (dir[s] = "pass")
    OBVIOUS
  <2>2. PICK j : j = [Idle EXCEPT !.at = "switch", !.run = job[w].run, !.to = s, !.goal.passed = p]
    OBVIOUS
  <2>3. j.at = "switch" /\ j.run = job[w].run /\ j.to = s /\ j.goal.passed = p
    BY <2>2 DEF Idle, Gone
  <2>4. Judges(j)
    BY <1>1, <2>1, <2>3 DEF Judges, Stands, Completed, Results
  <2> QED
    BY <1>1, <1>5, <2>1, <2>2, <2>3, <2>4, QuietMove
<1> QED
  BY <1>2, <1>3, <1>4, <1>5 DEF List

LEMMA SwitchJudges ==
  ASSUME RegistryInv, VerdictInv, ~overlap, NEW w \in Workers, Switch(w)
  PROVE  VerdictInv'
<1>1. /\ row \in Rows /\ job[w] \in Jobs /\ Judges(job[w]) /\ job[w].at = "switch"
      /\ job[w].run \in Runs /\ UNCHANGED <<row, dir>>
  BY DEF RegistryInv, DataOK, VerdictInv, Switch, At, Judges, disk
<1>2. CASE row.status \in {"candidate", "blocked", "archived"}
  <2>1. PICK g : g = [status |-> Judged(job[w].goal.passed), passed |-> job[w].goal.passed,
                      report |-> job[w].to]
    OBVIOUS
  <2>2. PICK j : j = [job[w] EXCEPT !.at = "write", !.seen = row, !.goal = g, !.then = "remove"]
    OBVIOUS
  <2>3. /\ j.at = "write" /\ j.run = job[w].run /\ j.seen = row
        /\ j.goal.passed = job[w].goal.passed /\ j.goal.report = job[w].to
    BY <1>1, <2>1, <2>2 DEF Jobs
  <2>4. Do(w, j)
    BY <1>2, <2>1, <2>2 DEF Switch, Decide
  <2>5. Judges(j)
    BY <1>1, <2>3, NameAssumption DEF Judges
  <2> QED
    BY <1>1, <2>3, <2>4, <2>5, QuietMove
<1>3. CASE row.status \notin {"candidate", "blocked", "archived"}
  BY <1>1, <1>3, QuietRest DEF Switch
<1> QED
  BY <1>2, <1>3

(* The directory that goes is not that of the active report.               *)
LEMMA RemoveJudges ==
  ASSUME RegistryInv, VerdictInv, ~overlap, NEW w \in Workers, Remove(w)
  PROVE  VerdictInv'
<1>1. /\ job[w].at = "remove" /\ job[w].run \in Runs /\ row.report # job[w].run
      /\ row' = row /\ dir' = [dir EXCEPT ![job[w].run] = "gone"] /\ Do(w, Idle)
  BY DEF VerdictInv, Remove, At, Judges
<1>2. row.report \in Runs \cup {NoRun}
  BY DEF RegistryInv, DataOK, Rows
<1>3. Standing'
  BY <1>1, <1>2 DEF Standing, Stands, Exists, VerdictInv, RegistryInv, DataOK
<1>4. ASSUME NEW v \in Workers \ {w}, Judges(job[v]) PROVE Judges(job[v])'
  <2>1. job'[v] = job[v] /\ job[v].run = NoRun
    BY <1>1, NameAssumption DEF RegistryInv, DataOK, Do, VerdictInv, OneJudge
  <2> QED
    BY <1>4, <2>1, NameAssumption DEF Judges
<1>5. Judges(Idle)' /\ Idle.run = NoRun
  BY DEF Judges, Idle
<1> QED
  BY <1>1, <1>3, <1>4, <1>5, OneMoves

(* A written row has the columns the session changed, and exists.          *)
LEMMA WrittenRow ==
  ASSUME NEW mine \in Rows, NEW old \in Rows, NEW new \in Rows
  PROVE  /\ Merge(mine, old, new).passed = IF old.passed = new.passed THEN mine.passed ELSE new.passed
         /\ Merge(mine, old, new).report = IF old.report = new.report THEN mine.report ELSE new.report
         /\ Merge(mine, old, new).status = IF old.status = new.status THEN mine.status ELSE new.status
<1>1. DOMAIN mine = {"status", "passed", "report"}
  BY DEF Rows
<1> QED
  BY <1>1, Z3 DEF Merge, Rows

LEMMA WriteJudges ==
  ASSUME RegistryInv, VerdictInv, ~overlap, NEW w \in Workers, Write(w)
  PROVE  VerdictInv'
<1>1. /\ row \in Rows /\ job[w] \in Jobs /\ Judges(job[w]) /\ job[w].at = "write" /\ dir' = dir
      /\ Sound(job[w]) /\ row.report \in Runs \cup {NoRun}
  BY DEF RegistryInv, DataOK, VerdictInv, Write, At, disk, Rows
<1>2. job[w].seen \in Rows /\ job[w].goal \in Rows
  BY <1>1 DEF Jobs
<1>3. CASE ~Exists
  BY <1>1, <1>3, QuietRest DEF Write, Answer
<1>4. CASE Exists
  <2>1. PICK new \in Rows : new = Merge(row, job[w].seen, job[w].goal)
    BY <1>1, <1>2, Merged
  <2>2. /\ row' = new
        /\ new.passed = IF job[w].seen.passed = job[w].goal.passed THEN row.passed ELSE job[w].goal.passed
        /\ new.report = IF job[w].seen.report = job[w].goal.report THEN row.report ELSE job[w].goal.report
        /\ new.status = IF job[w].seen.status = job[w].goal.status THEN row.status ELSE job[w].goal.status
    BY <1>1, <1>2, <1>4, <2>1, WrittenRow DEF Write
  <2>3. Exists'
    BY <1>1, <1>4, <2>2 DEF Sound, Arc, Open, Exists
  <2>4. CASE job[w].run = NoRun
    <3>1. new.passed = row.passed /\ new.report = row.report /\ job[w].then = "idle"
      BY <1>1, <2>2, <2>4 DEF Judges
    <3>2. Do(w, Idle)
      BY <1>4, <3>1 DEF Write, Answer
    <3>3. Standing'
      BY <1>1, <2>2, <2>3, <3>1 DEF Standing, Stands, VerdictInv
    <3>4. ASSUME NEW v \in Workers \ {w}, Judges(job[v]) PROVE Judges(job[v])'
      <4>1. job'[v] = job[v]
        BY <3>2 DEF RegistryInv, DataOK, Do
      <4> QED
        BY <1>1, <1>4, <2>2, <2>3, <3>1, <3>4, <4>1 DEF Judges, Stands
    <3>5. Judges(Idle)' /\ Idle.run = NoRun
      BY DEF Judges, Idle
    <3> QED
      BY <3>2, <3>3, <3>4, <3>5, OneMoves
  <2>5. CASE job[w].run # NoRun
    <3>1. /\ new.passed = job[w].goal.passed /\ new.report = job[w].goal.report
          /\ Stands(job[w].goal.report, job[w].goal.passed)
          /\ job[w].then = "remove" => job[w].goal.report # job[w].run
      BY <1>1, <1>4, <2>2, <2>5 DEF Judges
    <3>2. Standing'
      BY <1>1, <2>2, <2>3, <3>1 DEF Standing, Stands
    <3>3. ASSUME NEW v \in Workers \ {w}, NEW j, Do(w, j), Judges(job[v]) PROVE Judges(job[v])'
      <4>1. job'[v] = job[v] /\ job[v].run = NoRun
        BY <2>5, <3>3 DEF RegistryInv, DataOK, Do, VerdictInv, OneJudge
      <4> QED
        BY <3>3, <4>1, NameAssumption DEF Judges
    <3>4. CASE job[w].then = "idle"
      <4>1. Do(w, Idle)
        BY <1>4, <3>4 DEF Write, Answer
      <4>2. Judges(Idle)' /\ Idle.run = NoRun
        BY DEF Judges, Idle
      <4> QED
        BY <3>2, <3>3, <4>1, <4>2, OneMoves
    <3>5. CASE job[w].then # "idle"
      <4>1. PICK j : j = [Idle EXCEPT !.at = job[w].then, !.run = job[w].run]
        OBVIOUS
      <4>2. Do(w, j)
        BY <1>4, <3>5, <4>1 DEF Write
      <4>3. j.at = "remove" /\ j.run = job[w].run /\ job[w].then = "remove"
        BY <1>1, <3>5, <4>1 DEF Idle, Jobs
      <4>4. job[w].run \in Runs
        BY <1>1, <2>5 DEF Jobs
      <4>5. Judges(j)'
        BY <2>2, <3>1, <4>3, <4>4 DEF Judges
      <4> QED
        BY <3>2, <3>3, <4>2, <4>3, <4>5, OneMoves
    <3> QED
      BY <3>4, <3>5
  <2> QED
    BY <2>4, <2>5
<1> QED
  BY <1>3, <1>4

LEMMA DropJudges ==
  ASSUME RegistryInv, VerdictInv, ~overlap, NEW w \in Workers, Drop(w)
  PROVE  VerdictInv'
<1>1. Do(w, Idle) /\ dir' = dir /\ (row' = row \/ row' = Gone)
  BY DEF Drop, disk
<1>2. CASE row' = row
  BY <1>1, <1>2, QuietRest
<1>3. CASE row' = Gone
  <2>1. row'.report = NoRun /\ ~Exists'
    BY <1>3 DEF Gone, Exists
  <2>2. Standing'
    BY <2>1 DEF Standing, Stands
  <2>3. ASSUME NEW v \in Workers \ {w}, Judges(job[v]) PROVE Judges(job[v])'
    <3>1. job'[v] = job[v]
      BY <1>1 DEF RegistryInv, DataOK, Do
    <3> QED
      BY <1>1, <2>1, <2>3, <3>1, NameAssumption DEF Judges, Stands
  <2>4. Judges(Idle)' /\ Idle.run = NoRun
    BY DEF Judges, Idle
  <2> QED
    BY <1>1, <2>2, <2>3, <2>4, OneMoves
<1> QED
  BY <1>1, <1>2, <1>3

LEMMA ServeJudges ==
  ASSUME RegistryInv, VerdictInv, ~overlap, NEW w \in Workers, Serve(w)
  PROVE  VerdictInv'
<1>1. CASE Insert(w)
  BY <1>1, QuietRest DEF Insert, Answer, disk
<1> QED
  BY <1>1, CollectJudges, UpdateJudges, ListJudges, SwitchJudges, RemoveJudges, WriteJudges,
     DropJudges DEF Serve

(* A runner writes only where there is no result yet.                      *)
LEMMA RunnerJudges ==
  ASSUME RegistryInv, VerdictInv, ~overlap, NEW r \in Runs, Result(r) \/ Stop(r)
  PROVE  VerdictInv'
<1>1. /\ UNCHANGED <<row, job>> /\ row.report \in Runs \cup {NoRun}
      /\ \A s \in Runs : dir[s] \in Results => dir'[s] = dir[s]
  BY DEF Result, Stop, RegistryInv, DataOK, Rows, Results
<1>2. Standing' /\ OneJudge'
  BY <1>1 DEF Standing, Stands, Exists, OneJudge, VerdictInv
<1>3. ASSUME NEW w \in Workers PROVE Judges(job[w])'
  <2>1. Judges(job[w]) /\ job[w] \in Jobs
    BY DEF VerdictInv, RegistryInv, DataOK
  <2>2. /\ job[w].run \in Runs \cup {NoRun} /\ job[w].to \in Runs \cup {NoRun}
        /\ job[w].goal.report \in Runs \cup {NoRun}
    BY <2>1 DEF Jobs, Rows
  <2>3. \A s \in Runs \cup {NoRun}, p \in BOOLEAN : Stands(s, p) => Stands(s, p)'
    BY <1>1 DEF Stands
  <2>4. job[w].goal.passed \in BOOLEAN
    BY <2>1 DEF Jobs, Rows
  <2> QED
    BY <1>1, <2>1, <2>2, <2>3, <2>4 DEF Judges, Exists
<1> QED
  BY <1>2, <1>3 DEF VerdictInv

LEMMA VerdictStep ==
  ASSUME RegistryInv, VerdictInv, [Next]_vars
  PROVE  VerdictInv'
<1> SUFFICES ASSUME ~overlap' PROVE VerdictInv'
  BY DEF VerdictInv
<1>1. ~overlap
  BY Zenon DEF Next, Ask, Gates, Publish, Archive, DeleteRun, Delete, Cascade, Use, Concurs,
     Serve, Collect, UpdateGates, Write, List, Switch, Remove, Drop, Insert, Result, Stop,
     EndUse, Forget, Crash, vars
<1>2. ASSUME EndUse \/ Forget \/ UNCHANGED vars PROVE VerdictInv'
  BY <1>1, <1>2 DEF EndUse, Forget, vars, disk, VerdictInv, OneJudge, Standing, Stands, Exists, Judges
<1>3. ASSUME Crash PROVE VerdictInv'
  <2>1. UNCHANGED <<row, dir>> /\ job' = [w \in Workers |-> Idle]
    BY <1>3 DEF Crash, disk
  <2>2. Standing'
    BY <1>1, <2>1 DEF VerdictInv, Standing, Stands, Exists
  <2>3. OneJudge' /\ \A w \in Workers : Judges(job[w])'
    BY <2>1 DEF OneJudge, Judges, Idle
  <2> QED
    BY <2>2, <2>3 DEF VerdictInv
<1> QED
  BY <1>1, <1>2, <1>3, AskJudges, ServeJudges, RunnerJudges DEF Next

(* The verdict in the row is that of a report that is there, unless two    *)
(* requests about gate runs have run side by side.                         *)
THEOREM Verdicts == Spec => []VerdictOfItsReport
<1>1. Init => VerdictInv
  <2> SUFFICES ASSUME Init PROVE OneJudge /\ Standing /\ \A w \in Workers : Judges(job[w])
    BY DEF VerdictInv
  <2>1. \A w \in Workers : job[w] = Idle
    BY DEF Init
  <2> QED
    BY <2>1 DEF Init, OneJudge, Standing, Stands, Exists, Judges, Idle
<1>2. RegistryInv /\ VerdictInv /\ [Next]_vars => VerdictInv'
  BY VerdictStep
<1>3. RegistryInv /\ VerdictInv => VerdictOfItsReport
  <2> SUFFICES ASSUME RegistryInv, VerdictInv, ~overlap, row.report # NoRun
      PROVE dir[row.report] \in Results /\ (row.passed <=> dir[row.report] = "pass")
    BY DEF VerdictOfItsReport
  <2>1. dir[row.report] \in Results /\ (row.passed = TRUE <=> dir[row.report] = "pass")
    BY DEF VerdictInv, Standing, Stands
  <2>2. row.passed \in BOOLEAN
    BY DEF RegistryInv, DataOK, Rows
  <2> QED
    BY <2>1, <2>2
<1> QED
  BY <1>1, <1>2, <1>3, RegistryInvariant, PTL DEF Spec
=============================================================================
