------------------------- MODULE TrainingRun_proofs -------------------------
(* What the row of a training run is worth, for any number of request      *)
(* threads and of crashes of the API process.                              *)
EXTENDS TrainingRun, TLAPS

Events == {"running", "evaluating", "exporting", "verifying", "completed",
           "failed", "cancelled"}

(* Until its last event, the runner has logged the stages in their order.  *)
LogOK ==
  /\ log \in Seq(Events)
  /\ ~Closed => Len(log) <= 4 /\ \A i \in 1 .. Len(log) : log[i] = Stages[i]

(* The type invariant but for the Booleans.                                *)
DataOK ==
  /\ status \in Statuses
  /\ runner \in {"none", "zero", "nonzero", "taken"} \cup Live
  /\ LogOK
  /\ cursor \in 0 .. Len(log)
  /\ api \in {"up", "boot", "down"} /\ crashes \in 0 .. MaxCrashes
  /\ job \in [Workers -> Jobs]

LEMMA IdleJob ==
  ASSUME log \in Seq(Events) PROVE Idle \in Jobs
BY DEF Idle, Jobs, Statuses, Active

(* A thread that takes a well-formed step leaves all threads well-formed.  *)
LEMMA DoKeeps ==
  ASSUME job \in [Workers -> Jobs], NEW w \in Workers, NEW j \in Jobs, Do(w, j)
  PROVE  job' \in [Workers -> Jobs]
BY DEF Do

(* Appending an event keeps what the threads have read within the log.     *)
LEMMA AppendKeeps ==
  ASSUME DataOK, NEW e \in Events, log' = Append(log, e), UNCHANGED <<job, cursor>>
  PROVE  /\ log' \in Seq(Events) /\ cursor' \in 0 .. Len(log')
         /\ job' \in [Workers -> Jobs']
<1>1. log \in Seq(Events) /\ Len(log') = Len(log) + 1 /\ log' \in Seq(Events)
  BY DEF DataOK, LogOK
<1>2. 0 .. Len(log) \subseteq 0 .. Len(log')
  BY <1>1
<1>3. Jobs \subseteq Jobs'
  BY <1>2, Zenon DEF Jobs
<1>4. QED
  BY <1>1, <1>2, <1>3 DEF DataOK

(* The check of a transition only moves the thread that makes it.          *)
LEMMA CheckKeeps ==
  ASSUME job \in [Workers -> Jobs], status \in Statuses,
         NEW w \in Workers, NEW s \in Statuses, NEW j \in Jobs, NEW k \in Jobs,
         NEW there \in {"write", "applyWrite", "pollWrite"}, Check(w, s, j, there, k)
  PROVE  job' \in [Workers -> Jobs]
<1>1. [j EXCEPT !.at = there, !.goal = s, !.seen = status] \in Jobs
  BY DEF Jobs
<1>2. QED
  BY <1>1, DoKeeps, Zenon DEF Check

(* Each Boolean of the state is one.                                       *)
FlagsOK == {placed, made, diag, handle, asked, lost} \subseteq BOOLEAN

LEMMA FlagsCorrect == Spec => []FlagsOK
<1>1. Init => FlagsOK
  BY Zenon DEF Init, FlagsOK
<1>2. FlagsOK /\ [Next]_vars => FlagsOK'
  <2> SUFFICES ASSUME FlagsOK, [Next]_vars
               PROVE  FlagsOK'
    OBVIOUS
  <2> USE DEF Next, vars, row, files, hist, Emit, Raise, Stopped, Exit, Killed,
      Freed, Write, Start, Spawn, Started, Cancel, Await, Cancelled, Refresh, Apply,
      Persist, Look, Poll, Crash, Restart, Recovered
  <2>1. placed' \in BOOLEAN
    BY Zenon DEF FlagsOK
  <2>2. made' \in BOOLEAN
    BY Zenon DEF FlagsOK
  <2>3. diag' \in BOOLEAN
    BY Zenon DEF FlagsOK
  <2>4. handle' \in BOOLEAN
    BY Zenon DEF FlagsOK
  <2>5. asked' \in BOOLEAN
    BY Zenon DEF FlagsOK
  <2>6. lost' \in BOOLEAN
    BY Zenon DEF FlagsOK
  <2>7. QED
    BY <2>1, <2>2, <2>3, <2>4, <2>5, <2>6, Zenon DEF FlagsOK
<1>3. QED
  BY <1>1, <1>2, PTL DEF Spec

LEMMA DataCorrect == Spec => []DataOK
<1>1. Init => DataOK
  <2> SUFFICES ASSUME Init
               PROVE  DataOK
    OBVIOUS
  <2>1. LogOK
    BY DEF Init, LogOK, Events
  <2>2. job \in [Workers -> Jobs]
    BY <2>1, IdleJob DEF Init, LogOK
  <2>3. QED
    BY <2>1, <2>2, CrashAssumption DEF Init, DataOK, Statuses, Active
<1>2. FlagsOK /\ DataOK /\ [Next]_vars => DataOK'
  <2> SUFFICES ASSUME FlagsOK, DataOK, [Next]_vars
               PROVE  DataOK'
    OBVIOUS
  <2>1. Idle \in Jobs /\ log \in Seq(Events) /\ Len(log) \in Nat
    BY IdleJob DEF DataOK, LogOK
  <2>2. ASSUME UNCHANGED log
        PROVE  Jobs' = Jobs /\ LogOK'
    BY <2>2 DEF Jobs, DataOK, LogOK, Closed, Logged
  <2>3. ASSUME NEW at \in {"idle", "spawn", "started", "await", "stopped", "look"}
        PROVE  [Idle EXCEPT !.at = at] \in Jobs
    BY <2>1 DEF Idle, Jobs
  <2>4. CASE Emit
    <3>1. ~Closed /\ log' = Append(log, Stages[Len(log) + 1]) /\ Len(log) <= 4
      BY <2>4 DEF Emit, DataOK, LogOK
    <3>2. Stages[Len(log) + 1] \in Events
      BY <2>1, <3>1 DEF Stages, Events
    <3>3. log' \in Seq(Events) /\ cursor' \in 0 .. Len(log') /\ job' \in [Workers -> Jobs']
      BY <2>4, <3>2, AppendKeeps DEF Emit, files
    <3>4. ~Closed' => Len(log') <= 4 /\ \A i \in 1 .. Len(log') : log'[i] = Stages[i]
      <4>1. log' \in Seq(Events) /\ Len(log') = Len(log) + 1
            /\ log'[Len(log')] = Stages[Len(log) + 1]
            /\ \A i \in 1 .. Len(log) : log'[i] = log[i]
        BY <2>1, <3>1, <3>2
      <4>2. \A i \in 1 .. Len(log') : log'[i] = Stages[i]
        BY <2>1, <3>1, <4>1 DEF DataOK, LogOK
      <4>3. Len(log') = 5 => Closed'
        <5> SUFFICES ASSUME Len(log') = 5 PROVE Closed'
          OBVIOUS
        <5>1. log'[5] = "completed" /\ 5 \in 1 .. Len(log')
          BY <4>2 DEF Stages
        <5>2. "completed" \in Logged'
          BY <5>1, Zenon DEF Logged
        <5>3. QED
          BY <5>2, Zenon DEF Closed
      <4>4. QED
        BY <2>1, <3>1, <4>1, <4>2, <4>3
    <3>5. QED
      BY <2>4, <3>3, <3>4 DEF Emit, DataOK, LogOK, row, proc, hist
  <2>5. ASSUME Raise \/ Stopped
        PROVE  DataOK'
    <3>1. PICK e \in {"failed", "cancelled"} : log' = Append(log, e)
      BY <2>5 DEF Raise, Stopped
    <3>2. e \in Events
      BY DEF Events
    <3>3. log' \in Seq(Events) /\ cursor' \in 0 .. Len(log') /\ job' \in [Workers -> Jobs']
      BY <2>5, <3>1, <3>2, AppendKeeps DEF Raise, Stopped, files
    <3>4. Closed'
      BY <2>1, <3>1, <3>2 DEF Closed, Logged
    <3>5. QED
      BY <2>5, <3>3, <3>4 DEF Raise, Stopped, DataOK, LogOK, row, proc, hist
  <2>6. ASSUME Exit \/ Killed \/ Freed
        PROVE  DataOK'
    BY <2>2, <2>6 DEF Exit, Killed, Freed, DataOK, row, files, hist
  <2>7. ASSUME NEW w \in Workers, Start(w)
        PROVE  DataOK'
    BY <2>2, <2>3, <2>7, DoKeeps DEF Start, Go, DataOK, row, proc, hist
  <2>8. ASSUME NEW w \in Workers, Cancel(w)
        PROVE  DataOK'
    BY <2>2, <2>3, <2>8, DoKeeps DEF Cancel, Go, DataOK, row, files, Live
  <2>9. ASSUME NEW w \in Workers, Refresh(w) \/ Restart(w)
        PROVE  DataOK'
    <3>1. [Idle EXCEPT !.at = "apply", !.pos = cursor, !.upto = Len(log)] \in Jobs
      <4>1. cursor \in 0 .. Len(log) /\ Len(log) \in 0 .. Len(log)
        BY <2>1 DEF DataOK
      <4>2. QED
        BY <2>1, <4>1 DEF Jobs
    <3>2. ASSUME Gather(w)
          PROVE  job' \in [Workers -> Jobs]
      BY <2>3, <3>1, <3>2, DoKeeps DEF Gather, Go, DataOK
    <3>3. job' \in [Workers -> Jobs]
      BY <2>9, <3>2 DEF Refresh, Restart, DataOK
    <3>4. QED
      BY <2>2, <2>9, <3>3 DEF Refresh, Restart, DataOK, row, proc, files, hist
  <2>10. ASSUME NEW w \in Workers, Write(w)
        PROVE  DataOK'
    <3>1. job[w] \in Jobs
      BY DEF DataOK
    <3>2. [Idle EXCEPT !.at = "apply", !.pos = job[w].pos, !.upto = job[w].upto] \in Jobs
      BY <2>1, <3>1 DEF Idle, Jobs
    <3>3. job' \in [Workers -> Jobs]
      BY <2>1, <2>10, <3>2, DoKeeps DEF Write, DataOK
    <3>4. status' \in Statuses
      BY <2>10, <3>1 DEF Write, Jobs
    <3>5. QED
      BY <2>2, <2>10, <3>3, <3>4 DEF Write, DataOK, proc, files
  <2>11. ASSUME NEW w \in Workers, Spawn(w)
        PROVE  DataOK'
    BY <2>2, <2>3, <2>11, DoKeeps DEF Spawn, Go, DataOK, row, files, hist, Live
  <2>12. ASSUME NEW w \in Workers, Started(w) \/ Cancelled(w)
        PROVE  DataOK'
    <3>1. job' \in [Workers -> Jobs]
      BY <2>1, <2>12, CheckKeeps DEF Started, Cancelled, DataOK, Statuses, Active, Terminal
    <3>2. QED
      BY <2>2, <2>12, <3>1 DEF Started, Cancelled, DataOK, row, proc, files, hist
  <2>13. ASSUME NEW w \in Workers, Await(w)
        PROVE  DataOK'
    BY <2>2, <2>3, <2>13, DoKeeps DEF Await, Go, DataOK, row, files, hist
  <2>14. ASSUME NEW w \in Workers, Apply(w)
        PROVE  DataOK'
    <3>1. job[w] \in Jobs /\ job[w].pos + 1 \in 1 .. Len(log)
      BY <2>1, <2>14 DEF DataOK, Apply, Done, Jobs
    <3> DEFINE e == log[job[w].pos + 1]
               next == [job[w] EXCEPT !.pos = @ + 1]
    <3>2. next \in Jobs
      BY <3>1 DEF Jobs
    <3>3. e \in Statuses
      BY <2>1, <3>1 DEF Events, Statuses, Active, Terminal
    <3>4. Do(w, next) \/ Check(w, e, next, "applyWrite", next)
      BY <2>14 DEF Apply
    <3>5. job' \in [Workers -> Jobs]
      BY <3>2, <3>3, <3>4, CheckKeeps, DoKeeps DEF DataOK
    <3>6. QED
      BY <2>2, <2>14, <3>5 DEF Apply, DataOK, row, proc, hist
  <2>15. ASSUME NEW w \in Workers, Persist(w)
        PROVE  DataOK'
    <3>1. job[w] \in Jobs
      BY DEF DataOK
    <3>2. cursor' \in 0 .. Len(log)
      BY <2>15, <3>1 DEF Persist, Jobs
    <3>3. job' \in [Workers -> Jobs]
      BY <2>3, <2>15, DoKeeps DEF Persist, Go, DataOK
    <3>4. QED
      BY <2>2, <2>15, <3>2, <3>3 DEF Persist, DataOK, row, proc, hist
  <2>16. ASSUME NEW w \in Workers, Look(w)
        PROVE  DataOK'
    <3>1. [Idle EXCEPT !.at = "poll", !.has = handle, !.seen = status] \in Jobs
      <4>1. handle \in BOOLEAN
        BY Zenon DEF FlagsOK
      <4>2. QED
        BY <2>1, <4>1 DEF Idle, Jobs, DataOK, Statuses
    <3>2. job' \in [Workers -> Jobs]
      BY <2>16, <3>1, DoKeeps DEF Look, DataOK
    <3>3. QED
      BY <2>2, <2>16, <3>2 DEF Look, DataOK, row, proc, files, hist
  <2>17. ASSUME NEW w \in Workers, Poll(w)
        PROVE  DataOK'
    <3>1. job[w] \in Jobs
      BY DEF DataOK
    <3>2. job' \in [Workers -> Jobs]
      BY <2>1, <2>3, <2>17, <3>1, CheckKeeps, DoKeeps DEF Poll, Go, DataOK, Statuses, Terminal
    <3>3. QED
      BY <2>2, <2>17, <3>2 DEF Poll, DataOK, row, proc, hist
  <2>18. CASE Crash
    BY <2>1, <2>2, <2>18, CrashAssumption DEF Crash, DataOK, row, files
  <2>19. CASE Recovered
    BY <2>2, <2>19 DEF Recovered, DataOK, files, proc, hist, Statuses, Terminal
  <2>20. CASE UNCHANGED vars
    BY <2>2, <2>20 DEF vars, DataOK, row, proc, files, hist
  <2>21. QED
    BY <2>4, <2>5, <2>6, <2>7, <2>8, <2>9, <2>10, <2>11, <2>12, <2>13, <2>14, <2>15,
       <2>16, <2>17, <2>18, <2>19, <2>20 DEF Next
<1>3. QED
  BY <1>1, <1>2, FlagsCorrect, PTL DEF Spec

(* The row, the files, the log and the threads keep their types.           *)
THEOREM TypeCorrect == Spec => []TypeOK
<1>1. DataOK => log \in Seq(Statuses)
  <2>1. Events \subseteq Statuses
    BY DEF Events, Statuses, Active, Terminal
  <2>2. QED
    BY <2>1 DEF DataOK, LogOK
<1>2. DataOK /\ FlagsOK => TypeOK
  BY <1>1, Zenon DEF DataOK, FlagsOK, TypeOK
<1>3. QED
  BY <1>2, DataCorrect, FlagsCorrect, PTL

-----------------------------------------------------------------------------
(* The runner has been started and will log no further event.              *)
Over == runner \notin Live \cup {"none"} \/ Closed

(* What has to be there before a status is written, and stays there.       *)
Backed(s) ==
  /\ s \in {Stages[i] : i \in 2 .. 5} => s \in Logged
  /\ s = "failed" => diag
  /\ s = "cancelled" => asked
  /\ s \in {"completed", "failed", "interrupted"} => Over
  /\ s \notin {"queued", "cancelled"} => runner # "none"

Writing(w) == job[w].at \in {"write", "applyWrite", "pollWrite"}

(* The invariant: the row's status is backed, and so is every status that  *)
(* a thread is about to write, on the status it has read.                  *)
Threads(w) ==
  /\ Writing(w) => Backed(job[w].goal) /\ job[w].goal \in Transitions(job[w].seen)
  /\ job[w].at \in {"await", "stopped"} => asked
  /\ job[w].at = "spawn" => made /\ runner = "none"
  /\ job[w].at = "started" => runner # "none"
  /\ job[w].at = "poll" /\ (job[w].has \/ job[w].seen \in Active) => runner # "none"

RunInv ==
  /\ Backed(status)
  /\ \A w \in Workers : Threads(w)
  /\ \A v, w \in Workers : job[v].at = "spawn" /\ job[w].at = "spawn" => v = w
  /\ runner = "stopping" \/ "cancelled" \in Logged => asked
  /\ log # << >> \/ handle => runner # "none"
  /\ runner # "none" => made

(* What no step takes back.                                                *)
Forward ==
  /\ Logged \subseteq Logged'
  /\ (diag => diag') /\ (asked => asked') /\ (made => made')
  /\ Over => Over'
  /\ runner # "none" => runner' # "none"

LEMMA StepsForward ==
  ASSUME DataOK, RunInv, [Next]_vars
  PROVE  Forward
<1>1. Logged \subseteq Logged'
  <2>1. log' = log \/ \E e \in Events : log' = Append(log, e)
    <3>1. CASE Emit
      BY <3>1 DEF Emit, DataOK, LogOK, Stages, Events
    <3>2. CASE Raise \/ Stopped
      BY <3>2 DEF Raise, Stopped, Events
    <3>3. CASE ~Emit /\ ~Raise /\ ~Stopped
      BY <3>3, Zenon DEF Next, vars, proc, Exit, Killed, Freed, Write, Start, Spawn,
        Started, Cancel, Await, Cancelled, Refresh, Apply, Persist, Look, Poll, Crash,
        Restart, Recovered
    <3>4. QED
      BY <3>1, <3>2, <3>3
  <2>2. QED
    BY <2>1 DEF Logged, DataOK, LogOK
<1>2. (diag => diag') /\ (asked => asked') /\ (made => made')
  <2> USE DEF Next, vars, files, hist, Emit, Raise, Stopped, Exit, Killed, Freed, Write,
    Start, Spawn, Started, Cancel, Await, Cancelled, Refresh, Apply, Persist, Look, Poll,
    Crash, Restart, Recovered
  <2>1. diag => diag'
    BY Zenon
  <2>2. asked => asked'
    BY Zenon
  <2>3. made => made'
    BY Zenon
  <2>4. QED
    BY <2>1, <2>2, <2>3, Zenon
<1>3. runner # "none" => runner' # "none"
  BY DEF Next, vars, proc, Emit, Raise, Stopped, Exit, Killed, Freed, Write, Start, Spawn,
    Started, Cancel, Await, Cancelled, Refresh, Apply, Persist, Look, Poll, Crash, Restart,
    Recovered
<1>4. Closed => Closed'
  BY <1>1 DEF Closed
<1>5. runner \notin Live \cup {"none"} => runner' \notin Live \cup {"none"}
  <2> SUFFICES ASSUME runner \notin Live \cup {"none"}
               PROVE  runner' \notin Live \cup {"none"}
    OBVIOUS
  <2>1. ASSUME NEW w \in Workers, Spawn(w)
        PROVE  FALSE
    BY <2>1 DEF Spawn, At, RunInv, Threads
  <2>2. QED
    BY <2>1 DEF Live, Next, vars, proc, Emit, Raise, Stopped, Exit, Killed, Freed, Write,
      Start, Started, Cancel, Await, Cancelled, Refresh, Apply, Persist, Look, Poll, Crash,
      Restart, Recovered
<1>6. QED
  BY <1>1, <1>2, <1>3, <1>4, <1>5 DEF Forward, Over

(* A thread that does not move stays as it should be, unless the runner it *)
(* is about to spawn is there already.                                     *)
LEMMA Unmoved ==
  ASSUME RunInv, Forward, NEW v \in Workers, job'[v] = job[v],
         job[v].at = "spawn" => runner' = runner
  PROVE  Threads(v)'
<1>1. Threads(v)
  BY DEF RunInv
<1>2. Writing(v) => (Backed(job[v].goal))' /\ job'[v].goal \in Transitions(job'[v].seen)
  BY <1>1 DEF Threads, Writing, Backed, Forward
<1>3. QED
  BY <1>1, <1>2 DEF Threads, Writing, Forward

(* The rest of the invariant, apart from the threads and the status.       *)
RunnerInv ==
  /\ runner = "stopping" \/ "cancelled" \in Logged => asked
  /\ log # << >> \/ handle => runner # "none"
  /\ runner # "none" => made

(* Only one thread moves: it is enough to look at that one.                *)
LEMMA OneMoves ==
  ASSUME RunInv, Forward, NEW w \in Workers,
         \A v \in Workers \ {w} :
            job'[v] = job[v] /\ (job[v].at = "spawn" => runner' = runner),
         job'[w].at = "spawn" => job[w].at = "spawn" \/ ~made,
         Threads(w)', Backed(status)', RunnerInv'
  PROVE  RunInv'
<1>1. (\A v \in Workers : Threads(v))'
  BY Unmoved
<1>2. (\A u, v \in Workers : job[u].at = "spawn" /\ job[v].at = "spawn" => u = v)'
  <2>1. \A v \in Workers : job[v].at = "spawn" => made
    BY DEF RunInv, Threads
  <2>2. QED
    BY <2>1 DEF RunInv
<1>3. QED
  BY <1>1, <1>2 DEF RunInv, RunnerInv

(* No thread moves and the runner keeps away from the start.               *)
LEMMA NoneMoves ==
  ASSUME RunInv, Forward, UNCHANGED <<job, status>>, runner = "none" => runner' = "none",
         RunnerInv'
  PROVE  RunInv'
<1>1. ASSUME NEW v \in Workers
      PROVE  Threads(v)'
  <2>1. job[v].at = "spawn" => runner' = runner
    BY DEF RunInv, Threads
  <2>2. QED
    BY <2>1, Unmoved
<1>2. Backed(status)'
  BY DEF RunInv, Backed, Forward
<1>3. QED
  BY <1>1, <1>2 DEF RunInv, RunnerInv

LEMMA RunInvSteps ==
  ASSUME DataOK, FlagsOK, RunInv, [Next]_vars
  PROVE  RunInv'
<1>1. Forward
  BY StepsForward
<1>2. UNCHANGED status => Backed(status)'
  BY <1>1 DEF RunInv, Backed, Forward
<1>3. UNCHANGED <<runner, log, handle>> => RunnerInv'
  BY <1>1 DEF RunInv, RunnerInv, Logged, Forward
<1>4. ASSUME NEW w \in Workers, NEW j, Do(w, j)
      PROVE  job'[w] = j /\ \A v \in Workers \ {w} : job'[v] = job[v]
  BY <1>4 DEF Do, DataOK
<1>5. CASE Emit \/ Raise \/ Stopped \/ Exit \/ Killed \/ Freed
  <2>1. UNCHANGED <<job, status, handle>>
    BY <1>5, Zenon DEF Emit, Raise, Stopped, Exit, Killed, Freed, row, hist
  <2>2. runner # "none"
    BY <1>5 DEF Emit, Raise, Stopped, Exit, Killed, Freed, Live
  <2>3. RunnerInv'
    <3>1. runner' = "stopping" => runner = "stopping"
      BY <1>5 DEF Emit, Raise, Stopped, Exit, Killed, Freed
    <3>2. "cancelled" \in Logged' => "cancelled" \in Logged \/ runner = "stopping"
      <4>1. CASE Emit
        <5>1. Stages[Len(log) + 1] # "cancelled" /\ log \in Seq(Events)
              /\ Stages[Len(log) + 1] \in Events
          BY <4>1 DEF Emit, DataOK, LogOK, Stages, Events
        <5>2. QED
          BY <4>1, <5>1 DEF Emit, Logged
      <4>2. CASE Raise
        BY <4>2 DEF Raise, Logged, DataOK, LogOK, Events
      <4>3. CASE Stopped
        BY <4>3 DEF Stopped
      <4>4. CASE Exit \/ Killed \/ Freed
        BY <4>4 DEF Exit, Killed, Freed, Logged
      <4>5. QED
        BY <1>5, <4>1, <4>2, <4>3, <4>4
    <3>3. QED
      BY <1>1, <2>2, <3>1, <3>2 DEF RunnerInv, RunInv, Forward
  <2>4. QED
    BY <1>1, <2>1, <2>2, <2>3, NoneMoves
<1>6. ASSUME NEW w \in Workers, Start(w)
      PROVE  RunInv'
  <2>1. job'[w] = [Idle EXCEPT !.at = "spawn"] /\ \A v \in Workers \ {w} : job'[v] = job[v]
    BY <1>4, <1>6 DEF Start, Go
  <2>2. UNCHANGED <<status, runner, log, handle>> /\ ~made /\ made'
    BY <1>6, Zenon DEF Start, row, proc
  <2>3. runner = "none"
    BY <2>2 DEF RunInv
  <2>4. QED
    BY <1>1, <1>2, <1>3, <2>1, <2>2, <2>3, OneMoves DEF Threads, Writing, Idle
<1>7. ASSUME NEW w \in Workers, Spawn(w)
      PROVE  RunInv'
  <2>1. job'[w] = [Idle EXCEPT !.at = "started"] /\ \A v \in Workers \ {w} : job'[v] = job[v]
    BY <1>4, <1>7 DEF Spawn, Go
  <2>2. UNCHANGED <<status, log, made>> /\ job[w].at = "spawn" /\ runner' = "alive"
    BY <1>7, Zenon DEF Spawn, At, row, files
  <2>3. made /\ (\A v \in Workers \ {w} : job[v].at # "spawn")
    BY <2>2 DEF RunInv, Threads
  <2>4. RunnerInv'
    <3>1. Logged' = Logged
      BY <2>2 DEF Logged
    <3>2. QED
      BY <1>1, <2>2, <2>3, <3>1 DEF RunInv, RunnerInv, Forward
  <2>5. QED
    BY <1>1, <1>2, <2>1, <2>2, <2>3, <2>4, OneMoves DEF Threads, Writing, Idle
<1>8. ASSUME NEW w \in Workers, Cancel(w)
      PROVE  RunInv'
  <2>1. PICK at \in {"idle", "await", "stopped"} : Go(w, at)
    BY <1>8 DEF Cancel
  <2>2. job'[w] = [Idle EXCEPT !.at = at] /\ \A v \in Workers \ {w} : job'[v] = job[v]
    BY <1>4, <2>1 DEF Go
  <2>3. UNCHANGED <<status, log, handle, made>> /\ asked'
    BY <1>8, Zenon DEF Cancel, row, files
  <2>4. runner = "none" => runner' = "none"
    BY <1>8 DEF Cancel, Live
  <2>5. RunnerInv'
    BY <1>1, <2>3, <2>4 DEF RunInv, RunnerInv, Forward
  <2>6. \A v \in Workers : job[v].at = "spawn" => runner' = runner
    BY <2>4 DEF RunInv, Threads
  <2>7. QED
    BY <1>1, <1>2, <2>2, <2>3, <2>5, <2>6, OneMoves DEF Threads, Writing, Idle
<1>9. ASSUME NEW w \in Workers, Await(w)
      PROVE  RunInv'
  <2>1. job'[w] = [Idle EXCEPT !.at = "stopped"] /\ \A v \in Workers \ {w} : job'[v] = job[v]
    BY <1>4, <1>9 DEF Await, Go
  <2>2. UNCHANGED <<status, log, handle, made>> /\ job[w].at = "await"
        /\ runner' = IF runner \in Live THEN "nonzero" ELSE runner
    BY <1>9, Zenon DEF Await, At, row, files
  <2>3. asked'
    BY <1>1, <2>2 DEF RunInv, Threads, Forward
  <2>4. runner = "none" => runner' = "none"
    BY <2>2 DEF Live
  <2>5. RunnerInv'
    BY <1>1, <2>2, <2>3, <2>4 DEF RunInv, RunnerInv, Forward
  <2>6. \A v \in Workers : job[v].at = "spawn" => runner' = runner
    BY <2>4 DEF RunInv, Threads
  <2>7. QED
    BY <1>1, <1>2, <2>1, <2>2, <2>3, <2>5, <2>6, OneMoves DEF Threads, Writing, Idle
<1>10. ASSUME NEW w \in Workers, Refresh(w)
       PROVE  RunInv'
  <2>1. PICK j : Do(w, j) /\ j.at \in {"apply", "look"}
    <3>1. [Idle EXCEPT !.at = "apply", !.pos = cursor, !.upto = Len(log)].at = "apply"
          /\ [Idle EXCEPT !.at = "look"].at = "look"
      BY DEF Idle
    <3>2. QED
      BY <1>10, <3>1 DEF Refresh, Gather, Go
  <2>2. job'[w] = j /\ \A v \in Workers \ {w} : job'[v] = job[v]
    BY <1>4, <2>1
  <2>3. UNCHANGED <<status, log, handle, runner>>
    BY <1>10, Zenon DEF Refresh, row, proc
  <2>4. QED
    BY <1>1, <1>2, <1>3, <2>1, <2>2, <2>3, OneMoves DEF Threads, Writing
<1>11. ASSUME NEW w \in Workers, Persist(w)
       PROVE  RunInv'
  <2>1. job'[w] = [Idle EXCEPT !.at = "look"] /\ \A v \in Workers \ {w} : job'[v] = job[v]
    BY <1>4, <1>11 DEF Persist, Go
  <2>2. UNCHANGED <<status, log, handle, runner>>
    BY <1>11, Zenon DEF Persist, row, proc
  <2>3. QED
    BY <1>1, <1>2, <1>3, <2>1, <2>2, OneMoves DEF Threads, Writing, Idle
<1>12. ASSUME NEW w \in Workers, Look(w)
       PROVE  RunInv'
  <2>1. /\ job'[w] = [Idle EXCEPT !.at = "poll", !.has = handle, !.seen = status]
        /\ \A v \in Workers \ {w} : job'[v] = job[v]
    BY <1>4, <1>12 DEF Look
  <2>2. UNCHANGED <<status, log, handle, runner>>
    BY <1>12, Zenon DEF Look, row, proc
  <2>3. job'[w].at = "poll" /\ job'[w].has = handle /\ job'[w].seen = status
    BY <2>1 DEF Idle
  <2>4. handle \/ status \in Active => runner # "none"
    BY DEF RunInv, Backed, Active
  <2>5. Threads(w)'
    BY <2>2, <2>3, <2>4 DEF Threads, Writing
  <2>6. QED
    BY <1>1, <1>2, <1>3, <2>1, <2>2, <2>3, <2>5, OneMoves
<1>13. ASSUME NEW w \in Workers, Started(w) \/ Cancelled(w)
       PROVE  RunInv'
  <2>1. UNCHANGED <<status, log, handle, runner>>
    BY <1>13, Zenon DEF Started, Cancelled, row, proc
  <2>2. PICK s \in {"running", "cancelled"} : Check(w, s, Idle, "write", Idle)
        /\ Backed(s)
    BY <1>13 DEF Started, Cancelled, At, RunInv, Threads, Backed, Stages
  <2>3. Backed(s)'
    BY <1>1, <2>2 DEF Backed, Forward
  <2>4. PICK j : Do(w, j) /\ (j = Idle \/ (s \in Transitions(status)
                   /\ j = [Idle EXCEPT !.at = "write", !.goal = s, !.seen = status]))
    BY <2>2 DEF Check
  <2>5. job'[w] = j /\ \A v \in Workers \ {w} : job'[v] = job[v]
    BY <1>4, <2>4
  <2>6. Threads(w)' /\ job'[w].at # "spawn"
    <3>1. CASE j = Idle
      BY <2>5, <3>1 DEF Threads, Writing, Idle
    <3>2. CASE j # Idle
      <4>1. j.at = "write" /\ j.goal = s /\ j.seen = status /\ s \in Transitions(status)
        BY <2>4, <3>2 DEF Idle
      <4>2. QED
        BY <2>3, <2>5, <4>1 DEF Threads, Writing, Backed
    <3>3. QED
      BY <3>1, <3>2
  <2>7. QED
    BY <1>1, <1>2, <1>3, <2>1, <2>5, <2>6, OneMoves
<1>14. ASSUME NEW w \in Workers, Write(w)
       PROVE  RunInv'
  <2>1. /\ Writing(w) /\ status' = job[w].goal /\ UNCHANGED <<runner, log>>
        /\ handle' => handle
    BY <1>14, Zenon DEF Write, At, Writing, proc
  <2>2. PICK j : Do(w, j) /\ j.at \in {"idle", "apply"}
    <3>1. [Idle EXCEPT !.at = "apply", !.pos = job[w].pos, !.upto = job[w].upto].at = "apply"
          /\ Idle.at = "idle"
      BY DEF Idle
    <3>2. QED
      BY <1>14, <3>1 DEF Write
  <2>3. job'[w] = j /\ \A v \in Workers \ {w} : job'[v] = job[v]
    BY <1>4, <2>2
  <2>4. Backed(status)'
    <3>1. Backed(job[w].goal)
      BY <2>1 DEF RunInv, Threads
    <3>2. QED
      BY <1>1, <2>1, <3>1 DEF Backed, Forward
  <2>5. RunnerInv'
    BY <1>1, <2>1 DEF RunInv, RunnerInv, Logged, Forward
  <2>6. QED
    BY <1>1, <2>1, <2>2, <2>3, <2>4, <2>5, OneMoves DEF Threads, Writing
<1>15. ASSUME NEW w \in Workers, Apply(w)
       PROVE  RunInv'
  <2>1. UNCHANGED <<status, log, handle, runner>>
    BY <1>15, Zenon DEF Apply, row, proc
  <2>2. job[w] \in Jobs /\ job[w].pos + 1 \in 1 .. Len(log) /\ log \in Seq(Events)
        /\ log # << >>
    BY <1>15 DEF DataOK, LogOK, Apply, Done, Jobs
  <2> DEFINE next == [job[w] EXCEPT !.pos = @ + 1]
  <2>3. PICK e \in Events : e = log[job[w].pos + 1] /\ e \in Logged
    BY <2>2 DEF Logged
  <2>4. next.at = "apply"
    BY <1>15, <2>2 DEF Apply, At, Jobs
  <2>5. Do(w, next) \/ (Check(w, e, next, "applyWrite", next) /\ (e = "failed" => diag'))
    BY <1>15, <2>3, Zenon DEF Apply
  <2>6. PICK j : Do(w, j) /\ (j = next \/ (e \in Transitions(status) /\ (e = "failed" => diag')
                   /\ j = [next EXCEPT !.at = "applyWrite", !.goal = e, !.seen = status]))
    BY <2>5 DEF Check
  <2>7. job'[w] = j /\ \A v \in Workers \ {w} : job'[v] = job[v]
    BY <1>4, <2>6
  <2>8. Threads(w)' /\ job'[w].at # "spawn"
    <3>1. CASE j = next
      BY <2>4, <2>7, <3>1 DEF Threads, Writing
    <3>2. CASE j # next
      <4>1. /\ j.at = "applyWrite" /\ j.goal = e /\ j.seen = status
            /\ e \in Transitions(status) /\ (e = "failed" => diag')
        BY <2>2, <2>6, <3>2 DEF Jobs
      <4>2. /\ e = "cancelled" => asked'
            /\ runner # "none" /\ e # "interrupted" /\ e \in Logged'
            /\ e \in {"completed", "failed"} => Over'
        BY <1>1, <2>1, <2>2, <2>3 DEF RunInv, Forward, Over, Closed, Logged, Events
      <4>3. Backed(e)'
        BY <1>1, <4>1, <4>2 DEF Backed, Forward
      <4>4. QED
        BY <2>7, <4>1, <4>3 DEF Threads, Writing
    <3>3. QED
      BY <3>1, <3>2
  <2>9. QED
    BY <1>1, <1>2, <1>3, <2>1, <2>7, <2>8, OneMoves
<1>16. ASSUME NEW w \in Workers, Poll(w)
       PROVE  RunInv'
  <2>1. /\ UNCHANGED <<status, log, runner>> /\ job[w].at = "poll"
        /\ handle' => handle
    <3>1. UNCHANGED <<status, log, runner>> /\ job[w].at = "poll"
      BY <1>16, Zenon DEF Poll, At, row, proc
    <3>2. handle' => handle
      BY <1>16, Zenon DEF Poll
    <3>3. QED
      BY <3>1, <3>2, Zenon
  <2>2. RunnerInv'
    BY <1>1, <2>1 DEF RunInv, RunnerInv, Logged, Forward
  <2>3. ASSUME Go(w, "idle")
        PROVE  RunInv'
    <3>1. job'[w] = [Idle EXCEPT !.at = "idle"] /\ \A v \in Workers \ {w} : job'[v] = job[v]
      BY <1>4, <2>3 DEF Go
    <3>2. QED
      BY <1>1, <1>2, <2>1, <2>2, <3>1, OneMoves DEF Threads, Writing, Idle
  <2>4. ASSUME NEW s \in {"failed", "interrupted"}, s = "failed" => diag',
               Check(w, s, job[w], "pollWrite", Idle), job[w].has \/ job[w].seen \in Active,
               runner \notin Live
        PROVE  RunInv'
    <3>1. runner # "none"
      BY <2>1, <2>4 DEF RunInv, Threads
    <3>2. Backed(s)'
      BY <1>1, <2>1, <2>4, <3>1 DEF Backed, Over, Stages
    <3>3. PICK j : Do(w, j) /\ (j = Idle \/ (s \in Transitions(status)
                     /\ j = [job[w] EXCEPT !.at = "pollWrite", !.goal = s, !.seen = status]))
      BY <2>4 DEF Check
    <3>4. job'[w] = j /\ \A v \in Workers \ {w} : job'[v] = job[v]
      BY <1>4, <3>3
    <3>5. Threads(w)' /\ job'[w].at # "spawn"
      <4>1. CASE j = Idle
        BY <3>4, <4>1 DEF Threads, Writing, Idle
      <4>2. CASE j # Idle
        <5>1. j.at = "pollWrite" /\ j.goal = s /\ j.seen = status /\ s \in Transitions(status)
          BY <3>3, <4>2 DEF DataOK, Jobs
        <5>2. QED
          BY <3>2, <3>4, <5>1 DEF Threads, Writing
      <4>3. QED
        BY <4>1, <4>2
    <3>6. QED
      BY <1>1, <1>2, <2>1, <2>2, <3>4, <3>5, OneMoves
  <2>5. QED
    <3>1. CASE Broken(w)
      BY <1>16, <2>3, <2>4, <3>1 DEF Poll, Broken, Vanished
    <3>2. CASE Vanished(w)
      BY <1>16, <2>3, <2>4, <3>2 DEF Poll, Broken, Vanished, PidAlive
    <3>3. CASE ~Broken(w) /\ ~Vanished(w)
      BY <1>16, <2>3, <3>3, Zenon DEF Poll
    <3>4. QED
      BY <3>1, <3>2, <3>3
<1>17. CASE Crash
  <2>1. /\ UNCHANGED <<status, log, made, asked>> /\ ~handle'
        /\ job' = [w \in Workers |-> Idle]
    BY <1>17, Zenon DEF Crash, row, files
  <2>2. runner' = runner \/ (runner # "none" /\ runner' \in {"nonzero", "taken"})
    BY <1>17 DEF Crash, Live
  <2>3. RunnerInv'
    BY <1>1, <2>1, <2>2 DEF RunInv, RunnerInv, Logged, Forward
  <2>4. \A w \in Workers : Threads(w)' /\ job'[w].at = "idle"
    BY <2>1 DEF Threads, Writing, Idle
  <2>5. QED
    BY <1>2, <2>1, <2>3, <2>4 DEF RunInv, RunnerInv
<1>18. ASSUME NEW w \in Workers, Restart(w)
       PROVE  RunInv'
  <2>1. UNCHANGED <<status, runner, log, handle>>
    BY <1>18, Zenon DEF Restart, row, proc
  <2>2. CASE job' = job
    BY <1>1, <1>3, <2>1, <2>2, NoneMoves
  <2>3. CASE Gather(w)
    <3>1. [Idle EXCEPT !.at = "apply", !.pos = cursor, !.upto = Len(log)].at = "apply"
          /\ [Idle EXCEPT !.at = "look"].at = "look"
      BY DEF Idle
    <3>2. PICK j : Do(w, j) /\ j.at \in {"apply", "look"}
      BY <2>3, <3>1 DEF Gather, Go
    <3>3. job'[w] = j /\ \A v \in Workers \ {w} : job'[v] = job[v]
      BY <1>4, <3>2
    <3>4. QED
      BY <1>1, <1>2, <1>3, <2>1, <3>2, <3>3, OneMoves DEF Threads, Writing
  <2>4. QED
    BY <1>18, <2>2, <2>3 DEF Restart
<1>19. CASE Recovered
  <2>1. UNCHANGED <<runner, log, handle, job>>
        /\ status' = IF status \in Active /\ ~PidAlive THEN "interrupted" ELSE status
    BY <1>19, Zenon DEF Recovered, proc
  <2>2. Backed(status)'
    <3>1. CASE status' = status
      BY <1>2, <3>1
    <3>2. CASE status' = "interrupted" /\ status \in Active /\ ~PidAlive
      BY <2>1, <3>2 DEF Backed, Over, Stages, PidAlive, Active, RunInv
    <3>3. QED
      BY <2>1, <3>1, <3>2
  <2>3. \A w \in Workers : Threads(w)'
    BY <1>1, <2>1, Unmoved
  <2>4. QED
    BY <1>1, <1>3, <2>1, <2>2, <2>3 DEF RunInv, RunnerInv
<1>20. CASE UNCHANGED vars
  BY <1>1, <1>3, <1>20, NoneMoves DEF vars, row, proc
<1>21. QED
  BY <1>5, <1>6, <1>7, <1>8, <1>9, <1>10, <1>11, <1>12, <1>13, <1>14, <1>15, <1>16, <1>17,
     <1>18, <1>19, <1>20 DEF Next

THEOREM RunInvariant == Spec => []RunInv
<1>1. Init => RunInv
  <2> SUFFICES ASSUME Init
               PROVE  RunInv
    OBVIOUS
  <2>1. status = "queued" /\ runner = "none" /\ log = << >> /\ ~handle
        /\ \A w \in Workers : job[w].at = "idle"
    BY DEF Init, Idle
  <2>2. Backed(status)
    BY <2>1 DEF Backed, Stages
  <2>3. Logged = {}
    BY <2>1 DEF Logged
  <2>4. QED
    BY <2>1, <2>2, <2>3 DEF RunInv, Threads, Writing
<1>2. DataOK /\ FlagsOK /\ RunInv /\ [Next]_vars => RunInv'
  BY RunInvSteps
<1>3. QED
  BY <1>1, <1>2, DataCorrect, FlagsCorrect, PTL DEF Spec

(* What the row says of the run is true of it: the stage was logged, the   *)
(* failure has its diagnosis, the cancellation was asked for.              *)
THEOREM Backing == Spec => []StatusBacked
<1>1. RunInv => StatusBacked
  BY DEF RunInv, Backed, StatusBacked
<1>2. QED
  BY <1>1, RunInvariant, PTL

(* A run that ended by itself has no runner at work.                       *)
THEOREM NoGhost == Spec => []NoGhostRunner
<1>1. RunInv => NoGhostRunner
  BY DEF RunInv, Backed, Over, NoGhostRunner
<1>2. QED
  BY <1>1, RunInvariant, PTL

(* Every transition the table allows is a move of the board.               *)
LEMMA LegalMoves ==
  ASSUME NEW s \in Statuses, NEW g \in Transitions(s),
         ~lost, ~lost', status = s, status' = g
  PROVE  RunBoard!Next
<1>1. Len(Stages) = 5 /\ Stages[1] = "running" /\ Stages[2] = "evaluating"
      /\ Stages[3] = "exporting" /\ Stages[4] = "verifying" /\ Stages[5] = "completed"
  BY DEF Stages
<1>2. Active \subseteq RunBoard!Underway
  <2>1. ASSUME NEW i \in {1, 2, 3, 4}
        PROVE  Stages[i] \in RunBoard!Underway
    BY <1>1 DEF RunBoard!Underway
  <2>2. QED
    BY <1>1, <2>1 DEF Active
<1>3. CASE s = "queued"
  BY <1>1, <1>3 DEF Transitions, RunBoard!Next, RunBoard!Start, RunBoard!Cancel, RunBoard!Move
<1>4. CASE g \in {"failed", "interrupted"} /\ s # "queued"
  <2>1. s \in Active
    BY <1>4 DEF Statuses, Transitions, Active, Terminal
  <2>2. QED
    BY <1>2, <1>4, <2>1
    DEF RunBoard!Next, RunBoard!Fail, RunBoard!Interrupt, RunBoard!Move
<1>5. CASE s = "running" /\ g = "cancelled"
  BY <1>1, <1>5 DEF RunBoard!Next, RunBoard!Cancel, RunBoard!Move
<1>6. CASE s # "queued" /\ g \notin {"failed", "interrupted", "cancelled"}
  <2>1. PICK i \in {1, 2, 3, 4} : s = Stages[i] /\ g = Stages[i + 1]
    BY <1>1, <1>6 DEF Statuses, Transitions, Active, Terminal
  <2>2. i \in 1 .. Len(Stages) - 1
    BY <1>1
  <2>3. RunBoard!Move({Stages[i]}, Stages[i + 1])
    BY <2>1 DEF RunBoard!Move
  <2>4. QED
    BY <2>2, <2>3 DEF RunBoard!Next, RunBoard!Advance
<1>7. QED
  BY <1>3, <1>4, <1>5, <1>6 DEF Statuses, Transitions, Active, Terminal

(* A run implements its board: what a client sees of it goes through the   *)
(* stages in order and ends once, whatever requests and crashes overlap,   *)
(* until a write replaces a status its request has not read.               *)
THEOREM ImplementsBoard == Spec => KeepsBoard
<1> DEFINE Board == IF lost THEN "overwritten" ELSE status
<1>1. Init => RunBoard!Init
  BY DEF Init, RunBoard!Init
<1>2. DataOK /\ RunInv /\ [Next]_vars => [RunBoard!Next]_Board
  <2> SUFFICES ASSUME DataOK, RunInv, [Next]_vars, Board' # Board
               PROVE  RunBoard!Next
    OBVIOUS
  <2>1. ASSUME NEW w \in Workers, Write(w)
        PROVE  RunBoard!Next
    <3>1. Writing(w) /\ status' = job[w].goal
      BY <2>1, Zenon DEF Write, At, Writing
    <3>2. CASE lost'
      BY <3>2 DEF RunBoard!Next, RunBoard!Overwrite
    <3>3. CASE ~lost'
      <4>1. ~lost /\ status = job[w].seen
        BY <2>1, <3>3, Zenon DEF Write
      <4>2. status \in Statuses /\ status' \in Transitions(status)
        BY <3>1, <4>1 DEF DataOK, RunInv, Threads
      <4>3. QED
        BY <3>3, <4>1, <4>2, LegalMoves
    <3>4. QED
      BY <3>2, <3>3
  <2>2. ASSUME Recovered
        PROVE  RunBoard!Next
    <3>1. UNCHANGED lost
      BY <2>2, Zenon DEF Recovered, hist
    <3>2. ~lost /\ ~lost' /\ status' = "interrupted" /\ status \in Active
      BY <2>2, <3>1 DEF Recovered
    <3>3. "interrupted" \in Transitions(status) /\ status \in Statuses
      BY <3>2 DEF Transitions, Active, Statuses
    <3>4. QED
      BY <3>2, <3>3, LegalMoves
  <2>3. ASSUME UNCHANGED <<status, lost>>
        PROVE  FALSE
    BY <2>3
  <2>4. QED
    BY <2>1, <2>2, <2>3, Zenon DEF Next, vars, row, hist, Emit, Raise, Stopped, Exit, Killed,
      Freed, Start, Spawn, Started, Cancel, Await, Cancelled, Refresh, Apply, Persist, Look,
      Poll, Crash, Restart
<1>3. QED
  BY <1>1, <1>2, DataCorrect, RunInvariant, PTL DEF Spec, KeepsBoard, RunBoard!Spec

-----------------------------------------------------------------------------
(* The runner logs its stages in order; only the last event may be another *)
LogShape ==
  /\ Len(log) <= 5
  /\ \A i \in 1 .. Len(log) :
       \/ log[i] = Stages[i]
       \/ i = Len(log) /\ log[i] \in {"failed", "cancelled"}

(* An event that the row has gone through, or will never take.             *)
Passed(e, s) ==
  \/ e = "cancelled"
  \/ \E j, k \in 1 .. 4 : j <= k /\ e = Stages[j] /\ s = Stages[k]

(* A refresh has taken the events before its position, the last of them    *)
(* perhaps as the status it is about to write.                             *)
Taken(w) ==
  job[w].at \in {"apply", "applyWrite"} =>
    /\ placed
    /\ ~lost /\ status \notin Terminal =>
         \A i \in 1 .. job[w].pos :
           \/ Passed(log[i], status)
           \/ job[w].at = "applyWrite" /\ i = job[w].pos /\ log[i] = job[w].goal

CursorInv ==
  /\ placed => status # "queued"
  /\ ~lost /\ status \notin Terminal => \A i \in 1 .. cursor : Passed(log[i], status)
  /\ \A w \in Workers : Taken(w)

LEMMA ShapeCorrect == Spec => []LogShape
<1>1. Init => LogShape
  BY DEF Init, LogShape
<1>2. DataOK /\ LogShape /\ [Next]_vars => LogShape'
  <2> SUFFICES ASSUME DataOK, LogShape, [Next]_vars
               PROVE  LogShape'
    OBVIOUS
  <2>1. log \in Seq(Events) /\ Len(log) \in Nat
    BY DEF DataOK, LogOK
  <2>2. ASSUME Emit \/ Raise \/ Stopped
        PROVE  LogShape'
    <3>1. Len(log) <= 4 /\ \A i \in 1 .. Len(log) : log[i] = Stages[i]
      BY <2>2 DEF Emit, Raise, Stopped, DataOK, LogOK
    <3>2. PICK e \in Events : /\ log' = Append(log, e)
                              /\ e \in {"failed", "cancelled"} \/ e = Stages[Len(log) + 1]
      BY <2>1, <2>2, <3>1 DEF Emit, Raise, Stopped, Events, Stages
    <3>3. /\ Len(log') = Len(log) + 1 /\ log'[Len(log')] = e
          /\ \A i \in 1 .. Len(log) : log'[i] = log[i]
      <4>1. log' = Append(log, e) /\ e \in Events
        BY <3>2
      <4>2. QED
        BY <2>1, <4>1
    <3>4. QED
      BY <2>1, <3>1, <3>2, <3>3 DEF LogShape
  <2>3. ASSUME ~Emit, ~Raise, ~Stopped
        PROVE  log' = log
    BY <2>3, Zenon DEF Next, vars, proc, Exit, Killed, Freed, Write, Start, Spawn,
      Started, Cancel, Await, Cancelled, Refresh, Apply, Persist, Look, Poll, Crash,
      Restart, Recovered
  <2>4. QED
    BY <2>2, <2>3 DEF LogShape
<1>3. QED
  BY <1>1, <1>2, DataCorrect, PTL DEF Spec

(* A legal transition takes a row past every event it was past before, and *)
(* past the event it records.                                              *)
LEMMA PassedOn ==
  ASSUME NEW s \in Statuses, NEW g \in Transitions(s) \ Terminal
  PROVE  /\ \A e : Passed(e, s) => Passed(e, g)
         /\ Passed(g, g) /\ s \notin Terminal /\ g # "queued"
BY DEF Statuses, Active, Terminal, Transitions, Passed, Stages

(* An event that the row does not take although it has taken all before it *)
(* is behind the row.                                                      *)
LEMMA SkippedIsPassed ==
  ASSUME DataOK, LogShape, status \notin Terminal, status # "queued",
         NEW p \in 0 .. 4, p + 1 \in 1 .. Len(log),
         \A i \in 1 .. p : Passed(log[i], status),
         log[p + 1] \in {status, "running"} \/ log[p + 1] \notin Transitions(status)
  PROVE  Passed(log[p + 1], status)
<1>1. PICK k \in 1 .. 4 : status = Stages[k]
  BY DEF DataOK, Statuses, Active, Stages
<1>2. log \in Seq(Events) /\ log[p + 1] \in Events
  BY DEF DataOK, LogOK
<1>3. CASE log[p + 1] \in {status, "running", "failed", "cancelled"}
  BY <1>1, <1>3 DEF Passed, Stages, Transitions
<1>4. CASE log[p + 1] \notin {status, "running", "failed", "cancelled"}
  <2>1. p \in 1 .. 4 /\ log[p + 1] = Stages[p + 1] /\ log[p] = Stages[p]
    BY <1>2, <1>4 DEF LogShape, Stages
  <2>2. Passed(Stages[p], status)
    BY <2>1
  <2>3. p <= k
    BY <1>1, <2>1, <2>2 DEF Passed, Stages
  <2>4. p # k
    BY <1>1, <1>4, <2>1 DEF Transitions, Stages
  <2>5. QED
    BY <1>1, <2>1, <2>3, <2>4 DEF Passed
<1>5. QED
  BY <1>3, <1>4

(* Most steps leave the row, the log and the cursor alone, and whoever     *)
(* moves is not among the threads that have events to apply.               *)
LEMMA CursorKept ==
  ASSUME CursorInv, UNCHANGED <<row, log, cursor, lost>>,
         \A w \in Workers : job'[w] = job[w] \/ job'[w].at \notin {"apply", "applyWrite"}
  PROVE  CursorInv'
<1>1. ASSUME NEW w \in Workers
      PROVE  Taken(w)'
  BY DEF CursorInv, Taken, row
<1>2. QED
  BY <1>1 DEF CursorInv, row

LEMMA CursorSteps ==
  ASSUME DataOK, FlagsOK, LogShape, RunInv, CursorInv, [Next]_vars
  PROVE  CursorInv'
<1>1. ASSUME NEW w \in Workers, NEW j, Do(w, j)
      PROVE  job'[w] = j /\ \A v \in Workers \ {w} : job'[v] = job[v]
  BY <1>1 DEF Do, DataOK
<1>2. log \in Seq(Events) /\ Len(log) \in Nat /\ cursor \in 0 .. Len(log)
  BY DEF DataOK, LogOK
<1>3. CASE Emit \/ Raise \/ Stopped
  <2>1. UNCHANGED <<status, placed, job, cursor, lost>>
    BY <1>3, Zenon DEF Emit, Raise, Stopped, row, files, hist
  <2>2. \A i \in 1 .. Len(log) : log'[i] = log[i]
    <3>1. PICK e : log' = Append(log, e)
      BY <1>3 DEF Emit, Raise, Stopped
    <3>2. QED
      BY <1>2, <3>1
  <2>3. ASSUME NEW w \in Workers
        PROVE  Taken(w)'
    <3>1. job[w].pos \in 0 .. Len(log)
      BY DEF DataOK, Jobs
    <3>2. QED
      BY <1>2, <2>1, <2>2, <3>1 DEF CursorInv, Taken
  <2>4. QED
    BY <1>2, <2>1, <2>2, <2>3 DEF CursorInv
<1>4. CASE Exit \/ Killed \/ Freed
  BY <1>4, CursorKept DEF Exit, Killed, Freed, files, hist
<1>5. CASE Crash
  BY <1>5, CursorKept DEF Crash, Idle, files
<1>6. CASE UNCHANGED vars
  BY <1>6, CursorKept DEF vars, proc, files, hist
<1>7. ASSUME NEW w \in Workers,
             Start(w) \/ Spawn(w) \/ Started(w) \/ Cancel(w) \/ Await(w) \/ Cancelled(w)
               \/ Look(w) \/ Poll(w)
      PROVE  CursorInv'
  <2>1. UNCHANGED <<row, log, cursor, lost>>
    BY <1>7, Zenon DEF Start, Spawn, Started, Cancel, Await, Cancelled, Look, Poll, proc,
      files, hist
  <2>2. PICK j : Do(w, j) /\ j.at \notin {"apply", "applyWrite"}
    <3>1. ASSUME NEW at \in {"idle", "spawn", "started", "await", "stopped"}, Go(w, at)
          PROVE  \E j : Do(w, j) /\ j.at \notin {"apply", "applyWrite"}
      <4>1. [Idle EXCEPT !.at = at].at = at
        BY DEF Idle
      <4>2. QED
        BY <3>1, <4>1 DEF Go
    <3>2. ASSUME NEW s, NEW at \in {"write", "pollWrite"}, NEW k \in Jobs, Check(w, s, k, at, Idle)
          PROVE  \E j : Do(w, j) /\ j.at \notin {"apply", "applyWrite"}
      <4>1. [k EXCEPT !.at = at, !.goal = s, !.seen = status].at = at /\ Idle.at = "idle"
        BY DEF Idle, Jobs
      <4>2. QED
        BY <3>2, <4>1 DEF Check
    <3>3. Idle \in Jobs /\ job[w] \in Jobs
      BY <1>2, IdleJob DEF DataOK
    <3>4. CASE Start(w) \/ Spawn(w) \/ Cancel(w) \/ Await(w)
      BY <3>1, <3>4 DEF Start, Spawn, Cancel, Await
    <3>5. CASE Started(w) \/ Cancelled(w)
      BY <3>2, <3>3, <3>5 DEF Started, Cancelled
    <3>6. CASE Poll(w)
      BY <3>1, <3>2, <3>3, <3>6 DEF Poll
    <3>7. CASE Look(w)
      <4>1. [Idle EXCEPT !.at = "poll", !.has = handle, !.seen = status].at = "poll"
        BY DEF Idle
      <4>2. QED
        BY <3>7, <4>1 DEF Look
    <3>8. QED
      BY <1>7, <3>4, <3>5, <3>6, <3>7
  <2>3. QED
    BY <1>1, <2>1, <2>2, CursorKept
<1>8. ASSUME NEW w \in Workers, Refresh(w) \/ Restart(w)
      PROVE  CursorInv'
  <2>1. UNCHANGED <<status, placed, log, cursor, lost>>
    BY <1>8, Zenon DEF Refresh, Restart, row, proc, files, hist
  <2>2. CASE UNCHANGED job
    BY <2>1, <2>2, CursorKept DEF row
  <2>3. CASE Gather(w)
    <3>1. PICK j : /\ Do(w, j)
                   /\ j.at = "look" \/ (j.at = "apply" /\ placed /\ j.pos = cursor)
      <4> DEFINE a == [Idle EXCEPT !.at = "apply", !.pos = cursor, !.upto = Len(log)]
      <4>1. a.at = "apply" /\ a.pos = cursor /\ [Idle EXCEPT !.at = "look"].at = "look"
        BY DEF Idle
      <4>2. (Do(w, a) /\ placed) \/ Do(w, [Idle EXCEPT !.at = "look"])
        BY <2>3 DEF Gather, Go
      <4>3. QED
        BY <4>1, <4>2
    <3>2. job'[w] = j /\ \A v \in Workers \ {w} : job'[v] = job[v]
      BY <1>1, <3>1
    <3>3. ASSUME NEW v \in Workers
          PROVE  Taken(v)'
      BY <2>1, <3>1, <3>2 DEF CursorInv, Taken
    <3>4. QED
      BY <2>1, <3>3 DEF CursorInv
  <2>4. QED
    BY <1>8, <2>2, <2>3 DEF Refresh, Restart
<1>9. ASSUME NEW w \in Workers, Write(w)
      PROVE  CursorInv'
  <2>1. Writing(w) /\ status' = job[w].goal /\ UNCHANGED <<log, cursor>>
    BY <1>9, Zenon DEF Write, At, Writing, proc, files
  <2>2. (placed => placed') /\ (~lost' => ~lost /\ status = job[w].seen)
    BY <1>9, Zenon DEF Write
  <2>3. job[w].goal \in Transitions(job[w].seen)
    BY <2>1 DEF RunInv, Threads
  <2>4. job[w].goal # "queued"
    BY <2>3 DEF Transitions
  <2>5. ASSUME ~lost', status' \notin Terminal
        PROVE  /\ ~lost /\ status \notin Terminal
               /\ \A e : Passed(e, status) => Passed(e, job[w].goal)
               /\ Passed(job[w].goal, job[w].goal)
    BY <2>1, <2>2, <2>3, <2>5, PassedOn DEF DataOK
  <2>6. PICK j : /\ Do(w, j)
                 /\ \/ j.at = "idle"
                    \/ j.at = "apply" /\ job[w].at = "applyWrite" /\ j.pos = job[w].pos
    <3> DEFINE a == [Idle EXCEPT !.at = "apply", !.pos = job[w].pos, !.upto = job[w].upto]
    <3>1. a.at = "apply" /\ a.pos = job[w].pos /\ Idle.at = "idle"
      BY DEF Idle
    <3>2. (Do(w, a) /\ job[w].at = "applyWrite") \/ Do(w, Idle)
      BY <1>9 DEF Write
    <3>3. QED
      BY <3>1, <3>2
  <2>7. job'[w] = j /\ \A v \in Workers \ {w} : job'[v] = job[v]
    BY <1>1, <2>6
  <2>8. ASSUME NEW v \in Workers
        PROVE  Taken(v)'
    <3>1. CASE v # w
      BY <2>1, <2>2, <2>5, <2>7, <3>1 DEF CursorInv, Taken
    <3>2. CASE v = w
      BY <2>1, <2>2, <2>5, <2>6, <2>7, <3>2 DEF CursorInv, Taken
    <3>3. QED
      BY <3>1, <3>2
  <2>9. QED
    BY <2>1, <2>4, <2>5, <2>8 DEF CursorInv
<1>10. ASSUME NEW w \in Workers, Apply(w)
       PROVE  CursorInv'
  <2>1. UNCHANGED <<status, placed, log, cursor, lost>> /\ job[w].at = "apply" /\ ~Done(w)
    BY <1>10, Zenon DEF Apply, At, row, proc, hist
  <2>2. job[w] \in Jobs /\ job[w].pos \in 0 .. 4 /\ job[w].pos + 1 \in 1 .. Len(log)
    BY <1>2, <2>1 DEF DataOK, Done, Jobs, LogShape
  <2> DEFINE next == [job[w] EXCEPT !.pos = @ + 1]
  <2>3. PICK e : e = log[job[w].pos + 1]
    OBVIOUS
  <2>4. \/ Do(w, next) /\ e \in {status, "running"}
        \/ Check(w, e, next, "applyWrite", next)
    BY <1>10, <2>3, Zenon DEF Apply
  <2>5. PICK j : /\ Do(w, j)
                 /\ \/ j = next /\ (e \in {status, "running"} \/ e \notin Transitions(status))
                    \/ j = [next EXCEPT !.at = "applyWrite", !.goal = e, !.seen = status]
    BY <2>4 DEF Check
  <2>6. job'[w] = j /\ \A v \in Workers \ {w} : job'[v] = job[v]
    BY <1>1, <2>5
  <2>7. Taken(w)'
    <3>1. placed /\ status # "queued"
          /\ (~lost /\ status \notin Terminal => \A i \in 1 .. job[w].pos : Passed(log[i], status))
      BY <2>1 DEF CursorInv, Taken
    <3>2. CASE j = next /\ (e \in {status, "running"} \/ e \notin Transitions(status))
      <4>1. ~lost /\ status \notin Terminal => Passed(e, status)
        BY <2>2, <2>3, <3>1, <3>2, SkippedIsPassed
      <4>2. j.pos = job[w].pos + 1
        BY <2>2, <3>2 DEF Jobs
      <4>3. QED
        BY <2>1, <2>2, <2>3, <2>6, <3>1, <4>1, <4>2 DEF Taken
    <3>3. CASE j = [next EXCEPT !.at = "applyWrite", !.goal = e, !.seen = status]
      <4>1. j.pos = job[w].pos + 1 /\ j.at = "applyWrite" /\ j.goal = e
        BY <2>2, <3>3 DEF Jobs
      <4>2. QED
        BY <2>1, <2>2, <2>3, <2>6, <3>1, <4>1 DEF Taken
    <3>4. QED
      BY <2>5, <3>2, <3>3
  <2>8. ASSUME NEW v \in Workers
        PROVE  Taken(v)'
    BY <2>1, <2>6, <2>7 DEF CursorInv, Taken
  <2>9. QED
    BY <2>1, <2>8 DEF CursorInv
<1>11. ASSUME NEW w \in Workers, Persist(w)
       PROVE  CursorInv'
  <2>1. UNCHANGED <<status, placed, log, lost>> /\ cursor' = job[w].upto
        /\ job[w].at = "apply" /\ Done(w)
    BY <1>11, Zenon DEF Persist, At, row, proc, hist
  <2>2. job'[w] = [Idle EXCEPT !.at = "look"] /\ \A v \in Workers \ {w} : job'[v] = job[v]
    BY <1>1, <1>11 DEF Persist, Go
  <2>3. ASSUME NEW v \in Workers
        PROVE  Taken(v)'
    BY <2>1, <2>2 DEF CursorInv, Taken, Idle
  <2>4. job[w].pos \in Nat /\ job[w].upto \in Nat
    BY <1>2 DEF DataOK, Jobs
  <2>5. ~lost /\ status \notin Terminal => \A i \in 1 .. job[w].upto : Passed(log[i], status)
    BY <2>1, <2>4 DEF CursorInv, Taken, Done
  <2>6. QED
    BY <2>1, <2>3, <2>5 DEF CursorInv
<1>12. CASE Recovered
  <2>1. UNCHANGED <<placed, log, cursor, lost, job>> /\ status' \in {status, "interrupted"}
    BY <1>12 DEF Recovered, proc, files, hist
  <2>2. ASSUME NEW v \in Workers
        PROVE  Taken(v)'
    BY <2>1 DEF CursorInv, Taken, Terminal
  <2>3. QED
    BY <2>1, <2>2 DEF CursorInv, Terminal
<1>13. QED
  BY <1>3, <1>4, <1>5, <1>6, <1>7, <1>8, <1>9, <1>10, <1>11, <1>12 DEF Next

(* Without a lost race, a run that has not ended has taken every event     *)
(* behind its stored cursor: a crash repeats events, it drops none.        *)
THEOREM Cursor == Spec => []CursorNeverAhead
<1>1. Init => CursorInv
  <2> SUFFICES ASSUME Init
               PROVE  CursorInv
    OBVIOUS
  <2>1. ~placed /\ cursor = 0 /\ \A w \in Workers : job[w].at = "idle"
    BY DEF Init, Idle
  <2>2. QED
    BY <2>1 DEF CursorInv, Taken
<1>2. DataOK /\ FlagsOK /\ LogShape /\ RunInv /\ CursorInv /\ [Next]_vars => CursorInv'
  BY CursorSteps
<1>3. CursorInv => CursorNeverAhead
  BY DEF CursorInv, CursorNeverAhead, Passed
<1>4. QED
  BY <1>1, <1>2, <1>3, DataCorrect, FlagsCorrect, ShapeCorrect, RunInvariant, PTL DEF Spec
=============================================================================
