------------------------- MODULE InferenceRun_proofs -------------------------
(* Proofs about InferenceRun for any number of request threads, events and  *)
(* crashes of the API process.                                              *)
(****************************************************************************)
EXTENDS InferenceRun, TLAPS

Events == {"running", "completed", "failed"}
Statuses == Active \cup Terminal \cup {"none"}
Places == {"idle", "begin", "spawn", "place", "gather", "poll", "await",
           "write", "report", "persist"}
Request == [at : Places, seen : Statuses, goal : Statuses, upto : Nat, own : BOOLEAN]
Starting == {"begin", "spawn"}
Ends == {"completed", "failed", "interrupted"}
EndIn(n) == \E i \in 1 .. n : log[i] \in Terminal

Data ==
  /\ status \in Statuses /\ runner \in {"none", "alive", "zero", "nonzero"}
  /\ log \in Seq(Events) /\ cursor \in Nat /\ cursor <= Len(log)
  /\ api \in {"up", "boot", "down"} /\ crashes \in 0 .. MaxCrashes
  /\ job \in [Workers -> Request]
Flags == placed \in BOOLEAN /\ result \in BOOLEAN /\ handle \in BOOLEAN /\ lost \in BOOLEAN
  /\ stranded \in BOOLEAN

(* Nothing follows a terminal event in the log.                             *)
LastEnds == \A i \in 1 .. Len(log) : i < Len(log) => log[i] \notin Terminal

(* The runner is gone or has logged its end, or there will never be one.    *)
Starters == {w \in Workers : job[w].at \in Starting}
Over ==
  \/ runner \in {"zero", "nonzero"} \/ Closed
  \/ runner = "none" /\ Starters = {} /\ status # "none"

(* What a request is about to do is right whatever happened since it read:  *)
(* it read a run that had not ended or refuses to start it, it ends a run   *)
(* only when that is over, and it acknowledges a terminal event only when   *)
(* the run has ended.                                                       *)
Refusal(j) == j.at = "write" /\ j.goal = "failed" /\ runner = "none" /\ Starters = {}
Sound(j) ==
  /\ (j.seen \notin Terminal \/ Refusal(j)) /\ j.upto <= Len(log)
  /\ j.at # "idle" => status # "none"
  /\ j.at \in {"place", "write", "report", "persist"} => j.goal # "none"
  /\ j.at \in Starting => runner = "none"
  /\ j.at = "place" => j.goal = "running" /\ runner # "none"
  /\ j.at = "await" => j.goal = "cancelled"
  /\ j.at \in {"write", "report"} /\ j.goal \in Ends => Over
  /\ j.at = "report" /\ EndIn(j.upto) => j.goal \in Terminal
  /\ j.at = "persist" /\ EndIn(j.upto) /\ ~ lost => status \in Terminal

Whole ==
  /\ \A v, w \in Workers : job[v].at \in Starting /\ job[w].at \in Starting => v = w
  /\ placed \/ handle => runner # "none"
  /\ status = "none" => runner = "none"
  /\ placed /\ status \in Ends => Over
  /\ EndIn(cursor) /\ ~ lost => status \in Terminal

Inv == Data /\ Flags /\ LastEnds /\ Whole /\ \A w \in Workers : Sound(job[w])

-----------------------------------------------------------------------------
LEMMA Initial == Init => Inv
<1> SUFFICES ASSUME Init PROVE Inv OBVIOUS
<1>1. Data
  <2>1. Idle \in Request BY DEF Idle, Request, Places, Statuses
  <2> QED BY <2>1, BoundAssumption DEF Init, Data, Statuses
<1>2. Flags BY Zenon DEF Init, Flags
<1>3. LastEnds /\ Whole BY DEF Init, LastEnds, Whole, Ends, EndIn, Starting, Idle
<1>4. \A w \in Workers : Sound(job[w])
  <2>1. Len(log) = 0 /\ \A w \in Workers : job[w] = Idle BY DEF Init
  <2>2. /\ Idle.at = "idle" /\ Idle.seen \notin Terminal /\ Idle.upto <= 0
    BY DEF Idle, Terminal
  <2> QED BY <2>1, <2>2 DEF Sound, Refusal, Starting
<1> QED BY <1>1, <1>2, <1>3, <1>4 DEF Inv

(* The runner logs, writes its result, exits or is killed.                  *)
LEMMA LogGrows ==
  ASSUME Data, NEW e \in Events, log' = Append(log, e)
  PROVE  /\ log' \in Seq(Events) /\ Len(log') = Len(log) + 1
         /\ \A i \in 1 .. Len(log) : log'[i] = log[i]
         /\ log'[Len(log) + 1] = e
  BY DEF Data

LEMMA RunnerKeeps == ASSUME Inv, Runner PROVE Inv'
<1>0. /\ UNCHANGED <<status, placed, cursor, handle, api, job, crashes, lost, stranded>>
      /\ runner = "alive" /\ result' \in BOOLEAN
      /\ \/ log' = log /\ runner' \in {"alive", "zero", "nonzero"}
         \/ ~ Closed /\ runner' = runner /\ \E e \in Events : log' = Append(log, e)
  <2>1. CASE Emit BY <2>1 DEF Emit, row, Live, Events, Inv, Flags
  <2>2. CASE WriteResult BY <2>2 DEF WriteResult, row, Live
  <2>3. CASE Exit BY <2>3 DEF Exit, row, Live, Inv, Flags
  <2>4. CASE Killed BY <2>4 DEF Killed, row, Live, Inv, Flags
  <2> QED BY <2>1, <2>2, <2>3, <2>4 DEF Runner
<1>1. /\ log' \in Seq(Events) /\ Len(log) \in Nat /\ Len(log') \in Nat /\ Len(log') >= Len(log)
      /\ \A i \in 1 .. Len(log) : log'[i] = log[i]
  BY <1>0, LogGrows DEF Inv, Data
<1>2. Data' BY <1>0, <1>1, SMTT(60) DEF Inv, Data
<1>3. Flags' BY <1>0, Zenon DEF Inv, Flags
<1>4. LastEnds'
  <2>1. CASE log' = log BY <2>1 DEF Inv, LastEnds
  <2>2. CASE ~ Closed /\ \E e \in Events : log' = Append(log, e)
    BY <2>2, <1>1, LogGrows, SMTT(60) DEF Inv, LastEnds, Closed
  <2> QED BY <1>0, <2>1, <2>2
<1>5. Over => Over'
  BY <1>0, <1>1, SMTT(60) DEF Over, Closed
<1>6. ASSUME NEW n \in Nat, n <= Len(log) PROVE EndIn(n)' <=> EndIn(n)
  BY <1>1, <1>6 DEF EndIn
<1>7. Whole'
  <2>1. EndIn(cursor)' <=> EndIn(cursor) BY <1>0, <1>6 DEF Inv, Data, EndIn
  <2> QED BY <1>0, <1>5, <2>1, SMTT(60) DEF Inv, Whole, Starting
<1>8. ASSUME NEW w \in Workers PROVE Sound(job[w])'
  <2>1. job[w].upto \in Nat /\ job[w].upto <= Len(log) BY DEF Inv, Data, Request, Sound, Refusal
  <2>2. EndIn(job[w].upto)' <=> EndIn(job[w].upto) BY <1>0, <1>6, <2>1 DEF EndIn
  <2>3. job[w].at \notin Starting BY <1>0 DEF Inv, Sound, Refusal
  <2> QED BY <1>0, <1>1, <1>5, <2>1, <2>2, <2>3, SMTT(60) DEF Inv, Sound, Refusal
<1> QED BY <1>2, <1>3, <1>4, <1>7, <1>8 DEF Inv

-----------------------------------------------------------------------------
(* A request that moves on and leaves the row and the log alone.            *)
Quiet(w, j) ==
  /\ UNCHANGED <<status, placed, log, result, api, crashes, lost>> /\ job' = [job EXCEPT ![w] = j]
  /\ stranded' \in {stranded, TRUE}
  /\ runner' = runner \/ (runner = "alive" /\ runner' = "nonzero")
  /\ handle' \in BOOLEAN /\ (handle' => handle)

LEMMA QuietKeeps ==
  ASSUME Inv, NEW w \in Workers, NEW j \in Request, Quiet(w, j), Sound(j) \/ Sound(j)',
         j.at \in Starting => job[w].at \in Starting,
         cursor' \in Nat, cursor' <= Len(log),
         EndIn(cursor') /\ ~ lost => status \in Terminal
  PROVE  Inv'
<1> USE DEF Quiet
<1>1. Data' BY SMTT(60) DEF Inv, Data
<1>2. Flags' BY Zenon DEF Inv, Flags
<1>3. LastEnds' BY DEF Inv, LastEnds
<1>0. Starters' \subseteq Starters BY SMTT(60) DEF Inv, Data, Starters
<1>4. Over => Over' BY <1>0 DEF Over, Closed
<1>5. Whole'
  <2>1. \A u, v \in Workers : job'[u].at \in Starting /\ job'[v].at \in Starting => u = v
    BY SMTT(60) DEF Inv, Data, Whole
  <2>2. placed' \/ handle' => runner' # "none" BY SMTT(60) DEF Inv, Whole
  <2>3. EndIn(cursor)' <=> EndIn(cursor') BY DEF EndIn
  <2> QED BY <2>1, <2>2, <2>3, <1>4, SMTT(60) DEF Inv, Whole
<1>6. ASSUME NEW i \in Request, Sound(i) PROVE Sound(i)'
  <2>1. EndIn(i.upto)' <=> EndIn(i.upto) BY DEF EndIn
  <2>2. Refusal(i) => Refusal(i)' BY <1>0 DEF Refusal
  <2> QED BY <1>4, <1>6, <2>1, <2>2, SMTT(60) DEF Sound, Refusal
<1>7. ASSUME NEW v \in Workers PROVE Sound(job[v])'
  <2>1. job'[v] = (IF v = w THEN j ELSE job[v]) BY DEF Inv, Data
  <2>2. PICK i \in Request : i = job'[v] /\ (Sound(i) \/ Sound(i)')
    BY <2>1 DEF Inv, Data
  <2>3. Sound(i)' BY <2>2, <1>6
  <2> QED BY <2>2, <2>3 DEF Sound, EndIn, Over, Closed, Refusal, Starters
<1> QED BY <1>1, <1>2, <1>3, <1>5, <1>7 DEF Inv

LEMMA Typed == ASSUME Inv, NEW w \in Workers PROVE job[w] \in Request /\ Sound(job[w])
  BY DEF Inv, Data

(* What the branches of start(), refresh() and cancel() make of a request.  *)
LEMMA Made ==
  ASSUME Inv, NEW at \in Places, NEW goal \in {"none", "failed", "cancelled"}, NEW own \in BOOLEAN,
         NEW seen \in Statuses \ Terminal, status # "none",
         at \in {"spawn"} => runner = "none", at \notin {"begin", "place", "report", "persist"},
         at = "write" => goal # "none", at = "write" /\ goal = "failed" => Over,
         at = "await" => goal = "cancelled"
  PROVE  LET j == [at |-> at, seen |-> seen, goal |-> goal, upto |-> 0, own |-> own]
         IN j \in Request /\ Sound(j)
<1> DEFINE j == [at |-> at, seen |-> seen, goal |-> goal, upto |-> 0, own |-> own]
<1>1. j \in Request BY SMTT(60) DEF Request, Statuses, Active, Terminal
<1>2. /\ j.at = at /\ j.seen = seen /\ j.goal = goal /\ j.upto = 0
      /\ Len(log) \in Nat
  BY DEF Inv, Data
<1>3. Sound(j) BY <1>2, SMTT(60) DEF Sound, Refusal, Starting, Ends
<1> QED BY <1>1, <1>3

LEMMA IdleSound == Inv => Idle \in Request /\ Sound(Idle) /\ Idle.at \notin Starting
<1> SUFFICES ASSUME Inv PROVE Idle \in Request /\ Sound(Idle) /\ Idle.at \notin Starting OBVIOUS
<1>1. /\ Idle \in Request /\ Idle.at = "idle" /\ Idle.seen \notin Terminal /\ Idle.upto = 0
  BY DEF Idle, Request, Places, Statuses, Terminal
<1> QED BY <1>1 DEF Sound, Refusal, Starting, Inv, Data

LEMMA BeginKeeps == ASSUME Inv, NEW w \in Workers, Begin(w) PROVE Inv'
<1>0. job[w].at = "begin" /\ runner = "none" /\ status # "none"
  BY Typed DEF Begin, At, Sound, Refusal, Starting
<1>1. CASE status = "queued"
  <2> DEFINE j == [Idle EXCEPT !.at = "spawn", !.seen = status]
  <2>a. j \in Request /\ j.at = "spawn" /\ j.seen = status /\ j.goal = "none" /\ j.upto = 0
    BY <1>1 DEF Idle, Request, Places, Statuses, Active
  <2>b. job' = [job EXCEPT ![w] = j] BY <1>1 DEF Begin, Do
  <2>1. Quiet(w, j) /\ cursor' = cursor
    BY <2>b DEF Begin, Quiet, row, proc, Inv, Flags
  <2>2. j \in Request /\ Sound(j)
    BY <1>0, <1>1, <2>a DEF Sound, Refusal, Terminal, Inv, Data
  <2>3. job[w].at \in Starting BY <1>0 DEF Starting
  <2> HIDE DEF j
  <2> QED BY <2>1, <2>2, <2>3, QuietKeeps DEF Inv, Data, Whole, EndIn
<1>2. CASE status # "queued"
  <2>0. PICK j : /\ j = [Idle EXCEPT !.at = "write", !.seen = status, !.goal = "failed"]
                  /\ job' = [job EXCEPT ![w] = j]
    BY <1>2 DEF Begin, Do
  <2>a. j \in Request /\ j.at = "write" /\ j.seen = status /\ j.goal = "failed" /\ j.upto = 0
    BY <2>0 DEF Idle, Request, Places, Statuses, Terminal, Inv, Data
  <2>b. job' = [job EXCEPT ![w] = j] BY <2>0
  <2>1. Quiet(w, j) /\ cursor' = cursor
    BY <2>b DEF Begin, Quiet, row, proc, Inv, Flags
  <2>2. j \in Request BY <2>a
  <2>c. Starters' = {}
    BY <2>1, <2>a, <1>0, SMTT(60) DEF Quiet, Inv, Data, Whole, Starters, Starting
  <2>3. Over' /\ Refusal(j)'
    BY <2>c, <2>1, <2>a, <1>0 DEF Quiet, Over, Refusal
  <2>4. Sound(j)'
    BY <2>1, <2>3, <2>a, <1>0 DEF Quiet, Sound, Refusal, Starting, Ends, Terminal, Inv, Data
  <2>5. j.at \notin Starting BY <2>a DEF Starting
  <2> QED BY <2>1, <2>2, <2>4, <2>5, QuietKeeps DEF Inv, Data, Whole, EndIn
<1> QED BY <1>1, <1>2

(* A start that fails leaves the row and the thread; a runner, if there is  *)
(* one, keeps its Popen object.                                             *)
LEMMA StartFails == ASSUME Inv, NEW w \in Workers, SpawnFails(w) \/ PlaceFails(w) PROVE Inv'
<1>1. /\ job' = [job EXCEPT ![w] = Idle] /\ cursor' = cursor
      /\ UNCHANGED <<status, placed, log, result, api, crashes, lost, runner, handle>>
      /\ stranded' \in {stranded, TRUE}
  BY Zenon DEF SpawnFails, PlaceFails, Do, row, proc
<1>2. Quiet(w, Idle) BY <1>1 DEF Quiet, Inv, Flags
<1> QED BY <1>1, <1>2, IdleSound, QuietKeeps DEF Inv, Data, Whole, EndIn

LEMMA RefreshKeeps == ASSUME Inv, NEW w \in Workers, Refresh(w) PROVE Inv'
<1>0. job[w].at = "idle" /\ status # "none" BY DEF Refresh, At
<1>1. CASE status \in Active
  <2>1. PICK at \in {"gather", "poll"} :
          job' = [job EXCEPT ![w] = [at |-> at, seen |-> status, goal |-> "none", upto |-> 0, own |-> FALSE]]
    BY <1>1 DEF Refresh, Do, Idle
  <2> DEFINE j == [at |-> at, seen |-> status, goal |-> "none", upto |-> 0, own |-> FALSE]
  <2>2. Quiet(w, j) /\ cursor' = cursor
    BY <1>1, <2>1 DEF Refresh, Quiet, row, proc, Inv, Flags
  <2>3. j \in Request /\ Sound(j)
    BY <1>0, <1>1, Made DEF Places, Statuses, Active, Terminal
  <2>4. j.at \notin Starting BY DEF Starting
  <2> HIDE DEF j
  <2> QED BY <2>2, <2>3, <2>4, QuietKeeps DEF Inv, Data, Whole, EndIn
<1>2. CASE status \notin Active
  <2>1. job' = [job EXCEPT ![w] = job[w]]
    BY <1>2 DEF Refresh, Inv, Data
  <2>2. handle' \in BOOLEAN /\ (handle' => handle)
    BY <1>2, Zenon DEF Refresh
  <2>3. Quiet(w, job[w]) /\ cursor' = cursor
    BY <2>1, <2>2 DEF Refresh, Quiet, row, proc
  <2>4. PICK j \in Request : j = job[w] BY Typed
  <2>5. Sound(j) BY <2>4, Typed
  <2> QED BY <2>3, <2>4, <2>5, QuietKeeps DEF Inv, Data, Whole, EndIn
<1> QED BY <1>1, <1>2

LEMMA CancelKeeps == ASSUME Inv, NEW w \in Workers, Cancel(w) PROVE Inv'
<1>0. status \in Active BY DEF Cancel
<1> DEFINE at == IF runner \in Live /\ (handle \/ placed) THEN "await" ELSE "write"
           j == [Idle EXCEPT !.at = at, !.seen = status, !.goal = "cancelled", !.own = handle]
<1>1. /\ j \in Request /\ j.at \in {"await", "write"} /\ j.seen = status
      /\ j.goal = "cancelled" /\ j.upto = 0
  BY <1>0 DEF Idle, Request, Places, Statuses, Active, Terminal, Inv, Flags
<1>b. job' = [job EXCEPT ![w] = j] BY Zenon DEF Cancel, Do
<1>2. Quiet(w, j) /\ cursor' = cursor
  BY <1>b DEF Cancel, Quiet, row, proc, Inv, Flags
<1>3. j \in Request /\ Sound(j)
  BY <1>0, <1>1 DEF Sound, Refusal, Starting, Active, Terminal, Ends, Inv, Data
<1>4. j.at \notin Starting BY <1>1 DEF Starting
<1> HIDE DEF j
<1> QED BY <1>2, <1>3, <1>4, QuietKeeps DEF Inv, Data, Whole, EndIn

(* The last event decides, and it is a terminal one if any is.              *)
LEMMA VerdictEnds ==
  ASSUME Inv, Len(log) > cursor
  PROVE  /\ Verdict \in Events /\ (EndIn(Len(log)) => Verdict \in Terminal)
         /\ (Verdict \in Ends => Closed)
<1>1. Len(log) \in Nat /\ Len(log) \in 1 .. Len(log) /\ log[Len(log)] \in Events
  BY DEF Inv, Data
<1>2. EndIn(Len(log)) => log[Len(log)] \in Terminal
  BY <1>1 DEF EndIn, Inv, LastEnds
<1> QED BY <1>1, <1>2 DEF Verdict, Events, Terminal, Ends, Closed

LEMMA GatherKeeps == ASSUME Inv, NEW w \in Workers, Gather(w) PROVE Inv'
<1>0. /\ job[w].at = "gather" /\ job[w] \in Request /\ Sound(job[w]) /\ status # "none"
      /\ Len(log) \in Nat /\ cursor' = cursor
  BY Typed DEF Gather, At, Sound, Refusal, Inv, Data
<1>1. PICK j : job' = [job EXCEPT ![w] = j] /\
        IF Len(log) > cursor
        THEN j = [job[w] EXCEPT !.at = "report", !.goal = Verdict, !.upto = Len(log)]
        ELSE j = [job[w] EXCEPT !.at = "poll"]
  BY DEF Gather, Do, Go
<1>2. Quiet(w, j) BY <1>1 DEF Gather, Quiet, row, proc, Inv, Flags
<1>3. j \in Request /\ j.at \notin Starting /\ Sound(j)
  <2>1. CASE Len(log) > cursor
    <3>1. /\ j = [job[w] EXCEPT !.at = "report", !.goal = Verdict, !.upto = Len(log)]
          /\ Verdict \in Statuses /\ Verdict # "none"
      BY <1>1, <2>1, VerdictEnds DEF Statuses, Active, Terminal, Events
    <3>2. j \in Request BY <3>1, <1>0 DEF Request, Places
    <3>3. /\ j.at = "report" /\ j.goal = Verdict /\ j.upto = Len(log) /\ j.seen = job[w].seen
      BY <3>1, <1>0 DEF Request
    <3>4. j.goal \in Ends => Over BY <3>3, <2>1, VerdictEnds DEF Over
    <3>5. EndIn(j.upto) => j.goal \in Terminal BY <3>3, <2>1, VerdictEnds
    <3> QED BY <3>1, <3>2, <3>3, <3>4, <3>5, <1>0 DEF Sound, Refusal, Starting
  <2>2. CASE ~ Len(log) > cursor
    BY <1>0, <1>1, <2>2, SMTT(60) DEF Request, Places, Sound, Refusal, Starting
  <2> QED BY <2>1, <2>2
<1> QED BY <1>0, <1>2, <1>3, QuietKeeps DEF Inv, Data, Whole, EndIn

LEMMA PersistKeeps == ASSUME Inv, NEW w \in Workers, Persist(w) PROVE Inv'
<1>0. /\ job[w].at = "persist" /\ job[w] \in Request /\ Sound(job[w])
      /\ cursor' = job[w].upto
  BY Typed DEF Persist, At
<1>1. handle' \in BOOLEAN /\ (handle' => handle) BY Zenon DEF Persist
<1>2. Quiet(w, Idle) BY <1>1 DEF Persist, Do, Quiet, row, proc
<1>3. EndIn(cursor') /\ ~ lost => status \in Terminal BY <1>0 DEF Sound, Refusal
<1>4. cursor' \in Nat /\ cursor' <= Len(log) BY <1>0 DEF Sound, Refusal, Request
<1> QED BY <1>2, <1>3, <1>4, IdleSound, QuietKeeps

LEMMA PollKeeps == ASSUME Inv, NEW w \in Workers, Poll(w) PROVE Inv'
<1>0. /\ job[w].at = "poll" /\ job[w] \in Request /\ Sound(job[w]) /\ cursor' = cursor
      /\ status # "none"
  BY Typed DEF Poll, At, Sound, Refusal
<1>1. CASE handle /\ runner \notin Live
  <2> DEFINE j == [job[w] EXCEPT !.at = "write", !.goal = "failed"]
  <2>1. Quiet(w, j) BY <1>1 DEF Poll, Decide, Do, Quiet, row, proc
  <2>2. Over BY <1>1 DEF Inv, Data, Whole, Over, Live
  <2>a. /\ j \in Request /\ j.at = "write" /\ j.goal = "failed"
        /\ j.seen = job[w].seen /\ j.upto = job[w].upto
    BY <1>0 DEF Request, Places, Statuses, Terminal
  <2>3. j \in Request /\ Sound(j) /\ j.at \notin Starting
    BY <1>0, <2>2, <2>a DEF Sound, Refusal, Starting
  <2> HIDE DEF j
  <2> QED BY <1>0, <2>1, <2>3, QuietKeeps DEF Inv, Data, Whole, EndIn
<1>2. CASE ~ (handle /\ runner \notin Live)
  <2>1. Quiet(w, Idle) BY <1>2 DEF Poll, Do, Quiet, row, proc, Inv, Flags
  <2> QED BY <1>0, <2>1, IdleSound, QuietKeeps DEF Inv, Data, Whole, EndIn
<1> QED BY <1>1, <1>2

LEMMA AwaitKeeps == ASSUME Inv, NEW w \in Workers, Await(w) PROVE Inv'
<1>0. /\ job[w].at = "await" /\ job[w] \in Request /\ Sound(job[w]) /\ cursor' = cursor
      /\ status # "none" /\ job[w].goal = "cancelled"
  BY Typed DEF Await, At, Sound, Refusal
<1> DEFINE j == [job[w] EXCEPT !.at = "write"]
<1>1. Quiet(w, j) BY DEF Await, Go, Do, Quiet, row, proc, Live, Inv, Flags
<1>2. j \in Request /\ Sound(j) /\ j.at \notin Starting
  BY <1>0, SMTT(60) DEF Request, Places, Statuses, Terminal, Sound, Refusal, Starting, Ends
<1> HIDE DEF j
<1> QED BY <1>0, <1>1, <1>2, QuietKeeps DEF Inv, Data, Whole, EndIn

-----------------------------------------------------------------------------
(* The row comes into being with its request.                               *)
LEMMA CreateKeeps == ASSUME Inv, NEW w \in Workers, Create(w) PROVE Inv'
<1> DEFINE j == [Idle EXCEPT !.at = "begin"]
<1>0. /\ status = "none" /\ status' = "queued" /\ job' = [job EXCEPT ![w] = j]
      /\ UNCHANGED <<placed, runner, log, result, cursor, handle, api, crashes, lost, stranded>>
  BY DEF Create, Do, proc
<1>1. \A v \in Workers : job[v].at = "idle" BY <1>0, Typed DEF Sound, Refusal
<1>2. runner = "none" BY <1>0 DEF Inv, Whole
<1>3. /\ j \in Request /\ j.at = "begin" /\ j.seen = "none" /\ j.upto = 0
  BY DEF Idle, Request, Places, Statuses
<1> HIDE DEF j
<1>4. Data' BY <1>0, <1>3, SMTT(60) DEF Inv, Data, Statuses, Active
<1>5. Flags' BY <1>0, Zenon DEF Inv, Flags
<1>6. LastEnds' BY <1>0 DEF Inv, LastEnds
<1>7. Whole'
  <2>1. \A u, v \in Workers : job'[u].at \in Starting /\ job'[v].at \in Starting => u = v
    BY <1>0, <1>1, SMTT(60) DEF Inv, Data, Starting
  <2>2. EndIn(cursor)' <=> EndIn(cursor) BY <1>0 DEF EndIn
  <2>3. lost' <=> lost BY <1>0
  <2> QED BY <1>0, <2>1, <2>2, <2>3, SMTT(60) DEF Inv, Whole, Ends, Terminal
<1>8. ASSUME NEW v \in Workers PROVE Sound(job[v])'
  <2>1. job'[v] = IF v = w THEN j ELSE job[v] BY <1>0 DEF Inv, Data
  <2>2. job'[v].at \in {"idle", "begin"} BY <1>1, <1>3, <2>1
  <2>3. job'[v].seen \notin Terminal /\ job'[v].upto <= Len(log)
    BY <1>1, <1>3, <2>1, Typed, SMTT(60) DEF Sound, Refusal, Terminal, Inv, Data
  <2> QED BY <1>0, <1>2, <2>2, <2>3 DEF Sound, Refusal, Starting
<1> QED BY <1>4, <1>5, <1>6, <1>7, <1>8 DEF Inv

(* The runner is spawned by the one request that starts the run.            *)
LEMMA SpawnKeeps == ASSUME Inv, NEW w \in Workers, Spawn(w) PROVE Inv'
<1> DEFINE j == [job[w] EXCEPT !.at = "place", !.goal = "running"]
<1>0. /\ job[w].at = "spawn" /\ job[w] \in Request /\ Sound(job[w]) /\ runner = "none"
      /\ runner' = "alive" /\ handle' = TRUE /\ job' = [job EXCEPT ![w] = j]
      /\ UNCHANGED <<status, placed, log, result, cursor, api, crashes, lost, stranded>>
  BY Typed DEF Spawn, At, Do, row, Sound, Refusal, Starting
<1>1. /\ j \in Request /\ j.at = "place" /\ j.seen = job[w].seen /\ j.upto = job[w].upto
      /\ j.goal = "running"
  BY <1>0 DEF Request, Places, Statuses, Active
<1> HIDE DEF j
<1>2. \A v \in Workers : v # w => job[v].at \notin Starting
  BY <1>0 DEF Inv, Whole, Starting
<1>3. Data' BY <1>0, <1>1, SMTT(60) DEF Inv, Data
<1>4. Flags' BY <1>0, Zenon DEF Inv, Flags
<1>5. LastEnds' BY <1>0 DEF Inv, LastEnds
<1>a. w \in Starters BY <1>0 DEF Starters, Starting
<1>6. Over => Over' BY <1>0, <1>a DEF Over, Closed
<1>7. Whole'
  <2>1. \A u, v \in Workers : job'[u].at \in Starting /\ job'[v].at \in Starting => u = v
    BY <1>0, <1>1, <1>2, SMTT(60) DEF Inv, Data, Starting
  <2>2. EndIn(cursor)' <=> EndIn(cursor) BY <1>0 DEF EndIn
  <2>3. (lost' <=> lost) /\ (placed' <=> placed) /\ status # "none"
    BY <1>0 DEF Sound, Refusal
  <2>4. ~ placed BY <1>0 DEF Inv, Whole
  <2> QED BY <1>0, <2>1, <2>2, <2>3, <2>4, SMTT(60) DEF Inv, Whole
<1>8. ASSUME NEW v \in Workers PROVE Sound(job[v])'
  <2>1. CASE v = w
    <3>1. job'[v] = j BY <1>0, <2>1 DEF Inv, Data
    <3> QED BY <3>1, <1>0, <1>1 DEF Sound, Refusal, Starting
  <2>2. CASE v # w
    <3>1. job'[v] = job[v] /\ Sound(job[v]) BY <1>0, <2>2, Typed DEF Inv, Data
    <3>2. EndIn(job[v].upto)' <=> EndIn(job[v].upto) BY <1>0, <3>1 DEF EndIn
    <3>3. (lost' <=> lost) /\ job[v].at \notin Starting BY <1>0, <1>2, <2>2
    <3>4. ~ Refusal(job[v]) BY <1>a DEF Refusal
    <3> QED BY <3>1, <3>2, <3>3, <3>4, <1>0, <1>6, SMTT(60) DEF Sound
  <2> QED BY <2>1, <2>2
<1> QED BY <1>3, <1>4, <1>5, <1>7, <1>8 DEF Inv

(* A write of the row: what it decides is right by now, and without a lost  *)
(* update it replaces the status that was read.                             *)
LEMMA UpdateKeeps == ASSUME Inv, NEW w \in Workers, Update(w) PROVE Inv'
<1>0. /\ job[w].at \in {"place", "write", "report"} /\ job[w] \in Request /\ Sound(job[w])
      /\ status' = job[w].goal /\ UNCHANGED <<runner, log, result, cursor, handle, api, crashes, stranded>>
  BY Typed DEF Update, At, proc
<1>1. PICK j \in Request :
        /\ job' = [job EXCEPT ![w] = j] /\ j.seen \notin Terminal /\ j.upto <= Len(log)
        /\ \/ j.at = "idle"
           \/ j = [job[w] EXCEPT !.at = "persist"] /\ job[w].at = "report"
  <2>1. CASE job[w].at = "report"
    <3> DEFINE j == [job[w] EXCEPT !.at = "persist"]
    <3>1. job' = [job EXCEPT ![w] = j] BY <2>1 DEF Update, Go, Do
    <3>2. j \in Request /\ j.seen = job[w].seen /\ j.upto = job[w].upto
      BY <1>0 DEF Request, Places
    <3> QED BY <2>1, <3>1, <3>2, <1>0 DEF Sound, Refusal
  <2>2. CASE job[w].at # "report"
    <3>1. job' = [job EXCEPT ![w] = Idle] BY <2>2 DEF Update, Do
    <3> QED BY <3>1, IdleSound DEF Sound, Refusal, Idle
  <2> QED BY <2>1, <2>2
<1>2. (placed' => placed \/ job[w].at = "place") /\ placed' \in BOOLEAN
  BY Zenon DEF Update
<1>3. lost' \in BOOLEAN /\ (lost => lost') /\ (status # job[w].seen => lost')
  BY Zenon DEF Update
<1>4. Data' BY <1>0, <1>1, SMTT(60) DEF Inv, Data, Request
<1>5. Flags' BY <1>0, <1>2, <1>3, Zenon DEF Inv, Flags
<1>6. LastEnds' BY <1>0 DEF Inv, LastEnds
<1>7. status' # "none" /\ status # "none" BY <1>0 DEF Sound, Refusal
<1>a. Starters' \subseteq Starters
  BY <1>1, SMTT(60) DEF Inv, Data, Starters, Starting, Request
<1>8. Over => Over' BY <1>0, <1>7, <1>a DEF Over, Closed
<1>9. ~ lost' => ~ lost /\ (status \in Terminal => status' \in Terminal)
  BY <1>0, <1>3 DEF Sound, Refusal, Terminal
<1>10. Whole'
  <2>1. \A u, v \in Workers : job'[u].at \in Starting /\ job'[v].at \in Starting => u = v
    BY <1>1, SMTT(60) DEF Inv, Data, Whole, Starting, Request
  <2>2. EndIn(cursor)' <=> EndIn(cursor) BY <1>0 DEF EndIn
  <2>3. placed' \/ handle' => runner' # "none" BY <1>0, <1>2 DEF Inv, Whole, Sound, Refusal
  <2>4. status' \in Ends => Over' BY <1>0, <1>8 DEF Sound, Refusal, Ends
  <2>5. EndIn(cursor)' /\ ~ lost' => status' \in Terminal BY <2>2, <1>9 DEF Inv, Whole
  <2> QED BY <2>1, <2>3, <2>4, <2>5, <1>7 DEF Whole
<1>11. ASSUME NEW v \in Workers PROVE Sound(job[v])'
  <2>1. CASE v = w
    <3>1. job'[v] = j BY <1>1, <2>1 DEF Inv, Data
    <3>2. CASE j.at = "idle" BY <1>0, <1>1, <3>1, <3>2 DEF Sound, Refusal, Starting
    <3>3. CASE j = [job[w] EXCEPT !.at = "persist"] /\ job[w].at = "report"
      <4>1. j.at = "persist" /\ j.goal = job[w].goal /\ j.upto = job[w].upto
        BY <3>3, <1>0 DEF Request
      <4>2. EndIn(j.upto)' <=> EndIn(j.upto) BY <1>0 DEF EndIn
      <4>3. EndIn(j.upto) => status' \in Terminal BY <1>0, <3>3, <4>1 DEF Sound, Refusal
      <4> QED BY <1>0, <1>1, <1>7, <3>1, <4>1, <4>2, <4>3 DEF Sound, Refusal, Starting
    <3> QED BY <1>1, <3>2, <3>3
  <2>2. CASE v # w
    <3>1. job'[v] = job[v] /\ Sound(job[v]) BY <1>1, <2>2, Typed DEF Inv, Data
    <3>2. EndIn(job[v].upto)' <=> EndIn(job[v].upto) BY <1>0, <3>1 DEF EndIn
    <3>3. Refusal(job[v]) => Refusal(job[v])' BY <1>0, <1>a, <3>1 DEF Refusal
    <3> QED BY <3>1, <3>2, <3>3, <1>0, <1>7, <1>8, <1>9, SMTT(60) DEF Sound
  <2> QED BY <2>1, <2>2
<1> QED BY <1>4, <1>5, <1>6, <1>10, <1>11 DEF Inv

-----------------------------------------------------------------------------
LEMMA CrashKeeps == ASSUME Inv, Crash PROVE Inv'
<1>0. /\ job' = [w \in Workers |-> Idle] /\ handle' = FALSE /\ api' = "down"
      /\ crashes' = crashes + 1 /\ crashes < MaxCrashes
      /\ UNCHANGED <<status, placed, log, result, cursor, lost>> /\ stranded' = FALSE
      /\ runner' = runner \/ (runner = "alive" /\ runner' = "nonzero")
  BY DEF Crash, row, Live
<1>1. Data' BY <1>0, IdleSound, BoundAssumption, SMTT(60) DEF Inv, Data
<1>2. Flags' BY <1>0, Zenon DEF Inv, Flags
<1>3. LastEnds' BY <1>0 DEF Inv, LastEnds
<1>4. Starters' = {} BY <1>0, IdleSound DEF Starters
<1>5. Over => Over' BY <1>0, <1>4 DEF Over, Closed
<1>6. Whole'
  <2>1. \A w \in Workers : job'[w].at \notin Starting BY <1>0, IdleSound
  <2>2. EndIn(cursor)' <=> EndIn(cursor) BY <1>0 DEF EndIn
  <2>3. (lost' <=> lost) /\ (placed' <=> placed) /\ ~ handle' BY <1>0
  <2> QED BY <1>0, <1>5, <2>1, <2>2, <2>3, SMTT(60) DEF Inv, Whole
<1>7. \A w \in Workers : Sound(job[w])'
  BY <1>0, IdleSound DEF Sound, Refusal, Idle, Starting
<1> QED BY <1>1, <1>2, <1>3, <1>6, <1>7 DEF Inv

LEMMA RestartKeeps == ASSUME Inv, NEW w \in Workers, Restart(w) PROVE Inv'
<1>0. /\ api' \in {"boot", "up"} /\ cursor' = cursor
      /\ UNCHANGED <<status, placed, log, result, runner, handle, crashes, lost, stranded>>
  BY DEF Restart, row, proc
<1>1. PICK j \in Request : job' = [job EXCEPT ![w] = j] /\ Sound(j) /\ (j = job[w] \/ j.at \notin Starting)
  <2>1. CASE status \in Active
    <3>1. PICK at \in {"gather", "poll"} :
            job' = [job EXCEPT ![w] = [at |-> at, seen |-> status, goal |-> "none", upto |-> 0, own |-> FALSE]]
      BY <2>1 DEF Restart, Do, Idle
    <3> DEFINE j == [at |-> at, seen |-> status, goal |-> "none", upto |-> 0, own |-> FALSE]
    <3>2. j \in Request /\ Sound(j)
      BY <2>1, Made DEF Places, Statuses, Active, Terminal
    <3> QED BY <3>1, <3>2 DEF Starting
  <2>2. CASE status \notin Active
    <3>1. job' = [job EXCEPT ![w] = job[w]] BY <2>2 DEF Restart, Inv, Data
    <3> QED BY <3>1, Typed
  <2> QED BY <2>1, <2>2
<1>2. Data' BY <1>0, <1>1, SMTT(60) DEF Inv, Data
<1>3. Flags' BY <1>0, Zenon DEF Inv, Flags
<1>4. LastEnds' BY <1>0 DEF Inv, LastEnds
<1>5. Starters' \subseteq Starters BY <1>1, SMTT(60) DEF Inv, Data, Starters
<1>6. Over => Over' BY <1>0, <1>5 DEF Over, Closed
<1>7. Whole'
  <2>1. \A u, v \in Workers : job'[u].at \in Starting /\ job'[v].at \in Starting => u = v
    BY <1>1, SMTT(60) DEF Inv, Data, Whole
  <2>2. EndIn(cursor)' <=> EndIn(cursor) BY <1>0 DEF EndIn
  <2>3. (lost' <=> lost) /\ (placed' <=> placed) /\ (handle' <=> handle) BY <1>0
  <2> QED BY <1>0, <1>6, <2>1, <2>2, <2>3, SMTT(60) DEF Inv, Whole
<1>8. ASSUME NEW v \in Workers PROVE Sound(job[v])'
  <2>1. job'[v] = IF v = w THEN j ELSE job[v] BY <1>1 DEF Inv, Data
  <2>2. PICK i \in Request : i = job'[v] /\ Sound(i) BY <1>1, <2>1, Typed
  <2>3. EndIn(i.upto)' <=> EndIn(i.upto) BY <1>0 DEF EndIn
  <2>4. lost' <=> lost BY <1>0
  <2>5. Refusal(i) => Refusal(i)' BY <1>0, <1>5 DEF Refusal
  <2>6. Sound(i)' BY <1>0, <1>6, <2>2, <2>3, <2>4, <2>5, SMTT(60) DEF Sound
  <2> QED BY <2>2, <2>6 DEF Sound, Refusal, EndIn, Over, Closed, Starters
<1> QED BY <1>2, <1>3, <1>4, <1>7, <1>8 DEF Inv

LEMMA RecoverKeeps == ASSUME Inv, Recovered PROVE Inv'
<1>0. /\ \A w \in Workers : job[w] = Idle
      /\ \/ status' = "interrupted" /\ (~ placed \/ runner \notin Live) /\ status \in Active
         \/ status' = status
      /\ api' = "up" /\ UNCHANGED <<placed, runner, log, result, cursor, handle, job, crashes, lost, stranded>>
  BY DEF Recovered, Recover, proc
<1>1. Data' BY <1>0, SMTT(60) DEF Inv, Data, Statuses, Terminal
<1>2. Flags' BY <1>0, Zenon DEF Inv, Flags
<1>3. LastEnds' BY <1>0 DEF Inv, LastEnds
<1>4. Starters' = {} BY <1>0, IdleSound DEF Starters
<1>5. Over => Over' BY <1>0, <1>4 DEF Over, Closed
<1>6. Whole'
  <2>1. EndIn(cursor)' <=> EndIn(cursor) BY <1>0 DEF EndIn
  <2>2. (lost' <=> lost) /\ (placed' <=> placed) /\ (handle' <=> handle) BY <1>0
  <2>3. CASE status' = "interrupted" /\ (~ placed \/ runner \notin Live) /\ status \in Active
    <3>1. placed => Over'
      BY <1>0, <2>3 DEF Inv, Data, Whole, Over, Live
    <3> QED BY <1>0, <2>1, <2>2, <2>3, <3>1 DEF Inv, Whole, Terminal
  <2>4. CASE status' = status
    BY <1>0, <1>5, <2>1, <2>2, <2>4, SMTT(60) DEF Inv, Whole
  <2> QED BY <1>0, <2>3, <2>4
<1>7. \A w \in Workers : Sound(job[w])'
  BY <1>0, IdleSound DEF Sound, Refusal, Idle, Starting
<1> QED BY <1>1, <1>2, <1>3, <1>6, <1>7 DEF Inv

LEMMA StepKeeps == Inv /\ [Next]_vars => Inv'
<1> SUFFICES ASSUME Inv, [Next]_vars PROVE Inv' OBVIOUS
<1>1. CASE Emit \/ WriteResult \/ Exit \/ Killed BY <1>1, RunnerKeeps DEF Runner
<1>2. CASE \E w \in Workers :
        Create(w) \/ Begin(w) \/ Spawn(w) \/ SpawnFails(w) \/ PlaceFails(w) \/ Update(w)
  BY <1>2, CreateKeeps, BeginKeeps, SpawnKeeps, StartFails, UpdateKeeps
<1>3. CASE \E w \in Workers : Refresh(w) \/ Gather(w) \/ Persist(w) \/ Poll(w)
  BY <1>3, RefreshKeeps, GatherKeeps, PersistKeeps, PollKeeps
<1>4. CASE \E w \in Workers : Cancel(w) \/ Await(w) \/ Restart(w)
  BY <1>4, CancelKeeps, AwaitKeeps, RestartKeeps
<1>5. CASE Crash \/ Recovered BY <1>5, CrashKeeps, RecoverKeeps
<1>6. CASE UNCHANGED vars
  BY <1>6 DEF vars, row, proc, Inv, Data, Flags, LastEnds, Whole, Sound, Refusal, Over, Starters, Closed, EndIn
<1> QED BY <1>1, <1>2, <1>3, <1>4, <1>5, <1>6 DEF Next

(* The inductive invariant: whatever a request read and however long ago,   *)
(* what it is about to write is right when it is written.                   *)
THEOREM RunInvariant == Spec => []Inv
  BY Initial, StepKeeps, PTL DEF Spec

(* The type invariant of an inference run, its runner and its requests.     *)
THEOREM TypeCorrect == Spec => []TypeOK
<1>1. ASSUME Inv PROVE TypeOK
  <2>1. ASSUME NEW w \in Workers PROVE job[w] \in Jobs
    <3>1. job[w] \in Request /\ job[w].upto <= Len(log) /\ Len(log) \in Nat
      BY <1>1, Typed DEF Sound, Refusal, Inv, Data
    <3>2. job[w].upto \in 0 .. Len(log) BY <3>1 DEF Request
    <3> QED BY <3>1, <3>2 DEF Request, Places, Jobs, Statuses
  <2>2. job \in [Workers -> Jobs] BY <1>1, <2>1 DEF Inv, Data
  <2>3. {placed, result, handle, lost, stranded} \subseteq BOOLEAN BY <1>1 DEF Inv, Flags
  <2> QED BY <1>1, <2>2, <2>3 DEF Inv, Data, TypeOK, Statuses, Events
<1> QED BY <1>1, RunInvariant, PTL

(* A run whose pid was recorded and that ended by itself has no runner at   *)
(* work behind it, for any number of requests, events and restarts.         *)
THEOREM NoGhost == Spec => []NoGhostRunner
<1>1. Inv => NoGhostRunner BY DEF Inv, Whole, NoGhostRunner, Over, Ends, Live
<1> QED BY <1>1, RunInvariant, PTL

(* Storing the cursor never drops the runner's terminal event.              *)
THEOREM Acknowledged == Spec => []NothingSwallowed
<1>1. Inv => NothingSwallowed BY DEF Inv, Whole, NothingSwallowed, EndIn
<1> QED BY <1>1, RunInvariant, PTL

-----------------------------------------------------------------------------
(* What a request is about to write is a move from the status it has read:  *)
(* a start was checked against "queued", a report against a placed run, and *)
(* a placed run is not queued any more. Until its start is heard a run is   *)
(* queued or cancelled, and a refused start has read no other end.          *)
Legal(j) ==
  /\ j.at \in {"spawn", "place"} => j.seen = "queued"
  /\ j.at = "place" => j.goal = "running"
  /\ j.at = "await" => j.goal = "cancelled"
  /\ j.at = "write" => j.goal \in {"failed", "cancelled"}
  /\ j.at = "write" /\ j.seen \in Terminal => j.seen = "cancelled"
  /\ j.at \in {"gather", "report"} => j.seen = "running"
  /\ j.at = "report" => j.goal \in Events
Asking == {"gather", "report"}
Reported == \A w \in Workers : job[w].at \in Asking => runner # "none"
Untold == Starters # {} => status \in {"queued", "cancelled"}
Blank == runner = "none" => log = << >>
BoardInv ==
  /\ placed => status # "queued"
  /\ Reported /\ Untold /\ Blank
  /\ \A w \in Workers : Legal(job[w])

(* A step that a thread may take next.                                      *)
Fine(w, j) ==
  /\ Legal(j) /\ (j.at \in Starting => job[w].at \in Starting)
  /\ j.at \in Asking => runner # "none"

(* A thread that moves to a legal step leaves every thread at a legal one.  *)
LEMMA LegalKept ==
  ASSUME Inv, BoardInv, NEW w \in Workers, NEW j, Do(w, j), Fine(w, j),
         runner' = "none" => runner = "none"
  PROVE  (\A v \in Workers : Legal(job'[v])) /\ Starters' \subseteq Starters /\ Reported'
<1>1. \A v \in Workers : job'[v] = IF v = w THEN j ELSE job[v]
  BY DEF Do, Inv, Data
<1>2. \A v \in Workers : Legal(job'[v]) BY <1>1 DEF BoardInv, Fine
<1>3. Starters' \subseteq Starters BY <1>1 DEF Starters, Fine
<1>4. Reported' BY <1>1 DEF Reported, BoardInv, Fine
<1> QED BY <1>2, <1>3, <1>4

(* A runner that was started leaves its traces.                             *)
LEMMA RunnerStays ==
  ASSUME Inv, [Next]_vars PROVE runner' = "none" => runner = "none" /\ log' = log
<1>1. CASE Emit \/ WriteResult \/ Exit \/ Killed \/ Crash
  BY <1>1 DEF Emit, WriteResult, Exit, Killed, Crash, Live
<1>2. CASE \E w \in Workers : Spawn(w) \/ Await(w)
  BY <1>2 DEF Spawn, Await, Live
<1>3. CASE Recovered \/ UNCHANGED vars BY <1>3 DEF Recovered, Recover, vars, proc
<1>4. CASE \E w \in Workers : Create(w) \/ Begin(w) \/ SpawnFails(w) \/ PlaceFails(w) \/ Update(w)
  BY <1>4, Zenon DEF Create, Begin, SpawnFails, PlaceFails, Update, proc
<1>5. CASE \E w \in Workers : Refresh(w) \/ Gather(w) \/ Persist(w) \/ Poll(w)
  BY <1>5, Zenon DEF Refresh, Gather, Persist, Poll, proc
<1>6. CASE \E w \in Workers : Cancel(w) \/ Restart(w)
  BY <1>6, Zenon DEF Cancel, Restart, proc
<1> QED BY <1>1, <1>2, <1>3, <1>4, <1>5, <1>6 DEF Next

(* start(), and the steps it takes to the row.                              *)
LEMMA StartLegal ==
  ASSUME Inv, BoardInv, NEW w \in Workers,
         Begin(w) \/ Spawn(w) \/ SpawnFails(w) \/ PlaceFails(w)
  PROVE  \E j : Do(w, j) /\ Fine(w, j)
<1>0. job[w] \in Request /\ Legal(job[w]) BY Typed DEF BoardInv
<1>1. CASE SpawnFails(w) \/ PlaceFails(w)
  <2>1. Do(w, Idle) BY <1>1, Zenon DEF SpawnFails, PlaceFails
  <2>2. Fine(w, Idle) BY DEF Idle, Fine, Legal, Starting, Asking
  <2> QED BY <2>1, <2>2
<1>2. CASE Begin(w) /\ status = "queued"
  <2>1. PICK j : j = [Idle EXCEPT !.at = "spawn", !.seen = status] /\ Do(w, j)
    BY <1>2 DEF Begin
  <2>2. j.at = "spawn" /\ j.seen = "queued" BY <1>2, <2>1 DEF Idle
  <2>3. job[w].at = "begin" BY <1>2, Zenon DEF Begin, At
  <2> QED BY <2>1, <2>2, <2>3 DEF Fine, Legal, Starting, Asking
<1>3. CASE Begin(w) /\ status # "queued"
  <2>1. PICK j : /\ Do(w, j)
                 /\ j = [Idle EXCEPT !.at = "write", !.seen = status, !.goal = "failed"]
    BY <1>3 DEF Begin
  <2>2. j.at = "write" /\ j.goal = "failed" /\ j.seen = status BY <2>1 DEF Idle
  <2>3. job[w].at = "begin" BY <1>3, Zenon DEF Begin, At
  <2>4. status = "cancelled" BY <1>3, <2>3 DEF BoardInv, Untold, Starters, Starting
  <2> QED BY <2>1, <2>2, <2>4 DEF Fine, Legal, Starting, Asking
<1>4. CASE Spawn(w)
  <2>1. PICK j : j = [job[w] EXCEPT !.at = "place", !.goal = "running"] /\ Do(w, j)
    BY <1>4 DEF Spawn
  <2>2. j.at = "place" /\ j.goal = "running" /\ j.seen = job[w].seen
    BY <1>0, <2>1 DEF Request
  <2>3. job[w].at = "spawn" BY <1>4, Zenon DEF Spawn, At
  <2> QED BY <1>0, <2>1, <2>2, <2>3 DEF Fine, Legal, Starting, Asking
<1> QED BY <1>1, <1>2, <1>3, <1>4

(* refresh(): only a placed run is asked for its events.                    *)
LEMMA RefreshLegal ==
  ASSUME Inv, BoardInv, NEW w \in Workers,
         Refresh(w) \/ Restart(w) \/ Gather(w) \/ Persist(w) \/ Poll(w)
  PROVE  UNCHANGED job \/ \E j : Do(w, j) /\ Fine(w, j)
<1>0. job[w] \in Request /\ Legal(job[w]) BY Typed DEF BoardInv
<1>1. CASE Refresh(w) \/ Restart(w)
  <2>1. CASE status \in Active
    <3>1. PICK j : /\ Do(w, j)
                   /\ j = [Idle EXCEPT !.at = IF placed THEN "gather" ELSE "poll", !.seen = status]
      BY <1>1, <2>1 DEF Refresh, Restart
    <3>2. j.at = (IF placed THEN "gather" ELSE "poll") /\ j.seen = status
      BY <3>1 DEF Idle
    <3>3. placed => status = "running" /\ runner # "none"
      BY <2>1 DEF BoardInv, Active, Inv, Whole
    <3>4. j.at = "poll" \/ (j.at = "gather" /\ j.seen = "running" /\ runner # "none")
      BY <3>2, <3>3
    <3>5. Fine(w, j) BY <3>4 DEF Fine, Legal, Starting, Asking
    <3> QED BY <3>1, <3>5
  <2>2. CASE status \notin Active
    BY <1>1, <2>2 DEF Refresh, Restart
  <2> QED BY <2>1, <2>2
<1>2. CASE Gather(w) /\ Len(log) > cursor
  <2>1. PICK j : /\ Do(w, j)
                 /\ j = [job[w] EXCEPT !.at = "report", !.goal = Verdict, !.upto = Len(log)]
    BY <1>2 DEF Gather
  <2>2. j.at = "report" /\ j.goal = Verdict /\ j.seen = job[w].seen
    BY <1>0, <2>1 DEF Request
  <2>3. job[w].at = "gather" /\ Verdict \in Events BY <1>2, VerdictEnds DEF Gather, At
  <2>4. runner # "none" BY <2>3 DEF BoardInv, Reported, Asking
  <2> QED BY <1>0, <2>1, <2>2, <2>3, <2>4 DEF Fine, Legal, Starting
<1>3. CASE Gather(w) /\ ~ Len(log) > cursor
  <2>1. PICK j : j = [job[w] EXCEPT !.at = "poll"] /\ Do(w, j) BY <1>3 DEF Gather, Go
  <2>2. j.at = "poll" BY <1>0, <2>1 DEF Request
  <2> QED BY <2>1, <2>2 DEF Fine, Legal, Starting, Asking
<1>4. CASE Persist(w) \/ Poll(w)
  <2>1. \/ Do(w, Idle)
        \/ Do(w, [job[w] EXCEPT !.at = "write", !.goal = "failed"])
    BY <1>4 DEF Persist, Poll, Decide
  <2>2. PICK j : Do(w, j) /\ (j = Idle \/ j = [job[w] EXCEPT !.at = "write", !.goal = "failed"])
    BY <2>1
  <2>3. CASE j = Idle BY <2>2, <2>3 DEF Idle, Fine, Legal, Starting, Asking
  <2>4. CASE j = [job[w] EXCEPT !.at = "write", !.goal = "failed"]
    <3>1. j.at = "write" /\ j.goal = "failed" /\ j.seen = job[w].seen
      BY <1>0, <2>4 DEF Request
    <3>2. job[w].at \in {"persist", "poll"} BY <1>4, Zenon DEF Persist, Poll, At
    <3>3. j.seen \notin Terminal BY <3>1, <3>2, Typed DEF Sound, Refusal
    <3> QED BY <2>2, <3>1, <3>3 DEF Fine, Legal, Starting, Asking
  <2> QED BY <2>2, <2>3, <2>4
<1> QED BY <1>1, <1>2, <1>3, <1>4

(* cancel(), and the write of the row.                                      *)
LEMMA EndLegal ==
  ASSUME Inv, BoardInv, NEW w \in Workers, Cancel(w) \/ Await(w) \/ Update(w)
  PROVE  \E j : Do(w, j) /\ Fine(w, j)
<1>0. job[w] \in Request /\ Legal(job[w]) BY Typed DEF BoardInv
<1>1. CASE Cancel(w)
  <2>1. PICK at \in {"await", "write"} :
          Do(w, [Idle EXCEPT !.at = at, !.seen = status, !.goal = "cancelled", !.own = handle])
    BY <1>1 DEF Cancel
  <2>2. PICK j : /\ Do(w, j)
                 /\ j = [Idle EXCEPT !.at = at, !.seen = status, !.goal = "cancelled",
                                     !.own = handle]
    BY <2>1
  <2>3. j.at = at /\ j.goal = "cancelled" /\ j.seen = status BY <2>2 DEF Idle
  <2>4. status \notin Terminal BY <1>1 DEF Cancel, Active, Terminal
  <2> QED BY <2>2, <2>3, <2>4 DEF Fine, Legal, Starting, Asking
<1>2. CASE Await(w)
  <2>1. PICK j : j = [job[w] EXCEPT !.at = "write"] /\ Do(w, j) BY <1>2 DEF Await, Go
  <2>2. j.at = "write" /\ j.goal = job[w].goal /\ j.seen = job[w].seen
    BY <1>0, <2>1 DEF Request
  <2>3. job[w].at = "await" BY <1>2, Zenon DEF Await, At
  <2>4. j.seen \notin Terminal BY <2>2, <2>3, Typed DEF Sound, Refusal
  <2> QED BY <1>0, <2>1, <2>2, <2>3, <2>4 DEF Fine, Legal, Starting, Asking
<1>3. CASE Update(w)
  <2>1. PICK j : Do(w, j) /\ (j = Idle \/ j = [job[w] EXCEPT !.at = "persist"])
    BY <1>3 DEF Update, Go
  <2>2. j.at \in {"idle", "persist"} BY <1>0, <2>1 DEF Idle, Request
  <2> QED BY <2>1, <2>2 DEF Fine, Legal, Starting, Asking
<1> QED BY <1>1, <1>2, <1>3

(* While the start is not heard only a cancellation writes the row.         *)
LEMMA UpdateTells ==
  ASSUME Inv, BoardInv, NEW w \in Workers, Update(w), Starters # {}
  PROVE  status' = "cancelled"
<1>1. /\ status' = job[w].goal /\ job[w].at \in {"place", "write", "report"}
      /\ Legal(job[w]) /\ Sound(job[w])
  BY Typed DEF Update, At, BoardInv
<1>2. runner = "none" BY Typed DEF Starters, Sound
<1>3. job[w].at = "write" BY <1>1, <1>2 DEF Sound, BoardInv, Reported, Asking
<1>4. ~ Over BY <1>2 DEF Over, Closed, BoardInv, Blank
<1> QED BY <1>1, <1>3, <1>4 DEF Sound, Legal, Ends

LEMMA BoardSteps == Inv /\ BoardInv /\ [Next]_vars => BoardInv'
<1> SUFFICES ASSUME Inv, BoardInv, [Next]_vars PROVE BoardInv' OBVIOUS
<1>0. (runner' = "none" => runner = "none") /\ Blank'
  BY RunnerStays DEF BoardInv, Blank
<1>1. ASSUME NEW w \in Workers, NEW j, Do(w, j), Fine(w, j)
      PROVE  (\A v \in Workers : Legal(job[v])') /\ Starters' \subseteq Starters /\ Reported'
  BY <1>0, <1>1, LegalKept DEF Legal
<1>2. ASSUME UNCHANGED job
      PROVE  (\A v \in Workers : Legal(job[v])') /\ Starters' = Starters /\ Reported'
  BY <1>0, <1>2 DEF BoardInv, Legal, Starters, Reported
<1>3. CASE Emit \/ WriteResult \/ Exit \/ Killed \/ UNCHANGED vars
  <2>1. UNCHANGED <<status, placed, job>>
    BY <1>3, Zenon DEF Emit, WriteResult, Exit, Killed, vars, row
  <2> QED BY <1>0, <1>2, <2>1 DEF BoardInv, Untold
<1>a. ASSUME NEW w \in Workers, Create(w) PROVE BoardInv'
  <2>1. PICK j : j = [Idle EXCEPT !.at = "begin"] /\ Do(w, j) BY <1>a DEF Create
  <2>2. j.at = "begin" BY <2>1 DEF Idle
  <2>3. \A v \in Workers : job'[v] = IF v = w THEN j ELSE job[v]
    BY <2>1 DEF Do, Inv, Data
  <2>4. /\ \A v \in Workers : Legal(job[v])'
    BY <2>2, <2>3 DEF Legal, BoardInv
  <2>5. Reported' BY <1>0, <2>2, <2>3 DEF Reported, BoardInv, Asking
  <2>6. status' = "queued" /\ ~ placed /\ placed' = placed
    BY <1>a DEF Create, Inv, Whole
  <2> QED BY <1>0, <2>4, <2>5, <2>6 DEF BoardInv, Untold
<1>4. ASSUME NEW w \in Workers, Begin(w) \/ Spawn(w) \/ SpawnFails(w) \/ PlaceFails(w)
      PROVE  BoardInv'
  <2>1. UNCHANGED <<status, placed>>
    BY <1>4, Zenon DEF Begin, Spawn, SpawnFails, PlaceFails, row
  <2> QED BY <1>0, <1>1, <1>4, <2>1, StartLegal DEF BoardInv, Untold
<1>5. ASSUME NEW w \in Workers, Refresh(w) \/ Restart(w) \/ Gather(w) \/ Persist(w) \/ Poll(w)
      PROVE  BoardInv'
  <2>1. UNCHANGED <<status, placed>>
    BY <1>5, Zenon DEF Refresh, Restart, Gather, Persist, Poll, row
  <2> QED BY <1>0, <1>1, <1>2, <1>5, <2>1, RefreshLegal DEF BoardInv, Untold
<1>6. ASSUME NEW w \in Workers, Cancel(w) \/ Await(w) PROVE BoardInv'
  <2>1. UNCHANGED <<status, placed>>
    BY <1>6, Zenon DEF Cancel, Await, row
  <2> QED BY <1>0, <1>1, <1>6, <2>1, EndLegal DEF BoardInv, Untold
<1>7. ASSUME NEW w \in Workers, Update(w) PROVE BoardInv'
  <2>1. status' = job[w].goal /\ job[w].at \in {"place", "write", "report"} /\ Legal(job[w])
    BY <1>7 DEF Update, At, BoardInv
  <2>2. status' # "queued" BY <2>1 DEF Legal, Events
  <2>3. Starters # {} => status' = "cancelled" BY <1>7, UpdateTells
  <2> QED BY <1>0, <1>1, <1>7, <2>2, <2>3, EndLegal DEF BoardInv, Untold
<1>8. CASE Crash
  <2>1. job' = [w \in Workers |-> Idle] /\ UNCHANGED <<status, placed>>
    BY <1>8, Zenon DEF Crash, row
  <2>2. Legal(Idle) /\ Idle.at \notin Starting \cup Asking
    BY DEF Legal, Idle, Starting, Asking
  <2>3. \A v \in Workers : Legal(job[v])' BY <2>1, <2>2 DEF Legal
  <2>4. Starters' = {} /\ Reported' BY <2>1, <2>2 DEF Starters, Reported
  <2> QED BY <1>0, <2>1, <2>3, <2>4 DEF BoardInv, Untold
<1>9. CASE Recovered
  <2>1. UNCHANGED <<job, placed>> /\ status' \in {status, "interrupted"}
        /\ \A w \in Workers : job[w] = Idle
    BY <1>9 DEF Recovered, Recover
  <2>2. Starters' = {} BY <2>1 DEF Starters, Idle, Starting
  <2> QED BY <1>0, <1>2, <2>1, <2>2 DEF BoardInv, Untold
<1> QED BY <1>3, <1>a, <1>4, <1>5, <1>6, <1>7, <1>8, <1>9 DEF Next

(* A run implements its board: it is queued, runs and ends once, and only   *)
(* one that was running completes, whatever requests and crashes overlap,   *)
(* until a write replaces a status its request has not read. Only a start   *)
(* that reads a cancelled run, one that has no runner, ends a run again.    *)
THEOREM ImplementsBoard == Spec => KeepsBoard
<1> DEFINE Board == IF lost THEN "overwritten" ELSE status
           Order == <<"running", "completed">>
<1>1. Init => RunBoard!Init
  BY DEF Init, RunBoard!Init
<1>2. Init => BoardInv
  BY DEF Init, BoardInv, Legal, Idle, Reported, Untold, Blank, Asking, Starters, Starting
<1>3. Inv /\ BoardInv /\ [Next]_vars => [RunBoard!Next]_Board
  <2> SUFFICES ASSUME Inv, BoardInv, [Next]_vars, Board' # Board
               PROVE  RunBoard!Next
    OBVIOUS
  <2>1. Len(Order) = 2 /\ Order[1] = "running" /\ Order[2] = "completed" /\ 1 \in 1 .. 2 - 1
    OBVIOUS
  <2>2. "running" \in RunBoard!Underway
    BY <2>1 DEF RunBoard!Underway
  <2>3. ASSUME NEW w \in Workers, Update(w), ~lost'
        PROVE  RunBoard!Next
    <3>1. ~lost /\ status = job[w].seen /\ status' = job[w].goal
      BY <2>3, Zenon DEF Update
    <3>2. /\ job[w].at \in {"place", "write", "report"} /\ Legal(job[w])
          /\ Sound(job[w]) /\ status \in Statuses /\ status # "none"
      BY <2>3, Typed DEF Update, At, BoardInv, Sound, Inv, Data
    <3>a. CASE Refusal(job[w]) /\ status \in Terminal
      <4>1. status = "cancelled" /\ status' = "failed" /\ runner = "none"
        BY <3>1, <3>2, <3>a DEF Refusal, Legal
      <4> QED
        BY <2>3, <3>1, <4>1 DEF RunBoard!Next, RunBoard!Refuse, RunBoard!Move
    <3>b. CASE status \in Active
      <4>3. CASE job[w].at = "place"
        BY <2>1, <2>3, <3>1, <3>2, <3>b, <4>3 DEF Legal, RunBoard!Next, RunBoard!Start, RunBoard!Move
      <4>4. CASE status' = "failed"
        BY <2>2, <2>3, <3>1, <3>b, <4>4 DEF Active, RunBoard!Next, RunBoard!Fail, RunBoard!Move
      <4>5. CASE status' = "cancelled"
        BY <2>1, <2>3, <3>1, <3>b, <4>5 DEF Active, RunBoard!Next, RunBoard!Cancel, RunBoard!Move
      <4>6. CASE status = "running" /\ status' = "completed"
        <5>1. RunBoard!Move({Order[1]}, Order[1 + 1])
          BY <2>1, <2>3, <3>1, <4>6 DEF RunBoard!Move
        <5> QED BY <2>1, <5>1 DEF RunBoard!Next, RunBoard!Advance
      <4>7. CASE status' = status
        BY <2>3, <3>1, <4>7
      <4>8. CASE job[w].at \in {"write", "report"}
        <5>1. \/ job[w].goal \in {"failed", "cancelled"}
              \/ job[w].seen = "running" /\ job[w].goal \in {"running", "completed", "failed"}
          BY <3>2, <4>8 DEF Legal, Events
        <5> QED BY <3>1, <4>4, <4>5, <4>6, <4>7, <5>1
      <4> QED BY <3>2, <4>3, <4>8
    <3> QED BY <3>1, <3>2, <3>a, <3>b DEF Sound, Statuses
  <2>4. ASSUME NEW w \in Workers, Update(w)
        PROVE  RunBoard!Next
    BY <2>3, <2>4 DEF RunBoard!Next, RunBoard!Overwrite
  <2>5. ASSUME NEW w \in Workers, Create(w)
        PROVE  RunBoard!Next
    BY <2>5 DEF Create, RunBoard!Next, RunBoard!Queue, RunBoard!Move
  <2>6. ASSUME Recovered
        PROVE  RunBoard!Next
    <3>1. UNCHANGED lost
      BY <2>6, Zenon DEF Recovered, Recover
    <3>2. ~lost /\ status' = "interrupted" /\ status \in Active
      BY <2>6, <3>1 DEF Recovered, Recover
    <3> QED
      BY <2>2, <3>1, <3>2 DEF Active, RunBoard!Next, RunBoard!Interrupt, RunBoard!Move
  <2>7. ASSUME UNCHANGED <<status, lost>>
        PROVE  FALSE
    BY <2>7
  <2>8. ~(Emit \/ WriteResult \/ Exit \/ Killed \/ Crash \/ UNCHANGED vars)
    BY <2>7, Zenon DEF Emit, WriteResult, Exit, Killed, Crash, vars, row
  <2>9. ASSUME NEW w \in Workers
        PROVE  ~(Begin(w) \/ Spawn(w) \/ Refresh(w) \/ Gather(w) \/ Persist(w))
    BY <2>7, Zenon DEF Begin, Spawn, Refresh, Gather, Persist, row
  <2>10. ASSUME NEW w \in Workers
         PROVE  ~(Poll(w) \/ Cancel(w) \/ Await(w) \/ Restart(w))
    BY <2>7, Zenon DEF Poll, Cancel, Await, Restart, row
  <2>11. ASSUME NEW w \in Workers
         PROVE  ~(SpawnFails(w) \/ PlaceFails(w))
    BY <2>7, Zenon DEF SpawnFails, PlaceFails, row
  <2> QED
    BY <2>4, <2>5, <2>6, <2>8, <2>9, <2>10, <2>11, Zenon DEF Next
<1>4. QED
  BY <1>1, <1>2, <1>3, BoardSteps, RunInvariant, PTL DEF Spec, KeepsBoard, RunBoard!Spec
=============================================================================
