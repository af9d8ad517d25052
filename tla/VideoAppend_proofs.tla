------------------------- MODULE VideoAppend_proofs -------------------------
(* Proofs about VideoAppend for any number of job threads, batches, videos, *)
(* exceptions and crashes: where no two jobs meet, rows have files, what    *)
(* was appended stays, and what failed is undone.                           *)
(***************************************************************************)
EXTENDS VideoAppend, TLAPS

Data ==
  /\ videoRow \in SUBSET Videos /\ videoFile \in SUBSET Videos
  /\ frameRow \in [Batches -> SUBSET Videos] /\ frameFile \in [Batches -> SUBSET Videos]
  /\ manifest \in [Batches -> SUBSET Videos]
  /\ job \in [Workers -> Jobs]
  /\ kept \in SUBSET (Batches \X Videos)
  /\ contested \in SUBSET Videos /\ shared \in SUBSET Batches
Bound == troubles \in 0 .. MaxTroubles

(* An idle job has nothing in hand, any other a batch.                      *)
Whole(j) ==
  /\ j.framed \subseteq j.todo
  /\ j.at = "idle" => j.todo = {}
  /\ j.at # "idle" => j.batch \in Batches

(* Jobs that meet leave a trace of it.                                      *)
Apart ==
  \A w, x \in Workers : w # x =>
    /\ \A v \in job[w].todo \cap job[x].todo : v \in contested
    /\ job[w].at # "idle" /\ job[x].at # "idle" /\ job[w].batch = job[x].batch
         => job[w].batch \in shared

(* The foreign key of the frame rows.                                       *)
Keyed == \A b \in Batches : frameRow[b] \subseteq videoRow

(* What a job has done so far for a video that no other job has in hand.    *)
Unmoved == {"stage", "videos", "frames", "insert"}
Carried(j, v) ==
  /\ j.at \in Unmoved \cup {"undoFiles", "undoManifest"} => v \notin videoRow
  /\ j.at \in {"frames", "insert"} => v \in videoFile
  /\ j.at = "insert" => v \in frameFile[j.batch]
  /\ j.at \in {"read", "write"} => v \in videoRow /\ v \in frameRow[j.batch]
  /\ j.at = "undoManifest" =>
       /\ "videos" \in j.moved => v \notin videoFile
       /\ "frames" \in j.moved => v \notin frameFile[j.batch]
  /\ \A b \in Batches : <<b, v>> \notin kept /\ (b \notin shared => v \notin manifest[b])

(* The manifest a job has read is still that of its batch.                  *)
Read(j) ==
  /\ j.at \notin {"idle", "stage"} /\ j.batch \notin shared => j.orig = manifest[j.batch]
  /\ j.at = "write" /\ j.batch \notin shared => j.base = manifest[j.batch]

InRows == \A b \in Batches, v \in Videos : <<b, v>> \in kept /\ v \notin contested => v \in frameRow[b]

Inv ==
  /\ Data /\ Apart /\ Keyed /\ RowsHaveFiles /\ InRows /\ ManifestAgrees
  /\ \A w \in Workers :
       Whole(job[w]) /\ Read(job[w]) /\ \A v \in job[w].todo \ contested : Carried(job[w], v)

-----------------------------------------------------------------------------
LEMMA IdleJob == Idle \in Jobs /\ Whole(Idle) /\ Read(Idle)
  BY DEF Idle, Jobs, Whole, Read

LEMMA Initial == Init => Inv /\ Bound
<1> SUFFICES ASSUME Init PROVE Inv /\ Bound OBVIOUS
<1>1. Data /\ Bound BY IdleJob, TroublesAssumption DEF Init, Data, Bound
<1>2. \A w \in Workers : job[w] = Idle /\ job[w].todo = {} /\ job[w].at = "idle"
  BY DEF Init, Idle
<1>3. Apart BY <1>2 DEF Apart
<1>4. Keyed /\ RowsHaveFiles /\ InRows /\ ManifestAgrees
  BY DEF Init, Keyed, RowsHaveFiles, InRows, ManifestAgrees
<1> QED BY <1>1, <1>2, <1>3, <1>4, IdleJob DEF Inv

(* A job that goes on with some of what it has in hand, or is done, meets   *)
(* nobody it has not met before.                                            *)
LEMMA GoesOn ==
  ASSUME Inv, NEW w \in Workers, NEW j \in Jobs, Go(w, j), Whole(j),
         j.todo \subseteq job[w].todo,
         j.at # "idle" => job[w].at # "idle" /\ j.batch = job[w].batch,
         UNCHANGED <<contested, shared>>
  PROVE  /\ job' \in [Workers -> Jobs] /\ job'[w] = j
         /\ \A x \in Workers \ {w} : job'[x] = job[x]
         /\ Apart' /\ \A x \in Workers : Whole(job'[x])
<1>1. job' \in [Workers -> Jobs] /\ job'[w] = j /\ \A x \in Workers \ {w} : job'[x] = job[x]
  BY DEF Go, Inv, Data
<1>2. Apart' BY <1>1 DEF Inv, Apart
<1> QED BY <1>1, <1>2 DEF Inv

(* One job's step, put together from what it does for that job and what it  *)
(* leaves to the others.                                                    *)
LEMMA OneActs ==
  ASSUME Inv, NEW w \in Workers, NEW j \in Jobs, Go(w, j), Whole(j),
         j.todo \subseteq job[w].todo,
         j.at # "idle" => job[w].at # "idle" /\ j.batch = job[w].batch,
         UNCHANGED <<contested, shared>>,
         videoRow' \subseteq Videos, videoFile' \subseteq Videos,
         frameRow' \in [Batches -> SUBSET Videos], frameFile' \in [Batches -> SUBSET Videos],
         manifest' \in [Batches -> SUBSET Videos], kept' \subseteq Batches \X Videos,
         (Keyed /\ RowsHaveFiles /\ InRows /\ ManifestAgrees)',
         Read(j)', \A v \in j.todo \ contested : Carried(j, v)',
         \A x \in Workers \ {w} : Read(job[x])',
         \A x \in Workers \ {w} : \A v \in job[x].todo \ (job[w].todo \cup contested) :
           Carried(job[x], v)'
  PROVE  Inv'
<1>1. /\ job' \in [Workers -> Jobs] /\ job'[w] = j
      /\ \A x \in Workers \ {w} : job'[x] = job[x]
      /\ Apart' /\ \A x \in Workers : Whole(job'[x])
  BY GoesOn
<1>2. Data' BY <1>1 DEF Inv, Data
<1>3. \A x \in Workers \ {w} : \A v \in job[x].todo \ contested : Carried(job[x], v)'
  <2> TAKE x \in Workers \ {w}
  <2> TAKE v \in job[x].todo \ contested
  <2>1. v \notin job[w].todo BY DEF Inv, Apart
  <2> QED BY <2>1
<1>4. (\A x \in Workers : Whole(job[x]) /\ Read(job[x])
         /\ \A v \in job[x].todo \ contested : Carried(job[x], v))'
  <2>1. (Whole(job[w]) /\ Read(job[w]) /\ \A v \in job[w].todo \ contested : Carried(job[w], v))'
    BY <1>1 DEF Read, Carried
  <2>2. \A x \in Workers \ {w} :
          (Whole(job[x]) /\ Read(job[x]) /\ \A v \in job[x].todo \ contested : Carried(job[x], v))'
    BY <1>1, <1>3
  <2> QED BY <2>1, <2>2
<1> QED BY <1>1, <1>2, <1>4 DEF Inv

(* A job moves, and its files, rows and manifest stay.                      *)
LEMMA MoveKeeps ==
  ASSUME Inv, NEW w \in Workers, NEW j \in Jobs, Go(w, j), Whole(j), Read(j),
         j.todo \subseteq job[w].todo,
         j.at # "idle" => job[w].at # "idle" /\ j.batch = job[w].batch,
         \A v \in j.todo \ contested : Carried(j, v),
         UNCHANGED <<rows, files, manifest, history>>
  PROVE  Inv'
<1> USE DEF rows, files, history
<1>1. /\ job' \in [Workers -> Jobs] /\ job'[w] = j
      /\ \A x \in Workers \ {w} : job'[x] = job[x]
      /\ Apart' /\ \A x \in Workers : Whole(job'[x])
  BY GoesOn
<1>2. Data' BY <1>1 DEF Inv, Data
<1>3. (Keyed /\ RowsHaveFiles /\ InRows /\ ManifestAgrees)'
  BY DEF Inv, Keyed, RowsHaveFiles, InRows, ManifestAgrees, Appended
<1>4. (\A x \in Workers : Read(job[x]) /\ \A v \in job[x].todo \ contested : Carried(job[x], v))'
  BY <1>1 DEF Inv, Read, Carried
<1> QED BY <1>1, <1>2, <1>3, <1>4 DEF Inv

-----------------------------------------------------------------------------
LEMMA Fields ==
  ASSUME Inv, NEW w \in Workers
  PROVE  /\ job[w] \in Jobs /\ Whole(job[w]) /\ Read(job[w])
         /\ \A v \in job[w].todo \ contested : Carried(job[w], v)
  BY DEF Inv, Data

(* A new job has in hand what has no row; what another job has in hand too  *)
(* becomes contested.                                                       *)
LEMMA BeginKeeps == ASSUME Inv, NEW w \in Workers, Begin(w) PROVE Inv'
<1> USE DEF rows, files
<1> PICK b \in Batches, upload \in SUBSET Videos :
      /\ Go(w, [Idle EXCEPT !.at = "stage", !.batch = b, !.todo = upload \ videoRow])
      /\ contested' = contested \cup (upload \cap UNION {job[v].todo : v \in Running})
      /\ shared' = IF \E v \in Running : job[v].batch = b THEN shared \cup {b} ELSE shared
  BY DEF Begin
<1>0. job[w].at = "idle" /\ UNCHANGED <<rows, files, manifest, kept>> BY DEF Begin
<1> PICK j : j = [Idle EXCEPT !.at = "stage", !.batch = b, !.todo = upload \ videoRow] OBVIOUS
<1>1. j \in Jobs /\ j.at = "stage" /\ j.batch = b /\ j.todo = upload \ videoRow /\ j.framed = {}
  BY DEF Idle, Jobs
<1>2. /\ job' \in [Workers -> Jobs] /\ job'[w] = j
      /\ \A x \in Workers \ {w} : job'[x] = job[x]
  BY <1>1 DEF Go, Inv, Data
<1>3. contested \subseteq contested' /\ shared \subseteq shared' /\ contested' \subseteq Videos
      /\ shared' \subseteq Batches
  BY DEF Inv, Data
<1>4. \A x \in Workers \ {w} :
        /\ job[x].todo \cap j.todo \subseteq contested'
        /\ job[x].at # "idle" /\ job[x].batch = b => b \in shared'
  <2> TAKE x \in Workers \ {w}
  <2>1. CASE x \in Running BY <2>1, <1>1
  <2>2. CASE x \notin Running BY <2>2, <1>1 DEF Inv, Running, Whole
  <2> QED BY <2>1, <2>2
<1>5. Data' BY <1>0, <1>2, <1>3 DEF Inv, Data
<1>6. Apart'
  <2>1. \A x, y \in Workers \ {w} : x # y =>
          /\ job[x].todo \cap job[y].todo \subseteq contested
          /\ job[x].at # "idle" /\ job[y].at # "idle" /\ job[x].batch = job[y].batch
               => job[x].batch \in shared
    BY DEF Inv, Apart
  <2>2. \A x, y \in Workers : x # y =>
          /\ \A v \in job'[x].todo \cap job'[y].todo : v \in contested'
          /\ job'[x].at # "idle" /\ job'[y].at # "idle" /\ job'[x].batch = job'[y].batch
               => job'[x].batch \in shared'
    <3> TAKE x, y \in Workers
    <3> HAVE x # y
    <3>1. CASE x = w BY <3>1, <1>1, <1>2, <1>4
    <3>2. CASE y = w BY <3>2, <1>1, <1>2, <1>4
    <3>3. CASE x # w /\ y # w BY <3>3, <2>1, <1>2, <1>3
    <3> QED BY <3>1, <3>2, <3>3
  <2> QED BY <2>2 DEF Apart
<1>7. (Keyed /\ RowsHaveFiles /\ InRows /\ ManifestAgrees)'
  BY <1>0, <1>3 DEF Inv, Keyed, RowsHaveFiles, InRows, ManifestAgrees
<1>8. \A v \in j.todo \ contested' : Carried(j, v)'
  <2> TAKE v \in j.todo \ contested'
  <2>1. v \notin videoRow /\ v \notin contested /\ v \in Videos BY <1>1, <1>3
  <2>2. \A c \in Batches : v \notin frameRow[c] BY <2>1 DEF Inv, Keyed
  <2>3. \A c \in Batches : <<c, v>> \notin kept BY <2>1, <2>2 DEF Inv, InRows
  <2>4. \A c \in Batches \ shared : v \notin manifest[c] BY <2>1, <2>2 DEF Inv, ManifestAgrees
  <2> QED BY <2>1, <2>3, <2>4, <1>0, <1>1, <1>3 DEF Carried, Unmoved
<1>9. \A x \in Workers : Whole(job'[x]) BY <1>1, <1>2 DEF Inv, Whole
<1>10. \A x \in Workers \ {w} : Read(job[x])' /\ \A v \in job[x].todo \ contested' : Carried(job[x], v)'
  <2> TAKE x \in Workers \ {w}
  <2>1. job'[x] = job[x] /\ Read(job[x]) BY <1>2, Fields
  <2>2. Read(job[x])' BY <2>1, <1>0, <1>3 DEF Read
  <2>3. \A v \in job[x].todo \ contested' : Carried(job[x], v)'
    <3> TAKE v \in job[x].todo \ contested'
    <3>1. Carried(job[x], v) BY <1>3, Fields
    <3> QED BY <2>1, <3>1, <1>0, <1>3 DEF Carried
  <2> QED BY <2>2, <2>3
<1>11. Read(j)' BY <1>1 DEF Read
<1>12. (\A x \in Workers : Read(job[x]) /\ \A v \in job[x].todo \ contested : Carried(job[x], v))'
  BY <1>2, <1>8, <1>10, <1>11
<1> QED BY <1>5, <1>6, <1>7, <1>9, <1>12 DEF Inv

LEMMA StageKeeps == ASSUME Inv, NEW w \in Workers, Stage(w) PROVE Inv'
<1> PICK j : j = [job[w] EXCEPT !.at = "videos", !.orig = manifest[job[w].batch]] OBVIOUS
<1>1. job[w] \in Jobs /\ job[w].at = "stage" /\ Whole(job[w]) /\ job[w].batch \in Batches
  BY DEF Stage, Inv, Data, Whole
<1>2. /\ j \in Jobs /\ j.at = "videos" /\ j.batch = job[w].batch /\ j.todo = job[w].todo
      /\ j.framed = job[w].framed /\ j.orig = manifest[job[w].batch]
  BY <1>1 DEF Jobs, Inv, Data
<1>3. Go(w, j) /\ UNCHANGED <<rows, files, manifest, history>> BY DEF Stage
<1>4. Whole(j) /\ Read(j) BY <1>1, <1>2 DEF Whole, Read
<1>5. \A v \in j.todo \ contested : Carried(j, v)
  BY <1>1, <1>2, Fields DEF Carried, Unmoved
<1> QED BY <1>1, <1>2, <1>3, <1>4, <1>5, MoveKeeps

LEMMA IdleKeeps ==
  ASSUME Inv, NEW w \in Workers, Go(w, Idle), UNCHANGED <<rows, files, manifest, history>>
  PROVE  Inv'
<1>1. Idle.todo = {} /\ Idle.at = "idle" BY DEF Idle
<1> QED BY <1>1, IdleJob, MoveKeeps

LEMMA ReadKeeps == ASSUME Inv, NEW w \in Workers, ReadManifest(w) PROVE Inv'
<1> PICK j : j = [job[w] EXCEPT !.at = "write", !.base = manifest[job[w].batch]] OBVIOUS
<1>1. job[w] \in Jobs /\ job[w].at = "read" /\ Whole(job[w]) /\ job[w].batch \in Batches
  BY DEF ReadManifest, Inv, Data, Whole
<1>2. /\ j \in Jobs /\ j.at = "write" /\ j.batch = job[w].batch /\ j.todo = job[w].todo
      /\ j.framed = job[w].framed /\ j.base = manifest[job[w].batch] /\ j.orig = job[w].orig
  BY <1>1 DEF Jobs, Inv, Data
<1>3. Go(w, j) /\ UNCHANGED <<rows, files, manifest, history>> BY DEF ReadManifest
<1>4. Whole(j) /\ Read(j) BY <1>1, <1>2, Fields DEF Whole, Read
<1>5. \A v \in j.todo \ contested : Carried(j, v)
  BY <1>1, <1>2, Fields DEF Carried, Unmoved
<1> QED BY <1>1, <1>2, <1>3, <1>4, <1>5, MoveKeeps

(* An exception leaves files and rows as they are.                          *)
LEMMA FailKeeps == ASSUME Inv, NEW w \in Workers, Fail(w) PROVE Inv'
<1>1. job[w] \in Jobs /\ Whole(job[w]) /\ Read(job[w]) BY Fields
<1>2. UNCHANGED <<rows, files, manifest, history>> BY DEF Fail
<1>3. PICK j \in Jobs :
        /\ Go(w, j) /\ j.at = "undoRows" /\ job[w].at \notin {"idle", "stage"}
        /\ j.batch = job[w].batch /\ j.todo \subseteq job[w].todo
        /\ j.framed \subseteq j.todo /\ j.orig = job[w].orig
  <2>1. CASE job[w].at = "videos"
    <3> PICK listed \in SUBSET job[w].todo : \E framed \in SUBSET listed :
          Go(w, [job[w] EXCEPT !.at = "undoRows", !.todo = listed, !.framed = framed])
      BY <2>1 DEF Fail
    <3> PICK framed \in SUBSET listed :
          Go(w, [job[w] EXCEPT !.at = "undoRows", !.todo = listed, !.framed = framed])
      OBVIOUS
    <3> DEFINE j == [job[w] EXCEPT !.at = "undoRows", !.todo = listed, !.framed = framed]
    <3>1. /\ j \in Jobs /\ j.at = "undoRows" /\ j.batch = job[w].batch /\ j.todo = listed
          /\ j.framed = framed /\ j.orig = job[w].orig
      BY <1>1 DEF Jobs
    <3> QED BY <2>1, <3>1
  <2>2. CASE job[w].at # "videos"
    <3> DEFINE j == [job[w] EXCEPT !.at = "undoRows", !.framed = job[w].todo, !.base = {}]
    <3>1. Go(w, j) /\ job[w].at \notin {"idle", "stage"} BY <2>2 DEF Fail
    <3>2. /\ j \in Jobs /\ j.at = "undoRows" /\ j.batch = job[w].batch /\ j.todo = job[w].todo
          /\ j.framed = job[w].todo /\ j.orig = job[w].orig
      BY <1>1 DEF Jobs
    <3> QED BY <3>1, <3>2
  <2> QED BY <2>1, <2>2
<1>4. Whole(j) /\ Read(j) BY <1>1, <1>3 DEF Whole, Read
<1>5. \A v \in j.todo \ contested : Carried(j, v)
  BY <1>3, Fields DEF Carried, Unmoved
<1> QED BY <1>2, <1>3, <1>4, <1>5, MoveKeeps

(* Files are moved before the rows exist.                                   *)
LEMMA MoveVideosKeeps == ASSUME Inv, NEW w \in Workers, MoveVideos(w) PROVE Inv'
<1> USE DEF rows, files, history
<1> PICK j : j = [job[w] EXCEPT !.at = "frames", !.moved = {"videos"}] OBVIOUS
<1>1. job[w] \in Jobs /\ job[w].at = "videos" /\ Whole(job[w]) /\ job[w].batch \in Batches
  BY DEF MoveVideos, Inv, Data, Whole
<1>2. /\ j \in Jobs /\ j.at = "frames" /\ j.batch = job[w].batch /\ j.todo = job[w].todo
      /\ j.framed = job[w].framed /\ j.orig = job[w].orig
  BY <1>1 DEF Jobs
<1>3. /\ Go(w, j) /\ videoFile' = videoFile \cup job[w].todo
      /\ UNCHANGED <<rows, frameFile, manifest, history>>
  BY DEF MoveVideos
<1>4. Whole(j) /\ job[w].todo \subseteq Videos BY <1>1, <1>2 DEF Whole, Jobs
<1>5. (Keyed /\ RowsHaveFiles /\ InRows /\ ManifestAgrees)'
  BY <1>3 DEF Inv, Keyed, RowsHaveFiles, InRows, ManifestAgrees
<1>6. \A v \in j.todo \ contested : Carried(j, v)'
  BY <1>1, <1>2, <1>3, Fields DEF Carried, Unmoved
<1>7. Read(j)' BY <1>1, <1>2, <1>3, Fields DEF Read
<1>8. \A x \in Workers \ {w} : Read(job[x])' /\
        \A v \in job[x].todo \ (job[w].todo \cup contested) : Carried(job[x], v)'
  <2> TAKE x \in Workers \ {w}
  <2>1. job'[x] = job[x] BY <1>3 DEF Go, Inv, Data
  <2>2. Read(job[x])' BY <2>1, <1>3, Fields DEF Read
  <2>3. \A v \in job[x].todo \ (job[w].todo \cup contested) : Carried(job[x], v)'
    BY <2>1, <1>3, Fields DEF Carried
  <2> QED BY <2>2, <2>3
<1> QED BY <1>1, <1>2, <1>3, <1>4, <1>5, <1>6, <1>7, <1>8, OneActs DEF Inv, Data

LEMMA MoveFramesKeeps == ASSUME Inv, NEW w \in Workers, MoveFrames(w) PROVE Inv'
<1> USE DEF rows, files, history
<1> PICK j : j = [job[w] EXCEPT !.at = "insert", !.moved = {"videos", "frames"}] OBVIOUS
<1>1. job[w] \in Jobs /\ job[w].at = "frames" /\ Whole(job[w]) /\ job[w].batch \in Batches
  BY DEF MoveFrames, Inv, Data, Whole
<1>2. /\ j \in Jobs /\ j.at = "insert" /\ j.batch = job[w].batch /\ j.todo = job[w].todo
      /\ j.framed = job[w].framed /\ j.orig = job[w].orig
  BY <1>1 DEF Jobs
<1>3. /\ Go(w, j) /\ frameFile' = [frameFile EXCEPT ![job[w].batch] = @ \cup job[w].todo]
      /\ UNCHANGED <<rows, videoFile, manifest, history>>
  BY DEF MoveFrames
<1>4. Whole(j) /\ job[w].todo \subseteq Videos BY <1>1, <1>2 DEF Whole, Jobs
<1>5. /\ frameFile' \in [Batches -> SUBSET Videos]
      /\ \A b \in Batches : frameFile'[b] =
           IF b = job[w].batch THEN frameFile[b] \cup job[w].todo ELSE frameFile[b]
  BY <1>1, <1>3, <1>4 DEF Inv, Data
<1>6. (Keyed /\ RowsHaveFiles /\ InRows /\ ManifestAgrees)'
  BY <1>3, <1>5 DEF Inv, Keyed, RowsHaveFiles, InRows, ManifestAgrees
<1>7. \A v \in j.todo \ contested : Carried(j, v)'
  BY <1>1, <1>2, <1>3, <1>5, Fields DEF Carried, Unmoved
<1>8. Read(j)' BY <1>1, <1>2, <1>3, Fields DEF Read
<1>9. \A x \in Workers \ {w} : Read(job[x])' /\
        \A v \in job[x].todo \ (job[w].todo \cup contested) : Carried(job[x], v)'
  <2> TAKE x \in Workers \ {w}
  <2>1. job'[x] = job[x] /\ (job[x].at # "idle" => job[x].batch \in Batches)
    BY <1>3, Fields DEF Go, Inv, Data, Whole
  <2>2. Read(job[x])' BY <2>1, <1>3, Fields DEF Read
  <2>3. \A v \in job[x].todo \ (job[w].todo \cup contested) : Carried(job[x], v)'
    BY <2>1, <1>3, <1>5, Fields DEF Carried
  <2> QED BY <2>2, <2>3
<1> QED BY <1>1, <1>2, <1>3, <1>4, <1>5, <1>6, <1>7, <1>8, <1>9, OneActs DEF Inv, Data

(* The rows come in where their files are, and nobody else has in hand what *)
(* they stand for.                                                          *)
LEMMA InsertKeeps == ASSUME Inv, NEW w \in Workers, Insert(w) PROVE Inv'
<1> USE DEF rows, files, history
<1> PICK j : j = [job[w] EXCEPT !.at = "read"] OBVIOUS
<1>1. job[w] \in Jobs /\ job[w].at = "insert" /\ Whole(job[w]) /\ job[w].batch \in Batches
  BY DEF Insert, Step, Inv, Data, Whole
<1>2. /\ j \in Jobs /\ j.at = "read" /\ j.batch = job[w].batch /\ j.todo = job[w].todo
      /\ j.framed = job[w].framed /\ j.orig = job[w].orig
  BY <1>1 DEF Jobs
<1>3. /\ Go(w, j) /\ videoRow' = videoRow \cup job[w].todo
      /\ frameRow' = [frameRow EXCEPT ![job[w].batch] = @ \cup job[w].todo]
      /\ UNCHANGED <<files, manifest, history>>
  BY DEF Insert, Step
<1>4. Whole(j) /\ job[w].todo \subseteq Videos BY <1>1, <1>2 DEF Whole, Jobs
<1>5. /\ frameRow' \in [Batches -> SUBSET Videos]
      /\ \A b \in Batches : frameRow'[b] =
           IF b = job[w].batch THEN frameRow[b] \cup job[w].todo ELSE frameRow[b]
  BY <1>1, <1>3, <1>4 DEF Inv, Data
<1>6. Keyed' /\ InRows' /\ ManifestAgrees'
  BY <1>3, <1>5 DEF Inv, Keyed, InRows, ManifestAgrees
<1>7. RowsHaveFiles'
  BY <1>1, <1>3, <1>5, Fields DEF Inv, RowsHaveFiles, Carried
<1>8. \A v \in j.todo \ contested : Carried(j, v)'
  BY <1>1, <1>2, <1>3, <1>5, Fields DEF Carried, Unmoved
<1>9. Read(j)' BY <1>1, <1>2, <1>3, Fields DEF Read
<1>10. \A x \in Workers \ {w} : Read(job[x])' /\
         \A v \in job[x].todo \ (job[w].todo \cup contested) : Carried(job[x], v)'
  <2> TAKE x \in Workers \ {w}
  <2>1. job'[x] = job[x] /\ (job[x].at # "idle" => job[x].batch \in Batches)
    BY <1>3, Fields DEF Go, Inv, Data, Whole
  <2>2. Read(job[x])' BY <2>1, <1>3, Fields DEF Read
  <2>3. \A v \in job[x].todo \ (job[w].todo \cup contested) : Carried(job[x], v)'
    BY <2>1, <1>3, <1>5, Fields DEF Carried
  <2> QED BY <2>2, <2>3
<1> QED BY <1>1, <1>2, <1>3, <1>4, <1>5, <1>6, <1>7, <1>8, <1>9, <1>10, OneActs DEF Inv, Data

(* Where nobody shares the batch the manifest is extended.                  *)
LEMMA WriteKeeps == ASSUME Inv, NEW w \in Workers, WriteManifest(w) PROVE Inv'
<1> USE DEF rows, files
<1> PICK b : b = job[w].batch OBVIOUS
<1>1. job[w] \in Jobs /\ job[w].at = "write" /\ Whole(job[w]) /\ b \in Batches
  BY DEF WriteManifest, Inv, Data, Whole
<1>2. /\ Go(w, Idle) /\ manifest' = [manifest EXCEPT ![b] = job[w].base \cup job[w].todo]
      /\ kept' = kept \cup {b} \X job[w].todo
      /\ UNCHANGED <<rows, files, contested, shared>>
  BY DEF WriteManifest
<1>3. job[w].todo \subseteq Videos /\ job[w].base \subseteq Videos BY <1>1 DEF Jobs
<1>4. /\ manifest' \in [Batches -> SUBSET Videos] /\ kept' \subseteq Batches \X Videos
      /\ manifest'[b] = job[w].base \cup job[w].todo
      /\ \A c \in Batches \ {b} : manifest'[c] = manifest[c]
  BY <1>1, <1>2, <1>3 DEF Inv, Data
<1>5. \A c \in Batches, v \in Videos :
        <<c, v>> \in kept' <=> <<c, v>> \in kept \/ (c = b /\ v \in job[w].todo)
  BY <1>1, <1>2, <1>3
<1>6. b \notin shared => manifest'[b] = manifest[b] \cup job[w].todo
  BY <1>1, <1>4, Fields DEF Read
<1>7. \A v \in job[w].todo \ contested : v \in frameRow[b]
  BY <1>1, Fields DEF Carried
<1>8. Keyed' /\ RowsHaveFiles' BY <1>2 DEF Inv, Keyed, RowsHaveFiles
<1>9. InRows' BY <1>2, <1>5, <1>7 DEF Inv, InRows
<1>10. ManifestAgrees'
  BY <1>2, <1>3, <1>4, <1>5, <1>6, <1>7 DEF Inv, ManifestAgrees, Data
<1>11. \A x \in Workers \ {w} : Read(job[x])' /\
         \A v \in job[x].todo \ (job[w].todo \cup contested) : Carried(job[x], v)'
  <2> TAKE x \in Workers \ {w}
  <2>1. job'[x] = job[x] /\ job[x] \in Jobs /\ Whole(job[x]) BY <1>2, Fields DEF Go, Inv, Data
  <2>2. job[x].at # "idle" /\ job[x].batch = b => b \in shared BY <1>1 DEF Inv, Apart
  <2>3. Read(job[x])' BY <2>1, <2>2, <1>2, <1>4, Fields DEF Read, Whole
  <2>4. ASSUME NEW v \in job[x].todo \ (job[w].todo \cup contested) PROVE Carried(job[x], v)'
    <3>1. Carried(job[x], v) /\ v \in Videos BY <2>1, Fields DEF Jobs
    <3>2. \A c \in Batches : <<c, v>> \notin kept' /\ (c \notin shared => v \notin manifest'[c])
      BY <3>1, <1>4, <1>5, <1>6 DEF Carried
    <3> QED BY <2>1, <3>1, <3>2, <1>2 DEF Carried
  <2> QED BY <2>3, <2>4
<1>12. Idle.todo = {} /\ Idle.at = "idle" BY DEF Idle
<1>13. Read(Idle)' /\ \A v \in Idle.todo \ contested : Carried(Idle, v)'
  BY <1>12 DEF Read
<1> QED BY <1>1, <1>2, <1>4, <1>8, <1>9, <1>10, <1>11, <1>12, <1>13, IdleJob, OneActs DEF Inv, Data

-----------------------------------------------------------------------------
(* The compensation deletes the rows of what the job has in hand.           *)
LEMMA UndoRowsKeeps == ASSUME Inv, NEW w \in Workers, UndoRows(w) PROVE Inv'
<1> USE DEF rows, files, history
<1> PICK b : b = job[w].batch OBVIOUS
<1> PICK left : left = [frameRow EXCEPT ![b] = @ \ job[w].framed] OBVIOUS
<1>1. /\ job[w] \in Jobs /\ job[w].at = "undoRows" /\ Whole(job[w]) /\ b \in Batches
      /\ UNCHANGED <<files, manifest, history>>
  BY DEF UndoRows, Inv, Data, Whole
<1>2. CASE \E c \in Batches : left[c] \cap job[w].todo # {}
  <2>1. Go(w, Idle) /\ UNCHANGED rows BY <1>2 DEF UndoRows
  <2> QED BY <1>1, <2>1, IdleKeeps
<1>3. CASE \A c \in Batches : left[c] \cap job[w].todo = {}
  <2> PICK j : j = [job[w] EXCEPT !.at = "undoFiles", !.framed = {}] OBVIOUS
  <2>1. frameRow' = left /\ videoRow' = videoRow \ job[w].todo /\ Go(w, j)
    BY <1>3 DEF UndoRows
  <2>2. /\ j \in Jobs /\ j.at = "undoFiles" /\ j.batch = b /\ j.todo = job[w].todo
        /\ j.framed = {} /\ j.orig = job[w].orig
    BY <1>1 DEF Jobs
  <2>3. Whole(j) BY <1>1, <2>2 DEF Whole
  <2>4. /\ frameRow' \in [Batches -> SUBSET Videos] /\ job[w].framed \subseteq job[w].todo
        /\ \A c \in Batches : frameRow'[c] \subseteq frameRow[c]
                              /\ frameRow[c] \subseteq frameRow'[c] \cup job[w].todo
    BY <1>1, <2>1 DEF Inv, Data, Whole
  <2>5. Keyed' BY <1>3, <2>1, <2>4 DEF Inv, Keyed
  <2>6. RowsHaveFiles' BY <1>1, <2>1, <2>4 DEF Inv, RowsHaveFiles
  <2>7. InRows' BY <1>1, <2>4, Fields DEF Inv, InRows, Carried
  <2>8. ManifestAgrees'
    <3>1. \A c \in Batches \ shared : manifest[c] \ contested \subseteq frameRow[c]
      BY DEF Inv, ManifestAgrees
    <3>2. \A c \in Batches \ shared : \A v \in job[w].todo \ contested : v \notin manifest[c]
      BY Fields DEF Carried
    <3>3. \A c \in Batches \ shared : manifest[c] \ contested \subseteq frameRow'[c]
      BY <3>1, <3>2, <2>4
    <3> QED BY <1>1, <3>3 DEF Inv, ManifestAgrees
  <2>9. \A v \in j.todo \ contested : Carried(j, v)'
    BY <1>1, <2>1, <2>2, Fields DEF Carried
  <2>10. Read(j)' BY <1>1, <2>2, Fields DEF Read
  <2>11. \A x \in Workers \ {w} : Read(job[x])' /\
           \A v \in job[x].todo \ (job[w].todo \cup contested) : Carried(job[x], v)'
    <3> TAKE x \in Workers \ {w}
    <3>1. job'[x] = job[x] /\ (job[x].at # "idle" => job[x].batch \in Batches)
      BY <2>1, Fields DEF Go, Inv, Data, Whole
    <3>2. Read(job[x])' BY <3>1, <1>1, Fields DEF Read
    <3>3. \A v \in job[x].todo \ (job[w].todo \cup contested) : Carried(job[x], v)'
      BY <3>1, <1>1, <2>1, <2>4, Fields DEF Carried
    <3> QED BY <3>2, <3>3
  <2> QED BY <1>1, <2>1, <2>2, <2>3, <2>4, <2>5, <2>6, <2>7, <2>8, <2>9, <2>10, <2>11, OneActs
          DEF Inv, Data
<1> QED BY <1>2, <1>3

(* Then the files: their rows are gone, or never were.                      *)
LEMMA UndoFilesKeeps == ASSUME Inv, NEW w \in Workers, UndoFiles(w) PROVE Inv'
<1> USE DEF rows, files, history
<1> PICK b : b = job[w].batch OBVIOUS
<1> PICK j : j = [job[w] EXCEPT !.at = "undoManifest"] OBVIOUS
<1>1. /\ job[w] \in Jobs /\ job[w].at = "undoFiles" /\ Whole(job[w]) /\ b \in Batches
      /\ UNCHANGED <<rows, manifest, history>> /\ Go(w, j)
  BY DEF UndoFiles, Step, Inv, Data, Whole
<1>2. /\ j \in Jobs /\ j.at = "undoManifest" /\ j.batch = b /\ j.todo = job[w].todo
      /\ j.framed = job[w].framed /\ j.orig = job[w].orig /\ j.moved = job[w].moved
  BY <1>1 DEF Jobs
<1>3. Whole(j) BY <1>1, <1>2 DEF Whole
<1>4. /\ videoFile' \subseteq videoFile /\ videoFile \subseteq videoFile' \cup job[w].todo
      /\ "videos" \in job[w].moved => videoFile' = videoFile \ job[w].todo
  BY DEF UndoFiles
<1>5. /\ frameFile' \in [Batches -> SUBSET Videos]
      /\ \A c \in Batches : frameFile'[c] \subseteq frameFile[c]
                            /\ frameFile[c] \subseteq frameFile'[c] \cup job[w].todo
      /\ "frames" \in job[w].moved => frameFile'[b] = frameFile[b] \ job[w].todo
  BY <1>1 DEF UndoFiles, Inv, Data
<1>6. Keyed' /\ InRows' /\ ManifestAgrees' BY <1>1 DEF Inv, Keyed, InRows, ManifestAgrees
<1>7. \A v \in job[w].todo \ contested : v \notin videoRow /\ \A c \in Batches : v \notin frameRow[c]
  BY <1>1, Fields DEF Inv, Carried, Keyed
<1>8. RowsHaveFiles' BY <1>1, <1>4, <1>5, <1>7 DEF Inv, RowsHaveFiles
<1>9. \A v \in j.todo \ contested : Carried(j, v)'
  BY <1>1, <1>2, <1>4, <1>5, <1>7, Fields DEF Carried, Unmoved
<1>10. Read(j)' BY <1>1, <1>2, Fields DEF Read
<1>11. \A x \in Workers \ {w} : Read(job[x])' /\
         \A v \in job[x].todo \ (job[w].todo \cup contested) : Carried(job[x], v)'
  <2> TAKE x \in Workers \ {w}
  <2>1. job'[x] = job[x] /\ (job[x].at # "idle" => job[x].batch \in Batches)
    BY <1>1, Fields DEF Go, Inv, Data, Whole
  <2>2. Read(job[x])' BY <2>1, <1>1, Fields DEF Read
  <2>3. \A v \in job[x].todo \ (job[w].todo \cup contested) : Carried(job[x], v)'
    BY <2>1, <1>1, <1>4, <1>5, Fields DEF Carried
  <2> QED BY <2>2, <2>3
<1> QED BY <1>1, <1>2, <1>3, <1>4, <1>5, <1>6, <1>8, <1>9, <1>10, <1>11, OneActs DEF Inv, Data

(* Where nobody shares the batch, putting the manifest back changes nothing.*)
LEMMA UndoManifestKeeps == ASSUME Inv, NEW w \in Workers, UndoManifest(w) PROVE Inv'
<1> USE DEF rows, files, history
<1> PICK b : b = job[w].batch OBVIOUS
<1>1. /\ job[w] \in Jobs /\ job[w].at = "undoManifest" /\ Whole(job[w]) /\ b \in Batches
      /\ job[w].orig \subseteq Videos
  BY DEF UndoManifest, Inv, Data, Whole, Jobs
<1>2. /\ Go(w, Idle) /\ manifest' = [manifest EXCEPT ![b] = job[w].orig]
      /\ UNCHANGED <<rows, files, history>>
  BY DEF UndoManifest
<1>3. /\ manifest' \in [Batches -> SUBSET Videos]
      /\ \A c \in Batches : c # b \/ b \notin shared => manifest'[c] = manifest[c]
  BY <1>1, <1>2, Fields DEF Inv, Data, Read
<1>4. (Keyed /\ RowsHaveFiles /\ InRows /\ ManifestAgrees)'
  BY <1>2, <1>3 DEF Inv, Keyed, RowsHaveFiles, InRows, ManifestAgrees
<1>5. \A x \in Workers \ {w} : Read(job[x])' /\
        \A v \in job[x].todo \ (job[w].todo \cup contested) : Carried(job[x], v)'
  <2> TAKE x \in Workers \ {w}
  <2>1. job'[x] = job[x] /\ (job[x].at # "idle" => job[x].batch \in Batches)
    BY <1>2, Fields DEF Go, Inv, Data, Whole
  <2>2. Read(job[x])' BY <2>1, <1>2, <1>3, Fields DEF Read
  <2>3. \A v \in job[x].todo \ (job[w].todo \cup contested) : Carried(job[x], v)'
    BY <2>1, <1>2, <1>3, Fields DEF Carried
  <2> QED BY <2>2, <2>3
<1>6. Idle.todo = {} /\ Idle.at = "idle" BY DEF Idle
<1>7. Read(Idle)' /\ \A v \in Idle.todo \ contested : Carried(Idle, v)'
  BY <1>6 DEF Read
<1> QED BY <1>1, <1>2, <1>3, <1>4, <1>5, <1>6, <1>7, IdleJob, OneActs DEF Inv, Data

LEMMA CrashKeeps == ASSUME Inv, Crash PROVE Inv'
<1> USE DEF rows, files, history
<1>1. Idle.todo = {} /\ Idle.at = "idle" BY DEF Idle
<1>2. UNCHANGED <<rows, files, manifest, history>> /\ job' = [w \in Workers |-> Idle] BY DEF Crash
<1>3. Data' /\ Apart' BY <1>1, <1>2, IdleJob DEF Inv, Data, Apart
<1>4. (Keyed /\ RowsHaveFiles /\ InRows /\ ManifestAgrees)'
  BY <1>2 DEF Inv, Keyed, RowsHaveFiles, InRows, ManifestAgrees
<1>5. (\A w \in Workers :
        Whole(job[w]) /\ Read(job[w]) /\ \A v \in job[w].todo \ contested : Carried(job[w], v))'
  BY <1>1, <1>2, IdleJob DEF Read
<1> QED BY <1>3, <1>4, <1>5 DEF Inv

-----------------------------------------------------------------------------
LEMMA StepKeeps == Inv /\ [Next]_vars => Inv'
<1> SUFFICES ASSUME Inv, [Next]_vars PROVE Inv' OBVIOUS
<1>1. ASSUME NEW w \in Workers, Skip(w) PROVE Inv' BY <1>1, IdleKeeps DEF Skip
<1>2. CASE UNCHANGED vars
  BY <1>2 DEF vars, rows, files, history, Inv, Data, Apart, Keyed, RowsHaveFiles, InRows,
     ManifestAgrees, Whole, Read, Carried
<1> QED BY <1>1, <1>2, BeginKeeps, StageKeeps, MoveVideosKeeps, MoveFramesKeeps, InsertKeeps,
           ReadKeeps, WriteKeeps, FailKeeps, UndoRowsKeeps, UndoFilesKeeps, UndoManifestKeeps,
           CrashKeeps DEF Next

(* Everything that the code relies on without saying so holds at all times. *)
THEOREM AppendInvariant == Spec => []Inv
  BY Initial, StepKeeps, PTL DEF Spec

LEMMA TroublesStay == Bound /\ [Next]_vars => Bound'
<1> SUFFICES ASSUME Bound, [Next]_vars PROVE Bound' OBVIOUS
<1>1. CASE UNCHANGED troubles BY <1>1 DEF Bound
<1>2. CASE Trouble BY <1>2, TroublesAssumption DEF Bound, Trouble
<1> QED BY <1>1, <1>2 DEF Next, Begin, Stage, Skip, MoveVideos, MoveFrames, Insert, ReadManifest,
           WriteManifest, Fail, UndoRows, UndoFiles, UndoManifest, Crash, vars

(* Every variable keeps its type.                                           *)
THEOREM TypeCorrect == Spec => []TypeOK
<1>1. Spec => []Bound BY Initial, TroublesStay, PTL DEF Spec
<1>2. Inv /\ Bound => TypeOK BY DEF Inv, Data, Bound, TypeOK
<1> QED BY <1>1, <1>2, AppendInvariant, PTL

(* Whatever fails or crashes, a row of a video that no two jobs appended at *)
(* the same time has its file.                                              *)
THEOREM FilesOfRows == Spec => []RowsHaveFiles
<1>1. Inv => RowsHaveFiles BY DEF Inv
<1> QED BY <1>1, AppendInvariant, PTL

(* An append that was answered as done stays.                               *)
THEOREM AppendsStay == Spec => []KeptStaysUnlessContested
<1>1. Inv => KeptStaysUnlessContested
  <2> SUFFICES ASSUME Inv, NEW e \in kept, e[2] \notin contested PROVE Appended(e[1], e[2])
    BY DEF KeptStaysUnlessContested
  <2>1. e[1] \in Batches /\ e[2] \in Videos /\ <<e[1], e[2]>> \in kept BY DEF Inv, Data
  <2>2. e[2] \in frameRow[e[1]] BY <2>1 DEF Inv, InRows
  <2> QED BY <2>1, <2>2 DEF Inv, Appended, Keyed, RowsHaveFiles
<1> QED BY <1>1, AppendInvariant, PTL

(* The manifest of a batch that one job at a time appended to agrees with   *)
(* the rows.                                                                *)
THEOREM ManifestOfRows == Spec => []ManifestAgrees
<1>1. Inv => ManifestAgrees BY DEF Inv
<1> QED BY <1>1, AppendInvariant, PTL

(* A compensation that comes to its end leaves nothing of the append.       *)
THEOREM Undone == Spec => NothingLeft
<1> DEFINE Left == \A w \in Workers : UndoManifest(w) =>
       \A v \in job[w].todo \ contested :
         LET b == job[w].batch IN
         /\ v \notin videoRow /\ v \notin frameRow[b]
         /\ "videos" \in job[w].moved => v \notin videoFile
         /\ "frames" \in job[w].moved => v \notin frameFile[b]
         /\ b \notin shared => v \notin manifest'[b]
<1>1. Inv => Left
  <2> SUFFICES ASSUME Inv, NEW w \in Workers, UndoManifest(w), NEW v \in job[w].todo \ contested
      PROVE LET b == job[w].batch IN
         /\ v \notin videoRow /\ v \notin frameRow[b]
         /\ "videos" \in job[w].moved => v \notin videoFile
         /\ "frames" \in job[w].moved => v \notin frameFile[b]
         /\ b \notin shared => v \notin manifest'[b]
    OBVIOUS
  <2>1. /\ job[w].at = "undoManifest" /\ job[w].batch \in Batches /\ Carried(job[w], v)
        /\ Read(job[w]) /\ manifest' = [manifest EXCEPT ![job[w].batch] = job[w].orig]
    BY Fields DEF UndoManifest, Whole
  <2>2. v \notin videoRow /\ v \notin frameRow[job[w].batch] BY <2>1 DEF Carried, Inv, Keyed
  <2>3. job[w].batch \notin shared => v \notin manifest'[job[w].batch]
    BY <2>1 DEF Carried, Read, Inv, Data
  <2> QED BY <2>1, <2>2, <2>3 DEF Carried
<1>2. Inv => [Left]_vars BY <1>1
<1> QED BY <1>2, AppendInvariant, PTL DEF NothingLeft
=============================================================================
