----------------------------- MODULE CaptureStore -----------------------------
(* Videos and frames of one task: background imports of video collections    *)
(* (video/import_service.py), background extractions of frame batches        *)
(* (bg_frame_extract, frames/extractor.py), and the requests that delete a   *)
(* batch or a collection, their rows first and their files after. SQLite     *)
(* runs with foreign keys on. Videos stand for their contents; VideoAppend   *)
(* has the uploads into a collection that exists.                            *)
(*****************************************************************************)
EXTENDS Integers, Sequences, FiniteSets, SequencesExt

CONSTANTS
  Workers,     \* background jobs and requests at one time
  Collections, Batches, Videos,
  Nobody,      \* no collection, no batch
  MaxJobs,     \* bound: how many jobs are begun
  MaxTroubles  \* bound: crashes and failing copies

VARIABLES
  collections, \* the collection rows
  assets,      \* the video rows of every collection, in the order of their insertion
  stored,      \* the video files, <<collection, video>>
  tmps,        \* copies still under their temporary name
  batch,       \* the collection of every batch row, or Nobody
  frames,      \* the frame rows
  images,      \* the frame files, [batch, collection, video, pos]
  dirs,        \* the batches with a directory
  job,         \* what every worker is doing
  jobs, troubles, \* how many so far
  contested,   \* history: collections and batches two jobs worked on at once
  mixed        \* history: the intervals every batch was extracted with

vars == <<collections, assets, stored, tmps, batch, frames, images, dirs, job, jobs,
          troubles, contested, mixed>>
rows == <<collections, assets, batch, frames>>
disk == <<stored, tmps, images, dirs>>
counts == <<jobs, troubles, contested, mixed>>

Idle == [at |-> "idle", c |-> Nobody, b |-> Nobody, every |-> 1, artifacts |-> FALSE,
         cascade |-> FALSE, todo |-> {}, known |-> {}, made |-> {}, doomed |-> {},
         list |-> <<>>, shot |-> <<>>]

Init ==
  /\ collections = {} /\ assets = [c \in Collections |-> <<>>] /\ stored = {} /\ tmps = {}
  /\ batch = [b \in Batches |-> Nobody] /\ frames = {} /\ images = {} /\ dirs = {}
  /\ job = [w \in Workers |-> Idle] /\ jobs = 0 /\ troubles = 0
  /\ contested = {} /\ mixed = [b \in Batches |-> {}]

Imported == UNION {ToSet(assets[c]) : c \in Collections}
BatchesOf(c) == {b \in Batches : batch[b] = c}
Touched(j) == ({j.c, j.b} \cup j.doomed) \ {Nobody}

Begin(w, j) ==
  /\ job[w] = Idle /\ jobs < MaxJobs
  /\ job' = [job EXCEPT ![w] = j]
  /\ jobs' = jobs + 1
  /\ contested' = contested \cup (Touched(j) \cap UNION {Touched(job[o]) : o \in Workers})
  /\ UNCHANGED <<rows, disk, troubles>>

Go(w, j) == job' = [job EXCEPT ![w] = j] /\ UNCHANGED counts
At(w, step) == Go(w, [job[w] EXCEPT !.at = step])
End(w) == Go(w, Idle)

BeginImport(w, c, S) ==
  /\ S # {}
  /\ Begin(w, [Idle EXCEPT !.at = "look", !.c = c, !.todo = S])
  /\ UNCHANGED mixed
BeginExtract(w, c, b, every) ==
  /\ c \in collections
  /\ Begin(w, [Idle EXCEPT !.at = "list", !.c = c, !.b = b, !.every = every])
  /\ mixed' = [mixed EXCEPT ![b] = @ \cup {every}]
BeginDeleteBatch(w, b, artifacts) ==
  /\ Begin(w, [Idle EXCEPT !.at = "delete", !.b = b, !.artifacts = artifacts])
  /\ UNCHANGED mixed
BeginDeleteCollection(w, c, artifacts, cascade) ==
  /\ Begin(w, [Idle EXCEPT !.at = "delete", !.c = c, !.artifacts = artifacts,
                           !.cascade = cascade])
  /\ UNCHANGED mixed

----
(* import_video_collection.                                                  *)
Look(w) ==
  /\ job[w].at = "look"
  /\ IF job[w].c \in collections THEN End(w)
     ELSE Go(w, [job[w] EXCEPT !.at = "copy", !.known = Imported])
  /\ UNCHANGED <<rows, disk>>

(* A content of the task that is known already is skipped.                   *)
Copy(w, v) ==
  LET j == job[w] IN
    /\ j.at = "copy" /\ v \in j.todo
    /\ IF v \in j.known THEN Go(w, [j EXCEPT !.todo = @ \ {v}]) /\ UNCHANGED tmps
       ELSE /\ tmps' = tmps \cup {<<j.c, v>>}
            /\ Go(w, [j EXCEPT !.at = "place", !.todo = @ \ {v}, !.known = @ \cup {v},
                               !.list = Append(@, v)])
    /\ UNCHANGED <<rows, stored, images, dirs>>

(* The copy is renamed; the file counts as created here unless one was there *)
(* already. Another import that failed may have removed the copy.            *)
Place(w) ==
  LET j == job[w] f == <<j.c, j.list[Len(j.list)]>> IN
    /\ j.at = "place"
    /\ IF f \in tmps
       THEN /\ stored' = stored \cup {f} /\ tmps' = tmps \ {f}
            /\ Go(w, [j EXCEPT !.at = "copy",
                               !.made = IF f \in stored THEN @ ELSE @ \cup {f}])
       ELSE At(w, "undo") /\ UNCHANGED <<stored, tmps>>
    /\ UNCHANGED <<rows, images, dirs>>

(* The collection and its videos are inserted together or not at all: the    *)
(* name of the collection and the contents are unique.                       *)
Insert(w) ==
  LET j == job[w] IN
    /\ j.at = "copy" /\ j.todo = {}
    /\ IF j.c \notin collections /\ ToSet(j.list) \cap Imported = {}
       THEN /\ collections' = collections \cup {j.c}
            /\ assets' = [assets EXCEPT ![j.c] = j.list]
            /\ End(w)
       ELSE At(w, "undo") /\ UNCHANGED <<collections, assets>>
    /\ UNCHANGED <<batch, frames, disk>>

(* A failing import removes every temporary copy in the collection's folder  *)
(* and the files it created.                                                 *)
Undo(w) ==
  /\ job[w].at = "undo"
  /\ tmps' = {t \in tmps : t[1] # job[w].c} /\ stored' = stored \ job[w].made
  /\ End(w)
  /\ UNCHANGED <<rows, images, dirs>>

----
(* bg_frame_extract.                                                         *)
List(w) ==
  LET list == assets[job[w].c] IN
    /\ job[w].at = "list"
    /\ IF list = <<>> THEN End(w) ELSE Go(w, [job[w] EXCEPT !.at = "batch", !.list = list])
    /\ UNCHANGED <<rows, disk>>

(* The directory is made, and a batch that exists is used as it is, whatever *)
(* its collection.                                                           *)
Batch(w) ==
  LET j == job[w] IN
    /\ j.at = "batch"
    /\ dirs' = dirs \cup {j.b}
    /\ IF batch[j.b] # Nobody THEN At(w, "extract") /\ UNCHANGED batch
       ELSE IF j.c \in collections
       THEN batch' = [batch EXCEPT ![j.b] = j.c] /\ At(w, "extract")
       ELSE End(w) /\ UNCHANGED batch
    /\ UNCHANGED <<collections, assets, frames, stored, tmps, images>>

(* A video has the moments 0 and 1, and an interval of 2 takes the first.    *)
Moments == {0, 1}
Every(n) == IF n = 1 THEN <<0, 1>> ELSE <<0>>
Shots(b, c, v, n) ==
  [i \in DOMAIN Every(n) |->
     [batch |-> b, collection |-> c, video |-> v, pos |-> Every(n)[i]]]

(* extract_interval_frames on the next video: its file has to be there, and  *)
(* the directory of the batch.                                               *)
Extract(w) ==
  LET j == job[w] v == Head(j.list) IN
    /\ j.at = "extract" /\ j.list # <<>>
    /\ IF <<j.c, v>> \in stored /\ j.b \in dirs
       THEN LET shot == Shots(j.b, j.c, v, j.every)
            IN  /\ images' = images \cup ToSet(shot)
                /\ Go(w, [j EXCEPT !.list = Tail(@), !.shot = @ \o shot])
       ELSE End(w) /\ UNCHANGED images
    /\ UNCHANGED <<rows, stored, tmps, dirs>>

Row(f, i) == [batch |-> f.batch, video |-> f.video, pos |-> f.pos, index |-> i, file |-> f]
Same(r, q) == <<r.batch, r.video, r.pos, r.index>> = <<q.batch, q.video, q.pos, q.index>>

(* Mutant: the number of a frame goes on from the rows there are.            *)
Continued(shot) == {Row(shot[i], i + Cardinality(frames)) : i \in DOMAIN shot}

(* The id of a frame holds its content and its place in the list.            *)
Numbered(shot) == {Row(shot[i], i) : i \in DOMAIN shot}

(* One session for all frames; ids that exist are left as they are.          *)
Register(w) ==
  LET j == job[w]
      new == {r \in Numbered(j.shot) : ~\E q \in frames : Same(r, q)}
  IN  /\ j.at = "extract" /\ j.list = <<>>
      /\ frames' = IF \A r \in new : batch[j.b] # Nobody /\ r.video \in Imported
                   THEN frames \cup new ELSE frames
      /\ End(w)
      /\ UNCHANGED <<collections, assets, batch, disk>>

----
(* delete_frame_batch and delete_video_collection: one transaction, which a  *)
(* frame of a video of the collection in another collection's batch undoes.  *)
Delete(w) ==
  LET j == job[w]
      doomed == IF j.b # Nobody THEN {j.b} ELSE BatchesOf(j.c)
      kept == {r \in frames : r.batch \notin doomed}
      videos == IF j.c = Nobody THEN {} ELSE ToSet(assets[j.c])
      allowed == IF j.b # Nobody THEN batch[j.b] # Nobody
                 ELSE /\ j.c \in collections
                      /\ doomed = {} \/ j.cascade
                      /\ \A r \in kept : r.video \notin videos
  IN  /\ j.at = "delete"
      /\ IF allowed
         THEN /\ frames' = kept
              /\ batch' = [b \in Batches |-> IF b \in doomed THEN Nobody ELSE batch[b]]
              /\ collections' = collections \ {j.c}
              /\ assets' = [c \in Collections |-> IF c = j.c THEN <<>> ELSE assets[c]]
              /\ IF j.artifacts
                 THEN /\ job' = [job EXCEPT ![w].at = "unlink", ![w].doomed = doomed,
                                            ![w].made = {<<j.c, v>> : v \in videos}]
                      /\ contested' = contested \cup
                           (doomed \cap UNION {Touched(job[o]) : o \in Workers \ {w}})
                      /\ UNCHANGED <<jobs, troubles, mixed>>
                 ELSE End(w)
         ELSE End(w) /\ UNCHANGED rows
      /\ UNCHANGED disk

(* The directories of the batches and the files of the videos.               *)
Unlink(w) ==
  LET j == job[w] IN
    /\ j.at = "unlink"
    /\ dirs' = dirs \ j.doomed
    /\ images' = {f \in images : f.batch \notin j.doomed}
    /\ stored' = stored \ j.made
    /\ End(w)
    /\ UNCHANGED <<rows, tmps>>

----
(* A copy that fails or does not have the hash of its source.                *)
FailCopy(w) ==
  /\ job[w].at = "place" /\ troubles < MaxTroubles
  /\ job' = [job EXCEPT ![w].at = "undo"] /\ troubles' = troubles + 1
  /\ UNCHANGED <<rows, disk, jobs, contested, mixed>>

Crash ==
  /\ troubles < MaxTroubles /\ \E w \in Workers : job[w] # Idle
  /\ job' = [w \in Workers |-> Idle] /\ troubles' = troubles + 1
  /\ UNCHANGED <<rows, disk, jobs, contested, mixed>>

Step(w) ==
  \/ Look(w) \/ (\E v \in Videos : Copy(w, v)) \/ Place(w) \/ Insert(w) \/ Undo(w)
  \/ List(w) \/ Batch(w) \/ Extract(w) \/ Register(w) \/ Delete(w) \/ Unlink(w) \/ FailCopy(w)

Next ==
  \/ Crash
  \/ \E w \in Workers :
       \/ Step(w)
       \/ \E c \in Collections :
            \/ \E S \in SUBSET Videos : BeginImport(w, c, S)
            \/ \E b \in Batches, n \in {1, 2} : BeginExtract(w, c, b, n)
            \/ \E a, x \in BOOLEAN : BeginDeleteCollection(w, c, a, x)
       \/ \E b \in Batches, a \in BOOLEAN : BeginDeleteBatch(w, b, a)

Spec == Init /\ [][Next]_vars

TypeOK ==
  /\ collections \subseteq Collections /\ Imported \subseteq Videos
  /\ stored \cup tmps \subseteq Collections \X Videos
  /\ batch \in [Batches -> Collections \cup {Nobody}] /\ dirs \subseteq Batches
  /\ \A r \in frames : r.batch \in Batches /\ r.video \in Imported
  /\ jobs \in Nat /\ troubles \in Nat /\ contested \subseteq Collections \cup Batches

(* A video row keeps its file and a frame row its image, whatever fails,     *)
(* unless two jobs worked on the collection or the batch at once; and a      *)
(* batch that is always extracted with one interval has one row per image,   *)
(* however often it is extracted, with the same exception for both.          *)
CaptureFilesHold ==
  /\ \A c \in Collections \ contested : \A v \in ToSet(assets[c]) : <<c, v>> \in stored
  /\ \A r \in frames : r.batch \notin contested => r.file \in images
  /\ \A r, q \in frames :
       /\ r.file = q.file /\ Cardinality(mixed[r.batch]) = 1
       /\ r.batch \notin contested /\ r.file.collection \notin contested
       => r = q
===============================================================================
