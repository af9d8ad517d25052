---------------------------- MODULE VideoAppend ----------------------------
(* Background jobs append uploaded videos to frame batches of one task and *)
(* one collection (frames/video_append.py): files, rows and the manifest   *)
(* of the batch are written one after the other, and an exception is       *)
(* compensated by undoing them in order.                                   *)
(*                                                                         *)
(* Names are derived from contents: the row and the file of a video are    *)
(* the same for every job, those of its frames for every job of the batch. *)
(* A video stands for its frames.                                          *)
(***************************************************************************)
EXTENDS Naturals, FiniteSets

CONSTANTS
  Workers,     \* the job threads
  Batches,     \* the frame batches
  NoBatch,     \* no batch
  Videos,      \* the contents that may be uploaded
  MaxTroubles  \* how many exceptions and crashes may happen

ASSUME TroublesAssumption == MaxTroubles \in Nat

VARIABLES
  videoRow,   \* the videos with a row, task-wide
  frameRow,   \* the videos with frame rows, in each batch
  videoFile,  \* the videos with a managed file
  frameFile,  \* the videos with frame files, in each batch
  manifest,   \* the videos in the history of each batch's manifest
  troubles,   \* exceptions and crashes so far
  job,        \* what each job thread is doing
  kept,       \* history: the appends that were answered as done
  contested,  \* history: videos two jobs were appending at the same time
  shared      \* history: batches two jobs were appending to at the same time

rows == <<videoRow, frameRow>>
files == <<videoFile, frameFile>>
history == <<kept, contested, shared>>
vars == <<rows, files, manifest, troubles, job, history>>

(* "todo" is what is new of the upload, "moved" the kinds of file moved so *)
(* far, "orig" the manifest at the start, "base" the one just read; after  *)
(* an exception "framed" are the videos whose frames have to be undone.    *)
Idle == [at |-> "idle", batch |-> NoBatch, todo |-> {}, framed |-> {},
         moved |-> {}, orig |-> {}, base |-> {}]

Init ==
  /\ videoRow = {} /\ videoFile = {}
  /\ frameRow = [b \in Batches |-> {}] /\ frameFile = [b \in Batches |-> {}]
  /\ manifest = [b \in Batches |-> {}]
  /\ troubles = 0
  /\ job = [w \in Workers |-> Idle]
  /\ kept = {} /\ contested = {} /\ shared = {}

Go(w, j) == job' = [job EXCEPT ![w] = j]
Step(w, here, next) ==
  /\ job[w].at = here
  /\ Go(w, [job[w] EXCEPT !.at = next])

Running == {w \in Workers : job[w].at # "idle"}

-----------------------------------------------------------------------------
(* Mutant: videos are not compared with those of the task.                 *)
BeginBlindly(w) ==
  /\ job[w].at = "idle"
  /\ \E b \in Batches, upload \in SUBSET Videos :
       /\ upload # {}
       /\ Go(w, [Idle EXCEPT !.at = "stage", !.batch = b, !.todo = upload])
       /\ contested' = contested \cup (upload \cap UNION {job[v].todo : v \in Running})
       /\ shared' = IF \E v \in Running : job[v].batch = b THEN shared \cup {b} ELSE shared
  /\ UNCHANGED <<rows, files, manifest, troubles, kept>>

(* The videos of the upload that the task has no row of are new.           *)
Begin(w) ==
  /\ job[w].at = "idle"
  /\ \E b \in Batches, upload \in SUBSET Videos :
       /\ upload # {}
       /\ Go(w, [Idle EXCEPT !.at = "stage", !.batch = b, !.todo = upload \ videoRow])
       /\ contested' = contested \cup (upload \cap UNION {job[v].todo : v \in Running})
       /\ shared' = IF \E v \in Running : job[v].batch = b THEN shared \cup {b} ELSE shared
  /\ UNCHANGED <<rows, files, manifest, troubles, kept>>

(* Mutant: what has been moved is recorded under another name.             *)
MoveVideosAs(w) ==
  /\ job[w].at = "videos"
  /\ videoFile' = videoFile \cup job[w].todo
  /\ Go(w, [job[w] EXCEPT !.at = "frames", !.moved = {"video"}])
  /\ UNCHANGED <<rows, frameFile, manifest, troubles, history>>

(* The manifest is read; videos are copied and frames extracted in a       *)
(* staging directory of the job's own.                                     *)
Stage(w) ==
  /\ job[w].at = "stage"
  /\ Go(w, [job[w] EXCEPT !.at = "videos", !.orig = manifest[job[w].batch]])
  /\ UNCHANGED <<rows, files, manifest, troubles, history>>

(* Nothing in the upload was new.                                          *)
Skip(w) ==
  /\ job[w].at = "videos" /\ job[w].todo = {}
  /\ Go(w, Idle)
  /\ UNCHANGED <<rows, files, manifest, troubles, history>>

MoveVideos(w) ==
  /\ job[w].at = "videos" /\ job[w].todo # {}
  /\ videoFile' = videoFile \cup job[w].todo
  /\ Go(w, [job[w] EXCEPT !.at = "frames", !.moved = {"videos"}])
  /\ UNCHANGED <<rows, frameFile, manifest, troubles, history>>

MoveFrames(w) ==
  /\ job[w].at = "frames"
  /\ frameFile' = [frameFile EXCEPT ![job[w].batch] = @ \cup job[w].todo]
  /\ Go(w, [job[w] EXCEPT !.at = "insert", !.moved = {"videos", "frames"}])
  /\ UNCHANGED <<rows, videoFile, manifest, troubles, history>>

(* One transaction, which fails on a primary key that is taken.            *)
Insert(w) ==
  /\ Step(w, "insert", "read")
  /\ videoRow \cap job[w].todo = {} /\ frameRow[job[w].batch] \cap job[w].todo = {}
  /\ videoRow' = videoRow \cup job[w].todo
  /\ frameRow' = [frameRow EXCEPT ![job[w].batch] = @ \cup job[w].todo]
  /\ UNCHANGED <<files, manifest, troubles, history>>

(* Mutant: the manifest is written anew instead of extended.               *)
WriteManifestAnew(w) ==
  /\ job[w].at = "write"
  /\ manifest' = [manifest EXCEPT ![job[w].batch] = job[w].todo]
  /\ kept' = kept \cup {job[w].batch} \X job[w].todo
  /\ Go(w, Idle)
  /\ UNCHANGED <<rows, files, troubles, contested, shared>>

ReadManifest(w) ==
  /\ job[w].at = "read"
  /\ Go(w, [job[w] EXCEPT !.at = "write", !.base = manifest[job[w].batch]])
  /\ UNCHANGED <<rows, files, manifest, troubles, history>>

WriteManifest(w) ==
  /\ job[w].at = "write"
  /\ manifest' = [manifest EXCEPT ![job[w].batch] = job[w].base \cup job[w].todo]
  /\ kept' = kept \cup {job[w].batch} \X job[w].todo
  /\ Go(w, Idle)
  /\ UNCHANGED <<rows, files, troubles, contested, shared>>

-----------------------------------------------------------------------------
Trouble == troubles < MaxTroubles /\ troubles' = troubles + 1

(* An exception. During staging some of the videos have been listed, and   *)
(* the frames of all but the last of them.                                 *)
Fail(w) ==
  /\ Trouble
  /\ \/ /\ job[w].at = "videos"
        /\ \E listed \in SUBSET job[w].todo : \E framed \in SUBSET listed :
             /\ Cardinality(listed \ framed) <= 1
             /\ Go(w, [job[w] EXCEPT !.at = "undoRows", !.todo = listed, !.framed = framed])
     \/ \E here \in {"frames", "insert", "read", "write"} :
          /\ job[w].at = here
          /\ Go(w, [job[w] EXCEPT !.at = "undoRows", !.framed = job[w].todo, !.base = {}])
  /\ UNCHANGED <<rows, files, manifest, history>>

(* Mutant: only the rows of the frames are deleted.                        *)
UndoFrameRows(w) ==
  /\ Step(w, "undoRows", "undoFiles")
  /\ frameRow' = [frameRow EXCEPT ![job[w].batch] = @ \ job[w].framed]
  /\ UNCHANGED <<videoRow, files, manifest, troubles, history>>

(* Rows are deleted by their names, in one transaction. The foreign key of *)
(* other frame rows refuses it, and with it the rest of the compensation.  *)
UndoRows(w) ==
  /\ job[w].at = "undoRows"
  /\ LET b == job[w].batch
         left == [frameRow EXCEPT ![b] = @ \ job[w].framed]
     IN IF \E c \in Batches : left[c] \cap job[w].todo # {}
        THEN Go(w, Idle) /\ UNCHANGED rows
        ELSE /\ frameRow' = left /\ videoRow' = videoRow \ job[w].todo
             /\ Go(w, [job[w] EXCEPT !.at = "undoFiles", !.framed = {}])
  /\ UNCHANGED <<files, manifest, troubles, history>>

(* Mutant: only the video files are removed.                               *)
UndoVideoFiles(w) ==
  /\ Step(w, "undoFiles", "undoManifest")
  /\ videoFile' = IF "videos" \in job[w].moved THEN videoFile \ job[w].todo ELSE videoFile
  /\ UNCHANGED <<rows, frameFile, manifest, troubles, history>>

UndoFiles(w) ==
  /\ Step(w, "undoFiles", "undoManifest")
  /\ videoFile' = IF "videos" \in job[w].moved THEN videoFile \ job[w].todo ELSE videoFile
  /\ frameFile' = IF "frames" \in job[w].moved
                  THEN [frameFile EXCEPT ![job[w].batch] = @ \ job[w].todo] ELSE frameFile
  /\ UNCHANGED <<rows, manifest, troubles, history>>

UndoManifest(w) ==
  /\ job[w].at = "undoManifest"
  /\ manifest' = [manifest EXCEPT ![job[w].batch] = job[w].orig]
  /\ Go(w, Idle)
  /\ UNCHANGED <<rows, files, troubles, history>>

(* The API process dies; nothing resumes or undoes its jobs.               *)
Crash ==
  /\ Trouble /\ Running # {}
  /\ job' = [w \in Workers |-> Idle]
  /\ UNCHANGED <<rows, files, manifest, history>>

Next ==
  \/ \E w \in Workers :
       \/ Begin(w) \/ Stage(w) \/ Skip(w) \/ MoveVideos(w) \/ MoveFrames(w) \/ Insert(w)
       \/ ReadManifest(w) \/ WriteManifest(w)
       \/ Fail(w) \/ UndoRows(w) \/ UndoFiles(w) \/ UndoManifest(w)
  \/ Crash

Spec == Init /\ [][Next]_vars

-----------------------------------------------------------------------------
(* Every variable has its type.                                            *)
Jobs == [at : {"idle", "stage", "videos", "frames", "insert", "read", "write",
               "undoRows", "undoFiles", "undoManifest"},
         batch : Batches \cup {NoBatch}, todo : SUBSET Videos, framed : SUBSET Videos,
         moved : SUBSET {"videos", "frames"}, orig : SUBSET Videos, base : SUBSET Videos]

TypeOK ==
  /\ videoRow \subseteq Videos /\ videoFile \subseteq Videos
  /\ {frameRow, frameFile, manifest} \subseteq [Batches -> SUBSET Videos]
  /\ troubles \in 0 .. MaxTroubles /\ job \in [Workers -> Jobs]
  /\ kept \subseteq Batches \X Videos /\ contested \subseteq Videos /\ shared \subseteq Batches

(* Wherever a job fails or the process dies, a row has its file: files     *)
(* come before rows and go after them. Two jobs that append one video may  *)
(* remove each other's.                                                    *)
RowsHaveFiles ==
  /\ videoRow \ contested \subseteq videoFile
  /\ \A b \in Batches : frameRow[b] \ contested \subseteq frameFile[b]

(* What was answered as appended stays, rows and files, and no failure or  *)
(* crash of another append takes it away.                                  *)
Appended(b, v) ==
  v \in videoRow /\ v \in videoFile /\ v \in frameRow[b] /\ v \in frameFile[b]

KeptStays == \A e \in kept : Appended(e[1], e[2])
KeptStaysUnlessContested == \A e \in kept : e[2] \notin contested => Appended(e[1], e[2])

(* The manifest of a batch lists what was appended, and nothing that has   *)
(* no rows, unless two jobs appended to the batch, or the same video, at   *)
(* the same time.                                                          *)
ManifestAgrees ==
  \A b \in Batches \ shared :
    /\ \A v \in Videos : <<b, v>> \in kept => v \in manifest[b]
    /\ manifest[b] \ contested \subseteq frameRow[b]

(* "atomic across managed files, frame records, video records, and batch   *)
(* manifests": a failed append whose compensation ends leaves nothing.     *)
NothingLeft ==
  [][\A w \in Workers : UndoManifest(w) =>
       \A v \in job[w].todo \ contested :
         LET b == job[w].batch IN
         /\ v \notin videoRow /\ v \notin frameRow[b]
         /\ "videos" \in job[w].moved => v \notin videoFile
         /\ "frames" \in job[w].moved => v \notin frameFile[b]
         /\ b \notin shared => v \notin manifest'[b]]_vars
=============================================================================
