----------------------------- MODULE MCPlatform -----------------------------
(* One model for the parts of the platform that share no state: a behaviour *)
(* runs one of them, chosen by "part", in the variables v1, v2, ...         *)
(****************************************************************************)
EXTENDS Naturals

CONSTANTS
  Jobs, Folders, Home, Nowhere, Requests, NoRequest,
  Annotators, Shapes, NoShape, Archives, NoArchive,
  Collections, Batches, Videos, Nobody, Names, NoName, Shipped, Bare

(* The folder of new frames is one of the folders, and what stands for the   *)
(* absence of a folder, an archive, a task, a collection or a batch is none. *)
ASSUME NameAssumption ==
  /\ Home \in Folders /\ Nowhere \notin Folders
  /\ NoArchive \notin Archives
  /\ NoName \notin Names \cup {Shipped, Bare} /\ Shipped \notin Names
  /\ Nobody \notin Collections \cup Batches

VARIABLES part, v1, v2, v3, v4, v5, v6, v7, v8, v9, v10, v11, v12, v13

(* The variables a part with fewer than thirteen leaves alone.              *)
From11 == <<v11, v12, v13>>
From10 == <<v10, From11>>
From9 == <<v9, From10>>
From8 == <<v8, From9>>
From7 == <<v7, From8>>
From5 == <<v5, v6, From7>>
vars == <<part, v1, v2, v3, v4, From5>>

Off11 == v11 = "-" /\ v12 = "-" /\ v13 = "-"
Off10 == v10 = "-" /\ Off11
Off9 == v9 = "-" /\ Off10
Off8 == v8 = "-" /\ Off9
Off7 == v7 = "-" /\ Off8
Off5 == v5 = "-" /\ v6 = "-" /\ Off7

J == INSTANCE BackgroundJobs WITH
  PurgeLimit <- 1, MaxTroubles <- 2, MaxCrashes <- 2,
  row <- v1, expires <- v2, thread <- v3, api <- v4, troubles <- v5, crashes <- v6
F == INSTANCE FrameCuration WITH
  Workers <- 1..2, Frames <- 1..2, MaxRequests <- 2, MaxTroubles <- 1,
  row <- v1, file <- v2, ledger <- v3, job <- v4, troubles <- v5, requests <- v6,
  strayed <- v7, raced <- v8, astray <- v9, contested <- v10
A == INSTANCE AnnotationEdits WITH
  MaxSaves <- 3, life <- v1, image <- v2, shape <- v3, edit <- v4, known <- v5,
  saves <- v6, view <- v7, approved <- v8, blind <- v9, overlapped <- v10
D == INSTANCE DatasetStore WITH
  Workers <- 1..2, MaxRequests <- 5, MaxTroubles <- 1,
  export <- v1, exported <- v2, tmp <- v3, job <- v4, troubles <- v5, requests <- v6,
  release <- v7, released <- v8, doomed <- v9, overlapped <- v10
B == INSTANCE DatabaseBackup WITH
  Retention <- 2, MaxBackups <- 5, MaxTroubles <- 2,
  rows <- v1, files <- v2, made <- v3, at <- v4, troubles <- v5, answered <- v6

Thirds == [train |-> 70, val |-> 20, test |-> 10]
Halves == [train |-> 50, val |-> 50, test |-> 0]
Short == [train |-> 70, val |-> 20, test |-> 0]
S == INSTANCE SplitPlanning WITH
  Groups <- 1..4, Sizes <- {1, 3}, Ratios <- {Thirds, Halves, Short},
  size <- v1, ratio <- v2, split <- v3, stage <- v4

(* The defaults of from_environment, and settings it refuses or that allow  *)
(* no GPU.                                                                  *)
Defaults ==
  [detectBatch |-> [cpu |-> 4, gpu |-> 8], segmentBatch |-> [cpu |-> 1, gpu |-> 2],
   maxSize |-> [cpu |-> 640, gpu |-> 1280], gpuAllowed |-> TRUE,
   disk |-> 8, percent |-> 10, commit |-> 8, runtime |-> 4, memory |-> 4]
Settings ==
  {Defaults, [Defaults EXCEPT !.runtime = 12], [Defaults EXCEPT !.percent = 0],
   [Defaults EXCEPT !.gpuAllowed = FALSE]}
Shown ==
  [disk : {50}, percent : {50}, commit : {2, 6, 9, 999}, physical : {9, 999}]
    \cup [disk : {5}, percent : {50}, commit : {999}, physical : {999}]
L == INSTANCE TrainingLimits WITH
  Environments <- Settings, Readings <- Shown, Batches <- {1, 4, 7},
  ImageSizes <- {320, 640, 1280}, MaxRetries <- 7,
  policy <- v1, state <- v2, run <- v3, origin <- v4, retries <- v5, children <- v6, answer <- v7,
  admitted <- v8

(* data.yaml as a release writes it, with a directory val and without, with *)
(* lists of files and paths that leave the release, and none.               *)
Below(files) == [out |-> FALSE, list |-> FALSE, files |-> files]
Listed(files) == [out |-> FALSE, list |-> TRUE, files |-> files]
Beyond == [out |-> TRUE, list |-> FALSE, files |-> {}]
Written == [there |-> TRUE, inside |-> TRUE,
            refs |-> [train |-> {Below({1, 2})}, val |-> {Below({3})}, test |-> {Below({3})}]]
Manifests ==
  {Written, [Written EXCEPT !.there = FALSE], [Written EXCEPT !.inside = FALSE],
   [Written EXCEPT !.refs.val = {Below({1, 2})}, !.refs.test = {Below({1, 2})}],
   [Written EXCEPT !.refs.train = {Listed({1}), Beyond}, !.refs.test = {Listed({2, 3})}]}
V == INSTANCE DatasetValidation WITH
  Files <- 1..3, SplitOf <- <<"train", "train", "val">>, Nested <- {2}, Contents <- {"x", "y"},
  Corrupt <- {"y"}, MaxEdits <- 3,
  content <- v1, label <- v2, stamp <- v3, cache <- v4, report <- v5, blockers <- v6,
  checked <- v7, silent <- v8, edits <- v9, yaml <- v10

(* Overlaps and confidences on either side of what the gate asks for.       *)
Found ==
  {[class |-> 1, confidence |-> 30, box |-> <<0, 4>>, mask |-> <<0, 4>>],
   [class |-> 1, confidence |-> 45, box |-> <<0, 5>>, mask |-> <<0, 4>>],
   [class |-> 1, confidence |-> 46, box |-> <<0, 6>>, mask |-> <<0, 0>>],
   [class |-> 2, confidence |-> 30, box |-> <<0, 5>>, mask |-> <<0, 3>>]}
G == INSTANCE GateRunner WITH
  Amounts <- {0, 2, 6, 7, 11}, Items <- Found,
  kind <- v1, images <- v2, left <- v3, passed <- v4, masks <- v5, agreed <- v6, result <- v7

C == INSTANCE CaptureStore WITH
  Workers <- 1..2, MaxJobs <- 3, MaxTroubles <- 1,
  collections <- v1, images <- v2, stored <- v3, job <- v4, troubles <- v5, tmps <- v6,
  batch <- v7, frames <- v8, assets <- v9, contested <- v10, dirs <- v11, jobs <- v12, mixed <- v13
I == INSTANCE ImageBatch WITH
  Workers <- 1..2, Images <- {"x", "y"}, MaxRequests <- 3, MaxTroubles <- 1,
  collection <- v1, files <- v2, dir <- v3, job <- v4, troubles <- v5, requests <- v6,
  batch <- v7, frames <- v8, manifest <- v9, overlapped <- v10
T == INSTANCE TaskCascade WITH
  Elsewhere <- TRUE, Workers <- 1..2, MaxRequests <- 3, MaxRows <- 5, MaxTroubles <- 1,
  row <- v1, config <- v2, made <- v3, job <- v4, troubles <- v5, requests <- v6,
  release <- v7, training <- v8, model <- v9, overlapped <- v10, inference <- v11,
  late <- v12, lost <- v13

Init ==
  \/ part = "jobs" /\ J!Init /\ Off7
  \/ part = "frames" /\ F!Init /\ Off11
  \/ part = "annotations" /\ A!Init /\ Off11
  \/ part = "datasets" /\ D!Init /\ Off11
  \/ part = "backups" /\ B!Init /\ Off7
  \/ part = "splits" /\ S!Init /\ Off5
  \/ part = "limits" /\ L!Init /\ Off9
  \/ part = "validation" /\ V!Init /\ Off11
  \/ part = "gate" /\ G!Init /\ Off8
  \/ part = "captures" /\ C!Init
  \/ part = "images" /\ I!Init /\ Off11
  \/ part = "tasks" /\ T!Init

JobsStep(Step) == part = "jobs" /\ Step /\ UNCHANGED <<part, From7>>

Next ==
  \/ JobsStep(J!Next)
  \/ part = "frames" /\ F!Next /\ UNCHANGED <<part, From11>>
  \/ part = "annotations" /\ A!Next /\ UNCHANGED <<part, From11>>
  \/ part = "datasets" /\ D!Next /\ UNCHANGED <<part, From11>>
  \/ part = "backups" /\ B!Next /\ UNCHANGED <<part, From7>>
  \/ part = "splits" /\ S!Next /\ UNCHANGED <<part, From5>>
  \/ part = "limits" /\ L!Next /\ UNCHANGED <<part, From9>>
  \/ part = "validation" /\ V!Next /\ UNCHANGED <<part, From11>>
  \/ part = "gate" /\ G!Next /\ UNCHANGED <<part, From8>>
  \/ part = "captures" /\ C!Next /\ UNCHANGED part
  \/ part = "images" /\ I!Next /\ UNCHANGED <<part, From11>>
  \/ part = "tasks" /\ T!Next /\ UNCHANGED part

(* Only the background jobs are promised to go on: their threads are        *)
(* scheduled, and the restart policy of compose.yaml restarts the process.  *)
Fairness ==
  /\ \A j \in Jobs : WF_vars(JobsStep(J!Work(j)))
  /\ WF_vars(JobsStep(J!Boot)) /\ WF_vars(JobsStep(J!Recover)) /\ WF_vars(JobsStep(J!Purge))

Spec == Init /\ [][Next]_vars /\ Fairness

(* Every part keeps its variables in their types.                           *)
TypeOK ==
  /\ part = "jobs" => J!TypeOK
  /\ part = "frames" => F!TypeOK
  /\ part = "annotations" => A!TypeOK
  /\ part = "datasets" => D!TypeOK
  /\ part = "backups" => B!TypeOK
  /\ part = "splits" => S!TypeOK
  /\ part = "limits" => L!TypeOK
  /\ part = "validation" => V!TypeOK
  /\ part = "gate" => G!TypeOK
  /\ part = "captures" => C!TypeOK
  /\ part = "images" => I!TypeOK
  /\ part = "tasks" => T!TypeOK

(* The tracker implements the board of JobBoard: what a client is shown of  *)
(* a job moves only as the board allows, through crashes and restarts.      *)
JobBoard == INSTANCE JobBoard WITH
  board <- IF part = "jobs" THEN v1 ELSE [j \in Jobs |-> "none"]
KeepsBoard == JobBoard!Spec

(* A job that waits or runs is over at some time: finished, failed, purged  *)
(* or reported as interrupted by the next start of the API.                 *)
JobsEnd ==
  \A j \in Jobs : part = "jobs" /\ J!Waiting(j) ~> (part = "jobs" => J!Over(j))

(* See FrameCuration for the next three: files follow their rows, a purge   *)
(* spares what was restored, and settled rows agree with the folders.       *)
FramesHold == part = "frames" => F!FilesAndRows /\ F!SettledRowsAgree
PurgedFromBin == [][part = "frames" => F!SparesActive]_vars

(* AnnotationEdits: no save goes over one its author has not seen, and a    *)
(* review stands for the shapes it was made of.                             *)
EditsAreSeen == part = "annotations" => A!NoBlindSave /\ A!ReviewStands

(* DatasetStore: an import is the archive its row names.                    *)
ImportedIsItsArchive == part = "datasets" => D!ImportedIsItsArchive

(* DatasetStore: a release row has the checked files of that release.       *)
ReleaseHasItsFiles == part = "datasets" => D!ReleaseHasItsFiles

(* DatabaseBackup: the backups a client was told of are there, the newest   *)
(* of them up to the retention.                                             *)
BackupsHold == part = "backups" => B!BackupsHold

(* SplitPlanning: a plan has every split asked for and stays within one     *)
(* group of the ratios.                                                     *)
SplitsSound == part = "splits" => S!SplitsSound

(* TrainingLimits: safe retries shrink, fit and end, under settings that    *)
(* may change, and a run that was let in is not stopped by the reading that *)
(* let it in.                                                               *)
RetriesEnd == part = "limits" => L!RetriesEnd /\ L!AdmittedMayTrain

(* DatasetValidation: leaks and corruption are found, with cached digests   *)
(* too, and a valid dataset whose data.yaml is plain has no blocker but an  *)
(* empty split.                                                             *)
LeaksAreFound == part = "validation" => V!LeaksAreFound

(* TrainingLimits where every failure is a lack of memory.                  *)
ShortOfMemory ==
  /\ Init /\ part = "limits"
  /\ [][Next /\ (v3'.status = "failed" => v3'.code = "resource_limit")]_vars

(* What docs/architecture.md says of retries: after running out of GPU      *)
(* memory one, with a smaller batch, is allowed.                            *)
OneRetry == part = "limits" => L!OneRetry

(* GateRunner: a gate passes only on detections that match one to one.      *)
GatePassesMatch == part = "gate" => G!GatePassesMatch

(* CaptureStore: video and frame rows keep their files, and a batch that is *)
(* extracted with one interval has one row per picture.                     *)
CaptureFilesHold == part = "captures" => C!CaptureFilesHold

(* ImageBatch: frame rows have their files, appended images are new, and    *)
(* the manifest lists the rows.                                             *)
ImageBatchHolds == part = "images" => I!ImageBatchHolds

(* TaskCascade: a cascade spares active runs, and the task's config and row *)
(* agree.                                                                   *)
CascadeSpares == part = "tasks" => T!CascadeSpares
=============================================================================
