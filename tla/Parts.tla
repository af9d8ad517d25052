-------------------------------- MODULE Parts --------------------------------
(* The parts of the platform that MCPlatform checks side by side, with the    *)
(* invariants that Parts_proofs proves of them for every value of their       *)
(* constants. The constants and variables are those of the parts under the    *)
(* names they have there: a part is about its own ones, and two parts with a  *)
(* variable of one name never run in the same behaviour.                      *)
(*****************************************************************************)
EXTENDS Integers, Sequences, FiniteSets

CONSTANTS
  Workers, MaxRequests, MaxImports, MaxTroubles, MaxFailures,
  Jobs, PurgeLimit, MaxCrashes,
  Annotators, Shapes, NoShape, MaxSaves,
  Frames, Folders, Home, Nowhere, Requests, NoRequest,
  Archives, NoArchive,
  Retention, MaxBackups,
  Amounts, Items,
  Names, NoName, Shipped, Bare, Elsewhere, MaxTasks, MaxRows,
  Files, SplitOf, Nested, Manifests, Contents, Corrupt, MaxEdits,
  Environments, Readings, BatchSizes, ImageSizes, MaxRetries,
  Images, MaxUploads,
  Collections, Batches, Videos, Nobody, MaxJobs,
  Groups, Sizes, Ratios

VARIABLES
  row, job, requests, troubles, overlapped,
  expires, thread, api, crashes,
  life, image, shape, edit, known, saves, view, approved, blind,
  file, ledger, strayed, raced, astray, contested,
  export, exported, tmp, release, released, doomed,
  rows, files, at, made, answered,
  kind, images, left, passed, masks, agreed, result,
  config, training, model, inference, late, lost,
  content, label, stamp, cache, yaml, report, blockers, checked, silent, edits,
  policy, state, admitted, run, origin, retries, children, answer,
  collection, batch, frames, dir, manifest,
  collections, assets, stored, tmps, dirs, jobs, mixed,
  size, ratio, split, stage

J == INSTANCE BackgroundJobs WITH MaxTroubles <- MaxFailures
A == INSTANCE AnnotationEdits
F == INSTANCE FrameCuration
D == INSTANCE DatasetStore WITH MaxRequests <- MaxImports
B == INSTANCE DatabaseBackup WITH MaxTroubles <- MaxFailures
G == INSTANCE GateRunner
T == INSTANCE TaskCascade WITH MaxRequests <- MaxTasks
V == INSTANCE DatasetValidation
L == INSTANCE TrainingLimits WITH Batches <- BatchSizes
I == INSTANCE ImageBatch WITH MaxRequests <- MaxUploads
C == INSTANCE CaptureStore
R == INSTANCE SplitPlanning

-----------------------------------------------------------------------------
(* Background jobs: what a client is told of a job, through restarts.       *)

(* What a row is while a thread works on it.                                *)
Served(j) ==
  CASE thread[j] = "begin" -> {"pending"}
    [] thread[j] \in {"work", "check", "complete"} -> {"running"}
    [] thread[j] = "fail" -> J!Open
    [] OTHER -> {"none", "gone"} \cup J!Open \cup J!Ended

Dating(j) ==
  /\ row[j] = "none" => thread[j] = "none"
  /\ expires[j] # "never" => row[j] \in J!Ended \cup {"gone"}

JobsBound == troubles \in Nat /\ crashes \in Nat
JobsTyped ==
  /\ row \in [Jobs -> {"none", "gone"} \cup J!Open \cup J!Ended]
  /\ expires \in [Jobs -> {"never", "later", "past"}]
  /\ thread \in [Jobs -> {"none", "done", "lost", "dead"} \cup J!Steps]
  /\ api \in {"down", "up"} \cup J!Startup

(* The inductive invariant: threads live only while the process is up, and  *)
(* each of them finds its row as it left it.                                *)
JobsInv ==
  /\ JobsTyped
  /\ \A j \in Jobs : (thread[j] \in J!Steps => api = "up") /\ row[j] \in Served(j) /\ Dating(j)

-----------------------------------------------------------------------------
(* Annotation edits: what the optimistic check of the revision is good for. *)

Strokes == {"none", "a", "b", "gone"}
Edits == [op : A!Ops \cup {"none"}, shape : Shapes \cup {NoShape},
          status : A!Statuses \cup {"none"}, revision : Nat]

EditsTyped ==
  /\ life \in {"active", "trashed", "gone"}
  /\ image \in [status : A!Statuses \cup {"none", "gone"}, revision : Nat]
  /\ shape \in [Shapes -> Strokes]
  /\ edit \in [Annotators -> Edits]
  /\ known \in [Annotators -> Nat] /\ view \in [Annotators -> Nat]
  /\ saves \in Nat /\ image.revision <= saves
  /\ approved \in [Shapes -> Strokes]
  /\ blind \in BOOLEAN /\ overlapped \in BOOLEAN
  /\ \A a \in Annotators : edit[a] # A!Idle =>
       edit[a].op # "none" /\ edit[a].status \in A!Statuses /\ edit[a].revision <= saves

(* As long as no two edits overlapped, the revision counts the saves, and   *)
(* whoever names the current one has seen them all.                         *)
Counting ==
  /\ A!There => image.revision = saves
  /\ image.status = "none" => saves = 0 /\ \A a \in Annotators : edit[a] = A!Idle
  /\ \A a \in Annotators :
       /\ known[a] = view[a] /\ known[a] <= saves
       /\ edit[a] # A!Idle => view[a] = saves /\ edit[a].revision = saves
OneEdit == \A a, b \in Annotators : edit[a] # A!Idle /\ edit[b] # A!Idle => a = b

(* The edit under way still finds the row and the shapes it was checked     *)
(* against.                                                                 *)
Checked(e) ==
  e # A!Idle /\ A!There =>
    /\ e.status = image.status
    /\ e.op \in {"create", "update", "delete"} => e.shape \in Shapes /\ image.status # "reviewed"
    /\ e.op = "annotated" => A!Drawn # {}
    /\ image.status = "reviewed" => e.op = "annotated"
    /\ e.op = "update" => e.shape \in A!Drawn
Reviewing ==
  /\ image.status = "reviewed" => shape = approved
  /\ image.status = "annotated" => A!Drawn # {}
  /\ \A a \in Annotators : Checked(edit[a])

EditsInv ==
  /\ EditsTyped
  /\ ~ overlapped => ~ blind /\ Counting /\ OneEdit /\ Reviewing

-----------------------------------------------------------------------------
(* Frame curation: the files of frames, purges, and settled rows.           *)

Views == UNION {[S -> F!Row \cup Folders \cup {Nowhere}] : S \in SUBSET Frames}
Doing == [op : {"none", "trash", "restore", "purge", "bulk", "select", "sync"},
          at : {"idle", "flush", "store", "check", "delete", "unlink", "move", "list", "read"},
          seen : Views, plan : Views, todo : SUBSET Frames, request : Requests \cup {NoRequest}]

FramesTyped ==
  /\ row \in [Frames -> F!Row] /\ file \in [Frames -> Folders \cup {Nowhere}]
  /\ job \in [Workers -> Doing]
  /\ requests \in Nat /\ troubles \in Nat
  /\ strayed \subseteq Frames /\ raced \subseteq Frames /\ astray \subseteq Frames
  /\ contested \in BOOLEAN

(* What a session has loaded are rows, and it deletes none and, unless it   *)
(* restores, activates none.                                                *)
Session(j) ==
  /\ DOMAIN j.plan \subseteq Frames /\ DOMAIN j.plan = DOMAIN j.seen
  /\ \A f \in DOMAIN j.plan :
       /\ j.seen[f] \in F!Row /\ j.plan[f] \in F!Row
       /\ \/ j.plan[f].life = j.seen[f].life
          \/ j.plan[f].life = "trashed"
          \/ j.plan[f].life = "active" /\ j.op = "restore"
Sane(j) ==
  /\ j.at \in {"flush", "move"} => Session(j)
  /\ j.at = "move" => j.op \in {"bulk", "select"} /\ j.todo \subseteq DOMAIN j.plan
  /\ j.at = "read" => DOMAIN j.plan \subseteq Frames
       /\ \A f \in DOMAIN j.plan : j.plan[f] \in Folders

FrameTypes == FramesTyped /\ \A w \in Workers : Sane(job[w])

Places == Nowhere \notin Folders /\ Home \in Folders

(* A request begins: a session that loaded rows, or frames to purge.        *)
Carries(j, some, op, there) ==
  /\ j \in Doing /\ j.op = op /\ j.at = there
  /\ DOMAIN j.plan = some /\ DOMAIN j.seen = some

(* Files follow rows, and what is about to be purged is in the bin or was   *)
(* restored behind the back of the purge.                                   *)
FilesFollow ==
  /\ \A f \in F!Present : file[f] # Nowhere
  /\ \A f \in Frames : file[f] \in {Home, Nowhere} \/ f \in strayed
  /\ \A f \in F!In("gone") :
       \/ file[f] = Nowhere \/ f \in strayed
       \/ \E w \in Workers : F!At(w, "purge", "unlink") /\ f \in job[w].todo
  /\ \A w \in Workers : F!At(w, "purge", "unlink") => job[w].todo \subseteq F!In("gone")
  /\ \A w \in Workers : F!At(w, "purge", "delete")
       => job[w].todo \cap F!In("active") \subseteq raced
FrameInv == FrameTypes /\ FilesFollow

Quiet == ~ contested /\ troubles = 0
Moving == {"bulk", "select", "sync"}
Settled == \A f \in F!In("active") \ astray : row[f].status = file[f] /\ row[f].stored = file[f]
Loose == \A f \in F!In("trashed") \ astray : row[f].pre = file[f] /\ row[f].stored = file[f]

(* What a session loaded is still so, but for the time left in the bin.     *)
Like(r, s) == r.life = s.life /\ r.status = s.status /\ r.pre = s.pre /\ r.stored = s.stored
Fresh(j) == \A f \in DOMAIN j.plan : f \in F!Present /\ Like(j.seen[f], row[f])

(* A file that a purge left behind: sync_selection fails over it.           *)
Debris == \E f \in F!In("gone") :
  /\ file[f] # Nowhere
  /\ \A w \in Workers : ~ (F!At(w, "purge", "unlink") /\ f \in job[w].todo)

(* What a worker knows of the rows and files when it is the only one.       *)
Held(j) ==
  /\ j.at = "flush" \/ (j.op = "bulk" /\ j.at = "move") => Fresh(j)
  /\ j.at = "store" => j.op \notin Moving
  /\ j.op = "trash" /\ j.at = "flush" =>
       \A f \in DOMAIN j.plan : /\ row[f].life = "active" /\ j.plan[f].life = "trashed"
                                /\ j.plan[f].pre = row[f].status /\ j.plan[f].stored = row[f].stored
  /\ j.op = "restore" /\ j.at = "flush" =>
       \A f \in DOMAIN j.plan : /\ row[f].life = "trashed" /\ j.plan[f].life = "active"
                                /\ j.plan[f].status = (IF row[f].pre = Nowhere THEN Home
                                     ELSE row[f].pre)
                                /\ j.plan[f].stored = row[f].stored
  /\ j.op = "bulk" /\ j.at \in {"move", "flush"} =>
       \A f \in DOMAIN j.plan : row[f].life = "active" /\ j.plan[f].life = "active"
  /\ j.op = "select" => \A f \in j.todo : file[f] = j.seen[f].stored
  /\ j.op = "sync" /\ j.at = "read" =>
       /\ DOMAIN j.plan = {g \in Frames : file[g] # Nowhere}
            /\ \A f \in DOMAIN j.plan : j.plan[f] = file[f]
  /\ j.op = "sync" /\ j.at = "flush" =>
       /\ DOMAIN j.plan = F!In("active")
       /\ \A f \in DOMAIN j.plan :
            j.plan[f].life = "active" /\ j.plan[f].status = file[f] /\ j.plan[f].stored = file[f]

Alone == \A v, w \in Workers : job[v] # F!Idle /\ job[w] # F!Idle => v = w
Doomed == \A w \in Workers : F!At(w, "purge", "delete") => job[w].todo \subseteq F!In("trashed")
Peace ==
  /\ Loose /\ \A w \in Workers : Held(job[w])
  /\ (\A w \in Workers : job[w].op \notin Moving) => Settled
Calm == Alone /\ Doomed /\ (Debris \/ Peace)
Agreed == Quiet => Calm

-----------------------------------------------------------------------------
(* Dataset store: rows of exports and releases, and their directories.      *)

Ats == D!Importing \cup D!Releasing \cup D!Deleting \cup {"idle", "register", "delete"}
StoreTyped ==
  /\ export \in Archives \cup {NoArchive}
  /\ exported \in D!Directories /\ tmp \in D!Directories
  /\ release \in {"none", "dvc_failed", "published"}
  /\ released \in {"none", "whole", "part"}
  /\ job \in [Workers -> [at : Ats, archive : Archives \cup {NoArchive}]]
  /\ requests \in Nat /\ troubles \in Nat
  /\ overlapped \in BOOLEAN /\ doomed \in BOOLEAN

(* What an import at each of its steps finds in the two directories.        *)
Full(a) == [there |-> TRUE, zip |-> a, files |-> {a}]
Imports(w) == job[w].at \in D!Importing
Extracts(w) ==
  LET a == job[w].archive IN
  /\ a \in Archives /\ export = NoArchive
  /\ job[w].at = "copy" => tmp.there /\ tmp.files = {}
  /\ job[w].at = "extract" => tmp.there /\ tmp.zip = a /\ tmp.files = {}
  /\ job[w].at \in {"check", "rename"} => tmp = Full(a)
  /\ job[w].at = "insert" => exported = Full(a) /\ ~ tmp.there

(* What is there when no import is under way and nothing has failed.        *)
Tidy ==
  /\ (\A w \in Workers : ~ Imports(w)) => (exported.there <=> export # NoArchive)
  /\ \A w \in Workers : Imports(w) => (exported.there <=> job[w].at = "insert")
  /\ (\A w \in Workers : ~ Imports(w)) => ~ tmp.there

ImportsApart ==
  ~ overlapped =>
    /\ \A v, w \in Workers : Imports(v) /\ Imports(w) => v = w
    /\ \A w \in Workers : Imports(w) => Extracts(w)
    /\ export # NoArchive => exported = Full(export)
    /\ troubles = 0 => Tidy

(* A row, and a release or registration about to add one, has the whole     *)
(* directory.                                                               *)
RowsWhole ==
  ~ doomed =>
    /\ release # "none" => released = "whole"
    /\ \A w \in Workers : job[w].at \in {"add", "register"} => released = "whole"

StoreInv == StoreTyped /\ ImportsApart /\ RowsWhole
ArchivesNamed == NoArchive \notin Archives

(* The steps of releases, registrations and deletions.                      *)
Beside(w) ==
  \/ D!Release(w) \/ D!Look(w) \/ D!Stage(w) \/ D!Add(w) \/ D!Track(w) \/ D!Publish(w)
  \/ D!Register(w) \/ D!Registered(w)
  \/ D!Delete(w) \/ D!Unregister(w) \/ D!Remove(w) \/ D!Removed(w)

-----------------------------------------------------------------------------
(* Database backups: the newest of those made are there.                    *)

Above(S, b) == {c \in S : c > b}
Tops(S) == {b \in S : Cardinality(Above(S, b)) < Retention}

Below(S, b) == {c \in S : c < b}

BackupTyped ==
  /\ rows \subseteq 1..made /\ files \subseteq 1..made /\ answered \subseteq 1..made
  /\ at \in {"idle", "copy", "insert", "prune", "commit"}
  /\ made \in Nat /\ troubles \in Nat

(* What was answered is among the newest as long as fewer than Retention    *)
(* are newer.                                                               *)
AnsweredKept ==
  /\ Tops(rows) \subseteq files
  /\ \A b \in answered : Cardinality(Above(rows, b)) < Retention => b \in rows \cap files

Untroubled ==
  /\ at \in {"idle", "copy"} => rows = files /\ Cardinality(rows) <= Retention
  /\ at = "insert" => files = rows \cup {made}
  /\ at = "prune" => rows = files
  /\ at = "commit" => files = Tops(rows)

BackupInv ==
  /\ BackupTyped /\ AnsweredKept
  /\ at # "idle" => made > 0
  /\ at = "insert" => made \in files
  /\ at \in {"prune", "commit"} => made \in rows
  /\ made \in rows => at \in {"idle", "prune", "commit"}
  /\ troubles = 0 => Untroubled

-----------------------------------------------------------------------------
(* Gate runner: what a passed gate means.                                   *)

GateTyped ==
  /\ kind \in {"detect", "segment"} /\ images \in Amounts \cup {0}
  /\ left \subseteq 0..(images - 1)
  /\ passed \in BOOLEAN /\ masks \in BOOLEAN /\ agreed \in BOOLEAN
  /\ result \in {"none", "failed", "differs", "passed", "masks differ"}

GateInv ==
  /\ GateTyped /\ (passed => agreed)
  /\ result \in {"passed", "masks differ"} => images > 0

-----------------------------------------------------------------------------
(* Task cascades: what a deletion spares, and config against row.           *)

(* What a worker is doing: the rows it has read have been made by now.       *)
TaskAts == {"idle", "create", "insert", "rewrite", "update", "register",
        "look", "runs", "check", "delete", "config"}
Cascading == [at : TaskAts, name : Names \cup {NoName}, whole : BOOLEAN, cascade : BOOLEAN,
          release : Nat, training : Nat, model : Nat]
TaskNames(j) ==
  /\ j.at \in {"create", "insert", "rewrite", "update"} => j.name \in Names
  /\ j.at = "config" => j.whole
Seen(j) == j.release <= made /\ j.training <= made /\ j.model <= made

CascadeTyped ==
  /\ config \in Names \cup {NoName, Shipped} /\ row \in Names \cup {NoName, Bare}
  /\ release \in Nat /\ model \in Nat
  /\ training \in [no : Nat, active : BOOLEAN] /\ inference \in [no : Nat, active : BOOLEAN]
  /\ job \in [Workers -> Cascading]
  /\ late \subseteq Workers /\ lost \in BOOLEAN /\ overlapped \in BOOLEAN
  /\ requests \in Nat /\ made \in Nat /\ troubles \in Nat
  /\ \A w \in Workers : TaskNames(job[w])

(* Rows are numbered as they are made: a number that was read is never that  *)
(* of a later row.                                                           *)
Numbered ==
  /\ release <= made /\ training.no <= made /\ model <= made /\ inference.no <= made
  /\ \A w \in Workers : Seen(job[w])

(* No row outlives what it refers to.                                        *)
Chained ==
  /\ (release # 0 => row # NoName) /\ (training.no # 0 => release # 0)
  /\ (model # 0 => training.no # 0) /\ (inference.no # 0 => model # 0)

(* The training that a cascade has read has ended, and an active inference   *)
(* run of its model began after the check.                                   *)
Sparing(w) ==
  /\ job[w].at \in {"check", "delete"} /\ job[w].training # 0
       => ~ (training.no = job[w].training /\ training.active)
  /\ job[w].at = "delete" /\ job[w].model # 0 /\ job[w].model = model /\ inference.active
       => w \in late
Spared == ~ lost /\ \A w \in Workers : Sparing(w)

(* What a request that writes the task has done so far.                      *)
Half(j) ==
  \/ j.at = "create" /\ config = NoName /\ row = NoName
  \/ j.at = "insert" /\ config = j.name /\ row = NoName
  \/ j.at = "rewrite" /\ T!Synced /\ row # NoName
  \/ j.at = "register" /\ T!Synced /\ T!Known
  \/ j.at = "update" /\ config = j.name /\ row # NoName
  \/ j.at \in {"look", "runs", "check", "delete"} /\ T!Synced
  \/ j.at = "config" /\ row = NoName
Agreeing ==
  ~ overlapped /\ troubles = 0 =>
    /\ \A w, v \in Workers : T!OnTask(job[w]) /\ T!OnTask(job[v]) => w = v
    /\ \A w \in Workers : T!OnTask(job[w]) => Half(job[w])
    /\ (\A w \in Workers : ~ T!OnTask(job[w])) => T!Synced

CascadeInv == CascadeTyped /\ Numbered /\ Chained /\ Spared /\ Agreeing

NamesApart == NoName \notin Names \cup {Shipped, Bare} /\ Shipped \notin Names

-----------------------------------------------------------------------------
(* Dataset validation: leaks and corruption are found.                      *)

Splits == {"train", "val", "test"}
SplitsKnown == SplitOf \in [Files -> Splits] /\ V!Absent \notin Corrupt

ValidationTyped ==
  /\ content \in [Files -> Contents \cup {V!Absent}]
  /\ label \in [Files -> V!Rows \cup {V!Absent}]
  /\ stamp \in [Files -> Nat] /\ edits \in Nat
  /\ cache \in [Files -> [stamp : Nat, digest : Contents \cup {V!Absent}]]
  /\ yaml \in Manifests /\ checked \in BOOLEAN /\ silent \subseteq Files

(* Times grow with the edits, and a file that is there was written.          *)
Dated ==
  \A f \in Files : /\ stamp[f] <= edits /\ cache[f].stamp <= edits
                   /\ f \in V!Present => stamp[f] # 0

(* A cached digest that still counts is that of the content, unless the file *)
(* changed behind its modification time; and while nothing is edited the     *)
(* last report says what the next one would.                                 *)
ValidationInv ==
  /\ ValidationTyped /\ Dated
  /\ \A f \in V!Present \ silent : V!Digest(f) = content[f]
  /\ checked => report = V!Issues /\ blockers = V!Blockers

-----------------------------------------------------------------------------
(* Training limits: safe retries shrink, fit and end.                       *)

Limits == [L!Devices -> Int]
Policies == [detectBatch : Limits, segmentBatch : Limits, maxSize : Limits,
             gpuAllowed : BOOLEAN, disk : Int, percent : Int, commit : Int, runtime : Int,
             memory : Int]

(* Settings and readings are numbers, and a request asks for a batch and a   *)
(* size.                                                                     *)
Measured ==
  /\ Environments \subseteq Policies
  /\ \A r \in Readings : r.commit \in Int
  /\ BatchSizes \subseteq Nat /\ ImageSizes \subseteq Nat

Runs == [status : {"none", "running", "failed"}, device : L!Devices, kind : L!Kinds,
         batch : Nat, size : Nat, mode : {"train", "evaluate_existing"},
         code : L!Signatures \cup {"runner_failed"}, best : BOOLEAN, seen : Int]
Answers == {"none", "created", "retried", "recovered", "no preset", "unsafe", "no room",
            "no plan", "no weight", "unsafe retry"}
LimitsTyped ==
  /\ policy \in Environments /\ admitted \in Environments /\ state \in {"off", "refused", "up"}
  /\ run \in Runs /\ origin \in [batch : Nat, size : Nat]
  /\ retries \in Nat /\ children \in Nat /\ answer \in Answers

Left == L!Remaining(L!Ask(run.batch, run.size))

(* The API that started a run accepted its settings; the run asks for what   *)
(* they allow and started with enough memory, and each retry has used up a   *)
(* halving or a smaller size of the first run. What is refused as unsafe is  *)
(* so under other settings.                                                  *)
LimitsInv ==
  /\ LimitsTyped
  /\ state = "up" => L!Valid(policy)
  /\ run.status # "none" =>
       /\ L!Fits(admitted, run.device, run.kind, run.batch, run.size)
       /\ retries + Left <= L!Remaining(origin)
       /\ ~ L!Pressed(run.seen)
  /\ answer = "unsafe retry" => policy # admitted
  /\ run.status = "none" => retries = 0

-----------------------------------------------------------------------------
(* Uploaded images: every row has its file.                                 *)

(* The steps of an import, of an append and of any worker.                   *)
ImportAts == {"store", "collection", "batch", "frames", "clear"}
AppendAts == {"collect", "rows", "manifest", "undo"}
BatchAts == {"idle", "unlink"} \cup ImportAts \cup AppendAts
Early == {"store", "collection", "batch"}

Pieces == [no : Nat, index : Nat, image : Images, appended : BOOLEAN]
Handling == [at : BatchAts, no : Nat, todo : Seq(Images), known : SUBSET Images, next : Nat,
             taken : SUBSET Pieces]

BatchTyped ==
  /\ collection \in BOOLEAN /\ batch \in BOOLEAN /\ dir \in BOOLEAN
  /\ frames \subseteq Pieces /\ IsFiniteSet(frames)
  /\ files \subseteq Pieces /\ manifest \subseteq Pieces
  /\ job \in [Workers -> Handling]
  /\ requests \in Nat /\ troubles \in Nat /\ overlapped \subseteq 1..requests

(* What a worker has taken is its own, under the places it has gone over.    *)
Owning(j) ==
  /\ j.at # "idle" => 1 <= j.no /\ j.no <= requests
  /\ IsFiniteSet(j.taken)
  /\ \A t \in j.taken : t.no = j.no /\ t.index < j.next /\ t.appended = (j.at \in AppendAts)

(* Two workers have numbers of their own and are not both after their last   *)
(* file; when both upload, both overlap.                                     *)
BatchBeside(v, w) ==
  /\ ~(job[v].at \in I!Alone /\ job[w].at \in I!Alone)
  /\ job[v].at # "idle" /\ job[w].at # "idle" => job[v].no # job[w].no
  /\ job[v].at \in I!Uploading /\ job[w].at \in I!Uploading
       => job[v].no \in overlapped /\ job[w].no \in overlapped

(* An import finds no batch and no frames but those of requests it overlaps, *)
(* and its files are there unless it overlaps one that removed them.         *)
Importing(j) ==
  j.at \in ImportAts =>
    /\ \A f \in frames : f.no # j.no /\ f.no \in overlapped
    /\ j.at \in Early /\ batch => j.no \in overlapped
    /\ j.at # "clear" /\ j.no \notin overlapped => j.taken \subseteq files
    /\ j.at = "batch" => ~batch
    /\ j.at = "frames" => frames = {}
    /\ j.at \in {"collection", "batch", "frames"} /\ troubles = 0 /\ manifest # {}
         => manifest = j.taken

(* What an append knows of the frames that were there when it began.         *)
Foreseen(g, j) ==
  /\ g.no < j.no /\ g.image \in j.known /\ g.index < j.next
  /\ \A t \in j.taken : t.image # g.image /\ t.index # g.index
Appending(j) ==
  /\ j.at \in {"collect", "rows", "undo"} => \A g \in frames : g.no # j.no
  /\ j.at \in {"collect", "rows"} =>
       /\ \A g \in frames : (g.no \in overlapped /\ j.no \in overlapped) \/ Foreseen(g, j)
       /\ \A t \in j.taken : t.image \in j.known
       /\ \A t, u \in j.taken : t # u => t.image # u.image /\ t.index # u.index

(* A deletion that has still to remove the directory: the frames there are   *)
(* now, and those of uploads it met, are of requests that will overlap.      *)
Removing(j) ==
  j.at = "unlink" =>
    /\ \A f \in frames : f.no > j.no \/ f.no \in overlapped
    /\ \A v \in Workers :
         (job[v].at \in Early \/ (job[v].at \in I!Uploading /\ batch)) /\ job[v].no < j.no
           => job[v].no \in overlapped

Framed ==
  /\ frames # {} => batch
  /\ batch => collection
  /\ \A f \in frames : f.no <= requests
  /\ \A f, g \in frames : f.no = g.no => f.appended = g.appended
Repeats(f, g) ==
  f # g /\ f.appended /\ g.no <= f.no /\ (f.image = g.image \/ f.index = g.index)
Unrepeated ==
  \A f, g \in frames : Repeats(f, g) => f.no \in overlapped /\ g.no \in overlapped
Kept == \A f \in frames : f.no \notin overlapped => f \in files

Unlisted == {"unlink", "collection", "frames", "clear", "manifest"}
Listed ==
  /\ troubles = 0 /\ manifest # {} /\ batch
  /\ \A w \in Workers : job[w].at \notin Unlisted
  => manifest = frames

Working(j) == Owning(j) /\ Importing(j) /\ Appending(j) /\ Removing(j)

(* The inductive invariant.                                                  *)
BatchInv ==
  /\ BatchTyped
  /\ \A w \in Workers : Working(job[w])
  /\ \A v, w \in Workers : v # w => BatchBeside(v, w)
  /\ Framed /\ Unrepeated /\ Kept /\ Listed

(* What every step of a worker does, as the others see it.                   *)
Alongside(w) ==
  /\ job' \in [Workers -> Handling] /\ \A v \in Workers \ {w} : job'[v] = job[v]
  /\ requests' \in Nat /\ requests <= requests' /\ (troubles' = 0 => troubles = 0)
  /\ overlapped \subseteq overlapped'
  /\ \/ frames' \subseteq frames
     \/ job[w].at \in I!Alone /\ batch /\ frames' = frames \cup job[w].taken
  /\ batch' /\ ~batch => job[w].at = "batch"
  /\ \A v \in Workers \ {w} :
       /\ job[v].at \in I!Uploading => files \subseteq files' \/ job[v].no \in overlapped'
       /\ job[v].at \in I!Alone => manifest' = manifest \/ manifest' = {}
  /\ job'[w].at \in I!Alone => job[w].at \in I!Alone \/ I!LoopFree(w)
  /\ job'[w].at # "idle" =>
       \/ job'[w].no = job[w].no /\ job[w].at # "idle"
       \/ job'[w].no = requests + 1 /\ requests' = requests + 1 /\ job[w].at = "idle"
  /\ job'[w].at \in I!Uploading =>
       \/ job[w].at \in I!Uploading
       \/ /\ job[w].at = "idle"
          /\ \A v \in Workers \ {w} : job[v].at \in I!Uploading =>
               job[v].no \in overlapped' /\ job'[w].no \in overlapped'
  /\ job'[w].at \in Early => job[w].at \in Early \cup {"idle"}

-----------------------------------------------------------------------------
(* Captures: imports, extractions and deletions of videos and frames.       *)

(* What stands for no collection and no batch is neither.                    *)
NobodyApart == Nobody \notin Collections \cup Batches

(* The steps of an import and of an extraction.                              *)
BringAts == {"look", "copy", "place", "undo"}
ShootAts == {"list", "batch", "extract"}
CaptureAts == {"idle", "delete", "unlink"} \cup BringAts \cup ShootAts

Pictures == [batch : Batches, collection : Collections, video : Videos, pos : C!Moments]
PictureRows == [batch : Batches, video : Videos, pos : C!Moments, index : Nat, file : Pictures]
Duties ==
  [at : CaptureAts, c : Collections \cup {Nobody}, b : Batches \cup {Nobody},
   every : {1, 2}, artifacts : BOOLEAN, cascade : BOOLEAN, todo : SUBSET Videos,
   known : SUBSET Videos, made : SUBSET (Collections \X Videos), doomed : SUBSET Batches,
   list : Seq(Videos), shot : Seq(Pictures)]

RowsTyped ==
  /\ collections \subseteq Collections /\ assets \in [Collections -> Seq(Videos)]
  /\ batch \in [Batches -> Collections \cup {Nobody}] /\ frames \subseteq PictureRows
DiskTyped ==
  /\ stored \subseteq Collections \X Videos /\ tmps \subseteq Collections \X Videos
  /\ dirs \subseteq Batches /\ images \subseteq Pictures
CountsTyped ==
  /\ jobs \in Nat /\ troubles \in Nat /\ contested \subseteq Collections \cup Batches
  /\ mixed \in [Batches -> SUBSET {1, 2}]

(* No sequence of videos names one twice.                                    *)
Distinct(list) == \A i, k \in DOMAIN list : list[i] = list[k] => i = k

(* Where the picture of a moment of the k-th video comes in a list.          *)
Position(k, pos, n) == IF n = 1 THEN 2 * k - 1 + pos ELSE k

(* An import knows what it has copied, and nobody else fills its collection  *)
(* or takes a file away that it has placed.                                  *)
Bringing(j) ==
  j.at \in BringAts =>
    /\ j.c \in Collections /\ j.made \subseteq {j.c} \X Videos /\ Distinct(j.list)
    /\ j.at \in {"copy", "place"} => \A i \in DOMAIN j.list : j.list[i] \in j.known
    /\ j.at = "look" => j.list = <<>>
    /\ j.at = "place" => j.list # <<>>
    /\ j.c \notin contested /\ j.at # "look" => j.c \notin collections
    /\ j.c \notin contested /\ j.at \in {"copy", "place"} =>
         \A i \in DOMAIN j.list :
           j.at = "copy" \/ i < Len(j.list) => <<j.c, j.list[i]>> \in stored

(* The list "shot" are the pictures of the first videos of a collection, the *)
(* other videos are still to come.                                           *)
Aligned(j) ==
  LET done == Len(assets[j.c]) - Len(j.list) IN
    /\ 0 <= done /\ Len(j.shot) = (IF j.every = 1 THEN 2 * done ELSE done)
    /\ \A i \in DOMAIN j.list : j.list[i] = assets[j.c][done + i]
    /\ \A i \in DOMAIN j.shot : \E k \in 1..done :
         j.shot[i].video = assets[j.c][k] /\ i = Position(k, j.shot[i].pos, j.every)
Taking(j) ==
  j.at \in ShootAts =>
    /\ j.c \in Collections /\ j.b \in Batches /\ j.every \in mixed[j.b]
    /\ \A i \in DOMAIN j.shot : j.shot[i].batch = j.b /\ j.shot[i].collection = j.c
    /\ j.at # "extract" => j.shot = <<>>
    /\ j.b \notin contested => \A i \in DOMAIN j.shot : j.shot[i] \in images
    /\ j.at # "list" /\ j.c \notin contested => Aligned(j)

(* A deletion has a batch or a collection, and what it has still to remove   *)
(* from the disk has no rows, unless another job was at it.                  *)
Dropping(j) ==
  /\ j.at = "delete" => (j.b = Nobody) # (j.c = Nobody)
  /\ j.at = "unlink" =>
       /\ j.made \subseteq {j.c} \X Videos
       /\ j.c \in Collections \ contested => assets[j.c] = <<>>
       /\ \A r \in frames : r.batch \in j.doomed => r.batch \in contested

(* A collection that has no row has no videos, and its videos have files.    *)
Gathered(c) ==
  /\ Distinct(assets[c]) /\ (c \notin collections => assets[c] = <<>>)
  /\ c \notin contested => \A i \in DOMAIN assets[c] : <<c, assets[c][i]>> \in stored

(* A frame row has a picture, and the place of its video in the collection   *)
(* gives the number in its id.                                               *)
Placed(r, n) ==
  LET list == assets[r.file.collection] IN
    \E k \in DOMAIN list : r.video = list[k] /\ r.index = Position(k, r.pos, n)
Pictured(r) ==
  /\ r = C!Row(r.file, r.index) /\ mixed[r.batch] # {} /\ r.video \in C!Imported
  /\ r.batch \notin contested => r.file \in images
  /\ r.batch \notin contested /\ r.file.collection \notin contested
       => \A n \in {1, 2} : mixed[r.batch] = {n} => Placed(r, n)

(* The inductive invariant: two jobs at one collection or batch contest it,  *)
(* and what each has done so far is still there otherwise.                   *)
CaptureInv ==
  /\ RowsTyped /\ DiskTyped /\ CountsTyped /\ job \in [Workers -> Duties]
  /\ \A v, w \in Workers : v # w => C!Touched(job[v]) \cap C!Touched(job[w]) \subseteq contested
  /\ \A c \in Collections : Gathered(c)
  /\ \A w \in Workers : Bringing(job[w]) /\ Taking(job[w]) /\ Dropping(job[w])
  /\ \A r \in frames : Pictured(r)

(* The pictures of one video: of both moments, or of the first.              *)
ShotsOf(s, b, c, u, n) ==
  /\ s \in Seq(Pictures) /\ DOMAIN s = 1..(IF n = 1 THEN 2 ELSE 1)
  /\ \A p \in DOMAIN s : /\ s[p].batch = b /\ s[p].collection = c
                         /\ s[p].video = u /\ s[p].pos = p - 1

-----------------------------------------------------------------------------
(* Release plans: every split gets its share.                               *)

(* Sums over finite sets.                                                    *)
Some(s) == CHOOSE x \in s : TRUE

Sums(f, z, S) ==
  f = [s \in SUBSET S |-> IF s = {} THEN 0 ELSE z[Some(s)] + f[s \ {Some(s)}]]
Sum(z, S) == (CHOOSE f : Sums(f, z, S))[S]

(* There are finitely many groups, each has a frame, and ratios are natural. *)
Plannable ==
  /\ IsFiniteSet(Groups) /\ Sizes \subseteq Nat \ {0} /\ Ratios \subseteq [R!Splits -> Nat]

PlanTyped ==
  /\ R!Present \subseteq Groups /\ size \in [R!Present -> Sizes]
  /\ ratio \in Ratios \cup {R!Even}
  /\ R!Placed \subseteq R!Present /\ split \in [R!Placed -> R!Splits]
  /\ stage \in {"idle", "place", "done", "refused"}

(* No split is ahead of its share by a group or more.                        *)
WithinShare(s) == \E g \in R!Present : 100 * R!Count(s) < ratio[s] * R!Total + 100 * size[g]

(* While a split is still empty, no other has two groups.                    *)
Seeding ==
  (\E s \in R!Active : R!Of(s) = {}) => \A g, h \in R!Placed : split[g] = split[h] => g = h

Sharing ==
  /\ ratio \in Ratios /\ ratio["train"] + ratio["val"] + ratio["test"] = 100
  /\ Cardinality(R!Active) <= Cardinality(R!Present)
  /\ \A g \in R!Placed : split[g] \in R!Active
  /\ R!Count("train") + R!Count("val") + R!Count("test") = R!Frames(R!Placed)
  /\ \A s \in R!Active : WithinShare(s)
  /\ Seeding

(* The inductive invariant: the splits together have the frames placed.      *)
PlanInv ==
  /\ PlanTyped
  /\ stage \in {"idle", "refused"} => R!Placed = {}
  /\ stage \in {"place", "done"} => Sharing
  /\ stage = "done" => R!Placed = R!Present
==============================================================================
