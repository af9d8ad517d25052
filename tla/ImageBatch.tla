------------------------------ MODULE ImageBatch ------------------------------
(* Images uploaded as a frame batch of their own (import_images) and added to *)
(* it later (append_batch_images), beside its deletion. The two uploads are  *)
(* coroutines of one event loop: they take turns while files arrive, and     *)
(* each runs alone from its last file to its answer. The deletion has a      *)
(* thread of its own. One batch id is followed.                              *)
(*****************************************************************************)
EXTENDS Naturals, FiniteSetsExt, Sequences

CONSTANTS
  Workers,    \* requests at one time
  Images,     \* contents
  MaxRequests, \* bound: requests begun
  MaxTroubles \* bound: crashes, failing sessions and writes

VARIABLES
  collection, \* whether the collection row of the batch exists
  batch,      \* whether the batch row exists
  frames,     \* the frame rows
  dir,        \* whether the directory of the batch exists
  files,      \* the files in it, by the request and place that wrote them
  manifest,   \* the files the manifest lists
  job,        \* what every worker is doing
  requests, troubles, \* how many so far
  overlapped  \* history: requests that ran beside another upload, or that began
              \* between a deletion's commit and its removal of the directory

vars == <<collection, batch, frames, dir, files, manifest, job, requests, troubles, overlapped>>
rows == <<collection, batch, frames>>
disk == <<dir, files, manifest>>

Idle == [at |-> "idle", no |-> 0, todo |-> <<>>, known |-> {}, next |-> 0, taken |-> {}]

Init ==
  /\ collection = FALSE /\ batch = FALSE /\ frames = {}
  /\ dir = FALSE /\ files = {} /\ manifest = {}
  /\ job = [w \in Workers |-> Idle]
  /\ requests = 0 /\ troubles = 0 /\ overlapped = {}

(* Steps after the last file, up to the answer, hold the event loop.         *)
Alone == {"collection", "batch", "frames", "rows", "manifest", "undo", "clear"}
LoopFree(w) == \A o \in Workers \ {w} : job[o].at \notin Alone

Uploading == {"store", "collect"} \cup Alone
Begin(w, at, todo) ==
  /\ job[w] = Idle /\ requests < MaxRequests /\ LoopFree(w)
  /\ requests' = requests + 1
  /\ LET others == {job[o].no : o \in {u \in Workers : job[u].at \in Uploading}}
     IN overlapped' = overlapped \cup others \cup (IF others = {} THEN {} ELSE {requests + 1})
  /\ job' = [job EXCEPT ![w] =
       [Idle EXCEPT !.at = at, !.no = requests + 1, !.todo = todo,
                    !.known = {f.image : f \in frames},
                    !.next = IF frames = {} THEN 0 ELSE Max({f.index : f \in frames}) + 1]]
  /\ UNCHANGED <<rows, troubles>>

Go(w, j) == job' = [job EXCEPT ![w] = j] /\ UNCHANGED <<requests, troubles, overlapped>>
At(w, step) == Go(w, [job[w] EXCEPT !.at = step])
Fail(w, step) ==
  /\ troubles < MaxTroubles /\ troubles' = troubles + 1
  /\ job' = [job EXCEPT ![w].at = step]
  /\ UNCHANGED <<requests, overlapped, rows>>

(* A batch that exists is refused; the directory must not exist either.      *)
Import(w, todo) ==
  /\ ~batch /\ ~dir /\ todo # <<>>
  /\ Begin(w, "store", todo)
  /\ dir' = TRUE /\ files' = {} /\ manifest' = {}

(* An image is kept under a name of its own; a file that is no image, or     *)
(* empty, or too large, ends the import, and so does a missing directory.    *)
Item(j, image, appended) ==
  [no |-> j.no, index |-> j.next, image |-> image, appended |-> appended]
Store(w) ==
  LET j == job[w] IN
    /\ j.at = "store" /\ LoopFree(w)
    /\ IF ~dir THEN At(w, "clear") /\ UNCHANGED <<rows, disk>>
       ELSE IF j.todo = <<>>
       THEN At(w, "collection") /\ manifest' = j.taken /\ UNCHANGED <<rows, dir, files>>
       ELSE \/ /\ Go(w, [j EXCEPT !.todo = Tail(@), !.next = @ + 1,
                                  !.taken = @ \cup {Item(j, Head(j.todo), FALSE)}])
               /\ files' = files \cup {Item(j, Head(j.todo), FALSE)}
               /\ UNCHANGED <<rows, dir, manifest>>
            \/ At(w, "clear") /\ UNCHANGED <<rows, disk>>

(* Three sessions, each of which may fail: the collection, the batch with    *)
(* its sources, the frames.                                                  *)
InsertCollection(w) ==
  /\ job[w].at = "collection"
  /\ IF collection THEN At(w, "clear") /\ UNCHANGED rows
     ELSE \/ collection' = TRUE /\ At(w, "batch") /\ UNCHANGED <<batch, frames>>
          \/ Fail(w, "clear")
  /\ UNCHANGED disk
InsertBatch(w) ==
  /\ job[w].at = "batch"
  /\ \/ /\ collection /\ ~batch
        /\ batch' = TRUE /\ At(w, "frames") /\ UNCHANGED <<collection, frames>>
     \/ ~collection /\ At(w, "clear") /\ UNCHANGED rows
     \/ Fail(w, "clear")
  /\ UNCHANGED disk
InsertFrames(w) ==
  /\ job[w].at = "frames"
  /\ \/ /\ batch /\ frames' = frames \cup job[w].taken
        /\ Go(w, Idle) /\ UNCHANGED <<collection, batch>>
     \/ ~batch /\ At(w, "clear") /\ UNCHANGED rows
     \/ Fail(w, "clear")
  /\ UNCHANGED disk

(* A failing import removes the directory: rows of its earlier sessions stay. *)
Clear(w) ==
  /\ job[w].at = "clear"
  /\ dir' = FALSE /\ files' = {} /\ manifest' = {}
  /\ Go(w, Idle) /\ UNCHANGED rows

----
(* The contents and the largest index are read before the files arrive.      *)
Add(w, todo) ==
  /\ batch /\ todo # <<>>
  /\ Begin(w, "collect", todo) /\ UNCHANGED disk

(* Mutant: two equal images of one request are not told apart.               *)
Noted(j, image) == j.known

Known(j, image) == j.known \cup {image}

Collect(w) ==
  LET j == job[w] IN
    /\ j.at = "collect" /\ LoopFree(w)
    /\ IF j.todo = <<>> THEN At(w, "rows")
       ELSE \/ LET image == Head(j.todo) IN
                 IF image \in j.known THEN Go(w, [j EXCEPT !.todo = Tail(@)])
                 ELSE Go(w, [j EXCEPT !.todo = Tail(@), !.next = @ + 1,
                                      !.known = Known(j, image),
                                      !.taken = @ \cup {Item(j, image, TRUE)}])
            \/ Go(w, Idle)
    /\ UNCHANGED <<rows, disk>>

(* The files are written, with their directory, and the rows inserted; files *)
(* of a failing insert are deleted again.                                    *)
Write(w) ==
  LET j == job[w] IN
    /\ j.at = "rows" /\ ~(j.taken \subseteq files)
    /\ dir' = TRUE /\ files' = files \cup j.taken
    /\ Go(w, j) /\ UNCHANGED <<rows, manifest>>
InsertAppended(w) ==
  LET j == job[w] IN
    /\ j.at = "rows" /\ j.taken \subseteq files
    /\ \/ /\ j.taken = {} \/ batch
          /\ frames' = frames \cup j.taken
          /\ At(w, "manifest") /\ UNCHANGED <<collection, batch>>
       \/ j.taken # {} /\ ~batch /\ At(w, "undo") /\ UNCHANGED rows
       \/ Fail(w, "undo")
    /\ UNCHANGED disk
Undo(w) ==
  /\ job[w].at = "undo"
  /\ files' = files \ job[w].taken
  /\ Go(w, Idle) /\ UNCHANGED <<rows, dir, manifest>>

(* The frames a manifest lists are written anew from the rows; one that is   *)
(* gone comes back without that list.                                        *)
Rewrite(w) ==
  /\ job[w].at = "manifest"
  /\ dir' = TRUE /\ manifest' = (IF manifest = {} THEN {} ELSE frames)
  /\ Go(w, Idle) /\ UNCHANGED <<rows, files>>

----
(* delete_frame_batch with its artifacts, or delete_video_collection with    *)
(* the cascade, which takes the collection row as well.                      *)
Delete(w, whole) ==
  /\ job[w] = Idle /\ requests < MaxRequests
  /\ IF whole THEN collection ELSE batch
  /\ batch' = FALSE /\ frames' = {}
  /\ collection' = (collection /\ ~whole)
  /\ job' = [job EXCEPT ![w] =
       IF batch THEN [Idle EXCEPT !.at = "unlink", !.no = requests + 1] ELSE Idle]
  /\ requests' = requests + 1
  /\ UNCHANGED <<disk, troubles, overlapped>>
Unlink(w) ==
  /\ job[w].at = "unlink"
  /\ dir' = FALSE /\ files' = {} /\ manifest' = {}
  /\ overlapped' = overlapped \cup (job[w].no + 1)..requests
       \cup {job[o].no : o \in {u \in Workers : job[u].at \in Uploading}}
  /\ job' = [job EXCEPT ![w] = Idle]
  /\ UNCHANGED <<rows, requests, troubles>>

Crash ==
  /\ troubles < MaxTroubles /\ \E w \in Workers : job[w] # Idle
  /\ job' = [w \in Workers |-> Idle] /\ troubles' = troubles + 1
  /\ UNCHANGED <<rows, disk, requests, overlapped>>

Step(w) ==
  \/ Store(w) \/ InsertCollection(w) \/ InsertBatch(w) \/ InsertFrames(w) \/ Clear(w)
  \/ Collect(w) \/ Write(w) \/ InsertAppended(w) \/ Undo(w) \/ Rewrite(w) \/ Unlink(w)

Uploads == UNION {[1..n -> Images] : n \in 1..2}

Next ==
  \/ Crash
  \/ \E w \in Workers :
       \/ Step(w)
       \/ \E todo \in Uploads : Import(w, todo) \/ Add(w, todo)
       \/ \E whole \in BOOLEAN : Delete(w, whole)

Spec == Init /\ [][Next]_vars

TypeOK ==
  /\ {collection, batch, dir} \subseteq BOOLEAN
  /\ \A f \in frames \cup files \cup manifest : f.image \in Images /\ f.appended \in BOOLEAN
  /\ \A w \in Workers : job[w].at \in Uploading \cup {"idle", "unlink"}
  /\ requests \in Nat /\ troubles \in Nat /\ overlapped \subseteq 1..requests

(* Every frame row has its file, whatever failed, and an image added to the  *)
(* batch repeats neither an image nor an index of it, both for requests that *)
(* did not overlap others; and when all is quiet and nothing failed, the     *)
(* manifest, if it was not removed, lists the frames there are.              *)
ImageBatchHolds ==
  /\ \A f \in frames : f.no \notin overlapped => f \in files
  /\ \A f, g \in frames :
       f # g /\ f.appended /\ g.no <= f.no /\ (f.image = g.image \/ f.index = g.index)
         => {f.no, g.no} \subseteq overlapped
  /\ batch /\ manifest # {} /\ troubles = 0 /\ (\A w \in Workers : job[w] = Idle)
       => manifest = frames
===============================================================================
