---------------------------- MODULE FrameCuration ----------------------------
(* The frames of one batch: a row and a file each. Requests and jobs move  *)
(* the files between the folders of the batch (api/app.py), synchronise    *)
(* the rows with the folders (frames/selection.py), and trash, restore and *)
(* purge frames (frames/recycle_bin.py); a periodic action purges what was *)
(* in the bin for a week.                                                  *)
(*                                                                         *)
(* A session reads without a lock and writes the columns it changed when   *)
(* it commits. A folder stands for the status of the frames in it.         *)
(***************************************************************************)
EXTENDS Naturals

CONSTANTS
  Workers,     \* request and job threads, and the thread of the cleanup
  Frames,      \* the frames of the batch, of one video
  Folders,     \* the statuses a frame is given by moving it
  Home,        \* the folder of new frames, named by their storage keys
  Nowhere,     \* the folder of a file that is not there
  Requests,    \* the identifiers of requests, which may be sent again
  NoRequest,   \* what has no identifier: jobs and the cleanup
  MaxRequests, \* how many requests are made
  MaxTroubles  \* how many crashes and failing unlinks there are

VARIABLES
  row,      \* the row of each frame
  file,     \* the folder of each frame's file
  ledger,   \* the operations stored as done
  job,      \* what each worker is doing
  requests, \* the requests made so far
  troubles, \* crashes and failing unlinks so far
  strayed,  \* history: frames whose file was moved, or not unlinked by a purge
  raced,    \* history: frames restored since a purge checked them
  astray,   \* history: frames whose file was moved while in the bin
  contested \* history: two workers were busy at the same time

history == <<strayed, raced, astray, contested>>
vars == <<row, file, ledger, job, requests, troubles, history>>

Row == [life : {"active", "trashed", "gone"}, status : Folders, pre : Folders \cup {Nowhere},
        stored : Folders, due : {"never", "later", "now"}]

NoFrames == [f \in {} |-> Nowhere]
Idle == [op |-> "none", at |-> "idle", seen |-> NoFrames, plan |-> NoFrames,
         todo |-> {}, request |-> NoRequest]

(* Frames as extraction left them, and frames that had been moved to a     *)
(* folder and are in the bin.                                              *)
Kept(p) == [life |-> "active", status |-> p, pre |-> Nowhere, stored |-> p, due |-> "never"]
InBin(p) == [Kept(p) EXCEPT !.life = "trashed", !.pre = p, !.due = "later"]

Init ==
  /\ \E p \in Folders \ {Home} : row \in [Frames -> {Kept(Home), InBin(p)}]
  /\ file = [f \in Frames |-> row[f].stored]
  /\ ledger = {} /\ requests = 0 /\ troubles = 0
  /\ job = [w \in Workers |-> Idle]
  /\ strayed = {f \in Frames : file[f] # Home} /\ raced = {} /\ astray = {}
  /\ contested = FALSE

In(life) == {f \in Frames : row[f].life = life}
Present == Frames \ In("gone")

Go(w, j) == job' = [job EXCEPT ![w] = j]
(* The frames of a job are taken in the order of their identifiers.        *)
First(w, f) == f \in job[w].todo /\ \A g \in job[w].todo : f <= g
At(w, op, at) == job[w].op = op /\ job[w].at = at

(* Idle workers are interchangeable: the first of them takes the work.     *)
Starts(w, j) ==
  /\ job[w] = Idle /\ Go(w, j)
  /\ \A v \in Workers : v < w => job[v] # Idle
  /\ contested' = (contested \/ \E v \in Workers : job[v] # Idle)

(* A request starts on a worker unless its answer is in the ledger.        *)
Ask(w, op, q, j) ==
  /\ requests < MaxRequests /\ requests' = requests + 1
  /\ <<op, q>> \notin ledger
  /\ Starts(w, [j EXCEPT !.op = op, !.request = q])
  /\ UNCHANGED <<row, file, ledger, troubles, strayed, raced, astray>>

(* A session that loaded the rows it will set as the plan says.            *)
Loaded(plan) ==
  [Idle EXCEPT !.at = "flush", !.seen = [f \in DOMAIN plan |-> row[f]], !.plan = plan]

-----------------------------------------------------------------------------
(* The commit of a session: the changed columns of each changed row are    *)
(* written; when one of those rows is gone the whole commit fails.         *)
Dirty(j) == {f \in DOMAIN j.plan : j.plan[f] # j.seen[f]}
Merged(j, f) ==
  [c \in DOMAIN row[f] |-> IF j.plan[f][c] # j.seen[f][c] THEN j.plan[f][c] ELSE row[f][c]]

Flush(w, op, next) ==
  LET j == job[w] IN
  /\ At(w, op, "flush")
  /\ \/ /\ Dirty(j) \subseteq Present
        /\ row' = [f \in Frames |-> IF f \in Dirty(j) THEN Merged(j, f) ELSE row[f]]
        /\ Go(w, [Idle EXCEPT !.op = next, !.at = IF next = "none" THEN "idle"
                                                  ELSE IF next = "sync" THEN "list" ELSE "store",
                              !.request = j.request])
     \/ /\ ~ Dirty(j) \subseteq Present
        /\ Go(w, Idle) /\ UNCHANGED row
  /\ UNCHANGED <<file, ledger, requests, troubles, strayed, astray, contested>>

(* _store_operation: the answer is kept after the commit.                  *)
Store(w) ==
  /\ job[w].at = "store"
  /\ ledger' = IF job[w].request = NoRequest THEN ledger
               ELSE ledger \cup {<<job[w].op, job[w].request>>}
  /\ Go(w, Idle)
  /\ UNCHANGED <<row, file, requests, troubles, history>>

-----------------------------------------------------------------------------
(* trash: what is active keeps its status for a later restore.             *)
Binned(r) == [r EXCEPT !.life = "trashed", !.pre = r.status, !.due = "later"]
Trash(w) ==
  \E some \in (SUBSET In("active")) \ {{}}, q \in Requests :
       Ask(w, "trash", q, Loaded([f \in some |-> Binned(row[f])]))
Trashed(w) == Flush(w, "trash", "trash") /\ UNCHANGED raced

(* restore: with the status from before, or as a candidate.                *)
Back(r) ==
  [r EXCEPT !.life = "active", !.status = IF r.pre = Nowhere THEN Home ELSE r.pre,
            !.pre = Nowhere, !.due = "never"]
Restore(w) ==
  \E some \in (SUBSET In("trashed")) \ {{}}, q \in Requests :
       Ask(w, "restore", q, Loaded([f \in some |-> Back(row[f])]))
Restored(w) ==
  /\ raced' = raced \cup (DOMAIN job[w].plan \cap
                UNION {job[v].todo : v \in {u \in Workers : At(u, "purge", "delete")}})
  /\ Flush(w, "restore", "restore")

(* The week in the bin ends.                                               *)
Due(f) ==
  /\ row[f].life = "trashed" /\ row[f].due = "later"
  /\ row' = [row EXCEPT ![f].due = "now"]
  /\ UNCHANGED <<file, ledger, job, requests, troubles, history>>

-----------------------------------------------------------------------------
(* purge, of frames a client names or the cleanup collected.               *)
Purge(w) ==
  \E some \in (SUBSET Frames) \ {{}}, q \in Requests :
       Ask(w, "purge", q, [Idle EXCEPT !.at = "check", !.todo = some])

Expired == {f \in In("trashed") : row[f].due = "now"}
PurgeExpired(w) ==
  /\ Expired # {}
  /\ Starts(w, [Idle EXCEPT !.op = "purge", !.at = "check", !.todo = Expired])
  /\ UNCHANGED <<row, file, ledger, requests, troubles, strayed, raced, astray>>

(* Mutant: only the presence of the frames is checked.                     *)
CheckPresent(w) ==
  /\ At(w, "purge", "check")
  /\ Go(w, IF job[w].todo \subseteq Present THEN [job[w] EXCEPT !.at = "delete"] ELSE Idle)
  /\ UNCHANGED <<row, file, ledger, requests, troubles, history>>

(* Mutant: the file is unlinked before the transaction.                    *)
CheckUnlinking(w) ==
  /\ At(w, "purge", "check")
  /\ Go(w, IF job[w].todo \subseteq In("trashed") THEN [job[w] EXCEPT !.at = "unlink"] ELSE Idle)
  /\ UNCHANGED <<row, file, ledger, requests, troubles, history>>

CheckPurge(w) ==
  /\ At(w, "purge", "check")
  /\ Go(w, IF job[w].todo \subseteq In("trashed") THEN [job[w] EXCEPT !.at = "delete"] ELSE Idle)
  /\ UNCHANGED <<row, file, ledger, requests, troubles, history>>

(* One transaction deletes the rows, their annotations and, with its last  *)
(* frame, the row of the video. A row that is gone already is no error.    *)
DeleteRows(w) ==
  /\ At(w, "purge", "delete")
  /\ row' = [f \in Frames |-> IF f \in job[w].todo THEN [row[f] EXCEPT !.life = "gone"] ELSE row[f]]
  /\ raced' = raced \ job[w].todo
  /\ Go(w, [job[w] EXCEPT !.at = "unlink"])
  /\ UNCHANGED <<file, ledger, requests, troubles, strayed, astray, contested>>

Dropped(w, f) ==
  LET rest == job[w].todo \ {f}
  IN Go(w, [job[w] EXCEPT !.todo = rest, !.at = IF rest = {} THEN "store" ELSE "unlink"])

(* The file is unlinked where the storage key says; not being there is no  *)
(* error.                                                                  *)
Unlink(w, f) ==
  /\ At(w, "purge", "unlink") /\ First(w, f)
  /\ file' = IF file[f] = Home THEN [file EXCEPT ![f] = Nowhere] ELSE file
  /\ Dropped(w, f)
  /\ UNCHANGED <<row, ledger, requests, troubles, history>>

UnlinkFails(w, f) ==
  /\ At(w, "purge", "unlink") /\ First(w, f)
  /\ troubles < MaxTroubles /\ troubles' = troubles + 1
  /\ strayed' = strayed \cup {f}
  /\ Dropped(w, f)
  /\ UNCHANGED <<row, file, ledger, requests, raced, astray, contested>>

-----------------------------------------------------------------------------
(* _bulk_frame_selection: files are moved first, from where the rows said  *)
(* they were, and then the rows are committed.                             *)
Placed(r, to) == [r EXCEPT !.status = to, !.stored = to]
Bulk(w) ==
  \E some \in (SUBSET In("active")) \ {{}}, to \in Folders :
       Ask(w, "bulk", NoRequest,
         [Loaded([f \in some |-> Placed(row[f], to)]) EXCEPT !.at = "move", !.todo = some])
BulkFlush(w) == Flush(w, "bulk", "sync") /\ UNCHANGED raced

(* update_frame_selection: moves the files it finds, whatever their rows.  *)
Stored(r, folder) == [r EXCEPT !.stored = folder]
Select(w) ==
  \E some \in (SUBSET {f \in Frames : file[f] # Nowhere}) \ {{}}, to \in Folders :
       Ask(w, "select", NoRequest,
         [Idle EXCEPT !.at = "move", !.todo = some,
                      !.seen = [f \in some |-> Stored(row[f], file[f])],
                      !.plan = [f \in some |-> Stored(row[f], to)]])

(* A file that left is skipped by the job; the request fails over it.      *)
Move(w, f) ==
  LET j == job[w]
      from == j.seen[f].stored
      to == j.plan[f].stored
      rest == j.todo \ {f}
      next == IF rest # {} THEN "move" ELSE IF j.op = "bulk" THEN "flush" ELSE "list"
  IN
  /\ j.at = "move" /\ First(w, f)
  /\ IF from # to /\ file[f] = from
     THEN /\ file' = [file EXCEPT ![f] = to]
          /\ strayed' = strayed \cup {f} /\ astray' = astray \cup ({f} \ In("active"))
     ELSE UNCHANGED <<file, strayed, astray>>
  /\ Go(w, IF j.op = "select" /\ from # to /\ file[f] # from THEN Idle
           ELSE IF next = "list" THEN [Idle EXCEPT !.op = "sync", !.at = "list"]
           ELSE [j EXCEPT !.todo = rest, !.at = next])
  /\ UNCHANGED <<row, ledger, requests, troubles, raced, contested>>

(* sync_selection: lists the folders, then reads the rows; a file without  *)
(* a row is an error, and what is not active is left alone.                *)
List(w) ==
  /\ At(w, "sync", "list")
  /\ Go(w, [job[w] EXCEPT !.at = "read",
                          !.plan = [f \in {g \in Frames : file[g] # Nowhere} |-> file[f]]])
  /\ UNCHANGED <<row, file, ledger, requests, troubles, history>>

Read(w) ==
  LET located == job[w].plan
      found == DOMAIN located
  IN
  /\ At(w, "sync", "read")
  /\ Go(w, IF found \subseteq Present
           THEN [job[w] EXCEPT !.at = "flush",
                   !.seen = [f \in found \cap In("active") |-> row[f]],
                   !.plan = [f \in found \cap In("active") |-> Placed(row[f], located[f])]]
           ELSE Idle)
  /\ UNCHANGED <<row, file, ledger, requests, troubles, history>>
SyncFlush(w) == Flush(w, "sync", "none") /\ UNCHANGED raced

-----------------------------------------------------------------------------
(* The process dies with its threads.                                      *)
Crash ==
  /\ troubles < MaxTroubles /\ troubles' = troubles + 1
  /\ \E w \in Workers : job[w] # Idle
  /\ strayed' = strayed \cup
       UNION {job[w].todo : w \in {v \in Workers : At(v, "purge", "unlink")}}
  /\ job' = [w \in Workers |-> Idle]
  /\ UNCHANGED <<row, file, ledger, requests, raced, astray, contested>>

Begin(w) == Trash(w) \/ Restore(w) \/ Purge(w) \/ Bulk(w) \/ Select(w)
Proceed(w) ==
  \/ Trashed(w) \/ Restored(w) \/ Store(w)
  \/ CheckPurge(w) \/ DeleteRows(w) \/ \E f \in Frames : Unlink(w, f) \/ Move(w, f)
  \/ BulkFlush(w) \/ List(w) \/ Read(w) \/ SyncFlush(w)

Next ==
  \/ \E w \in Workers : Begin(w) \/ Proceed(w) \/ PurgeExpired(w)
                        \/ \E f \in Frames : UnlinkFails(w, f)
  \/ \E f \in Frames : Due(f)
  \/ Crash

Spec == Init /\ [][Next]_vars

-----------------------------------------------------------------------------
Doings == [op : {"none", "trash", "restore", "purge", "bulk", "select", "sync"},
           at : {"idle", "flush", "store", "check", "delete", "unlink", "move", "list", "read"},
           todo : SUBSET Frames, request : Requests \cup {NoRequest}]

TypeOK ==
  /\ row \in [Frames -> Row]
  /\ file \in [Frames -> Folders \cup {Nowhere}]
  /\ \A w \in Workers :
       [op |-> job[w].op, at |-> job[w].at, todo |-> job[w].todo, request |-> job[w].request] \in Doings
  /\ requests \in Nat /\ troubles \in Nat
  /\ strayed \cup raced \cup astray \subseteq Frames

(* Whatever is trashed, moved and purged at the same time, a frame with a  *)
(* row has its file; and the file of a purged frame goes, unless it had    *)
(* been moved away from its storage key, an unlink failed, or the process  *)
(* died before it. What is left makes every later sync_selection fail.     *)
FilesAndRows ==
  /\ \A f \in Present : file[f] # Nowhere
  /\ \A f \in In("gone") :
       \/ file[f] = Nowhere \/ f \in strayed
       \/ \E w \in Workers : At(w, "purge", "unlink") /\ f \in job[w].todo

(* Only what is in the bin is purged, except a frame that is restored      *)
(* between the check of a purge and its transaction.                       *)
SparesActive == \A f \in In("active") \ raced : row'[f].life # "gone"
PurgedFromBin == [][SparesActive]_vars

(* One request at a time leaves the rows in agreement with the folders: an *)
(* active frame has the status of the folder its file is in, wherever it   *)
(* was trashed, restored or moved - except a file moved while its frame is *)
(* in the bin, which sync_selection does not follow.                       *)
SettledRowsAgree ==
  (/\ ~ contested /\ troubles = 0
   /\ \A w \in Workers : job[w] = Idle
   /\ \A f \in In("gone") : file[f] = Nowhere)
  => \A f \in In("active") \ astray : row[f].status = file[f] /\ row[f].stored = file[f]
=============================================================================
