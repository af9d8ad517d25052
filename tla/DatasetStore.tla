---------------------------- MODULE DatasetStore ----------------------------
(* One provider version of the annotations of a task and one version of    *)
(* its dataset: an archive is imported (annotations/import_service.py),    *)
(* released (datasets/release.py), and the release is registered again     *)
(* when its row is missing (datasets/reconciliation.py) or deleted         *)
(* (api/app.py). Each has a row and a directory, written one after the     *)
(* other. Releases are kept apart by the guard of HeavyLease; the others   *)
(* are not. What a release is built in is private to it, and cleared by    *)
(* the next one.                                                           *)
(***************************************************************************)
EXTENDS Naturals

CONSTANTS
  Workers,     \* request threads
  Archives,    \* the contents of annotation archives
  NoArchive,   \* no archive
  MaxRequests, \* how many requests are made
  MaxTroubles  \* how many crashes and failing sessions there are

VARIABLES
  export,     \* the archive in the row of the annotation export
  exported,   \* the export's directory
  tmp,        \* the directory imports extract in, named after the export
  release,    \* the status of the row of the release
  released,   \* the release's directory
  job,        \* what each worker is doing
  requests,   \* the requests made so far
  troubles,   \* crashes and failing sessions so far
  overlapped, \* history: two imports were under way at the same time
  doomed      \* history: a deletion removed the directory of a release that
              \* had a row again, or was about to get one

exports == <<export, exported, tmp>>
releases == <<release, released>>
history == <<overlapped, doomed>>
vars == <<exports, releases, job, requests, troubles, history>>

(* A directory of an export: the archive kept in it and those it contains. *)
Absent == [there |-> FALSE, zip |-> NoArchive, files |-> {}]
Idle == [at |-> "idle", archive |-> NoArchive]

Init ==
  /\ export = NoArchive /\ exported = Absent /\ tmp = Absent
  /\ release = "none" /\ released = "none"
  /\ job = [w \in Workers |-> Idle]
  /\ requests = 0 /\ troubles = 0
  /\ overlapped = FALSE /\ doomed = FALSE

Importing == {"clear", "copy", "extract", "check", "rename", "insert"}
Releasing == {"look", "stage", "add", "track", "publish"}
Deleting == {"remove", "rmtree"}

Go(w, at) == job' = [job EXCEPT ![w].at = at]
Is(w, at) == job[w].at = at
Stop(w) == job' = [job EXCEPT ![w] = Idle]
Begin(w, at, archive) ==
  /\ Is(w, "idle") /\ requests < MaxRequests /\ requests' = requests + 1
  /\ job' = [job EXCEPT ![w] = [at |-> at, archive |-> archive]]
  /\ UNCHANGED <<exports, releases, troubles, doomed>>
Still == UNCHANGED <<requests, troubles, history>>

-----------------------------------------------------------------------------
(* import_roboflow_export: an export that has a row is refused, whatever   *)
(* its contents.                                                           *)
Import(w) ==
  /\ export = NoArchive
  /\ \E a \in Archives : Begin(w, "clear", a)
  /\ overlapped' = (overlapped \/ \E v \in Workers : job[v].at \in Importing)

(* Mutant: what an import left behind is not removed.                      *)
KeepTmp(w) ==
  /\ Is(w, "clear") /\ Go(w, "copy")
  /\ tmp' = [tmp EXCEPT !.there = TRUE]
  /\ UNCHANGED <<export, exported, releases>> /\ Still

Clear(w) ==
  /\ Is(w, "clear") /\ Go(w, "copy")
  /\ tmp' = [Absent EXCEPT !.there = TRUE]
  /\ UNCHANGED <<export, exported, releases>> /\ Still

Copy(w) ==
  /\ Is(w, "copy") /\ tmp.there /\ Go(w, "extract")
  /\ tmp' = [tmp EXCEPT !.zip = job[w].archive]
  /\ UNCHANGED <<export, exported, releases>> /\ Still

(* What is extracted is the copy.                                          *)
Extract(w) ==
  /\ Is(w, "extract") /\ tmp.there /\ tmp.zip # NoArchive /\ Go(w, "check")
  /\ tmp' = [tmp EXCEPT !.files = @ \cup {tmp.zip}]
  /\ UNCHANGED <<export, exported, releases>> /\ Still

Check(w) ==
  /\ Is(w, "check") /\ tmp.files # {} /\ Go(w, "rename")
  /\ UNCHANGED <<exports, releases>> /\ Still

Rename(w) ==
  /\ Is(w, "rename") /\ tmp.there /\ ~ exported.there /\ Go(w, "insert")
  /\ exported' = tmp /\ tmp' = Absent
  /\ UNCHANGED <<export, releases>> /\ Still

(* A step whose files are gone, a copy that is invalid, or a path that is  *)
(* taken: the directory is removed, whoever's it is by now.                *)
ImportFails(w) ==
  /\ \/ Is(w, "copy") /\ ~ tmp.there
     \/ Is(w, "extract") /\ tmp.zip = NoArchive
     \/ Is(w, "check")
     \/ Is(w, "rename") /\ (~ tmp.there \/ exported.there)
  /\ Stop(w) /\ tmp' = Absent
  /\ UNCHANGED <<export, exported, releases>> /\ Still

Insert(w) ==
  /\ Is(w, "insert") /\ Stop(w)
  /\ export' = IF export = NoArchive THEN job[w].archive ELSE export
  /\ UNCHANGED <<exported, tmp, releases>> /\ Still

-----------------------------------------------------------------------------
(* release_dataset. A row whose release was not tracked is tried again; a  *)
(* directory without a row is in the way.                                  *)
Release(w) ==
  /\ \A v \in Workers : job[v].at \notin Releasing
  /\ Begin(w, "look", NoArchive) /\ UNCHANGED overlapped

Look(w) ==
  /\ Is(w, "look")
  /\ \/ export # NoArchive /\ release = "dvc_failed" /\ released # "none" /\ Go(w, "track")
     \/ export # NoArchive /\ release = "none" /\ Go(w, "stage")
     \/ /\ \/ export = NoArchive \/ release = "published"
           \/ release = "dvc_failed" /\ released = "none"
        /\ Stop(w)
  /\ UNCHANGED <<exports, releases>> /\ Still

(* Built aside, validated, and renamed.                                    *)
Stage(w) ==
  /\ Is(w, "stage")
  /\ \/ /\ released = "none" /\ exported.there
        /\ released' = "whole" /\ Go(w, "add")
     \/ Stop(w) /\ UNCHANGED released
  /\ UNCHANGED <<exports, release>> /\ Still

Add(w) ==
  /\ Is(w, "add")
  /\ IF release = "none"
     THEN release' = "dvc_failed" /\ Go(w, "track")
     ELSE Stop(w) /\ UNCHANGED release
  /\ UNCHANGED <<exports, released>> /\ Still

(* dvc.add: fails over a missing directory, and may fail anyway.           *)
Track(w) ==
  /\ Is(w, "track")
  /\ \/ released # "none" /\ Go(w, "publish")
     \/ Stop(w)
  /\ UNCHANGED <<exports, releases>> /\ Still

Publish(w) ==
  /\ Is(w, "publish") /\ Stop(w)
  /\ release' = IF release = "none" THEN release ELSE "published"
  /\ UNCHANGED <<exports, released>> /\ Still

-----------------------------------------------------------------------------
(* Mutant: the checksums are not verified.                                 *)
AnyDirectory == released # "none"

(* register_orphan_release: of a directory whose checksums agree. It does  *)
(* not look for the guard.                                                 *)
Whole == released = "whole"

Register(w) ==
  /\ Whole /\ export # NoArchive
  /\ Begin(w, "register", NoArchive) /\ UNCHANGED overlapped

Registered(w) ==
  /\ Is(w, "register") /\ Stop(w)
  /\ release' = IF release = "none" THEN "published" ELSE release
  /\ UNCHANGED <<exports, released>> /\ Still

(* delete_dataset_release: the row, then the directory when asked to.      *)
Delete(w) ==
  /\ release # "none"
  /\ Begin(w, "delete", NoArchive) /\ UNCHANGED overlapped

Unregister(w) ==
  /\ Is(w, "delete") /\ release' = "none"
  /\ \/ Go(w, "remove")
     \/ Stop(w)
  /\ UNCHANGED <<exports, released>> /\ Still

Remove(w) ==
  /\ Is(w, "remove")
  /\ IF released = "none" THEN Stop(w) /\ UNCHANGED released
                          ELSE Go(w, "rmtree") /\ released' = "part"
  /\ doomed' = (doomed \/ release # "none" \/ \E v \in Workers : job[v].at \in {"add", "register"})
  /\ UNCHANGED <<exports, release, requests, troubles, overlapped>>

(* What is left of the tree goes; a new one in its place is an error.      *)
Removed(w) ==
  /\ Is(w, "rmtree") /\ Stop(w)
  /\ released' = IF released = "part" THEN "none" ELSE released
  /\ UNCHANGED <<exports, release>> /\ Still

-----------------------------------------------------------------------------
Trouble == troubles < MaxTroubles /\ troubles' = troubles + 1

(* The session that adds or publishes a row fails after the rename.        *)
SessionFails(w) ==
  /\ Trouble /\ job[w].at \in {"insert", "add", "publish", "register"} /\ Stop(w)
  /\ UNCHANGED <<exports, releases, requests, history>>

Crash ==
  /\ Trouble /\ \E w \in Workers : ~ Is(w, "idle")
  /\ job' = [w \in Workers |-> Idle]
  /\ UNCHANGED <<exports, releases, requests, history>>

Next ==
  \/ \E w \in Workers :
       \/ Import(w) \/ Clear(w) \/ Copy(w) \/ Extract(w) \/ Check(w) \/ Rename(w)
       \/ ImportFails(w) \/ Insert(w)
       \/ Release(w) \/ Look(w) \/ Stage(w) \/ Add(w) \/ Track(w) \/ Publish(w)
       \/ Register(w) \/ Registered(w)
       \/ Delete(w) \/ Unregister(w) \/ Remove(w) \/ Removed(w)
       \/ SessionFails(w)
  \/ Crash

Spec == Init /\ [][Next]_vars

-----------------------------------------------------------------------------
Directories == [there : BOOLEAN, zip : Archives \cup {NoArchive}, files : SUBSET Archives]

TypeOK ==
  /\ export \in Archives \cup {NoArchive}
  /\ exported \in Directories /\ tmp \in Directories
  /\ release \in {"none", "dvc_failed", "published"}
  /\ released \in {"none", "whole", "part"}
  /\ job \in [Workers -> [at : Importing \cup Releasing \cup Deleting \cup
                                 {"idle", "register", "delete"},
                          archive : Archives \cup {NoArchive}]]
  /\ requests \in Nat /\ troubles \in Nat
  /\ overlapped \in BOOLEAN /\ doomed \in BOOLEAN

(* The export's row names the archive its directory was extracted from,    *)
(* and nothing else is in there, unless two imports overlapped: they share *)
(* one temporary directory. Without a crash or a failing session a         *)
(* finished import leaves no directory without a row, in the way of later  *)
(* ones.                                                                   *)
ImportedIsItsArchive ==
  ~ overlapped =>
    /\ export # NoArchive => exported = [there |-> TRUE, zip |-> export, files |-> {export}]
    /\ (\A w \in Workers : Is(w, "idle")) /\ troubles = 0
         => (exported.there <=> export # NoArchive) /\ ~ tmp.there

(* A release that has a row has its whole directory, whatever was crashed  *)
(* or deleted between its steps, unless it was registered again between    *)
(* the two steps of a deletion.                                            *)
ReleaseHasItsFiles ==
  release # "none" /\ ~ doomed => released = "whole"
=============================================================================
