--------------------------- MODULE AnnotationEdits ---------------------------
(* Annotators edit the shapes of one image at the same time                *)
(* (annotations/repository.py). An edit names the revision its author saw: *)
(* a session compares it with the row's, and writes the next one when it   *)
(* commits. The frame behind the image may be trashed and purged meanwhile *)
(* (FrameCuration).                                                        *)
(***************************************************************************)
EXTENDS Naturals

CONSTANTS
  Annotators, \* clients, each with one request at a time
  Shapes,     \* the identifiers of shapes; uuid4, so each is used once
  NoShape,    \* no shape
  MaxSaves    \* how many edits are saved

VARIABLES
  life,       \* the life of the frame
  image,      \* the status and the revision of the image's row
  shape,      \* what is drawn, of each shape
  edit,       \* what each annotator's request is doing
  known,      \* the revision each annotator sees
  saves,      \* the edits saved so far
  view,       \* history: the saves each annotator has seen
  approved,   \* history: what was drawn when the image was reviewed last
  blind,      \* history: an edit was saved whose author had not seen another
  overlapped  \* history: two edits were under way at the same time

history == <<view, approved, blind, overlapped>>
vars == <<life, image, shape, edit, known, saves, history>>

Statuses == {"pending", "annotated", "reviewed"}
Drawn == {s \in Shapes : shape[s] \in {"a", "b"}}

(* An edit in a session: what it does, to which shape, and the row it read *)
Idle == [op |-> "none", shape |-> NoShape, status |-> "none", revision |-> 0]
Ops == {"create", "update", "delete"} \cup Statuses

Init ==
  /\ life = "active"
  /\ image = [status |-> "none", revision |-> 0]
  /\ shape = [s \in Shapes |-> "none"]
  /\ edit = [a \in Annotators |-> Idle]
  /\ known = [a \in Annotators |-> 0]
  /\ saves = 0
  /\ view = [a \in Annotators |-> 0] /\ approved = shape
  /\ blind = FALSE /\ overlapped = FALSE

There == image.status \in Statuses

-----------------------------------------------------------------------------
(* _sync_selected_frames: a selected, active frame gets its row.           *)
Sync ==
  /\ life = "active" /\ image.status = "none"
  /\ image' = [status |-> "pending", revision |-> 0]
  /\ UNCHANGED <<life, shape, edit, known, saves, history>>

(* get_required: the image of an active frame.                             *)
See(a) ==
  /\ known' = [known EXCEPT ![a] = image'.revision]
  /\ view' = [view EXCEPT ![a] = saves']
Get(a) ==
  /\ edit[a] = Idle /\ There /\ life = "active"
  /\ UNCHANGED <<life, image, shape, edit, saves, approved, blind, overlapped>>
  /\ See(a)

(* Mutant: _check_revision takes an older revision.                        *)
NotAhead(a) == known[a] <= image.revision

(* _check_revision and _mutable_image                                      *)
Current(a) == known[a] = image.revision
Mutable == There /\ image.status # "reviewed"

Open(a, op, s) ==
  /\ edit[a] = Idle /\ Current(a) /\ saves < MaxSaves
  /\ edit' = [edit EXCEPT ![a] =
       [op |-> op, shape |-> s, status |-> image.status, revision |-> image.revision]]
  /\ overlapped' = (overlapped \/ \E b \in Annotators : edit[b] # Idle)
  /\ UNCHANGED <<life, image, shape, known, saves, view, approved, blind>>

Create(a) ==
  \E s \in Shapes :
    /\ Mutable /\ shape[s] = "none" /\ \A b \in Annotators : edit[b].shape # s
    /\ Open(a, "create", s)
Change(a) == \E s \in Drawn, op \in {"update", "delete"} : Mutable /\ Open(a, op, s)

(* set_status: "annotated" takes a shape, and a reviewed image only goes   *)
(* back to it.                                                             *)
SetStatus(a) ==
  \E status \in Statuses :
    /\ There
    /\ status = "annotated" => Drawn # {}
    /\ image.status = "reviewed" => status = "annotated"
    /\ Open(a, status, NoShape)

-----------------------------------------------------------------------------
(* The commit. The columns that differ from the row as it was read are     *)
(* written; a row that vanished rolls the session back, but a shape that   *)
(* vanished may be deleted again.                                          *)
NewShape(e) ==
  CASE e.op = "create" -> [shape EXCEPT ![e.shape] = "a"]
    [] e.op = "update" -> [shape EXCEPT ![e.shape] = IF @ = "a" THEN "b" ELSE "a"]
    [] e.op = "delete" -> [shape EXCEPT ![e.shape] = "gone"]
    [] OTHER -> shape

NewStatus(e) ==
  CASE e.op = "create" -> "annotated"
    [] e.op = "update" -> e.status
    [] e.op = "delete" -> IF Drawn \ {e.shape} = {} THEN "pending" ELSE "annotated"
    [] OTHER -> e.op

Fits(e) == There /\ (e.op = "update" => e.shape \in Drawn)

Save(a) ==
  LET e == edit[a]
      status == NewStatus(e)
  IN
  /\ e # Idle /\ Fits(e)
  /\ shape' = NewShape(e)
  /\ image' = [status |-> IF status # e.status THEN status ELSE image.status,
               revision |-> e.revision + 1]
  /\ saves' = saves + 1
  /\ edit' = [edit EXCEPT ![a] = Idle]
  /\ approved' = IF image'.status = "reviewed" /\ e.op = "reviewed" THEN shape' ELSE approved
  /\ blind' = (blind \/ view[a] # saves)
  /\ IF life = "active" THEN See(a) ELSE UNCHANGED <<known, view>>
  /\ UNCHANGED <<life, overlapped>>

RollBack(a) ==
  /\ edit[a] # Idle /\ ~ Fits(edit[a])
  /\ edit' = [edit EXCEPT ![a] = Idle]
  /\ UNCHANGED <<life, image, shape, known, saves, history>>

(* The recycle bin does not look at the edits under way, nor they at it.   *)
Trash ==
  /\ life = "active" /\ life' = "trashed"
  /\ UNCHANGED <<image, shape, edit, known, saves, history>>
Restore ==
  /\ life = "trashed" /\ life' = "active"
  /\ UNCHANGED <<image, shape, edit, known, saves, history>>
Purge ==
  /\ life = "trashed" /\ life' = "gone"
  /\ image' = [status |-> "gone", revision |-> 0]
  /\ shape' = [s \in Shapes |-> IF s \in Drawn THEN "gone" ELSE shape[s]]
  /\ UNCHANGED <<edit, known, saves, history>>

Next ==
  \/ \E a \in Annotators :
       Get(a) \/ Create(a) \/ Change(a) \/ SetStatus(a) \/ Save(a) \/ RollBack(a)
  \/ Sync \/ Trash \/ Restore \/ Purge

Spec == Init /\ [][Next]_vars

-----------------------------------------------------------------------------
TypeOK ==
  /\ life \in {"active", "trashed", "gone"}
  /\ image \in [status : Statuses \cup {"none", "gone"}, revision : 0..saves]
  /\ shape \in [Shapes -> {"none", "a", "b", "gone"}]
  /\ edit \in [Annotators -> [op : Ops \cup {"none"}, shape : Shapes \cup {NoShape},
                              status : Statuses \cup {"none"}, revision : Nat]]
  /\ known \in [Annotators -> Nat] /\ view \in [Annotators -> Nat]
  /\ approved \in [Shapes -> {"none", "a", "b", "gone"}]

(* An edit is saved only by an annotator who has seen every edit saved     *)
(* before it, unless two edits were in their sessions at the same time:    *)
(* the revision is compared in one step and written in another.            *)
NoBlindSave == blind => overlapped

(* What was reviewed is what is drawn, and an annotated image has shapes,  *)
(* as long as no two edits overlapped.                                     *)
ReviewStands ==
  ~ overlapped =>
    /\ image.status = "reviewed" => shape = approved
    /\ image.status = "annotated" => Drawn # {}
=============================================================================
