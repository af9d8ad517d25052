-------------------------- MODULE DatasetValidation --------------------------
(* The checks of a dataset directory: validate_dataset (validation.py), which *)
(* remembers digests by size and modification time, and                      *)
(* analyze_dataset_quality (quality.py), which decides on its own whether a  *)
(* training may start. The one walks the directories of the splits, the      *)
(* other goes where data.yaml leads it. The contents here are all of one     *)
(* size, and both know the same classes.                                     *)
(*****************************************************************************)
EXTENDS Naturals

CONSTANTS
  Files,    \* image paths
  SplitOf,  \* the split each lies in
  Nested,   \* those of them in a directory "images" below that of the split
  Contents, \* what an image may hold
  Corrupt,  \* those of them that do not decode
  Manifests, \* what data.yaml may be: there or not, its path inside the release or
             \* not, and the references by split, each one out of the release, or
             \* a list of files, or a directory of them
  MaxEdits  \* bound: how many files are written, data.yaml with them

VARIABLES
  content, \* what each image holds, or Absent
  label,   \* the label file of each, by its worst row, or Absent
  stamp,   \* the modification time of each image
  cache,   \* validation-cache.json
  yaml,    \* data.yaml, a member of Manifests
  report,  \* the issues found by the last validation
  blockers, \* the blockers the quality analysis names, and of what it was
  checked, \* whether the files are what both of them saw
  silent,  \* history: images rewritten without a new modification time
  edits    \* edits so far

vars == <<content, label, stamp, cache, yaml, report, blockers, checked, silent, edits>>

Absent == "absent"

(* The rows of a label file: such as the validation wants them, or none at   *)
(* all; with a number of values that is not that of a box or a polygon, or   *)
(* with one out of 0 to 1, which the quality analysis does not mind; with    *)
(* fewer than three values, an unknown class or a value that is no number,   *)
(* which neither accepts.                                                    *)
Rows == {"good", "lax", "bad"}
NoEntry == [stamp |-> 0, digest |-> Absent]

Init ==
  /\ content = [f \in Files |-> Absent] /\ label = [f \in Files |-> Absent]
  /\ stamp = [f \in Files |-> 0] /\ cache = [f \in Files |-> NoEntry]
  /\ yaml \in Manifests
  /\ report = {} /\ blockers = {} /\ checked = FALSE
  /\ silent = {} /\ edits = 0

Present == {f \in Files : content[f] # Absent}

Edit ==
  /\ edits < MaxEdits
  /\ edits' = edits + 1 /\ checked' = FALSE
  /\ UNCHANGED <<cache, yaml, report, blockers>>

(* An image is written, with its label or without.                           *)
Put(f) ==
  /\ Edit
  /\ \E c \in Contents : content' = [content EXCEPT ![f] = c]
  /\ \E r \in Rows \cup {Absent} : label' = [label EXCEPT ![f] = r]
  /\ stamp' = [stamp EXCEPT ![f] = edits']
  /\ silent' = silent \ {f}

(* A copy that keeps times, or a coarse clock.                               *)
Replace(f) ==
  /\ Edit /\ f \in Present
  /\ \E c \in Contents \ {content[f]} : content' = [content EXCEPT ![f] = c]
  /\ silent' = silent \cup {f}
  /\ UNCHANGED <<label, stamp>>

Remove(f) ==
  /\ Edit /\ f \in Present
  /\ content' = [content EXCEPT ![f] = Absent] /\ label' = [label EXCEPT ![f] = Absent]
  /\ silent' = silent \ {f}
  /\ UNCHANGED stamp

Describe ==
  /\ edits < MaxEdits
  /\ yaml' \in Manifests \ {yaml}
  /\ edits' = edits + 1 /\ checked' = FALSE
  /\ UNCHANGED <<content, label, stamp, cache, report, blockers, silent>>

(* Mutant: the size alone tells that an image has not changed.               *)
Known(f) == cache[f] # NoEntry

Unchanged(f) == cache[f] # NoEntry /\ cache[f].stamp = stamp[f]
Digest(f) == IF Unchanged(f) THEN cache[f].digest ELSE content[f]

(* The splits are read in this order, and a content belongs to the first     *)
(* split it is met in.                                                       *)
Order == [train |-> 1, val |-> 2, test |-> 3]
Leaks(f) ==
  \E g \in Present : Digest(g) = Digest(f) /\ Order[SplitOf[g]] < Order[SplitOf[f]]

Issues ==
  {<<f, "split_hash_leakage">> : f \in {g \in Present : Leaks(g)}}
  \cup {<<f, "corrupt_image">> : f \in {g \in Present : Digest(g) \in Corrupt}}
  \cup {<<f, "missing_label">> : f \in {g \in Present : label[g] = Absent}}
  \cup {<<f, "invalid_label">> : f \in {g \in Present : label[g] \in {"lax", "bad"}}}

(* The images that data.yaml leads to: those below a directory, and those of *)
(* a list whether they are there or not. The label of an image is looked for *)
(* in place of the last directory called "images".                           *)
Led(s) ==
  UNION {IF r.list THEN r.files ELSE r.files \cap Present :
           r \in {q \in yaml.refs[s] : ~q.out}}
LedTo == UNION {Led(s) : s \in DOMAIN Order}
Labels(f) == IF f \in Nested THEN Absent ELSE label[f]

Outside == [train |-> "train_path_outside_release", val |-> "val_path_outside_release",
            test |-> "test_path_outside_release"]

(* The analysis looks for labels and for rows it cannot read, and opens no   *)
(* image.                                                                    *)
Blockers ==
  IF ~yaml.there THEN {"missing_data_yaml"}
  ELSE IF ~yaml.inside THEN {"dataset_path_outside_release"}
  ELSE {Outside[s] : s \in {t \in DOMAIN Order : \E r \in yaml.refs[t] : r.out}}
       \cup {b \in {"empty_train_split"} : Led("train") = {}}
       \cup {b \in {"empty_val_split"} : Led("val") = {}}
       \cup {b \in {"missing_label_files"} : \E f \in LedTo : Labels(f) = Absent}
       \cup {b \in {"malformed_or_out_of_range_labels"} :
               \E f \in LedTo : Labels(f) = "bad"}

(* One pass over the files: the new cache holds the images met and no other. *)
Check ==
  /\ report' = Issues /\ blockers' = Blockers /\ checked' = TRUE
  /\ cache' = [f \in Files |->
                 IF f \in Present THEN [stamp |-> stamp[f], digest |-> Digest(f)] ELSE NoEntry]
  /\ UNCHANGED <<content, label, stamp, yaml, silent, edits>>

Next == Check \/ Describe \/ \E f \in Files : Put(f) \/ Replace(f) \/ Remove(f)

Spec == Init /\ [][Next]_vars

TypeOK ==
  /\ content \in [Files -> Contents \cup {Absent}]
  /\ label \in [Files -> Rows \cup {Absent}]
  /\ stamp \in [Files -> Nat] /\ edits \in Nat
  /\ cache \in [Files -> [stamp : Nat, digest : Contents \cup {Absent}]]
  /\ yaml \in Manifests /\ checked \in BOOLEAN /\ silent \subseteq Files

Shared == {f \in Present : \E g \in Present : SplitOf[f] # SplitOf[g] /\ content[f] = content[g]}

(* Whether data.yaml keeps to the release, its lists to images that are      *)
(* there, and no image is in a nested directory.                             *)
Plain ==
  /\ yaml.there /\ yaml.inside /\ Present \cap Nested = {}
  /\ \A s \in DOMAIN Order : \A r \in yaml.refs[s] : ~r.out /\ (r.list => r.files \subseteq Present)

(* The validation reports a leak exactly when two splits hold the same image *)
(* and corruption exactly where it is, however often files were changed      *)
(* since the cache was written, unless one changed behind its modification   *)
(* time; and a dataset it passes has nothing that keeps a training from      *)
(* starting but an empty split, as long as its data.yaml is plain, which the *)
(* validation does not look at.                                              *)
LeaksAreFound ==
  checked =>
    /\ silent = {} =>
         /\ (\E f \in Files : <<f, "split_hash_leakage">> \in report) <=> Shared # {}
         /\ \A f \in Files : <<f, "corrupt_image">> \in report <=> content[f] \in Corrupt
    /\ report = {} /\ Plain => blockers \subseteq {"empty_train_split", "empty_val_split"}
===============================================================================
