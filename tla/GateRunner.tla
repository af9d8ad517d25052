------------------------------ MODULE GateRunner ------------------------------
(* The comparison of a model with its ONNX export (models/gate_runner.py):   *)
(* both are run on up to five images of the dataset, the detections of a     *)
(* class are paired for the largest total overlap, and the gate passes when  *)
(* every detection of either side is in a pair that is close enough.         *)
(*****************************************************************************)
EXTENDS Integers, FiniteSets, FiniteSetsExt

CONSTANTS
  Amounts, \* how many images the split may hold
  Items    \* what a model may detect: class, confidence in percent, box, mask

VARIABLES
  kind,    \* detect or segment
  images,  \* how many images there are, 0 before the run
  left,    \* the chosen images still to be compared
  passed,  \* consistency so far
  masks,   \* mask consistency so far
  agreed,  \* history: whether the two sides matched one to one so far
  result   \* none, failed, or what result.json says

vars == <<kind, images, left, passed, masks, agreed, result>>

Init ==
  /\ kind = "detect" /\ images = 0 /\ left = {}
  /\ passed = TRUE /\ masks = TRUE /\ agreed = TRUE /\ result = "none"

Limit == 5

(* numpy's rint: a half goes to the even neighbour.                          *)
Round(a, b) ==
  LET q == a \div b IN
    IF 2 * (a % b) > b \/ (2 * (a % b) = b /\ q % 2 = 1) THEN q + 1 ELSE q

(* Mutant: the distances are taken to one image past the last.               *)
Stretched(n) ==
  IF n <= Limit THEN 0..(n - 1)
  ELSE {Round(k * n, Limit - 1) : k \in 0..(Limit - 1)}

(* _samples: all images, or five at even distances.                          *)
Samples(n) ==
  IF n <= Limit THEN 0..(n - 1)
  ELSE {Round(k * (n - 1), Limit - 1) : k \in 0..(Limit - 1)}

(* The run fails before any comparison without images or without an export.  *)
Begin ==
  /\ result = "none" /\ images = 0
  /\ kind' \in {"detect", "segment"} /\ images' \in Amounts
  /\ \/ left' = Samples(images') /\ UNCHANGED result
     \/ left' = {} /\ result' = "failed"
  /\ images' = 0 => result' = "failed"
  /\ UNCHANGED <<passed, masks, agreed>>

SmallerOf(a, b) == IF a <= b THEN a ELSE b
LargerOf(a, b) == IF a <= b THEN b ELSE a
Length(box) == LargerOf(0, box[2] - box[1])

(* box_iou in sixtieths, along one axis; exact for unions up to six.         *)
Iou(a, b) ==
  LET both == Length(<<LargerOf(a[1], b[1]), SmallerOf(a[2], b[2])>>)
      union == Length(a) + Length(b) - both
  IN IF union = 0 THEN 0 ELSE (60 * both) \div union

NoMask == <<0, 0>>
MaskIou(a, b) == IF a = NoMask \/ b = NoMask THEN 0 ELSE Iou(a, b)

(* Without a mask on either side of a pair the box alone counts.             *)
Score(p, o) ==
  IF kind = "segment" /\ ~(p.mask = NoMask /\ o.mask = NoMask)
  THEN Iou(p.box, o.box) + MaskIou(p.mask, o.mask) ELSE 2 * Iou(p.box, o.box)

(* Ways to pair detections of one class, each in at most one pair.           *)
Pairings(pt, onnx) ==
  {M \in SUBSET {m \in (DOMAIN pt) \X (DOMAIN onnx) : pt[m[1]].class = onnx[m[2]].class} :
     \A m, n \in M : m # n => m[1] # n[1] /\ m[2] # n[2]}
Total(pt, onnx, M) == MapThenSumSet(LAMBDA m : Score(pt[m[1]], onnx[m[2]]), M)

(* linear_sum_assignment, class by class: as many pairs as there can be, and *)
(* among those any pairing of the largest total.                             *)
Best(pt, onnx) ==
  LET all == Pairings(pt, onnx)
      full == {M \in all : \A N \in all : Cardinality(N) <= Cardinality(M)}
  IN {M \in full : \A N \in full : Total(pt, onnx, N) <= Total(pt, onnx, M)}

Apart(p, o) ==
  IF p.confidence > o.confidence THEN p.confidence - o.confidence ELSE o.confidence - p.confidence
Close(p, o) == Iou(p.box, o.box) >= 48 /\ Apart(p, o) <= 15

(* Mutant: detections without a counterpart do not count.                    *)
EveryPair(pt, onnx, M) == \A m \in M : Close(pt[m[1]], onnx[m[2]])

Passes(pt, onnx, M) ==
  LET good == Cardinality({m \in M : Close(pt[m[1]], onnx[m[2]])})
  IN Cardinality(DOMAIN pt) = good /\ Cardinality(DOMAIN onnx) = good

MasksPass(pt, onnx, M) ==
  kind = "segment" =>
    \A m \in M : /\ pt[m[1]].mask # NoMask \/ onnx[m[2]].mask # NoMask
                 /\ MaskIou(pt[m[1]].mask, onnx[m[2]].mask) >= 45

Detections == UNION {[1..n -> Items] : n \in 0..2}

(* Every detection has a counterpart of its own.                             *)
Match(pt, onnx) ==
  /\ DOMAIN pt = DOMAIN onnx
  /\ \E f \in [DOMAIN pt -> DOMAIN onnx] :
       /\ \A i, j \in DOMAIN pt : f[i] = f[j] => i = j
       /\ \A i \in DOMAIN pt : pt[i].class = onnx[f[i]].class /\ Close(pt[i], onnx[f[i]])

(* One image through both models.                                            *)
Compare(i) ==
  /\ result = "none" /\ i \in left /\ \A j \in left : i <= j
  /\ \E pt, onnx \in Detections :
       /\ \E M \in Best(pt, onnx) :
            /\ passed' = (passed /\ Passes(pt, onnx, M))
            /\ masks' = (masks /\ MasksPass(pt, onnx, M))
       /\ agreed' = (agreed /\ Match(pt, onnx))
  /\ left' = left \ {i}
  /\ UNCHANGED <<kind, images, result>>

Finish ==
  /\ result = "none" /\ images > 0 /\ left = {}
  /\ result' = IF ~passed THEN "differs" ELSE IF masks THEN "passed" ELSE "masks differ"
  /\ UNCHANGED <<kind, images, left, passed, masks, agreed>>

Next == Begin \/ Finish \/ \E i \in left : Compare(i)

Spec == Init /\ [][Next]_vars

TypeOK ==
  /\ kind \in {"detect", "segment"} /\ images \in Amounts \cup {0}
  /\ left \subseteq 0..(images - 1)
  /\ {passed, masks, agreed} \subseteq BOOLEAN
  /\ result \in {"none", "failed", "differs", "passed", "masks differ"}

(* A run that passes has looked at five different images (or at all of       *)
(* fewer), the first and the last among them, and on each of those compared  *)
(* the detections of the two models match one to one, in class, box and      *)
(* confidence.                                                               *)
GatePassesMatch ==
  /\ passed => agreed
  /\ result \in {"passed", "masks differ"} =>
       /\ images > 0 /\ {0, images - 1} \subseteq Samples(images)
       /\ Cardinality(Samples(images)) = SmallerOf(images, Limit)
       /\ Samples(images) \subseteq 0..(images - 1)
===============================================================================
