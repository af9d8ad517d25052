---------------------------- MODULE SplitPlanning ----------------------------
(* How a dataset release divides its frames (datasets/split_planner.py): the *)
(* frames of one source video stay together, every requested split gets a   *)
(* group, and each further group, in a shuffled order, goes where the most   *)
(* frames are missing.                                                       *)
(*****************************************************************************)
EXTENDS Naturals, Integers, FiniteSets, FiniteSetsExt

CONSTANTS
  Groups, \* source groups
  Sizes,  \* how many frames a group may have
  Ratios  \* the requested ratios, in percent, per split

VARIABLES
  size,  \* the frames of each group of the release
  ratio, \* what was requested
  split, \* the split of every group placed so far
  stage  \* idle, place, done or refused

vars == <<size, ratio, split, stage>>

Splits == {"train", "val", "test"}
Rank == [train |-> 1, val |-> 2, test |-> 3]
Even == [s \in Splits |-> 0]

Init ==
  /\ size = [g \in {} |-> 0] /\ ratio = Even
  /\ split = [g \in {} |-> "train"] /\ stage = "idle"

Present == DOMAIN size
Placed == DOMAIN split
Active == {s \in Splits : ratio[s] > 0}
Frames(S) == MapThenSumSet(LAMBDA g : size[g], S)
Of(s) == {g \in Placed : split[g] = s}

(* Total and Count(s) are the lengths plan_grouped_split compares.           *)
Total == Frames(Present)
Count(s) == Frames(Of(s))

(* The ratios have to total 100, and every active split needs a group.       *)
Plan ==
  /\ stage = "idle"
  /\ \E S \in SUBSET Groups : size' \in [S -> Sizes]
  /\ ratio' \in Ratios
  /\ stage' = IF /\ ratio'["train"] + ratio'["val"] + ratio'["test"] = 100
                 /\ Cardinality(DOMAIN size') >= Cardinality({s \in Splits : ratio'[s] > 0})
              THEN "place" ELSE "refused"
  /\ UNCHANGED split

(* The larger ratio comes first, and train before val before test.           *)
Before(s, t) ==
  \/ ratio[s] > ratio[t]
  \/ ratio[s] = ratio[t] /\ Rank[s] <= Rank[t]

Put(g, s) ==
  /\ split' = [h \in Placed \cup {g} |-> IF h = g THEN s ELSE split[h]]
  /\ UNCHANGED <<size, ratio, stage>>

(* The groups come in the shuffled order, so any of the rest may be next.    *)
(* The first ones go to one active split each.                               *)
Seed(g) ==
  /\ stage = "place" /\ g \in Present \ Placed
  /\ \E s \in Active :
       /\ Of(s) = {}
       /\ \A t \in Active : Of(t) = {} => Before(s, t)
       /\ Put(g, s)

(* Mutant: what a split already has does not count.                          *)
Requested(s) == ratio[s] * Total

(* A hundred times the frames a split is short of its share.                 *)
Deficit(s) == ratio[s] * Total - 100 * Count(s)

(* The code compares the shortfalls as floating point numbers: equal ones    *)
(* may come out either way, so any of the largest is taken here.             *)
Spread(g) ==
  /\ stage = "place" /\ g \in Present \ Placed
  /\ \A s \in Active : Of(s) # {}
  /\ \E s \in Active : (\A t \in Active : Deficit(s) >= Deficit(t)) /\ Put(g, s)

Done ==
  /\ stage = "place" /\ Placed = Present
  /\ stage' = "done"
  /\ UNCHANGED <<size, ratio, split>>

Next == Plan \/ Done \/ \E g \in Groups : Seed(g) \/ Spread(g)

Spec == Init /\ [][Next]_vars

TypeOK ==
  /\ Present \subseteq Groups /\ \A g \in Present : size[g] \in Sizes
  /\ ratio \in Ratios \cup {Even}
  /\ Placed \subseteq Present /\ \A g \in Placed : split[g] \in Splits
  /\ stage \in {"idle", "place", "done", "refused"}

Largest == CHOOSE n \in Sizes : (\E g \in Present : size[g] = n) /\ \A g \in Present : size[g] <= n

(* A finished plan has no empty split that was asked for and no frame in one *)
(* that was not, and no split exceeds its share by as much as the largest    *)
(* group: the deviation from the requested ratios is the price of keeping a  *)
(* video together and no more.                                               *)
SplitsSound ==
  stage = "done" =>
    /\ \A s \in Active :
         Count(s) > 0 /\ 100 * Count(s) < ratio[s] * Total + 100 * Largest
    /\ \A s \in Splits \ Active : Of(s) = {}
===============================================================================
