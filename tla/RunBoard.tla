------------------------------ MODULE RunBoard ------------------------------
(* What a client may rely on for a run it follows: it is queued once,       *)
(* starts once, goes through its stages in their order, completes only      *)
(* after the stage before, can be cancelled up to its first stage and ends  *)
(* once; only a start that comes after the cancellation still marks it      *)
(* failed. The promise holds until a request writes over a status it has    *)
(* not read.                                                                *)
(****************************************************************************)
EXTENDS Integers, Sequences

CONSTANT Stages  \* the stages a run goes through, "completed" the last
VARIABLES
  board,  \* the status a client sees
  begun   \* whether a runner was ever started for the run

Underway == {Stages[i] : i \in 1 .. Len(Stages) - 1}

Init == board \in {"none", "queued"}

Move(from, to) == board \in from /\ board' = to

Queue == Move({"none"}, "queued")
Start == Move({"queued"}, Stages[1])
Advance == \E i \in 1 .. Len(Stages) - 1 : Move({Stages[i]}, Stages[i + 1])
Fail == Move({"queued"} \cup Underway, "failed")
Interrupt == Move({"queued"} \cup Underway, "interrupted")
Cancel == Move({"queued", Stages[1]}, "cancelled")

(* A start that finds its run cancelled fails it; it has never had a runner. *)
Refuse == ~begun /\ Move({"cancelled"}, "failed")

(* From here on nothing is promised.                                        *)
Overwrite == board' = "overwritten"

Next == Queue \/ Start \/ Advance \/ Fail \/ Interrupt \/ Cancel \/ Refuse \/ Overwrite

Spec == Init /\ [][Next]_board
=============================================================================
