------------------------------ MODULE JobBoard ------------------------------
(* What the client of the task API may rely on for a background job: it is *)
(* accepted once, starts at most once, ends once, and is forgotten only    *)
(* after it has ended.                                                     *)
(***************************************************************************)
CONSTANTS
  Jobs  \* the identifiers of jobs; uuid4, so each is used once

VARIABLES
  board  \* what the client sees of each job

Ended == {"completed", "failed", "interrupted"}
Shown == {"none", "pending", "running", "gone"} \cup Ended

Init == board = [j \in Jobs |-> "none"]

Move(j, from, to) == board[j] \in from /\ board' = [board EXCEPT ![j] = to]

(* The request is answered with the job's identifier.                      *)
Accept(j) == Move(j, {"none"}, "pending")

Start(j) == Move(j, {"pending"}, "running")

(* Only a started job completes; one that never started may fail.          *)
Complete(j) == Move(j, {"running"}, "completed")
Fail(j) == Move(j, {"pending", "running"}, "failed")

(* A restart of the API ends several jobs at once.                         *)
Interrupt ==
  \E some \in SUBSET {j \in Jobs : board[j] \in {"pending", "running"}} :
    board' = [j \in Jobs |-> IF j \in some THEN "interrupted" ELSE board[j]]

Forget ==
  \E some \in SUBSET {j \in Jobs : board[j] \in Ended} :
    board' = [j \in Jobs |-> IF j \in some THEN "gone" ELSE board[j]]

Next ==
  \/ \E j \in Jobs : Accept(j) \/ Start(j) \/ Complete(j) \/ Fail(j)
  \/ Interrupt \/ Forget

Spec == Init /\ [][Next]_board
=============================================================================
