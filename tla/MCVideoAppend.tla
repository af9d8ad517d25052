--------------------------- MODULE MCVideoAppend ---------------------------
(* Two job threads, batches and videos; none is told from the others.      *)
EXTENDS VideoAppend, TLC

CONSTANTS w1, w2, b1, b2, v1, v2

Symmetry == Permutations({w1, w2}) \cup Permutations({b1, b2}) \cup
            Permutations({v1, v2})
=============================================================================
