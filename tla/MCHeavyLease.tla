---------------------------- MODULE MCHeavyLease ----------------------------
(* Two API processes, the first with two requests, so that requests with   *)
(* one owner_id and requests with different ones compete.                  *)
EXTENDS HeavyLease, TLC

CONSTANTS a, b, c, g1, g2

MCHomeOf == a :> g1 @@ b :> g1 @@ c :> g2
=============================================================================
