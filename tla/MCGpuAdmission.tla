--------------------------- MODULE MCGpuAdmission ---------------------------
(* Every kind of request, and two retries of one run under one key.        *)
EXTENDS GpuAdmission, TLC

CONSTANTS t1, i1, r1, r2, e1, key

MCKeyOf == r1 :> key @@ r2 :> key
=============================================================================
