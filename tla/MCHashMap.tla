------------------------------- MODULE MCHashMap -------------------------------
(* A small instance of HashMap: of the four keys two collide in a table of  *)
(* two buckets, and two in any table.                                       *)
EXTENDS HashMap, TLC

CONSTANTS k1, k2, k3, k4

MCHash == (k1 :> 0) @@ (k2 :> 0) @@ (k3 :> 1) @@ (k4 :> 2)
Symmetry == Permutations(Val)
=============================================================================
