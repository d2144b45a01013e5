--------------------------- MODULE MCBoundedList ---------------------------
(* Small instances of BoundedList for TLC.                                 *)
EXTENDS BoundedList

Symmetry == Permutations(Pushers)
=============================================================================
