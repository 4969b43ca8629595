------------------------------ MODULE MCTimer ------------------------------
(* Bounded instances of Timer for TLC. *)
EXTENDS Timer, TLC

Symmetry == Permutations(Id)
=============================================================================
