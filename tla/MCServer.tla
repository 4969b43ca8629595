------------------------------ MODULE MCServer ------------------------------
(* Bounded instances of Server for TLC. *)
EXTENDS Server, TLC

(* Workers and descriptors are interchangeable. *)
Symmetry == Permutations(Worker) \cup Permutations(Fd)
=============================================================================
