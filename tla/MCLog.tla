------------------------------- MODULE MCLog -------------------------------
(* Bounded instances of Log for TLC: see the .cfg files.  Nothing is reduced by *)
(* symmetry, since the runs check liveness. *)
EXTENDS Log, TLC
============================================================================
