---------------------------- MODULE MCBlockQueue ----------------------------
(* Bounded instances of BlockQueue for TLC: see the .cfg files.  Nothing is reduced by *)
(* symmetry, since the runs check liveness. *)
EXTENDS BlockQueue, TLC
=============================================================================
