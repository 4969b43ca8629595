---------------------------- MODULE MCThreadPool ----------------------------
(* Bounded instances of ThreadPool for TLC: see the .cfg files.  Nothing is reduced by *)
(* symmetry, since the runs check liveness. *)
EXTENDS ThreadPool, TLC
=============================================================================
