--------------------------- MODULE MCSqlConnPool ---------------------------
(* Bounded instances of SqlConnPool for TLC: see the .cfg files.  Nothing is reduced by *)
(* symmetry, since the runs check liveness. *)
EXTENDS SqlConnPool, TLC
============================================================================
