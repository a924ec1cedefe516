--------------------------- MODULE MCSolverWrapper ---------------------------
(* Small instances of SolverWrapper for TLC. *)
EXTENDS SolverWrapper


=============================================================================
