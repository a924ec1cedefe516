---------------------------- MODULE MCSpinSolve ----------------------------
(* Small instances of SpinSolve for TLC. *)
EXTENDS SpinSolve
=============================================================================
