---------------------------- MODULE MCKwsysWin32 ----------------------------
(* A small instance of KwsysWin32 for TLC. *)
EXTENDS KwsysWin32

(* An attached process with a timeout, which may never pass, and a detached one. *)
MCOptions == {[detach |-> FALSE, timeout |-> TRUE], [detach |-> TRUE, timeout |-> FALSE]}
=============================================================================
