--------------------------- MODULE MCKwsysProcess ---------------------------
(* A small instance of KwsysProcess for TLC. *)
EXTENDS KwsysProcess

(* All options of attached processes; detached ones as the command runner starts
   them, and with a timeout as well. *)
MCOptions == {o \in AllOptions : o.detach => o.toFile}
=============================================================================
