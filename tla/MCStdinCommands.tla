--------------------------- MODULE MCStdinCommands ---------------------------
(* A small instance of StdinCommands for TLC. *)
EXTENDS StdinCommands
=============================================================================
