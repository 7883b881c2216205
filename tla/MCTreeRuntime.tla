--------------------------- MODULE MCTreeRuntime ---------------------------
(* Finite instances of TreeRuntime for TLC. *)
EXTENDS TreeRuntime

CONSTANTS a, small, large
=============================================================================
