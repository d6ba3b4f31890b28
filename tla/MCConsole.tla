----------------------------- MODULE MCConsole -----------------------------
(* The command line on a small instance for TLC. *)
EXTENDS Console
=============================================================================
