----------------------------- MODULE MCTerminal -----------------------------
(* The terminal on a small instance for TLC. *)
EXTENDS Terminal
=============================================================================
