---------------------------- MODULE MCLifecycle ----------------------------
(* The life of the board with the constants of the code, in steps of 100 ms. *)
EXTENDS Lifecycle
=============================================================================
