------------------------------- MODULE MCRing -------------------------------
(* The ring on a small instance for TLC. *)
EXTENDS Ring
=============================================================================
