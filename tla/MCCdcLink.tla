---------------------------- MODULE MCCdcLink ----------------------------
(* Nothing in the link needs a bound: all its behaviours are checked. *)
EXTENDS CdcLink
=============================================================================
