----------------------------- MODULE MCHostTty -----------------------------
(* The classes of keys, the bounds on keys, bytes and unplugs are in the .cfg. *)
EXTENDS HostTty
=============================================================================
