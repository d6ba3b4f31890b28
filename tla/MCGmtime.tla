------------------------------ MODULE MCGmtime ------------------------------
(* Every whole day of a 32-bit time_t, in December 1901 .. January 2038: the *)
(* integers of TLC have 32 bits as well.                                     *)
EXTENDS Gmtime

MCFirstDay == -24855
MCLastDay == 24854
MCSeconds == {0, 1, 43261, 86399}
=============================================================================
