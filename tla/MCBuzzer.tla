----------------------------- MODULE MCBuzzer -----------------------------
(* A timer of eight values and beeps in the order of the code's lengths.     *)
EXTENDS Buzzer
=============================================================================
