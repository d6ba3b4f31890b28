------------------------------- MODULE MCLeds -------------------------------
(* Two LEDs and six blinks of two ticks. *)
EXTENDS Leds
=============================================================================
