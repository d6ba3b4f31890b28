--------------------------- MODULE MCFanSensors ---------------------------
(* One line of EXTI9_5 and two of EXTI15_10. *)
EXTENDS FanSensors

MCLines == {9, 10, 15}
=============================================================================
