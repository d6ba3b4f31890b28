------------------------------ MODULE Contexts ------------------------------
(* The contexts that run code of the board beside TIM2: the main thread, and *)
(* SysTick and the USB interrupt above it by their NVIC priorities.          *)
EXTENDS Integers

Ctx == {"main", "tick", "usb"}
Rank(c) == CASE c = "main" -> 0 [] c = "tick" -> 1 [] c = "usb" -> 2
=============================================================================
