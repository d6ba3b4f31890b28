------------------------------ MODULE Buzzer ------------------------------
(***************************************************************************)
(* The buzzer, the user button and a panic of board_init, whose flags      *)
(* buzzer_on, user_btn and panic are bit-fields of one byte of status.  A  *)
(* bit is set by loading the byte and storing it back, without a lock,     *)
(* from the main thread (beep, panic), the USB interrupt (beep), SysTick   *)
(* (the button) and TIM2, which outranks them all.                         *)
(***************************************************************************)
EXTENDS Integers, Contexts

CONSTANTS
  Word,          \* how many values buzzer_timer has
  BootBeep, KeyBeep, AlarmBeep,   \* what main, process_input and panic make it
  BUZZER_FREQ, PANIC_FREQ,        \* interrupts between two toggles, less two
  MaxFlips       \* bound: how often the button moves

Lengths == {BootBeep, KeyBeep, AlarmBeep}

ASSUME WordAssumption == Word \in Nat \ {0} /\ Lengths \subseteq 0 .. Word - 1
ASSUME FreqAssumption == BUZZER_FREQ \in Nat /\ PANIC_FREQ \in Nat /\ MaxFlips \in Nat

VARIABLES
  on, btn, panic,   \* the byte of status: buzzer_on, user_btn and panic
  timer,         \* status.buzzer_timer
  cnt, pin,      \* buzzer_cnt and the buzzer's pin
  raw, flips,    \* the button's pin, and how often it has moved
  count,         \* of panic: flashes since its last beep
  pc, reg, t,    \* where each context is, the byte it has loaded, its argument
  straddled,     \* history: the last stop fell into somebody's update
  dropped        \* history: a store of another bit has taken buzzer_on back

byte == <<on, btn, panic>>
sound == <<timer, cnt, pin>>
button == <<raw, flips>>
vars == <<byte, sound, button, count, pc, reg, t, straddled, dropped>>

Beepers == {"main", "usb"}
\* A context runs when those above it are idle.
Running(c) == \A d \in Ctx : Rank(d) > Rank(c) => pc[d] = "idle"

Goto(c, step) == pc' = [pc EXCEPT ![c] = step]

Init ==
  /\ on = 0 /\ btn = 0 /\ panic = 0 /\ count = 0
  /\ timer = 0 /\ cnt = 0 /\ pin = 0
  /\ raw = 0 /\ flips = 0
  /\ pc = [c \in Ctx |-> IF c = "main" THEN "boot" ELSE "idle"]
  /\ reg = [c \in Ctx |-> <<0, 0, 0>>] /\ t = [c \in Ctx |-> 0]
  /\ straddled = FALSE /\ dropped = FALSE

-----------------------------------------------------------------------------
\* beep: nothing if the buzzer is on, else the timer and then the flag.
CallBeep(c, n) ==
  IF on = 0 THEN Goto(c, "timer") /\ t' = [t EXCEPT ![c] = n]
            ELSE UNCHANGED <<pc, t>>

\* The beeps of main at its start and of process_input for a full line.
Beep(c) ==
  /\ Running(c) /\ pc[c] = "idle"
  /\ c = "main" => panic = 0
  /\ on = 0
  /\ CallBeep(c, IF c = "main" THEN BootBeep ELSE KeyBeep)
  /\ UNCHANGED <<byte, sound, button, count, reg, straddled, dropped>>

\* status.buzzer_timer = t * 10, and a form that forgets it.
NoSetTimer(c) ==
  /\ Running(c) /\ pc[c] = "timer"
  /\ Goto(c, "load") /\ t' = [t EXCEPT ![c] = 0]
  /\ UNCHANGED <<byte, sound, button, count, reg, straddled, dropped>>

SetTimer(c) ==
  /\ Running(c) /\ pc[c] = "timer"
  /\ timer' = t[c]
  /\ Goto(c, "load") /\ t' = [t EXCEPT ![c] = 0]
  /\ UNCHANGED <<byte, cnt, pin, button, count, reg, straddled, dropped>>

LoadByte(c) ==
  /\ Running(c) /\ pc[c] = "load"
  /\ reg' = [reg EXCEPT ![c] = byte]
  /\ Goto(c, "store")
  /\ UNCHANGED <<byte, sound, button, count, t, straddled, dropped>>

\* status.buzzer_on = 1, with the other bits as they were loaded
StoreOn(c) ==
  /\ Running(c) /\ pc[c] = "store"
  /\ on' = 1 /\ btn' = reg[c][2] /\ panic' = reg[c][3]
  /\ reg' = [reg EXCEPT ![c] = <<0, 0, 0>>]
  /\ Goto(c, "idle")
  /\ UNCHANGED <<sound, button, count, t, straddled, dropped>>

-----------------------------------------------------------------------------
\* board_init ends well, or with a panic after buzzer_init: usb_init, temp_init or
\* wdt_init failed.  (A hard fault masks every context of this module.)
Boot ==
  /\ Running("main") /\ pc["main"] = "boot"
  /\ Goto("main", "idle")
  /\ UNCHANGED <<byte, sound, button, count, reg, t, straddled, dropped>>

Panic ==
  /\ Running("main") /\ pc["main"] = "boot"
  /\ panic = 0
  /\ reg' = [reg EXCEPT !["main"] = byte]
  /\ Goto("main", "latch")
  /\ UNCHANGED <<byte, sound, button, count, t, straddled, dropped>>

\* status.panic = 1, with the other bits as they were loaded
SetPanic ==
  /\ Running("main") /\ pc["main"] = "latch"
  /\ on' = reg["main"][1] /\ btn' = reg["main"][2] /\ panic' = 1
  /\ dropped' = (dropped \/ reg["main"][1] < on)
  /\ reg' = [reg EXCEPT !["main"] = <<0, 0, 0>>]
  /\ Goto("main", "idle")
  /\ UNCHANGED <<sound, button, count, t, straddled>>

\* The endless loop of panic: flashes, and a beep with every third.  First a form
\* that resets the count with every flash.
FlashForgets ==
  /\ Running("main") /\ pc["main"] = "idle" /\ panic = 1
  /\ count' = 0
  /\ IF count + 1 > 2 THEN CallBeep("main", AlarmBeep) ELSE UNCHANGED <<pc, t>>
  /\ UNCHANGED <<byte, sound, button, reg, straddled, dropped>>

Flash ==
  /\ Running("main") /\ pc["main"] = "idle" /\ panic = 1
  /\ IF count + 1 > 2
       THEN count' = 0 /\ CallBeep("main", AlarmBeep)
       ELSE count' = count + 1 /\ UNCHANGED <<pc, t>>
  /\ UNCHANGED <<byte, sound, button, reg, straddled, dropped>>

-----------------------------------------------------------------------------
\* SysTick, idle in a panic, compares the flag with the pin, reads the pin again
\* for the new value of the flag, and updates the byte.  First a form that sees
\* only presses.
TestButtonPress ==
  /\ Running("tick") /\ pc["tick"] = "idle" /\ panic = 0
  /\ btn = 0 /\ raw = 1
  /\ Goto("tick", "read")
  /\ UNCHANGED <<byte, sound, button, count, reg, t, straddled, dropped>>

TestButton ==
  /\ Running("tick") /\ pc["tick"] = "idle" /\ panic = 0
  /\ btn # raw
  /\ Goto("tick", "read")
  /\ UNCHANGED <<byte, sound, button, count, reg, t, straddled, dropped>>

ReadButton ==
  /\ Running("tick") /\ pc["tick"] = "read"
  /\ t' = [t EXCEPT !["tick"] = raw]
  /\ Goto("tick", "load")
  /\ UNCHANGED <<byte, sound, button, count, reg, straddled, dropped>>

\* status.user_btn = the pin, with the other bits as they were loaded
StoreButton ==
  /\ Running("tick") /\ pc["tick"] = "store"
  /\ on' = reg["tick"][1] /\ btn' = t["tick"] /\ panic' = reg["tick"][3]
  /\ dropped' = (dropped \/ reg["tick"][1] < on)
  /\ reg' = [reg EXCEPT !["tick"] = <<0, 0, 0>>] /\ t' = [t EXCEPT !["tick"] = 0]
  /\ Goto("tick", "idle")
  /\ UNCHANGED <<sound, button, count, straddled>>

Flip ==
  /\ flips < MaxFlips
  /\ raw' = 1 - raw /\ flips' = flips + 1
  /\ UNCHANGED <<byte, sound, count, pc, reg, t, straddled, dropped>>

-----------------------------------------------------------------------------
\* HAL_TIM_PeriodElapsedCallback: stop when the timer has run out, and toggle.
\* An update straddles the stop when its store will turn the buzzer on although
\* its timer, or the buzzer it saw, belongs to the time before.
Straddling ==
  \/ \E c \in Beepers : pc[c] \in {"load", "store"}
  \/ pc["tick"] = "store" /\ reg["tick"][1] = 1
  \/ pc["main"] = "latch" /\ reg["main"][1] = 1

\* The toggle: buzzer_cnt counts while the buzzer is on.
Toggle(o, p) ==
  IF o = 1 /\ cnt > (IF panic = 1 THEN PANIC_FREQ ELSE BUZZER_FREQ)
    THEN cnt' = 0 /\ pin' = 1 - p
    ELSE cnt' = (IF o = 1 THEN cnt + 1 ELSE cnt) /\ pin' = p

\* A form of buzzer(0) that leaves the pin, one that leaves the flag, and the code's.
PeriodElapsedKeepsPin ==
  /\ timer' = (timer - 1) % Word
  /\ LET stop == timer = 0
         o == IF stop THEN 0 ELSE on
     IN  /\ on' = o
         /\ Toggle(o, pin)
         /\ straddled' = IF stop THEN Straddling ELSE straddled
         /\ dropped' = (dropped /\ ~stop)
  /\ UNCHANGED <<btn, panic, button, count, pc, reg, t>>

PeriodElapsedKeepsOn ==
  /\ timer' = (timer - 1) % Word
  /\ LET stop == timer = 0
     IN  /\ on' = on
         /\ Toggle(on, IF stop THEN 0 ELSE pin)
         /\ straddled' = IF stop THEN Straddling ELSE straddled
         /\ dropped' = (dropped /\ ~stop)
  /\ UNCHANGED <<btn, panic, button, count, pc, reg, t>>

PeriodElapsed ==
  /\ timer' = (timer - 1) % Word
  /\ LET stop == timer = 0
         o == IF stop THEN 0 ELSE on
     IN  /\ on' = o
         /\ Toggle(o, IF stop THEN 0 ELSE pin)
         /\ straddled' = IF stop THEN Straddling ELSE straddled
         /\ dropped' = (dropped /\ ~stop)
  /\ UNCHANGED <<btn, panic, button, count, pc, reg, t>>

Step(c) ==
  \/ c \in Beepers /\ (SetTimer(c) \/ LoadByte(c) \/ StoreOn(c))
  \/ c = "main" /\ (SetPanic \/ Flash)
  \/ c = "tick" /\ (TestButton \/ ReadButton \/ LoadByte(c) \/ StoreButton)

Next ==
  \/ Boot \/ Panic
  \/ \E c \in Beepers : Beep(c)
  \/ \E c \in Ctx : Step(c)
  \/ Flip
  \/ PeriodElapsed

Spec == Init /\ [][Next]_vars

\* The timer runs for ever, SysTick comes every millisecond and handlers end;
\* the USB handler leaves time for SysTick, and both for the main thread.
FairSpec == /\ Spec
            /\ WF_vars(PeriodElapsed) /\ WF_vars(Step("usb"))
            /\ SF_vars(Step("tick")) /\ SF_vars(Step("main"))

-----------------------------------------------------------------------------
TypeOK ==
  /\ byte \in (0 .. 1) \X (0 .. 1) \X (0 .. 1)
  /\ timer \in 0 .. Word - 1 /\ pin \in 0 .. 1 /\ count \in 0 .. 2
  /\ cnt \in (0 .. BUZZER_FREQ + 1) \union (0 .. PANIC_FREQ + 1)
  /\ raw \in 0 .. 1 /\ flips \in 0 .. MaxFlips
  /\ pc \in [Ctx -> {"boot", "latch", "idle", "timer", "read", "load", "store"}]
  /\ reg \in [Ctx -> (0 .. 1) \X (0 .. 1) \X (0 .. 1)]
  /\ t \in [Ctx -> Lengths \union {0, 1}]
  /\ straddled \in BOOLEAN /\ dropped \in BOOLEAN

\* A buzzer that is on has a timer that some beep has set, however beeps, the
\* button and a panic interleave, unless an update straddled the stop: then it may
\* go on for the whole range of the timer, three days.
SoundBounded == on = 1 /\ ~straddled => \E n \in Lengths : timer <= n

\* The pin is not left high when the buzzer is off, unless the store of the button
\* or of the panic took buzzer_on back from a beep of the USB interrupt.
SilentPinLow == on = 0 /\ ~dropped => pin = 0

\* Even then the buzzer stops in the end, with its pin low.
EventuallyQuiet == (on = 1 \/ pin = 1) ~> (on = 0 /\ pin = 0)

\* A panic turns the buzzer on again and again, although its count is tested only
\* every third flash, when a beep of the USB interrupt may have the buzzer.
AlarmSounds == panic = 1 ~> on = 1

\* A beep may overwrite the button's flag with an old value, and the pin may move
\* between the two reads: SysTick sets it right again, unless there is a panic.
ButtonSettles == []<>(btn = raw \/ panic = 1)
=============================================================================
