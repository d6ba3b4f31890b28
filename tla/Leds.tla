-------------------------------- MODULE Leds --------------------------------
(***************************************************************************)
(* The LEDs that report traffic: blink, called by usb_cdc_send from the    *)
(* main loop, SysTick and the USB interrupt, lights one and starts its     *)
(* counter; SysTick_Handler counts and turns it off.  Neither is atomic.   *)
(***************************************************************************)
EXTENDS Integers, Contexts

CONSTANTS
  LEDS,        \* how many LEDs the loop of SysTick_Handler visits: 0 .. LEDS - 1
  BlinkTicks,  \* for how many ticks a blink lasts, 50 in the code
  MaxBlinks    \* bound: how many times blink is called

ASSUME LedAssumption == LEDS \in Nat \ {0} /\ BlinkTicks \in Nat /\ MaxBlinks \in Nat

VARIABLES
  lit,         \* the LEDs
  led_blink,   \* status.led_blink
  where, led,     \* where each context is, and with which LED
  seen,        \* the counter that SysTick has loaded
  blinks       \* calls of blink so far

ledVars == <<lit, led_blink, where, led, seen, blinks>>

Led == 0 .. LEDS - 1
LedRunning(c) == \A d \in Ctx : Rank(d) > Rank(c) => where[d] = "idle"

LedInit ==
  /\ lit = [l \in Led |-> FALSE] /\ led_blink = [l \in Led |-> 0]
  /\ where = [c \in Ctx |-> "idle"] /\ led = [c \in Ctx |-> 0]
  /\ seen = 0 /\ blinks = 0

-----------------------------------------------------------------------------
\* blink: set_led, then the counter.  The one call of SysTick, by the report of
\* the button, comes after its loop over the LEDs.
BlinkOn(c, l) ==
  /\ LedRunning(c) /\ where[c] = (IF c = "tick" THEN "report" ELSE "idle")
  /\ blinks < MaxBlinks
  /\ lit' = [lit EXCEPT ![l] = TRUE]
  /\ where' = [where EXCEPT ![c] = "mark"] /\ led' = [led EXCEPT ![c] = l]
  /\ blinks' = blinks + 1
  /\ UNCHANGED <<led_blink, seen>>

\* First a form that forgets the counter.
BlinkUnmarked(c) ==
  /\ LedRunning(c) /\ where[c] = "mark"
  /\ where' = [where EXCEPT ![c] = "idle"] /\ led' = [led EXCEPT ![c] = 0]
  /\ UNCHANGED <<lit, led_blink, seen, blinks>>

BlinkMark(c) ==
  /\ LedRunning(c) /\ where[c] = "mark"
  /\ led_blink' = [led_blink EXCEPT ![led[c]] = 1]
  /\ where' = [where EXCEPT ![c] = "idle"] /\ led' = [led EXCEPT ![c] = 0]
  /\ UNCHANGED <<lit, seen, blinks>>

-----------------------------------------------------------------------------
\* SysTick_Handler: the loop over the LEDs ...
SysTick ==
  /\ LedRunning("tick") /\ where["tick"] = "idle"
  /\ where' = [where EXCEPT !["tick"] = "test"] /\ led' = [led EXCEPT !["tick"] = 0]
  /\ UNCHANGED <<lit, led_blink, seen, blinks>>

NextLed ==
  IF led["tick"] + 1 < LEDS
    THEN /\ where' = [where EXCEPT !["tick"] = "test"]
         /\ led' = [led EXCEPT !["tick"] = @ + 1]
    ELSE /\ where' = [where EXCEPT !["tick"] = "report"]
         /\ led' = [led EXCEPT !["tick"] = 0]

\* ... led_blink[i] && ...
TickTest ==
  /\ LedRunning("tick") /\ where["tick"] = "test"
  /\ IF led_blink[led["tick"]] = 0
       THEN NextLed
       ELSE where' = [where EXCEPT !["tick"] = "load"] /\ UNCHANGED led
  /\ UNCHANGED <<lit, led_blink, seen, blinks>>

\* ... led_blink[i]++ > 50, a load and a store ...
TickLoad ==
  /\ LedRunning("tick") /\ where["tick"] = "load"
  /\ seen' = led_blink[led["tick"]]
  /\ where' = [where EXCEPT !["tick"] = "store"]
  /\ UNCHANGED <<lit, led_blink, led, blinks>>

TickStore ==
  /\ LedRunning("tick") /\ where["tick"] = "store"
  /\ led_blink' = [led_blink EXCEPT ![led["tick"]] = seen + 1]
  /\ IF seen > BlinkTicks
       THEN where' = [where EXCEPT !["tick"] = "clear"] /\ UNCHANGED led
       ELSE NextLed
  /\ seen' = 0
  /\ UNCHANGED <<lit, blinks>>

ClearCounter == led_blink' = [led_blink EXCEPT ![led["tick"]] = 0] /\ UNCHANGED lit
TurnOff == lit' = [lit EXCEPT ![led["tick"]] = FALSE] /\ UNCHANGED led_blink

\* ... and the end of a blink: the counter, then the LED.  First in the other order.
EndBlinkLedFirst ==
  /\ LedRunning("tick")
  /\ \/ /\ where["tick"] = "clear" /\ TurnOff
        /\ where' = [where EXCEPT !["tick"] = "off"] /\ UNCHANGED led
     \/ where["tick"] = "off" /\ ClearCounter /\ NextLed
  /\ UNCHANGED <<seen, blinks>>

EndBlink ==
  /\ LedRunning("tick")
  /\ \/ /\ where["tick"] = "clear" /\ ClearCounter
        /\ where' = [where EXCEPT !["tick"] = "off"] /\ UNCHANGED led
     \/ where["tick"] = "off" /\ TurnOff /\ NextLed
  /\ UNCHANGED <<seen, blinks>>

\* The rest of the handler, without a report.
TickEnd ==
  /\ LedRunning("tick") /\ where["tick"] = "report"
  /\ where' = [where EXCEPT !["tick"] = "idle"]
  /\ UNCHANGED <<lit, led_blink, led, seen, blinks>>

Tick == SysTick \/ TickTest \/ TickLoad \/ TickStore \/ EndBlink \/ TickEnd

LedNext ==
  \/ \E c \in Ctx, l \in Led : BlinkOn(c, l)
  \/ \E c \in Ctx : BlinkMark(c)
  \/ Tick

LedSpec == LedInit /\ [][LedNext]_ledVars

\* SysTick comes every millisecond, and it leaves time to the main loop.
LedFairSpec == LedSpec /\ WF_ledVars(Tick) /\ \A c \in Ctx : SF_ledVars(BlinkMark(c))

-----------------------------------------------------------------------------
LedTypeOK ==
  /\ lit \in [Led -> BOOLEAN]
  /\ led_blink \in [Led -> 0 .. BlinkTicks + 2]
  /\ where \in [Ctx -> {"idle", "mark", "test", "load", "store", "clear", "off", "report"}]
  /\ led \in [Ctx -> Led] /\ seen \in 0 .. BlinkTicks + 1 /\ blinks \in 0 .. MaxBlinks

\* A lit LED has a counter that will turn it off, or one of the two that are at
\* work on it will see to that: no order of blinks and ticks leaves it lit.
NeverStuckLit ==
  \A l \in Led :
    lit[l] => \/ led_blink[l] # 0
              \/ \E c \in Ctx : where[c] = "mark" /\ led[c] = l
              \/ where["tick"] = "off" /\ led["tick"] = l

\* When the traffic ends, every LED goes dark and stays so.
DarkInTheEnd == <>[](\A l \in Led : ~lit[l])
=============================================================================
