---------------------------- MODULE BuzzerProofs ----------------------------
(* Proofs about the two things that SysTick shares with the main thread and  *)
(* the USB interrupt: the buzzer, for every range of its timer, every set of *)
(* beep lengths, every frequency and any number of presses, and the LEDs, for *)
(* every number of LEDs, blink time and number of blinks.                    *)
EXTENDS Buzzer, Leds, TLAPS

(* A beep's length waits in t until it is in the timer, and the button's value *)
(* until it is in the byte.                                                    *)
ArgumentOK ==
  /\ \A c \in Beepers : pc[c] = "timer" => t[c] \in Lengths
  /\ t["tick"] \in 0 .. 1

Bounded == \E n \in Lengths : timer <= n

(* Whoever is going to turn the buzzer on has set the timer since the last     *)
(* stop, or straddles that stop.                                               *)
UpdatesBounded == Straddling /\ ~straddled => Bounded

(* Whoever stores the byte stores the panic flag as it is: the main thread, the *)
(* only one to raise it, does not run between an interrupt's load and its store. *)
PanicSeen == \A c \in Ctx : pc[c] = "store" => reg[c][3] = panic

IInv == TypeOK /\ ArgumentOK /\ PanicSeen /\ UpdatesBounded /\ SoundBounded /\ SilentPinLow

LEMMA InitInv == Init => IInv
<1> SUFFICES ASSUME Init PROVE IInv
  OBVIOUS
<1>1. TypeOK
  <2>1. /\ byte \in (0 .. 1) \X (0 .. 1) \X (0 .. 1)
        /\ reg \in [Ctx -> (0 .. 1) \X (0 .. 1) \X (0 .. 1)]
    BY DEF Init, byte
  <2>2. straddled \in BOOLEAN /\ dropped \in BOOLEAN
    BY DEF Init
  <2>3. /\ timer \in 0 .. Word - 1 /\ cnt = 0 /\ 0 \in 0 .. BUZZER_FREQ + 1
        /\ pin \in 0 .. 1 /\ count \in 0 .. 2 /\ raw \in 0 .. 1 /\ flips \in 0 .. MaxFlips
        /\ pc \in [Ctx -> {"boot", "latch", "idle", "timer", "read", "load", "store"}]
        /\ t \in [Ctx -> Lengths \union {0, 1}]
    BY WordAssumption, FreqAssumption DEF Init
  <2> QED BY <2>1, <2>2, <2>3 DEF TypeOK
<1>2. ArgumentOK /\ PanicSeen
  BY DEF Init, ArgumentOK, PanicSeen, Ctx, Beepers
<1>3. UpdatesBounded
  BY DEF Init, UpdatesBounded, Straddling, Ctx, Beepers
<1>4. SoundBounded /\ SilentPinLow
  BY DEF Init, SoundBounded, SilentPinLow
<1> QED BY <1>1, <1>2, <1>3, <1>4 DEF IInv

LEMMA Contexts ==
  /\ Ctx = {"main", "tick", "usb"} /\ Beepers = {"main", "usb"}
  /\ Beepers \subseteq Ctx /\ "tick" \in Ctx /\ "tick" \notin Beepers
BY DEF Ctx, Beepers

(* A step that leaves the byte, the sound and the loaded bytes, and puts nobody *)
(* where the byte is about to be stored.                                        *)
LEMMA Unmoved ==
  ASSUME IInv, UNCHANGED <<byte, sound, button, reg, straddled, dropped>>,
         count' \in 0 .. 2 \/ count' = count,
         pc' \in [Ctx -> {"boot", "latch", "idle", "timer", "read", "load", "store"}],
         t' \in [Ctx -> Lengths \union {0, 1}],
         ArgumentOK',
         \A x \in Ctx : pc'[x] \in {"load", "store", "latch"} => pc[x] = pc'[x]
  PROVE  IInv'
<1> USE Contexts DEF IInv, byte, sound, button
<1>1. TypeOK' /\ PanicSeen'
  BY DEF TypeOK, PanicSeen
<1>2. UpdatesBounded' /\ SoundBounded' /\ SilentPinLow'
  BY DEF TypeOK, UpdatesBounded, Straddling, Bounded, SoundBounded, SilentPinLow
<1> QED BY <1>1, <1>2

(* A store of the byte as it was loaded leaves a silent buzzer with its pin high *)
(* only if it takes a beep back.                                                *)
LEMMA Dropping ==
  ASSUME TypeOK, SilentPinLow, NEW r \in 0 .. 1,
         dropped' = (dropped \/ r < on), on' = r, pin' = pin
  PROVE  SilentPinLow'
<1>1. CASE dropped \/ r < on
  BY <1>1 DEF SilentPinLow
<1>2. CASE ~dropped /\ on <= r
  <2>1. on' = 0 => on = 0
    BY <1>2 DEF TypeOK, byte
  <2> QED BY <1>2, <2>1 DEF SilentPinLow
<1> QED BY <1>1, <1>2 DEF TypeOK, byte

(* A call of beep gives its length to the step that sets the timer. *)
LEMMA CallOK ==
  ASSUME TypeOK, ArgumentOK, NEW c \in Beepers, NEW n \in Lengths, pc[c] = "idle",
         CallBeep(c, n)
  PROVE  /\ pc' \in [Ctx -> {"boot", "latch", "idle", "timer", "read", "load", "store"}]
         /\ t' \in [Ctx -> Lengths \union {0, 1}]
         /\ ArgumentOK'
         /\ \A d \in Ctx : pc'[d] \in {"load", "store", "latch"} => pc[d] = pc'[d]
BY Contexts DEF CallBeep, Goto, TypeOK, ArgumentOK

(* What a call of beep, of main or process_input, does. *)
LEMMA BeepSteps ==
  ASSUME IInv, NEW c \in Beepers, Beep(c) \/ SetTimer(c) \/ StoreOn(c)
  PROVE  IInv'
<1> USE Contexts DEF IInv, Goto, byte, sound, button
<1>1. CASE Beep(c)
  <2> DEFINE n == IF c = "main" THEN BootBeep ELSE KeyBeep
  <2>1. n \in Lengths /\ CallBeep(c, n) /\ pc[c] = "idle"
    BY <1>1 DEF Beep, Lengths
  <2>2. /\ pc' \in [Ctx -> {"boot", "latch", "idle", "timer", "read", "load", "store"}]
        /\ t' \in [Ctx -> Lengths \union {0, 1}]
        /\ ArgumentOK'
        /\ \A x \in Ctx : pc'[x] \in {"load", "store", "latch"} => pc[x] = pc'[x]
    BY <2>1, CallOK
  <2>3. UNCHANGED <<byte, sound, button, count, reg, straddled, dropped>>
    BY <1>1 DEF Beep
  <2> QED BY <2>2, <2>3, Unmoved
<1>2. CASE SetTimer(c)
  <2>1. t[c] \in Lengths /\ t[c] \in 0 .. Word - 1
    BY <1>2, WordAssumption DEF SetTimer, ArgumentOK
  <2>2. Bounded'
    BY <1>2, <2>1 DEF SetTimer, Bounded
  <2>3. TypeOK' /\ ArgumentOK' /\ PanicSeen'
    BY <1>2, <2>1 DEF SetTimer, TypeOK, ArgumentOK, PanicSeen
  <2>4. UpdatesBounded' /\ SoundBounded' /\ SilentPinLow'
    BY <1>2, <2>2 DEF SetTimer, Bounded, UpdatesBounded, SoundBounded, SilentPinLow
  <2> QED BY <2>3, <2>4
<1>3. CASE StoreOn(c)
  <2>1. Straddling /\ panic' = panic
    BY <1>3 DEF StoreOn, Straddling, PanicSeen
  <2>2. TypeOK' /\ ArgumentOK' /\ PanicSeen'
    BY <1>3, <2>1 DEF StoreOn, TypeOK, ArgumentOK, PanicSeen
  <2>3. UpdatesBounded' /\ SoundBounded' /\ SilentPinLow'
    BY <1>3, <2>1 DEF StoreOn, UpdatesBounded, Bounded, SoundBounded, SilentPinLow
  <2> QED BY <2>2, <2>3
<1> QED BY <1>1, <1>2, <1>3

(* The end of board_init, the panic that ends it otherwise, and its alarm.     *)
LEMMA PanicSteps == ASSUME IInv, Boot \/ Panic \/ SetPanic \/ Flash PROVE IInv'
<1> USE Contexts DEF IInv, Goto, byte, sound, button
<1>1. CASE Boot
  <2>1. TypeOK' /\ ArgumentOK' /\ PanicSeen'
    BY <1>1 DEF Boot, TypeOK, ArgumentOK, PanicSeen
  <2>2. UpdatesBounded' /\ SoundBounded' /\ SilentPinLow'
    BY <1>1 DEF Boot, TypeOK, UpdatesBounded, Straddling, Bounded, SoundBounded, SilentPinLow
  <2> QED BY <2>1, <2>2
<1>2. CASE Panic
  <2>1. TypeOK' /\ ArgumentOK' /\ PanicSeen'
    BY <1>2 DEF Panic, TypeOK, ArgumentOK, PanicSeen
  <2>2. UpdatesBounded' /\ SoundBounded' /\ SilentPinLow'
    BY <1>2 DEF Panic, TypeOK, UpdatesBounded, Straddling, Bounded, SoundBounded, SilentPinLow
  <2> QED BY <2>1, <2>2
<1>3. CASE SetPanic
  <2>1. pc["tick"] = "idle" /\ pc["usb"] = "idle" /\ pc'["main"] = "idle"
    BY <1>3 DEF SetPanic, Running, Rank, TypeOK
  <2>2. TypeOK' /\ ArgumentOK' /\ PanicSeen'
    BY <1>3, <2>1 DEF SetPanic, TypeOK, ArgumentOK, PanicSeen
  <2>3. UpdatesBounded' /\ SoundBounded'
    BY <1>3 DEF SetPanic, TypeOK, UpdatesBounded, Straddling, Bounded, SoundBounded
  <2>4. SilentPinLow'
    <3>1. /\ dropped' = (dropped \/ reg["main"][1] < on) /\ on' = reg["main"][1]
          /\ pin' = pin /\ reg["main"][1] \in 0 .. 1
      BY <1>3 DEF SetPanic, TypeOK
    <3> QED BY <3>1, Dropping
  <2> QED BY <2>2, <2>3, <2>4
<1>4. CASE Flash
  <2>1. UNCHANGED <<byte, sound, button, reg, straddled, dropped>> /\ pc["main"] = "idle"
    BY <1>4 DEF Flash
  <2>2. count' \in 0 .. 2
    BY <1>4 DEF Flash, TypeOK
  <2>3. CallBeep("main", AlarmBeep) \/ UNCHANGED <<pc, t>>
    BY <1>4 DEF Flash
  <2>4. /\ pc' \in [Ctx -> {"boot", "latch", "idle", "timer", "read", "load", "store"}]
        /\ t' \in [Ctx -> Lengths \union {0, 1}]
        /\ ArgumentOK'
        /\ \A x \in Ctx : pc'[x] \in {"load", "store", "latch"} => pc[x] = pc'[x]
    <3>1. CASE CallBeep("main", AlarmBeep)
      BY <2>1, <3>1, CallOK DEF Lengths
    <3>2. CASE UNCHANGED <<pc, t>>
      BY <3>2 DEF TypeOK, ArgumentOK
    <3> QED BY <2>3, <3>1, <3>2
  <2> QED BY <2>1, <2>2, <2>4, Unmoved
<1> QED BY <1>1, <1>2, <1>3, <1>4

(* The load of the byte, by anybody: SysTick then holds a buzzer that is on    *)
(* only while the timer bounds it.                                             *)
LEMMA LoadSteps == ASSUME IInv, NEW c \in Ctx, LoadByte(c) PROVE IInv'
<1> USE Contexts DEF IInv, Goto, byte, sound, button
<1>1. TypeOK' /\ ArgumentOK' /\ PanicSeen'
  BY DEF LoadByte, TypeOK, ArgumentOK, PanicSeen
<1>2. UpdatesBounded'
  BY DEF LoadByte, TypeOK, UpdatesBounded, Straddling, SoundBounded, Bounded
<1>3. SoundBounded' /\ SilentPinLow'
  BY DEF LoadByte, SoundBounded, SilentPinLow
<1> QED BY <1>1, <1>2, <1>3

(* The button: the pin, and the other steps of SysTick.                        *)
LEMMA ButtonSteps ==
  ASSUME IInv, Flip \/ TestButton \/ ReadButton \/ StoreButton PROVE IInv'
<1> USE Contexts DEF IInv, Goto, byte, sound, button
<1>1. CASE Flip
  <2>1. TypeOK' /\ ArgumentOK' /\ PanicSeen'
    BY <1>1, FreqAssumption DEF Flip, TypeOK, ArgumentOK, PanicSeen
  <2>2. UpdatesBounded' /\ SoundBounded' /\ SilentPinLow'
    BY <1>1 DEF Flip, UpdatesBounded, Straddling, Bounded, SoundBounded, SilentPinLow
  <2> QED BY <2>1, <2>2
<1>2. CASE TestButton
  <2>1. TypeOK' /\ ArgumentOK' /\ PanicSeen'
    BY <1>2 DEF TestButton, TypeOK, ArgumentOK, PanicSeen
  <2>2. UpdatesBounded' /\ SoundBounded' /\ SilentPinLow'
    BY <1>2 DEF TestButton, TypeOK, UpdatesBounded, Straddling, Bounded, SoundBounded, SilentPinLow
  <2> QED BY <2>1, <2>2
<1>3. CASE ReadButton
  <2>1. TypeOK' /\ ArgumentOK' /\ PanicSeen'
    BY <1>3 DEF ReadButton, TypeOK, ArgumentOK, PanicSeen
  <2>2. UpdatesBounded' /\ SoundBounded' /\ SilentPinLow'
    BY <1>3 DEF ReadButton, TypeOK, UpdatesBounded, Straddling, Bounded, SoundBounded, SilentPinLow
  <2> QED BY <2>1, <2>2
<1>4. CASE StoreButton
  <2>1. TypeOK' /\ ArgumentOK' /\ PanicSeen'
    BY <1>4 DEF StoreButton, TypeOK, ArgumentOK, PanicSeen
  <2>2. UpdatesBounded'
    BY <1>4 DEF StoreButton, TypeOK, UpdatesBounded, Straddling, Bounded
  <2>3. SoundBounded'
    BY <1>4 DEF StoreButton, UpdatesBounded, Straddling, Bounded, SoundBounded
  <2>4. SilentPinLow'
    <3>1. /\ dropped' = (dropped \/ reg["tick"][1] < on) /\ on' = reg["tick"][1]
          /\ pin' = pin /\ reg["tick"][1] \in 0 .. 1
      BY <1>4 DEF StoreButton, TypeOK
    <3> QED BY <3>1, Dropping
  <2> QED BY <2>1, <2>2, <2>3, <2>4
<1> QED BY <1>1, <1>2, <1>3, <1>4

LEMMA CountDown ==
  ASSUME NEW w \in Nat \ {0}, NEW x \in 0 .. w - 1
  PROVE  (x - 1) % w = IF x = 0 THEN w - 1 ELSE x - 1
OBVIOUS

(* TIM2: a stop ends every sound, and notes the updates that straddle it.      *)
LEMMA TimerSteps == ASSUME IInv, PeriodElapsed PROVE IInv'
<1> USE Contexts DEF IInv, byte, button
<1>1. timer' = IF timer = 0 THEN Word - 1 ELSE timer - 1
  BY CountDown, WordAssumption DEF PeriodElapsed, TypeOK
<1>2. UNCHANGED <<btn, panic, raw, flips, count, pc, reg, t>>
  BY DEF PeriodElapsed
<1>3. CASE timer = 0
  <2>1. /\ on' = 0 /\ pin' = 0 /\ cnt' = cnt
        /\ straddled' = Straddling /\ dropped' = FALSE
    <3>1. Toggle(0, 0) /\ on' = 0
      BY <1>3 DEF PeriodElapsed
    <3>2. straddled' = Straddling
      BY <1>3, Zenon DEF PeriodElapsed
    <3>3. dropped' = FALSE
      BY <1>3 DEF PeriodElapsed
    <3> QED BY <3>1, <3>2, <3>3 DEF Toggle
  <2>2. Straddling \in BOOLEAN
    BY DEF Straddling
  <2>3. TypeOK' /\ ArgumentOK' /\ PanicSeen'
    <3>1. straddled' \in BOOLEAN /\ dropped' \in BOOLEAN
      BY <2>1, <2>2
    <3>2. ArgumentOK' /\ PanicSeen'
      BY <1>2 DEF ArgumentOK, PanicSeen
    <3> QED BY <1>1, <1>2, <1>3, <2>1, <3>1, <3>2, WordAssumption DEF TypeOK
  <2>4. UpdatesBounded' /\ SoundBounded' /\ SilentPinLow'
    BY <1>2, <2>1 DEF UpdatesBounded, Straddling, SoundBounded, SilentPinLow
  <2> QED BY <2>3, <2>4
<1>4. CASE timer # 0
  <2>1. /\ on' = on /\ straddled' = straddled /\ dropped' = dropped
        /\ Toggle(on, pin)
    BY <1>4 DEF PeriodElapsed, TypeOK
  <2>2. /\ cnt' \in (0 .. BUZZER_FREQ + 1) \union (0 .. PANIC_FREQ + 1)
        /\ pin' \in 0 .. 1 /\ (on = 0 => pin' = pin)
    BY <2>1, FreqAssumption DEF Toggle, TypeOK
  <2>3. TypeOK' /\ ArgumentOK' /\ PanicSeen'
    BY <1>1, <1>2, <1>4, <2>1, <2>2, WordAssumption DEF TypeOK, ArgumentOK, PanicSeen
  <2>4. Bounded => Bounded'
    BY <1>1, <1>4, WordAssumption DEF Bounded, TypeOK
  <2>5. UpdatesBounded' /\ SoundBounded' /\ SilentPinLow'
    BY <1>2, <2>1, <2>2, <2>4 DEF UpdatesBounded, Straddling, Bounded, SoundBounded, SilentPinLow
  <2> QED BY <2>3, <2>5
<1> QED BY <1>3, <1>4

LEMMA StepInv == IInv /\ [Next]_vars => IInv'
<1> SUFFICES ASSUME IInv, [Next]_vars PROVE IInv'
  OBVIOUS
<1>1. ASSUME NEW c \in Ctx, Step(c) PROVE IInv'
  BY <1>1, BeepSteps, LoadSteps, ButtonSteps, PanicSteps DEF Step
<1>2. CASE UNCHANGED vars
  BY <1>2 DEF vars, byte, sound, button, IInv, TypeOK, ArgumentOK, PanicSeen,
              UpdatesBounded, Straddling, Bounded, SoundBounded, SilentPinLow
<1> QED BY <1>1, <1>2, BeepSteps, PanicSteps, ButtonSteps, TimerSteps DEF Next

-----------------------------------------------------------------------------
(* The invariant of beep, the button and TIM2 together. *)
THEOREM Inductive == Spec => []IInv
BY InitInv, StepInv, PTL DEF Spec

(* Every variable keeps its type: buzzer_cnt never goes past the frequency. *)
THEOREM TypeCorrect == Spec => []TypeOK
<1>1. IInv => TypeOK
  BY DEF IInv
<1> QED BY Inductive, <1>1, PTL

(* However beeps, presses and stops interleave, the buzzer sounds no longer     *)
(* than a beep asked for, unless an update straddled the last stop.             *)
THEOREM SoundIsBounded == Spec => []SoundBounded
<1>1. IInv => SoundBounded
  BY DEF IInv
<1> QED BY Inductive, <1>1, PTL

(* The buzzer is off with its pin high only after a store of the button or of a *)
(* panic has taken back a beep.                                                 *)
THEOREM SilenceIsLow == Spec => []SilentPinLow
<1>1. IInv => SilentPinLow
  BY DEF IInv
<1> QED BY Inductive, <1>1, PTL

(* No store of the byte takes a panic back, although each stores the flag as it  *)
(* was loaded: SysTick and the main loop rely on it to stay out of a panic.      *)
THEOREM PanicStays == Spec => [][panic = 1 => panic' = 1]_vars
<1> DEFINE A == panic = 1 => panic' = 1
<1>1. IInv /\ [Next]_vars => [A]_vars
  <2> SUFFICES ASSUME IInv, Next PROVE A
    OBVIOUS
  <2>1. ASSUME NEW c \in Ctx, SetTimer(c) \/ LoadByte(c) \/ StoreOn(c) PROVE A
    BY <2>1 DEF SetTimer, LoadByte, StoreOn, byte, IInv, PanicSeen
  <2>2. CASE TestButton \/ ReadButton \/ StoreButton \/ Flip \/ PeriodElapsed
    BY <2>2, Contexts DEF TestButton, ReadButton, StoreButton, Flip, PeriodElapsed, byte, IInv, PanicSeen
  <2>3. CASE Boot \/ Panic \/ SetPanic \/ Flash \/ \E c \in Beepers : Beep(c)
    BY <2>3 DEF Boot, Panic, SetPanic, Flash, Beep, byte
  <2> QED BY <2>1, <2>2, <2>3, Contexts DEF Next, Step
<1> QED BY Inductive, <1>1, PTL DEF Spec

-----------------------------------------------------------------------------
(***************************************************************************)
(* The LEDs.                                                               *)
(***************************************************************************)
(* A counter has its last value only between the store of SysTick and its    *)
(* clearing; LedTypeOK alone would let SysTick load that value and pass it.  *)
LastValueShort ==
  \A l \in Led : led_blink[l] = BlinkTicks + 2 => where["tick"] = "clear" /\ led["tick"] = l

LedInv == LedTypeOK /\ LastValueShort /\ NeverStuckLit

LEMMA LedInitInv == LedInit => LedInv
BY LedAssumption DEF LedInit, LedInv, LedTypeOK, LastValueShort, NeverStuckLit, Led, Ctx

(* The step to the next LED changes only where SysTick is. *)
LEMMA NextLedPlace ==
  ASSUME LedTypeOK, NextLed
  PROVE  /\ where' \in [Ctx -> {"idle", "mark", "test", "load", "store", "clear", "off", "report"}]
         /\ led' \in [Ctx -> Led]
         /\ where'["tick"] \in {"test", "report"}
         /\ \A c \in Ctx \ {"tick"} : where'[c] = where[c] /\ led'[c] = led[c]
<1>1. led["tick"] \in 0 .. LEDS - 1 /\ led \in [Ctx -> Led] /\ "tick" \in Ctx
  BY DEF LedTypeOK, Led, Ctx
<1>2. /\ where \in [Ctx -> {"idle", "mark", "test", "load", "store", "clear", "off", "report"}]
  BY DEF LedTypeOK
<1>3. PICK step \in {"test", "report"}, l \in Led :
        where' = [where EXCEPT !["tick"] = step] /\ led' = [led EXCEPT !["tick"] = l]
  <2>1. CASE led["tick"] + 1 < LEDS
    <3>1. led["tick"] + 1 \in Led
      BY <1>1, <2>1, LedAssumption DEF Led
    <3>2. /\ where' = [where EXCEPT !["tick"] = "test"]
          /\ led' = [led EXCEPT !["tick"] = led["tick"] + 1]
      BY <2>1 DEF NextLed
    <3> QED BY <3>1, <3>2
  <2>2. CASE ~(led["tick"] + 1 < LEDS)
    BY <2>2, LedAssumption DEF NextLed, Led
  <2> QED BY <2>1, <2>2
<1> QED BY <1>1, <1>2, <1>3

LEMMA LedStepInv == LedInv /\ [LedNext]_ledVars => LedInv'
<1> SUFFICES ASSUME LedInv, [LedNext]_ledVars PROVE LedInv'
  OBVIOUS
<1> USE LedAssumption DEF LedInv, Led, Ctx
<1>1. ASSUME NEW c \in Ctx, NEW l \in Led, BlinkOn(c, l) PROVE LedInv'
  <2>1. LedTypeOK'
    BY <1>1 DEF BlinkOn, LedTypeOK
  <2>2. LastValueShort'
    BY <1>1 DEF BlinkOn, LedTypeOK, LastValueShort
  <2>3. NeverStuckLit'
    BY <1>1 DEF BlinkOn, LedTypeOK, NeverStuckLit
  <2> QED BY <2>1, <2>2, <2>3
<1>2. ASSUME NEW c \in Ctx, BlinkMark(c) PROVE LedInv'
  <2>1. LedTypeOK'
    BY <1>2 DEF BlinkMark, LedTypeOK
  <2>2. LastValueShort'
    BY <1>2 DEF BlinkMark, LedTypeOK, LastValueShort
  <2>3. NeverStuckLit'
    BY <1>2 DEF BlinkMark, LedTypeOK, NeverStuckLit
  <2> QED BY <2>1, <2>2, <2>3
<1>3. CASE SysTick
  <2>1. LedTypeOK'
    BY <1>3 DEF SysTick, LedTypeOK
  <2>2. LastValueShort'
    BY <1>3 DEF SysTick, LedTypeOK, LastValueShort
  <2>3. NeverStuckLit'
    BY <1>3 DEF SysTick, LedTypeOK, NeverStuckLit
  <2> QED BY <2>1, <2>2, <2>3
<1>4. CASE TickTest
  <2>1. CASE led_blink[led["tick"]] = 0
    <3>1. NextLed
      BY <1>4, <2>1 DEF TickTest
    <3>2. LedTypeOK'
      BY <1>4, <3>1, NextLedPlace DEF TickTest, LedTypeOK
    <3>3. LastValueShort'
      BY <1>4, <3>1 DEF TickTest, LedTypeOK, LastValueShort
    <3>4. NeverStuckLit'
      BY <1>4, <3>1, NextLedPlace DEF TickTest, LedTypeOK, NeverStuckLit
    <3> QED BY <3>2, <3>3, <3>4
  <2>2. CASE led_blink[led["tick"]] # 0
    BY <1>4, <2>2 DEF TickTest, LedTypeOK, LastValueShort, NeverStuckLit
  <2> QED BY <2>1, <2>2
<1>5. CASE TickLoad
  <2>1. seen' \in 0 .. BlinkTicks + 1
    BY <1>5 DEF TickLoad, LedTypeOK, LastValueShort
  <2> QED BY <1>5, <2>1 DEF TickLoad, LedTypeOK, LastValueShort, NeverStuckLit
<1>6. CASE TickStore
  <2>1. /\ led_blink' = [led_blink EXCEPT ![led["tick"]] = seen + 1]
        /\ UNCHANGED <<lit, blinks>> /\ seen' = 0
        /\ led_blink' \in [Led -> 0 .. BlinkTicks + 2]
        /\ where["tick"] = "store"
    BY <1>6 DEF TickStore, LedTypeOK
  <2>2. CASE seen > BlinkTicks
    BY <1>6, <2>1, <2>2 DEF TickStore, LedTypeOK, LastValueShort, NeverStuckLit
  <2>3. CASE ~(seen > BlinkTicks)
    <3>1. NextLed
      BY <1>6, <2>3 DEF TickStore
    <3>2. seen + 1 \in 1 .. BlinkTicks + 1
      BY <2>3 DEF LedTypeOK
    <3>3. LedTypeOK'
      BY <2>1, <3>1, NextLedPlace DEF LedTypeOK
    <3>4. LastValueShort'
      BY <2>1, <3>1, <3>2, NextLedPlace DEF LedTypeOK, LastValueShort
    <3>5. NeverStuckLit'
      <4>1. /\ \A c \in Ctx : where[c] = "mark" => where'[c] = "mark" /\ led'[c] = led[c]
            /\ where["tick"] # "off"
        BY <2>1, <3>1, NextLedPlace
      <4>2. lit' = lit /\ \A l \in Led : led_blink[l] # 0 => led_blink'[l] # 0
        BY <2>1, <3>2 DEF LedTypeOK
      <4> QED BY <4>1, <4>2 DEF NeverStuckLit
    <3> QED BY <3>3, <3>4, <3>5
  <2> QED BY <2>2, <2>3
<1>7. CASE EndBlink
  <2>1. CASE where["tick"] = "clear"
    <3>1. /\ where' = [where EXCEPT !["tick"] = "off"] /\ led' = led
          /\ led_blink' = [led_blink EXCEPT ![led["tick"]] = 0]
          /\ UNCHANGED <<lit, seen, blinks>>
      BY <1>7, <2>1 DEF EndBlink, ClearCounter
    <3>2. LedTypeOK'
      BY <3>1 DEF LedTypeOK
    <3>3. LastValueShort'
      BY <2>1, <3>1 DEF LedTypeOK, LastValueShort
    <3>4. NeverStuckLit'
      BY <2>1, <3>1 DEF LedTypeOK, NeverStuckLit
    <3> QED BY <3>2, <3>3, <3>4
  <2>2. CASE where["tick"] = "off"
    <3>1. NextLed /\ TurnOff /\ UNCHANGED <<seen, blinks>>
      BY <1>7, <2>2 DEF EndBlink
    <3>2. LedTypeOK'
      BY <3>1, NextLedPlace DEF TurnOff, LedTypeOK
    <3>3. LastValueShort'
      BY <2>2, <3>1 DEF TurnOff, LedTypeOK, LastValueShort
    <3>4. NeverStuckLit'
      BY <2>2, <3>1, NextLedPlace DEF TurnOff, LedTypeOK, NeverStuckLit
    <3> QED BY <3>2, <3>3, <3>4
  <2> QED BY <1>7, <2>1, <2>2 DEF EndBlink
<1>8. CASE TickEnd
  BY <1>8 DEF TickEnd, LedTypeOK, LastValueShort, NeverStuckLit
<1>9. CASE UNCHANGED ledVars
  BY <1>9 DEF ledVars, LedTypeOK, LastValueShort, NeverStuckLit
<1> QED BY <1>1, <1>2, <1>3, <1>4, <1>5, <1>6, <1>7, <1>8, <1>9 DEF LedNext, Tick

(* LedSpec satisfies the inductive invariant: the counters of led_blink (lib.c,  *)
(* handlers.c) never pass BlinkTicks + 2, so a byte is enough for 50 ticks.   *)
THEOREM LedInductive == LedSpec => []LedInv
BY LedInitInv, LedStepInv, PTL DEF LedSpec

(* Every variable keeps its type, with the bounds on the counters. *)
THEOREM LedTypeCorrect == LedSpec => []LedTypeOK
<1>1. LedInv => LedTypeOK
  BY DEF LedInv
<1> QED BY LedInductive, <1>1, PTL

(* For every number of LEDs and every blink time, a lit LED has a counter or  *)
(* someone at work on it (blink in lib.c against SysTick_Handler).            *)
THEOREM NobodyStaysLit == LedSpec => []NeverStuckLit
<1>1. LedInv => NeverStuckLit
  BY DEF LedInv
<1> QED BY LedInductive, <1>1, PTL
=============================================================================
