------------------------------- MODULE Clock -------------------------------
(***************************************************************************)
(* Time keeping: the counters that SysTick_Handler advances, the text that *)
(* mcu_time makes of them, and set_time.  SysTick preempts the main loop,  *)
(* the USB interrupt preempts both.  mcu_time reads the counters one by    *)
(* one, or the time of day through the static struct of gmtime, and formats *)
(* into a static buffer; both are shared by all its callers.  A date counts *)
(* here as the second it stands for (module Gmtime has the calendar).      *)
(***************************************************************************)
EXTENDS Integers

CONSTANTS
  SEC, TENTH, START,     \* 1000, 100 and the first ms_cnt of handlers.c
  MINUTE, HOUR, DAY,     \* seconds in each: 60, 3600, 86400
  UCHAR,                 \* how many values the local uchar days can have
  LedPeriod,             \* APP_LED_DELAY / 100
  Times,                 \* the times a user sets; set_time takes a sign, too
  MaxTicks               \* bound: how long the board runs

ASSUME UnitAssumption ==
  /\ SEC \in Nat \ {0} /\ TENTH \in Nat \ {0} /\ START \in 0 .. SEC - 1
  /\ MINUTE \in Nat \ {0} /\ HOUR \in Nat \ {0} /\ DAY \in Nat \ {0}
  /\ START % TENTH = 0 /\ SEC % TENTH = 0 /\ HOUR % MINUTE = 0 /\ DAY % HOUR = 0
  /\ UCHAR \in Nat \ {0} /\ LedPeriod \in Nat
  /\ Times \subseteq Int /\ MaxTicks \in Nat

VARIABLES
  milliseconds, seconds, time,   \* fields of status
  ms_cnt,                        \* handlers.c
  t, ledv, green,                \* _100_ms_tick, and the green LED
  isr,                           \* where SysTick_Handler is, or "off"
  pc,                            \* where the main loop is in a print, or "off"
  dated,                         \* whether it prints the date, or the uptime
  d, h, m, s, ms,                \* what its mcu_time has read
  tb, b,                         \* the static struct and buffer: what time they show
  ticks,                         \* history: SysTick interrupts so far
  setAt, setTo,                  \* history: seconds and time at the last set_time
  seen,                          \* history: seconds when the print read the clock first
  clean                          \* history: no other print began since then

counters == <<milliseconds, seconds, time, ms_cnt>>
led == <<t, ledv, green>>
print == <<pc, dated, d, h, m, s, ms, tb, b, seen, clean>>
past == <<ticks, setAt, setTo>>
vars == <<counters, led, isr, print, past>>

Init ==
  /\ milliseconds = 0 /\ seconds = 0 /\ time = 0
  /\ ms_cnt = START
  /\ t = 0 /\ ledv = 0 /\ green = 0
  /\ isr = "off" /\ pc = "off" /\ dated = FALSE
  /\ d = 0 /\ h = 0 /\ m = 0 /\ s = 0 /\ ms = 0 /\ tb = 0 /\ b = 0
  /\ ticks = 0 /\ setAt = 0 /\ setTo = 0 /\ seen = 0 /\ clean = TRUE

-----------------------------------------------------------------------------
\* _100_ms_tick, whose test looks at t before it is incremented.
LedTick ==
  IF t >= LedPeriod
    THEN t' = 0 /\ green' = ledv /\ ledv' = 1 - ledv
    ELSE t' = t + 1 /\ UNCHANGED <<ledv, green>>

\* A tick of SysTick_Handler up to its test for a full second, and a form whose
\* test looks at ms_cnt before it is incremented.
TickLate ==
  /\ isr = "off"
  /\ ticks < MaxTicks
  /\ ticks' = ticks + 1
  /\ milliseconds' = milliseconds + 1
  /\ IF ms_cnt % TENTH = 0 THEN LedTick ELSE UNCHANGED led
  /\ IF ms_cnt = SEC
       THEN ms_cnt' = 0 /\ isr' = "second"
       ELSE ms_cnt' = ms_cnt + 1 /\ isr' = "off"
  /\ UNCHANGED <<seconds, time, print, setAt, setTo>>

Tick ==
  /\ isr = "off"
  /\ ticks < MaxTicks
  /\ ticks' = ticks + 1
  /\ milliseconds' = milliseconds + 1
  /\ IF ms_cnt % TENTH = 0 THEN LedTick ELSE UNCHANGED led
  /\ IF ms_cnt + 1 = SEC
       THEN ms_cnt' = 0 /\ isr' = "second"
       ELSE ms_cnt' = ms_cnt + 1 /\ isr' = "off"
  /\ UNCHANGED <<seconds, time, print, setAt, setTo>>

\* status.seconds++
TickSecond ==
  /\ isr = "second"
  /\ seconds' = seconds + 1
  /\ isr' = "time"
  /\ UNCHANGED <<milliseconds, time, ms_cnt, led, print, past>>

\* if (status.time) status.time++, and a form without the test.  A time before
\* 1970 comes to 0 this way, and 0 is "not set".
TickTimeAlways ==
  /\ isr = "time"
  /\ time' = time + 1
  /\ isr' = "clear"
  /\ UNCHANGED <<milliseconds, seconds, ms_cnt, led, print, past>>

TickTime ==
  /\ isr = "time"
  /\ time' = IF time # 0 THEN time + 1 ELSE 0
  /\ isr' = "clear"
  /\ UNCHANGED <<milliseconds, seconds, ms_cnt, led, print, past>>

\* status.milliseconds = 0
TickClear ==
  /\ isr = "clear"
  /\ milliseconds' = 0
  /\ isr' = "off"
  /\ UNCHANGED <<seconds, time, ms_cnt, led, print, past>>

SysTick == Tick \/ TickSecond \/ TickTime \/ TickClear

-----------------------------------------------------------------------------
\* The main loop prints between interrupts.  With a time set, mcu_time(0) calls
\* gmtime, which leaves its result in the static struct, and reads that after it.
\* A negative time is a date before 1970.
Main == isr = "off"

ReadTime ==
  /\ Main /\ pc = "off"
  /\ time # 0
  /\ tb' = time
  /\ dated' = TRUE
  /\ pc' = "date"
  /\ seen' = seconds
  /\ clean' = TRUE
  /\ UNCHANGED <<counters, led, isr, d, h, m, s, ms, b, past>>

ReadDate ==
  /\ Main /\ pc = "date"
  /\ s' = tb
  /\ pc' = "milliseconds"
  /\ UNCHANGED <<counters, led, isr, dated, d, h, m, ms, tb, b, seen, clean, past>>

\* mcu_time(1), and mcu_time(0) without a time, read the seconds four times and
\* the milliseconds last.
ReadDays ==
  /\ Main /\ pc = "off"
  /\ d' = (seconds \div DAY) % UCHAR
  /\ pc' = "hours"
  /\ seen' = seconds
  /\ clean' = TRUE
  /\ UNCHANGED <<counters, led, isr, dated, h, m, s, ms, tb, b, past>>

\* Forms that forget to take off the whole days and hours.
ReadHoursNoWrap ==
  /\ Main /\ pc = "hours"
  /\ h' = seconds \div HOUR
  /\ pc' = "minutes"
  /\ UNCHANGED <<counters, led, isr, dated, d, m, s, ms, tb, b, seen, clean, past>>

ReadMinutesNoWrap ==
  /\ Main /\ pc = "minutes"
  /\ m' = seconds \div MINUTE
  /\ pc' = "seconds"
  /\ UNCHANGED <<counters, led, isr, dated, d, h, s, ms, tb, b, seen, clean, past>>

ReadHours ==
  /\ Main /\ pc = "hours"
  /\ h' = (seconds \div HOUR) % (DAY \div HOUR)
  /\ pc' = "minutes"
  /\ UNCHANGED <<counters, led, isr, dated, d, m, s, ms, tb, b, seen, clean, past>>

ReadMinutes ==
  /\ Main /\ pc = "minutes"
  /\ m' = (seconds \div MINUTE) % (HOUR \div MINUTE)
  /\ pc' = "seconds"
  /\ UNCHANGED <<counters, led, isr, dated, d, h, s, ms, tb, b, seen, clean, past>>

ReadSeconds ==
  /\ Main /\ pc = "seconds"
  /\ s' = seconds % MINUTE
  /\ pc' = "milliseconds"
  /\ UNCHANGED <<counters, led, isr, dated, d, h, m, ms, tb, b, seen, clean, past>>

ReadMilliseconds ==
  /\ Main /\ pc = "milliseconds"
  /\ ms' = milliseconds
  /\ pc' = "format"
  /\ UNCHANGED <<counters, led, isr, dated, d, h, m, s, tb, b, seen, clean, past>>

\* sprintf into the static buffer, a date has only the part s; with mcu_time go
\* its locals.
Format ==
  /\ Main /\ pc = "format"
  /\ b' = (d * DAY + h * HOUR + m * MINUTE + s) * SEC + ms
  /\ pc' = "print"
  /\ d' = 0 /\ h' = 0 /\ m' = 0 /\ s' = 0 /\ ms' = 0 /\ seen' = 0
  /\ UNCHANGED <<counters, led, isr, dated, tb, clean, past>>

\* vsnprintf copies the buffer out; what stays in the statics is never read again.
PrintTime ==
  /\ Main /\ pc = "print"
  /\ pc' = "off" /\ dated' = FALSE
  /\ tb' = 0 /\ b' = 0 /\ clean' = TRUE
  /\ UNCHANGED <<counters, led, isr, d, h, m, s, ms, seen, past>>

PrintStep == PrintTime \/ Format \/ ReadMilliseconds \/ ReadSeconds \/ ReadMinutes
           \/ ReadHours \/ ReadDays \/ ReadDate \/ ReadTime

\* What mcu_time(1) makes of the counters when nothing interrupts it, and mcu_time
\* of the time of day.
Now == (seconds % (UCHAR * DAY)) * SEC + milliseconds
TimeNow == time * SEC + milliseconds

\* An interrupt prints a time of its own through the same statics: the user button
\* inside SysTick_Handler before its counting, the USB banner at any moment.  Of a
\* print of the main loop it changes the date between gmtime and its reader, and
\* the text between sprintf and vsnprintf; what it leaves at other moments is
\* overwritten before it is read.  One that falls into a sprintf of the main loop
\* leaves a mixture, which the buffer of this module takes to be the later text.
InterruptPrint ==
  /\ pc # "off"
  /\ tb' = IF pc = "date" /\ time # 0 THEN time ELSE tb
  /\ b' = IF pc # "print" THEN b ELSE IF time # 0 THEN TimeNow ELSE Now
  /\ clean' = FALSE
  /\ UNCHANGED <<counters, led, isr, pc, dated, d, h, m, s, ms, seen, past>>

\* set_time: status.time = tm
SetTime ==
  /\ Main /\ pc = "off"
  /\ time' \in Times
  /\ setAt' = seconds /\ setTo' = time'
  /\ UNCHANGED <<milliseconds, seconds, ms_cnt, led, isr, print, ticks>>

Next == SysTick \/ PrintStep \/ InterruptPrint \/ SetTime

Spec == Init /\ [][Next]_vars

-----------------------------------------------------------------------------
TypeOK ==
  /\ milliseconds \in 0 .. SEC
  /\ ms_cnt \in 0 .. SEC - 1
  /\ seconds \in Nat /\ time \in Int
  /\ t \in 0 .. LedPeriod /\ ledv \in 0 .. 1 /\ green \in 0 .. 1
  /\ isr \in {"off", "second", "time", "clear"}
  /\ pc \in {"off", "date", "hours", "minutes", "seconds", "milliseconds", "format", "print"}
  /\ dated \in BOOLEAN
  /\ d \in Nat /\ h \in Nat /\ m \in Nat /\ ms \in Nat
  /\ s \in Int /\ tb \in Int /\ b \in Int
  /\ ticks \in 0 .. MaxTicks /\ seen \in 0 .. seconds /\ clean \in BOOLEAN
  /\ setAt \in 0 .. seconds /\ setTo \in Times \union {0}

\* Between two ticks the counters tell the number of ticks: the uptime is that
\* number until the first second is full, and START more from then on, because
\* ms_cnt starts at START and the first second is that much shorter.  What an
\* interrupt sees between two stores of SysTick_Handler is less than one second
\* and START wrong, and never behind.  The time of day set by the user advances
\* with the uptime seconds, but one set before 1970 stops for good when it has
\* come to 0: the device then says "not set", as it does of a time set to 0.
TimeAfter(n) == IF setTo <= 0 /\ setTo + n >= 0 THEN 0 ELSE setTo + n
CountersTrue ==
  LET uptime == seconds * SEC + milliseconds
  IN  /\ isr = "off" => /\ uptime = ticks + (IF seconds = 0 THEN 0 ELSE START)
                        /\ time = TimeAfter(seconds - setAt)
      /\ uptime \in ticks .. ticks + SEC + START

\* The LED is switched at every (LedPeriod + 1)th tenth of a second since the
\* start, and second boundaries, where ms_cnt starts over, do not disturb it: the
\* tick that starts it over is not counted as a tenth twice or left out.
Tenths == (ticks + START + TENTH - 1) \div TENTH - START \div TENTH
LedCadence ==
  /\ t = Tenths % (LedPeriod + 1)
  /\ ledv = (Tenths \div (LedPeriod + 1)) % 2

\* The time that the main loop prints, uptime or date, is never ahead of the clock,
\* although seconds may pass between the reads, days wraps and a time before 1970
\* may have stopped at 0 meanwhile.
PrintNotAhead ==
  pc = "print" /\ clean => b <= IF dated THEN TimeNow ELSE seconds * SEC + milliseconds

\* It is the exact time of the last read when no second has passed since the
\* first one.
PrintExact ==
  [][ReadMilliseconds /\ seen = seconds =>
       (d * DAY + h * HOUR + m * MINUTE + s) * SEC + ms' = IF dated THEN TimeNow ELSE Now]_vars
=============================================================================
