---------------------------- MODULE ClockProofs ----------------------------
(* Proofs about the clock, for every length of the units that divide each    *)
(* other, every first value of ms_cnt and every period of the LED; and about *)
(* gmtime, for every day before and after 1970 and every second of it.       *)
EXTENDS Clock, Gmtime, Integers, TLAPS

-----------------------------------------------------------------------------
(* Quotients and remainders. *)
LEMMA DivMod ==
  ASSUME NEW a \in Nat, NEW n \in Nat \ {0}
  PROVE  a \div n \in Nat /\ a % n \in 0 .. n - 1 /\ a = n * (a \div n) + (a % n)
OBVIOUS

LEMMA DivModOf ==
  ASSUME NEW n \in Nat \ {0}, NEW q \in Nat, NEW r \in 0 .. n - 1
  PROVE  (n * q + r) \div n = q /\ (n * q + r) % n = r
OBVIOUS

LEMMA NextDivMod ==
  ASSUME NEW a \in Nat, NEW n \in Nat \ {0}
  PROVE  IF (a % n) + 1 = n THEN (a + 1) % n = 0 /\ (a + 1) \div n = (a \div n) + 1
         ELSE (a + 1) % n = (a % n) + 1 /\ (a + 1) \div n = a \div n
<1> DEFINE q == a \div n
           r == a % n
<1>1. q \in Nat /\ r \in 0 .. n - 1 /\ a = n * q + r
  BY DivMod
<1> HIDE DEF q, r
<1>2. CASE r + 1 = n
  <2>1. a + 1 = n * (q + 1) + 0
    BY <1>1, <1>2
  <2>2. (n * (q + 1) + 0) \div n = q + 1 /\ (n * (q + 1) + 0) % n = 0
    BY <1>1, DivModOf
  <2> QED BY <1>2, <2>1, <2>2 DEF q, r
<1>3. CASE r + 1 # n
  <2>1. a + 1 = n * q + (r + 1) /\ r + 1 \in 0 .. n - 1
    BY <1>1, <1>3
  <2>2. (n * q + (r + 1)) \div n = q /\ (n * q + (r + 1)) % n = r + 1
    BY <1>1, <2>1, DivModOf
  <2> QED BY <1>3, <2>1, <2>2 DEF q, r
<1> QED BY <1>2, <1>3

LEMMA Divides ==
  ASSUME NEW a \in Nat \ {0}, NEW n \in Nat \ {0}, a % n = 0
  PROVE  a \div n \in Nat \ {0} /\ a = (a \div n) * n
BY DivMod

(* How often n goes into a number does not fall as the number grows. *)
LEMMA DivGrows ==
  ASSUME NEW a \in Nat, NEW c \in Nat, a <= c, NEW n \in Nat \ {0}
  PROVE  n * (a \div n) <= n * (c \div n)
<1> DEFINE qa == a \div n
           qc == c \div n
<1>1. /\ qa \in Nat /\ a % n \in 0 .. n - 1 /\ a = n * qa + (a % n)
      /\ qc \in Nat /\ c % n \in 0 .. n - 1 /\ c = n * qc + (c % n)
  BY DivMod
<1> HIDE DEF qa, qc
<1>2. SUFFICES ASSUME qc < qa PROVE FALSE
  <2>1. qa <= qc => n * qa <= n * qc
    BY <1>1
  <2> QED BY <1>1, <2>1 DEF qa, qc
<1>3. n * (qc + 1) <= n * qa /\ n * (qc + 1) = n * qc + n
  BY <1>1, <1>2
<1> QED BY <1>1, <1>3

(* A digit of a number to mixed radices: whole units of n are the whole units *)
(* of k * n and the digit.                                                   *)
LEMMA Digit ==
  ASSUME NEW a \in Nat, NEW n \in Nat \ {0}, NEW k \in Nat \ {0}
  PROVE  n * (a \div n) = (k * n) * (a \div (k * n)) + ((a \div n) % k) * n
<1> DEFINE q == a \div n
           rest == a % n
           p == q \div k
           digit == q % k
<1>1. q \in Nat /\ rest \in 0 .. n - 1 /\ a = n * q + rest
  BY DivMod
<1>2. p \in Nat /\ digit \in 0 .. k - 1 /\ q = k * p + digit
  BY <1>1, DivMod
<1> HIDE DEF q, rest, p, digit
<1>3. n * q = (k * n) * p + digit * n
  <2>1. n * q = n * (k * p) + n * digit
    BY <1>1, <1>2
  <2>2. n * (k * p) = (k * n) * p
    BY <1>2
  <2> QED BY <1>2, <2>1, <2>2
<1>4. a = (k * n) * p + (digit * n + rest)
  <2> DEFINE whole == (k * n) * p
             part == digit * n
  <2>1. whole \in Nat /\ part \in Nat
    BY <1>2
  <2> HIDE DEF whole, part
  <2>2. n * q = whole + part
    BY <1>3 DEF whole, part
  <2>3. a = whole + (part + rest)
    BY <1>1, <2>1, <2>2
  <2> QED BY <2>3 DEF whole, part
<1>5. k * n \in Nat \ {0} /\ digit * n + rest \in 0 .. k * n - 1
  <2>1. digit + 1 <= k => (digit + 1) * n <= k * n
    BY <1>2
  <2>2. digit * n + n <= k * n
    BY <1>2, <2>1
  <2> QED BY <1>1, <1>2, <2>2
<1>6. a \div (k * n) = p
  <2> DEFINE N == k * n
             R == digit * n + rest
  <2> HIDE DEF N, R
  <2>1. N \in Nat \ {0} /\ R \in 0 .. N - 1 /\ a = N * p + R
    BY <1>4, <1>5 DEF N, R
  <2>2. (N * p + R) \div N = p
    BY <1>2, <2>1, DivModOf
  <2> QED BY <2>1, <2>2 DEF N
<1> QED BY <1>3, <1>6 DEF q, digit

-----------------------------------------------------------------------------
(* The inductive invariant. *)

(* ms_cnt is the rest of the ticks, counted from START, that fills no second; *)
(* milliseconds is that rest, less START in the first second, until           *)
(* SysTick_Handler has stored it.                                            *)
CountsTicks ==
  /\ START + ticks = (seconds + IF isr = "second" THEN 1 ELSE 0) * SEC + ms_cnt
  /\ isr # "off" => ms_cnt = 0
  /\ isr \in {"time", "clear"} => seconds > 0
  /\ milliseconds =
       IF isr = "off" THEN IF seconds = 0 THEN ms_cnt - START ELSE ms_cnt
       ELSE IF seconds = (IF isr = "second" THEN 0 ELSE 1) THEN SEC - START ELSE SEC

(* The time of day has counted the seconds since it was set, up to 0.         *)
TimeOfDay ==
  /\ time = TimeAfter(seconds - setAt - (IF isr = "time" THEN 1 ELSE 0))
  /\ isr \in {"time", "clear"} => setAt < seconds

(* What a clock showed before the second that SysTick_Handler is storing; a  *)
(* time of day that came to 0 was before 1970.                               *)
UptimeWas == (seconds - (IF isr \in {"time", "clear"} THEN 1 ELSE 0)) * SEC + milliseconds
TimeWas == IF time = 0 THEN 0
           ELSE (time - (IF isr = "clear" THEN 1 ELSE 0)) * SEC + milliseconds

(* What is read of a time at each stage is behind it, in whole units, ... *)
PartsBehind ==
  /\ pc \in {"off", "hours", "minutes", "seconds"} => ~dated
  /\ pc \in {"off", "print"} => d = 0
  /\ pc \in {"off", "print", "hours"} => h = 0
  /\ pc \in {"off", "print", "hours", "minutes"} => m = 0
  /\ pc \in {"off", "print", "hours", "minutes", "seconds"} => s = 0
  /\ pc = "hours" => d * DAY <= DAY * (seconds \div DAY)
  /\ pc = "minutes" => d * DAY + h * HOUR <= HOUR * (seconds \div HOUR)
  /\ pc = "seconds" => d * DAY + h * HOUR + m * MINUTE <= MINUTE * (seconds \div MINUTE)
  /\ pc = "milliseconds" /\ ~dated => d * DAY + h * HOUR + m * MINUTE + s <= seconds
  /\ pc = "format" /\ ~dated => (d * DAY + h * HOUR + m * MINUTE + s) * SEC + ms <= UptimeWas
  /\ pc = "print" /\ ~dated /\ clean => b <= UptimeWas

DateBehind ==
  /\ pc = "date" => dated
  /\ dated => d = 0 /\ h = 0 /\ m = 0
  /\ pc = "date" /\ clean => tb <= time /\ tb # 0
  /\ pc = "milliseconds" /\ dated /\ clean => s <= time /\ s # 0
  /\ pc = "format" /\ dated /\ clean => s * SEC + ms <= TimeWas
  /\ pc = "print" /\ dated /\ clean => b <= TimeWas

(* ... and equal to it as long as no second has passed, *)
PartsExact ==
  LET day == (seconds \div DAY) % UCHAR
      hour == (seconds \div HOUR) % (DAY \div HOUR)
      minute == (seconds \div MINUTE) % (HOUR \div MINUTE)
  IN  /\ pc \in {"hours", "minutes", "seconds", "milliseconds"} /\ seen = seconds /\ ~dated => d = day
      /\ pc \in {"minutes", "seconds", "milliseconds"} /\ seen = seconds /\ ~dated => h = hour
      /\ pc \in {"seconds", "milliseconds"} /\ seen = seconds /\ ~dated => m = minute
      /\ pc = "milliseconds" /\ seen = seconds /\ ~dated => s = seconds % MINUTE
      /\ pc = "date" /\ seen = seconds => tb = time
      /\ pc = "milliseconds" /\ seen = seconds /\ dated => s = time

(* which SysTick_Handler, once it has stored a second, has made impossible. *)
SeenBefore == isr \in {"time", "clear"} => seen < seconds

Counting == CountsTicks /\ TimeOfDay /\ LedCadence
Printing == PartsBehind /\ DateBehind /\ PartsExact /\ SeenBefore
IInv == TypeOK /\ Counting /\ Printing

LEMMA InitInv == Init => IInv
<1> SUFFICES ASSUME Init PROVE IInv
  OBVIOUS
<1> USE UnitAssumption DEF Init
<1>1. TypeOK
  <2>1. dated \in BOOLEAN /\ clean \in BOOLEAN
    BY Zenon
  <2>2. setTo \in Times \union {0} /\ setAt \in 0 .. seconds /\ seen \in 0 .. seconds
    OBVIOUS
  <2> QED BY <2>1, <2>2 DEF TypeOK
<1>2. CountsTicks /\ TimeOfDay
  BY DEF CountsTicks, TimeOfDay, TimeAfter
<1>3. LedCadence
  <2>1. START = TENTH * (START \div TENTH)
    BY DivMod
  <2>2. START \div TENTH \in Nat
    BY DivMod
  <2>3. (TENTH * (START \div TENTH) + (TENTH - 1)) \div TENTH = START \div TENTH
    BY <2>2, DivModOf
  <2>4. Tenths = 0
    <3>1. ticks + START + TENTH - 1 = TENTH * (START \div TENTH) + (TENTH - 1)
      <4>1. ticks + START + TENTH - 1 = START + (TENTH - 1)
        OBVIOUS
      <4> QED BY <2>1, <4>1, Zenon
    <3> QED BY <2>2, <2>3, <3>1 DEF Tenths
  <2>5. 0 % (LedPeriod + 1) = 0 /\ 0 \div (LedPeriod + 1) = 0 /\ 0 % 2 = 0
    <3>1. 0 = (LedPeriod + 1) * 0 + 0 /\ 0 \in 0 .. (LedPeriod + 1) - 1
      OBVIOUS
    <3> QED BY <3>1, DivModOf
  <2> QED BY <2>4, <2>5 DEF LedCadence
<1>4. PartsBehind /\ DateBehind /\ PartsExact /\ SeenBefore
  BY DEF PartsBehind, DateBehind, PartsExact, SeenBefore
<1> QED BY <1>1, <1>2, <1>3, <1>4 DEF IInv, Counting, Printing

(* A hundred milliseconds pass at the ticks that find ms_cnt at a multiple of *)
(* TENTH, also across the seconds.                                           *)
LEMMA TenthPasses ==
  ASSUME IInv, isr = "off", ticks' = ticks + 1
  PROVE  /\ Tenths \in Nat
         /\ Tenths' = IF ms_cnt % TENTH = 0 THEN Tenths + 1 ELSE Tenths
<1> DEFINE x == START + ticks
           q == x \div TENTH
           r == x % TENTH
           k == SEC \div TENTH
           q0 == START \div TENTH
<1>1. /\ x \in Nat /\ ms_cnt \in Nat /\ seconds \in Nat
      /\ TENTH \in Nat \ {0} /\ SEC \in Nat \ {0} /\ START \in Nat
      /\ x = seconds * SEC + ms_cnt
  BY UnitAssumption DEF IInv, TypeOK, Counting, CountsTicks
<1>2. q \in Nat /\ r \in 0 .. TENTH - 1 /\ x = TENTH * q + r
  BY <1>1, DivMod
<1>3. k \in Nat \ {0} /\ SEC = k * TENTH
  BY <1>1, UnitAssumption, Divides
<1>4. q0 \in Nat /\ START = TENTH * q0
  <2>1. q0 \in Nat /\ START = TENTH * q0 + (START % TENTH)
    BY <1>1, DivMod
  <2>2. START % TENTH = 0
    BY UnitAssumption
  <2> HIDE DEF q0
  <2> QED BY <1>1, <2>1, <2>2
<1>5. ms_cnt % TENTH = r
  <2> DEFINE c == ms_cnt \div TENTH
             e == ms_cnt % TENTH
  <2>1. c \in Nat /\ e \in 0 .. TENTH - 1 /\ ms_cnt = TENTH * c + e
    BY <1>1, DivMod
  <2> HIDE DEF x, q, r, k, c, e
  <2>2. seconds * SEC = TENTH * (seconds * k)
    BY <1>1, <1>3
  <2>3. x = TENTH * (seconds * k + c) + e
    <3>1. seconds * k \in Nat
      BY <1>1, <1>3
    <3>2. TENTH * (seconds * k + c) = TENTH * (seconds * k) + TENTH * c
      BY <1>1, <2>1, <3>1
    <3> QED BY <1>1, <2>1, <2>2, <3>1, <3>2
  <2>4. seconds * k + c \in Nat
    BY <1>1, <1>3, <2>1
  <2>5. x % TENTH = e
    <3> DEFINE f == seconds * k + c
    <3>1. f \in Nat /\ x = TENTH * f + e
      BY <2>3, <2>4
    <3> HIDE DEF f
    <3> QED BY <1>1, <2>1, <3>1, DivModOf
  <2> QED BY <2>5 DEF r, e
<1>6. Tenths = (x + (TENTH - 1)) \div TENTH - q0
  BY <1>1 DEF Tenths, IInv, TypeOK
<1>7. Tenths' = (x + TENTH) \div TENTH - q0
  <2>1. ticks' + START + TENTH - 1 = x + TENTH
    BY <1>1 DEF IInv, TypeOK
  <2> QED BY <2>1 DEF Tenths
<1>8. q >= q0
  <2>1. TENTH * (START \div TENTH) <= TENTH * (x \div TENTH)
    BY <1>1, DivGrows DEF IInv, TypeOK
  <2> HIDE DEF q, q0, x
  <2>2. q < q0 => TENTH * (q + 1) <= TENTH * q0 /\ TENTH * (q + 1) = TENTH * q + TENTH
    BY <1>1, <1>2, <1>4
  <2> QED BY <1>1, <1>2, <1>4, <2>1, <2>2 DEF q, q0
<1> HIDE DEF x, q, r, q0
<1>9. (x + TENTH) \div TENTH = q + 1
  <2>1. x + TENTH = TENTH * (q + 1) + r
    BY <1>1, <1>2
  <2> QED BY <1>1, <1>2, <2>1, DivModOf
<1>10. (x + (TENTH - 1)) \div TENTH = IF r = 0 THEN q ELSE q + 1
  <2>1. CASE r = 0
    <3>1. x + (TENTH - 1) = TENTH * q + (TENTH - 1)
      BY <1>1, <1>2, <2>1
    <3> QED BY <1>1, <1>2, <2>1, <3>1, DivModOf
  <2>2. CASE r # 0
    <3>1. x + (TENTH - 1) = TENTH * (q + 1) + (r - 1) /\ r - 1 \in 0 .. TENTH - 1
      BY <1>1, <1>2, <2>2
    <3>2. q + 1 \in Nat
      BY <1>2
    <3> QED BY <1>1, <2>2, <3>1, <3>2, DivModOf
  <2> QED BY <2>1, <2>2
<1> QED BY <1>2, <1>4, <1>5, <1>6, <1>7, <1>8, <1>9, <1>10

(* The units and their ratios. *)
LEMMA Units ==
  /\ SEC \in Nat \ {0} /\ MINUTE \in Nat \ {0} /\ HOUR \in Nat \ {0} /\ DAY \in Nat \ {0}
  /\ UCHAR \in Nat \ {0}
  /\ DAY \div HOUR \in Nat \ {0} /\ DAY = (DAY \div HOUR) * HOUR
  /\ HOUR \div MINUTE \in Nat \ {0} /\ HOUR = (HOUR \div MINUTE) * MINUTE
BY UnitAssumption, Divides

LEMMA TypeStep == IInv /\ [Next]_vars => TypeOK'
<1> SUFFICES ASSUME IInv, [Next]_vars PROVE TypeOK'
  OBVIOUS
<1> USE UnitAssumption DEF IInv, TypeOK, counters, led, print, past
<1>1. CASE Tick
  <2>1. milliseconds' \in 0 .. SEC /\ ms_cnt' \in 0 .. SEC - 1 /\ isr' \in {"off", "second"}
    BY <1>1 DEF Tick, Counting, CountsTicks
  <2>2. t' \in 0 .. LedPeriod /\ ledv' \in 0 .. 1 /\ green' \in 0 .. 1
    BY <1>1 DEF Tick, LedTick
  <2>3. ticks' \in 0 .. MaxTicks
    BY <1>1 DEF Tick
  <2> QED BY <1>1, <2>1, <2>2, <2>3 DEF Tick
<1>2. CASE TickSecond
  BY <1>2 DEF TickSecond
<1>3. CASE TickTime
  BY <1>3 DEF TickTime
<1>4. CASE TickClear
  BY <1>4 DEF TickClear
<1>5. CASE ReadTime
  <2>1. clean' \in BOOLEAN /\ dated' \in BOOLEAN
    BY <1>5 DEF ReadTime
  <2> QED BY <1>5, <2>1 DEF ReadTime
<1>6. CASE ReadDate
  BY <1>6 DEF ReadDate
<1>7. CASE ReadDays
  <2>1. clean' \in BOOLEAN
    BY <1>7 DEF ReadDays
  <2>2. (seconds \div DAY) % UCHAR \in Nat
    BY Units, DivMod
  <2> QED BY <1>7, <2>1, <2>2 DEF ReadDays
<1>8. CASE ReadHours
  <2>1. (seconds \div HOUR) % (DAY \div HOUR) \in Nat
    BY Units, DivMod
  <2> QED BY <1>8, <2>1 DEF ReadHours
<1>9. CASE ReadMinutes
  <2>1. (seconds \div MINUTE) % (HOUR \div MINUTE) \in Nat
    BY Units, DivMod
  <2> QED BY <1>9, <2>1 DEF ReadMinutes
<1>10. CASE ReadSeconds
  <2>1. seconds % MINUTE \in Nat
    BY Units, DivMod
  <2> QED BY <1>10, <2>1 DEF ReadSeconds
<1>11. CASE ReadMilliseconds
  BY <1>11 DEF ReadMilliseconds
<1>12. CASE Format
  BY <1>12 DEF Format
<1>13. CASE PrintTime
  <2>1. clean' \in BOOLEAN /\ dated' \in BOOLEAN
    BY <1>13 DEF PrintTime
  <2> QED BY <1>13, <2>1 DEF PrintTime
<1>14. CASE InterruptPrint
  <2>1. clean' \in BOOLEAN
    BY <1>14 DEF InterruptPrint
  <2>2. Now \in Int /\ TimeNow \in Int
    <3>1. UCHAR * DAY \in Nat \ {0}
      OBVIOUS
    <3>2. seconds % (UCHAR * DAY) \in Nat
      BY <3>1, DivMod
    <3> QED BY <3>2 DEF Now, TimeNow
  <2>3. tb' \in Int /\ b' \in Int
    BY <1>14, <2>2 DEF InterruptPrint
  <2> QED BY <1>14, <2>1, <2>3 DEF InterruptPrint
<1>15. CASE SetTime
  BY <1>15 DEF SetTime
<1>16. CASE UNCHANGED vars
  BY <1>16 DEF vars
<1> QED
  BY <1>1, <1>2, <1>3, <1>4, <1>5, <1>6, <1>7, <1>8, <1>9, <1>10, <1>11, <1>12, <1>13, <1>14,
     <1>15, <1>16 DEF Next, SysTick, PrintStep

(* The flip-flop of the LED: a tenth later the quotient and the rest of the   *)
(* tenths by its period are those that _100_ms_tick makes of t and ledv.     *)
LEMMA LedStep ==
  ASSUME IInv, LedTick, Tenths \in Nat, Tenths' = Tenths + 1
  PROVE  LedCadence'
<1> DEFINE n == LedPeriod + 1
           q == Tenths \div n
<1>1. /\ n \in Nat \ {0} /\ q \in Nat /\ t = Tenths % n /\ t \in 0 .. n - 1
      /\ ledv = q % 2
  <2>1. n \in Nat \ {0}
    BY UnitAssumption
  <2> QED BY <2>1, DivMod DEF IInv, Counting, LedCadence
<1> HIDE DEF n, q
<1>2. CASE t = LedPeriod
  <2>1. (Tenths % n) + 1 = n
    BY <1>1, <1>2, UnitAssumption DEF n
  <2>2. (Tenths + 1) % n = 0 /\ (Tenths + 1) \div n = q + 1
    BY <1>1, <2>1, NextDivMod DEF q
  <2>3. (q + 1) % 2 = 1 - (q % 2)
    BY <1>1
  <2>4. t' = 0 /\ ledv' = 1 - ledv
    BY <1>2, UnitAssumption DEF LedTick
  <2>5. t' = Tenths' % n /\ ledv' = (Tenths' \div n) % 2
    BY <1>1, <2>2, <2>3, <2>4
  <2> QED BY <2>5 DEF LedCadence, n
<1>3. CASE t # LedPeriod
  <2>1. (Tenths % n) + 1 # n /\ t < LedPeriod
    BY <1>1, <1>3, UnitAssumption DEF n
  <2>2. (Tenths + 1) % n = (Tenths % n) + 1 /\ (Tenths + 1) \div n = q
    BY <1>1, <2>1, NextDivMod DEF q
  <2>3. t' = t + 1 /\ ledv' = ledv
    BY <1>1, <2>1, UnitAssumption DEF LedTick
  <2>4. t' = Tenths' % n /\ ledv' = (Tenths' \div n) % 2
    BY <1>1, <2>2, <2>3
  <2> QED BY <2>4 DEF LedCadence, n
<1> QED BY <1>2, <1>3

LEMMA CountingStep == IInv /\ [Next]_vars => Counting'
<1> SUFFICES ASSUME IInv, [Next]_vars PROVE Counting'
  OBVIOUS
<1> USE UnitAssumption DEF counters, led, print, past
<1>a. TypeOK /\ CountsTicks /\ TimeOfDay /\ LedCadence
  BY DEF IInv, Counting
<1>b. ASSUME UNCHANGED <<ticks, led>> PROVE LedCadence'
  <2>1. Tenths' = Tenths
    BY <1>b DEF Tenths
  <2> QED BY <1>a, <1>b, <2>1 DEF LedCadence
<1>1. CASE Tick
  <2>1. CountsTicks'
    BY <1>1, <1>a DEF Tick, TypeOK, CountsTicks
  <2>2. TimeOfDay'
    BY <1>1, <1>a DEF Tick, TimeOfDay, TimeAfter
  <2>3. LedCadence'
    <3>1. /\ Tenths \in Nat
          /\ Tenths' = IF ms_cnt % TENTH = 0 THEN Tenths + 1 ELSE Tenths
      BY <1>1, TenthPasses DEF Tick
    <3>2. CASE ms_cnt % TENTH = 0
      BY <1>1, <3>1, <3>2, LedStep DEF Tick
    <3>3. CASE ms_cnt % TENTH # 0
      BY <1>1, <1>a, <3>1, <3>3 DEF Tick, LedCadence
    <3> QED BY <3>2, <3>3
  <2> QED BY <2>1, <2>2, <2>3 DEF Counting
<1>2. CASE TickSecond
  <2>1. CountsTicks'
    BY <1>2, <1>a DEF TickSecond, TypeOK, CountsTicks
  <2>2. TimeOfDay'
    BY <1>2, <1>a DEF TickSecond, TypeOK, TimeOfDay, TimeAfter
  <2> QED BY <1>2, <1>b, <2>1, <2>2 DEF TickSecond, Counting
<1>3. CASE TickTime
  <2>1. CountsTicks'
    BY <1>3, <1>a DEF TickTime, TypeOK, CountsTicks
  <2>2. TimeOfDay'
    <3>1. /\ isr = "time" /\ isr' = "clear" /\ UNCHANGED <<seconds, setAt, setTo>>
          /\ time' = IF time # 0 THEN time + 1 ELSE 0
      BY <1>3 DEF TickTime
    <3> DEFINE n == seconds - setAt - 1
    <3>2. n \in Nat /\ setTo \in Int /\ time = TimeAfter(n) /\ setAt < seconds
      BY <1>a, <3>1 DEF TypeOK, TimeOfDay
    <3>3. seconds - setAt - 0 = n + 1
      BY <1>a DEF TypeOK
    <3> HIDE DEF n
    <3>4. time' = IF setTo <= 0 /\ setTo + (n + 1) >= 0 THEN 0 ELSE setTo + (n + 1)
      BY <3>1, <3>2 DEF TimeAfter
    <3>5. TimeAfter(seconds - setAt - 0)'
            = IF setTo <= 0 /\ setTo + (n + 1) >= 0 THEN 0 ELSE setTo + (n + 1)
      BY <3>1, <3>3 DEF TimeAfter
    <3> QED BY <3>1, <3>2, <3>4, <3>5 DEF TimeOfDay
  <2> QED BY <1>3, <1>b, <2>1, <2>2 DEF TickTime, Counting
<1>4. CASE TickClear
  <2>1. CountsTicks'
    BY <1>4, <1>a DEF TickClear, TypeOK, CountsTicks
  <2>2. TimeOfDay'
    BY <1>4, <1>a DEF TickClear, TypeOK, TimeOfDay, TimeAfter
  <2> QED BY <1>4, <1>b, <2>1, <2>2 DEF TickClear, Counting
<1>5. CASE SetTime
  <2>1. CountsTicks'
    BY <1>5, <1>a DEF SetTime, CountsTicks
  <2>2. time' \in Int /\ setTo' = time' /\ setAt' = seconds /\ seconds' = seconds /\ isr' = "off"
    BY <1>5 DEF SetTime, Main
  <2>3. seconds \in Nat
    BY <1>a DEF TypeOK
  <2>4. TimeOfDay'
    <3>1. seconds' - setAt' - 0 = 0
      BY <2>2, <2>3
    <3>2. \A at0 \in Int : (IF at0 <= 0 /\ at0 + 0 >= 0 THEN 0 ELSE at0 + 0) = at0
      OBVIOUS
    <3>3. TimeAfter(seconds - setAt - 0)' = time'
      BY <2>2, <3>1, <3>2, Zenon DEF TimeAfter
    <3> QED BY <2>2, <3>3 DEF TimeOfDay
  <2> QED BY <1>5, <1>b, <2>1, <2>4 DEF SetTime, Counting
<1>6. CASE UNCHANGED <<counters, led, isr, past>>
  BY <1>6, <1>a, <1>b DEF CountsTicks, TimeOfDay, TimeAfter, Counting
<1> QED
  BY <1>1, <1>2, <1>3, <1>4, <1>5, <1>6
  DEF Next, SysTick, PrintStep, ReadTime, ReadDate, ReadDays, ReadHours, ReadMinutes, ReadSeconds,
      ReadMilliseconds, Format, PrintTime, InterruptPrint, vars

(* No step of SysTick_Handler turns a clock back. *)
LEMMA ClocksAdvance ==
  ASSUME IInv, SysTick
  PROVE  /\ seconds' \in {seconds, seconds + 1} /\ time' \in {time, time + 1}
         /\ UptimeWas \in Int /\ UptimeWas' \in Int /\ UptimeWas <= UptimeWas'
         /\ TimeWas \in Int /\ TimeWas' \in Int /\ TimeWas <= TimeWas'
<1>1. /\ SEC \in Nat /\ seconds \in Nat /\ time \in Int /\ milliseconds \in 0 .. SEC
      /\ isr \in {"off", "second", "time", "clear"}
  BY UnitAssumption DEF IInv, TypeOK
<1>2. /\ (seconds + 1 - 1) * SEC = seconds * SEC /\ (time + 1 - 1) * SEC = time * SEC
      /\ (seconds - 1) * SEC + SEC = seconds * SEC /\ (time - 1) * SEC + SEC = time * SEC
      /\ (seconds - 0) * SEC = seconds * SEC /\ (time - 0) * SEC = time * SEC
      /\ seconds * SEC \in Int /\ time * SEC \in Int
      /\ (seconds - 1) * SEC \in Int /\ (time - 1) * SEC \in Int
  BY <1>1
<1> USE DEF UptimeWas, TimeWas
<1>3. CASE Tick
  BY <1>1, <1>2, <1>3 DEF Tick
<1>4. CASE TickSecond
  BY <1>1, <1>2, <1>4 DEF TickSecond
<1>5. CASE TickTime
  <2>1. seconds' = seconds /\ UptimeWas' = UptimeWas /\ UptimeWas \in Int
    BY <1>1, <1>2, <1>5 DEF TickTime
  <2>2. CASE time = 0
    BY <1>1, <1>2, <1>5, <2>1, <2>2 DEF TickTime
  <2>3. CASE time # 0
    BY <1>1, <1>2, <1>5, <2>1, <2>3 DEF TickTime
  <2> QED BY <2>2, <2>3
<1>6. CASE TickClear
  <2>1. seconds' = seconds /\ time' = time /\ milliseconds' = 0 /\ isr = "clear" /\ isr' = "off"
    BY <1>6 DEF TickClear
  <2>2. UptimeWas = (seconds - 1) * SEC + milliseconds /\ UptimeWas' = seconds * SEC
    BY <1>1, <1>2, <2>1
  <2>3. IF time = 0 THEN TimeWas = 0 /\ TimeWas' = 0
        ELSE TimeWas = (time - 1) * SEC + milliseconds /\ TimeWas' = time * SEC
    BY <1>1, <1>2, <2>1
  <2> HIDE DEF UptimeWas, TimeWas
  <2> QED BY <1>1, <1>2, <2>1, <2>2, <2>3
<1> QED BY <1>3, <1>4, <1>5, <1>6 DEF SysTick

(* The clock may go on under a print. *)
LEMMA PrintingUnderTick ==
  ASSUME IInv, SysTick
  PROVE  Printing'
<1>1. TypeOK /\ PartsBehind /\ DateBehind /\ PartsExact /\ SeenBefore
  BY DEF IInv, Printing
<1>2. UNCHANGED print
  BY DEF SysTick, Tick, TickSecond, TickTime, TickClear
<1> USE DEF print
<1>3. seconds \in Nat /\ seconds' \in Nat /\ seconds <= seconds' /\ time \in Int /\ time <= time'
      /\ time' \in Int
  BY <1>1, ClocksAdvance DEF TypeOK
<1>4. /\ DAY * (seconds \div DAY) <= DAY * (seconds' \div DAY)
      /\ HOUR * (seconds \div HOUR) <= HOUR * (seconds' \div HOUR)
      /\ MINUTE * (seconds \div MINUTE) <= MINUTE * (seconds' \div MINUTE)
  BY <1>3, Units, DivGrows
<1>5. PartsBehind'
  <2> DEFINE dayPart == DAY * (seconds \div DAY)       dayPart2 == DAY * (seconds' \div DAY)
             hours == HOUR * (seconds \div HOUR)    hours2 == HOUR * (seconds' \div HOUR)
             minutes == MINUTE * (seconds \div MINUTE)
             minutes2 == MINUTE * (seconds' \div MINUTE)
             p1 == d * DAY
             p2 == d * DAY + h * HOUR
             p3 == d * DAY + h * HOUR + m * MINUTE
             p4 == d * DAY + h * HOUR + m * MINUTE + s
             p5 == (d * DAY + h * HOUR + m * MINUTE + s) * SEC + ms
  <2>1. p1 \in Nat /\ p2 \in Nat /\ p3 \in Nat /\ p4 \in Int /\ p5 \in Int /\ b \in Int
    BY <1>1, Units DEF TypeOK
  <2>2. /\ dayPart \in Nat /\ hours \in Nat /\ minutes \in Nat
        /\ dayPart2 \in Nat /\ hours2 \in Nat /\ minutes2 \in Nat
    <3>1. \A a \in Nat, n \in Nat \ {0} : n * (a \div n) \in Nat
      BY DivMod
    <3> QED BY <1>3, <3>1, Units
  <2>3. p1 <= dayPart => p1 <= dayPart2
    BY <1>4, <2>1, <2>2
  <2>4. p2 <= hours => p2 <= hours2
    BY <1>4, <2>1, <2>2
  <2>5. p3 <= minutes => p3 <= minutes2
    BY <1>4, <2>1, <2>2
  <2>6. p4 <= seconds => p4 <= seconds'
    BY <1>3, <2>1
  <2>7. (p5 <= UptimeWas => p5 <= UptimeWas') /\ (b <= UptimeWas => b <= UptimeWas')
    <3> HIDE DEF p5
    <3> QED BY <2>1, ClocksAdvance
  <2> QED BY <1>1, <1>2, <2>3, <2>4, <2>5, <2>6, <2>7 DEF PartsBehind
<1>6. DateBehind'
  <2>1. TimeWas <= TimeWas'
    BY ClocksAdvance
  <2>2. s * SEC + ms \in Int /\ b \in Int /\ tb \in Int /\ s \in Int
    BY <1>1, Units DEF TypeOK
  <2>3. TimeWas \in Int /\ TimeWas' \in Int
    BY ClocksAdvance
  <2>4. dated => /\ tb <= time => tb <= time'
                 /\ s <= time => s <= time'
                 /\ s * SEC + ms <= TimeWas => s * SEC + ms <= TimeWas'
                 /\ b <= TimeWas => b <= TimeWas'
    BY <1>3, <2>1, <2>2, <2>3
  <2> QED BY <1>1, <1>2, <2>1, <2>4 DEF DateBehind
<1>7. PartsExact' /\ SeenBefore'
  <2>1. seen \in Nat /\ seen <= seconds
    BY <1>1 DEF TypeOK
  <2>2. CASE TickSecond
    <3>1. seconds' = seconds + 1 /\ seen < seconds' /\ seen # seconds'
      BY <1>3, <2>1, <2>2 DEF TickSecond
    <3> QED BY <1>2, <3>1 DEF PartsExact, SeenBefore
  <2>3. CASE TickTime
    <3>1. seconds' = seconds /\ seen < seconds' /\ seen # seconds'
      BY <1>1, <1>3, <2>1, <2>3 DEF TickTime, SeenBefore
    <3> QED BY <1>2, <3>1 DEF PartsExact, SeenBefore
  <2>4. CASE Tick \/ TickClear
    <3>1. seconds' = seconds /\ time' = time /\ isr' \in {"off", "second"}
      BY <2>4 DEF Tick, TickClear
    <3> QED BY <1>1, <1>2, <3>1 DEF PartsExact, SeenBefore
  <2> QED BY <2>2, <2>3, <2>4 DEF SysTick
<1> QED BY <1>5, <1>6, <1>7 DEF Printing

(* Each read of the seconds adds whole smaller units to those read before. *)
LEMMA NextPart ==
  ASSUME NEW S \in Nat, NEW unit \in Nat \ {0}, NEW k \in Nat \ {0}, NEW large,
         large = k * unit, NEW part \in Nat
  PROVE  /\ ((S \div unit) % k) \in Nat
         /\ part <= large * (S \div large) => part + ((S \div unit) % k) * unit <= unit * (S \div unit)
         /\ unit * (S \div unit) = large * (S \div large) + ((S \div unit) % k) * unit
<1> DEFINE digit == (S \div unit) % k
           whole == large * (S \div large)
           fine == unit * (S \div unit)
<1>1. fine = whole + digit * unit
  BY Digit
<1>2. S \div unit \in Nat /\ digit \in Nat
  BY DivMod
<1>3. k * unit \in Nat \ {0}
  OBVIOUS
<1>4. whole \in Nat
  <2>1. \A a \in Nat, n \in Nat \ {0} : n * (a \div n) \in Nat
    BY DivMod
  <2>2. large \in Nat \ {0}
    BY <1>3
  <2> QED BY <2>1, <2>2
<1>5. digit * unit \in Nat
  BY <1>2
<1> HIDE DEF digit, whole, fine
<1>6. part <= whole => part + digit * unit <= fine
  BY <1>1, <1>4, <1>5
<1> QED BY <1>1, <1>2, <1>6 DEF digit, whole, fine

LEMMA PrintingSteps == IInv /\ PrintStep => Printing'
<1> SUFFICES ASSUME IInv, PrintStep PROVE Printing'
  OBVIOUS
<1>a. TypeOK /\ PartsBehind /\ DateBehind /\ PartsExact /\ SeenBefore
  BY DEF IInv, Printing
<1>b. UNCHANGED <<seconds, time, milliseconds, isr>> /\ isr = "off"
  BY DEF PrintStep, PrintTime, Format, ReadMilliseconds, ReadSeconds, ReadMinutes, ReadHours,
         ReadDays, ReadDate, ReadTime, Main, counters
<1>c. SeenBefore'
  BY <1>b DEF SeenBefore
<1>1. CASE ReadTime
  <2>1. /\ pc' = "date" /\ dated' /\ tb' = time /\ time # 0
        /\ d' = 0 /\ h' = 0 /\ m' = 0 /\ s' = 0
    BY <1>1, <1>a DEF ReadTime, TypeOK, PartsBehind
  <2>2. time \in Int
    BY <1>a DEF TypeOK
  <2> QED BY <1>b, <1>c, <2>1, <2>2 DEF Printing, PartsBehind, DateBehind, PartsExact
<1>2. CASE ReadDate
  <2>1. /\ pc = "date" /\ pc' = "milliseconds" /\ dated /\ dated' /\ s' = tb
        /\ UNCHANGED <<d, h, m, tb, b, clean, seen>>
    BY <1>2, <1>a DEF ReadDate, DateBehind
  <2>2. PartsBehind'
    BY <2>1 DEF PartsBehind
  <2>3. DateBehind' /\ PartsExact'
    BY <1>a, <1>b, <2>1 DEF DateBehind, PartsExact
  <2> QED BY <1>c, <2>2, <2>3 DEF Printing
<1>3. CASE ReadDays
  <2>1. /\ pc' = "hours" /\ ~dated' /\ d' = (seconds \div DAY) % UCHAR
        /\ h' = 0 /\ m' = 0 /\ s' = 0 /\ seen' = seconds
    BY <1>3, <1>a DEF ReadDays, PartsBehind
  <2>2. d' * DAY <= DAY * (seconds \div DAY)
    <3> DEFINE dayPart == seconds \div DAY
    <3>1. /\ dayPart \in Nat /\ dayPart % UCHAR \in Nat
          /\ dayPart = UCHAR * (dayPart \div UCHAR) + (dayPart % UCHAR)
          /\ UCHAR * (dayPart \div UCHAR) \in Nat
      <4>1. dayPart \in Nat
        BY <1>a, Units, DivMod DEF TypeOK
      <4> HIDE DEF dayPart
      <4>2. dayPart \div UCHAR \in Nat /\ dayPart % UCHAR \in Nat
            /\ dayPart = UCHAR * (dayPart \div UCHAR) + (dayPart % UCHAR)
        BY <4>1, Units, DivMod
      <4> QED BY <4>1, <4>2, Units
    <3> HIDE DEF dayPart
    <3>2. dayPart % UCHAR <= dayPart
      BY <3>1
    <3>3. (dayPart % UCHAR) * DAY <= DAY * dayPart
      BY <3>1, <3>2, Units
    <3> QED BY <2>1, <3>3 DEF dayPart
  <2> QED BY <1>b, <1>c, <2>1, <2>2 DEF Printing, PartsBehind, DateBehind, PartsExact
<1>4. CASE ReadHours
  <2>1. /\ pc = "hours" /\ pc' = "minutes" /\ ~dated /\ ~dated' /\ m' = 0 /\ s' = 0
        /\ h' = (seconds \div HOUR) % (DAY \div HOUR) /\ UNCHANGED <<d, seen>>
        /\ d * DAY \in Nat /\ d * DAY <= DAY * (seconds \div DAY)
    BY <1>4, <1>a, Units DEF ReadHours, PartsBehind, TypeOK
  <2>2. d * DAY + h' * HOUR <= HOUR * (seconds \div HOUR)
    BY <1>a, <2>1, Units, NextPart DEF TypeOK
  <2> QED BY <1>a, <1>b, <1>c, <2>1, <2>2 DEF Printing, PartsBehind, DateBehind, PartsExact
<1>5. CASE ReadMinutes
  <2>1. /\ pc = "minutes" /\ pc' = "seconds" /\ ~dated /\ ~dated' /\ s' = 0
        /\ m' = (seconds \div MINUTE) % (HOUR \div MINUTE) /\ UNCHANGED <<d, h, seen>>
        /\ d * DAY + h * HOUR \in Nat /\ d * DAY + h * HOUR <= HOUR * (seconds \div HOUR)
    BY <1>5, <1>a, Units DEF ReadMinutes, PartsBehind, TypeOK
  <2>2. (d * DAY + h * HOUR) + m' * MINUTE <= MINUTE * (seconds \div MINUTE)
    BY <1>a, <2>1, Units, NextPart DEF TypeOK
  <2> QED BY <1>a, <1>b, <1>c, <2>1, <2>2 DEF Printing, PartsBehind, DateBehind, PartsExact
<1>6. CASE ReadSeconds
  <2>1. /\ pc = "seconds" /\ pc' = "milliseconds" /\ ~dated /\ ~dated'
        /\ s' = seconds % MINUTE /\ UNCHANGED <<d, h, m, seen>>
        /\ d * DAY + h * HOUR + m * MINUTE \in Nat
        /\ d * DAY + h * HOUR + m * MINUTE <= MINUTE * (seconds \div MINUTE)
    BY <1>6, <1>a, Units DEF ReadSeconds, PartsBehind, TypeOK
  <2>2. d * DAY + h * HOUR + m * MINUTE + s' <= seconds
    <3> DEFINE part == d * DAY + h * HOUR + m * MINUTE
    <3>1. /\ seconds = MINUTE * (seconds \div MINUTE) + (seconds % MINUTE)
          /\ seconds % MINUTE \in Nat /\ seconds \div MINUTE \in Nat
      BY <1>a, Units, DivMod DEF TypeOK
    <3>2. MINUTE * (seconds \div MINUTE) \in Nat
      BY <3>1, Units
    <3>3. part \in Nat /\ part <= MINUTE * (seconds \div MINUTE)
      BY <2>1
    <3> HIDE DEF part
    <3>4. part + (seconds % MINUTE) <= seconds
      BY <3>1, <3>2, <3>3
    <3> QED BY <2>1, <3>4 DEF part
  <2> QED BY <1>a, <1>b, <1>c, <2>1, <2>2 DEF Printing, PartsBehind, DateBehind, PartsExact
<1>7. CASE ReadMilliseconds
  <2>1. /\ pc = "milliseconds" /\ pc' = "format" /\ ms' = milliseconds
        /\ UNCHANGED <<dated, d, h, m, s, clean, seen>>
    BY <1>7 DEF ReadMilliseconds
  <2>2. /\ UptimeWas' = seconds * SEC + milliseconds
        /\ TimeWas' = IF time = 0 THEN 0 ELSE time * SEC + milliseconds
        /\ seconds \in Nat /\ time \in Int /\ milliseconds \in Nat /\ milliseconds <= SEC
    <3>1. seconds \in Nat /\ time \in Int /\ milliseconds \in Nat /\ milliseconds <= SEC
      BY <1>a, Units DEF TypeOK
    <3>2. seconds - 0 = seconds /\ time - 0 = time
      BY <3>1
    <3> QED BY <1>b, <3>1, <3>2 DEF UptimeWas, TimeWas
  <2>3. ASSUME NEW part \in Int, NEW whole \in Int, part <= whole
        PROVE  part * SEC + milliseconds <= whole * SEC + milliseconds
    <3>1. part * SEC <= whole * SEC /\ part * SEC \in Int /\ whole * SEC \in Int
      BY <2>3, Units
    <3> QED BY <2>2, <3>1
  <2>4. ~dated => (d * DAY + h * HOUR + m * MINUTE + s) * SEC + ms' <= UptimeWas'
    <3>1. d * DAY + h * HOUR + m * MINUTE + s \in Int
      BY <1>a, Units DEF TypeOK
    <3>2. ~dated => d * DAY + h * HOUR + m * MINUTE + s <= seconds
      BY <1>a, <2>1 DEF PartsBehind
    <3> QED BY <2>1, <2>2, <2>3, <3>1, <3>2
  <2>5. dated /\ clean => s * SEC + ms' <= TimeWas'
    <3>1. s \in Int /\ (dated /\ clean => s <= time /\ s # 0)
      BY <1>a, <2>1 DEF DateBehind, TypeOK
    <3>2. CASE time # 0
      BY <2>1, <2>2, <2>3, <3>1, <3>2
    <3>3. ASSUME dated, clean, time = 0 PROVE s * SEC + ms' <= 0
      <4>1. s <= -1
        BY <3>1, <3>3
      <4>2. s * SEC + milliseconds <= (-1) * SEC + milliseconds
        BY <2>3, <3>1, <4>1
      <4>3. (-1) * SEC + milliseconds <= 0 /\ s * SEC \in Int
        BY <2>2, <3>1, Units
      <4> QED BY <2>1, <2>2, <4>2, <4>3, Units
    <3> QED BY <2>2, <3>2, <3>3
  <2>6. dated => d = 0 /\ h = 0 /\ m = 0
    BY <1>a DEF DateBehind
  <2>7. PartsBehind' /\ DateBehind'
    BY <1>b, <2>1, <2>4, <2>5, <2>6 DEF PartsBehind, DateBehind
  <2>8. PartsExact'
    BY <2>1 DEF PartsExact
  <2> QED BY <1>c, <2>7, <2>8 DEF Printing
<1>8. CASE Format
  <2>1. /\ pc = "format" /\ pc' = "print" /\ b' = (d * DAY + h * HOUR + m * MINUTE + s) * SEC + ms
        /\ UNCHANGED <<dated, clean>> /\ d' = 0 /\ h' = 0 /\ m' = 0 /\ s' = 0
        /\ UptimeWas' = UptimeWas /\ TimeWas' = TimeWas
    BY <1>8, <1>b DEF Format, UptimeWas, TimeWas
  <2>2. dated => d = 0 /\ h = 0 /\ m = 0 /\ b' = s * SEC + ms
    <3>1. 0 * DAY + 0 * HOUR + 0 * MINUTE + s = s
      BY <1>a, Units DEF TypeOK
    <3> QED BY <1>a, <2>1, <3>1 DEF DateBehind
  <2>3. PartsBehind' /\ DateBehind'
    BY <1>a, <1>b, <2>1, <2>2 DEF PartsBehind, DateBehind
  <2>4. PartsExact'
    BY <2>1 DEF PartsExact
  <2> QED BY <1>c, <2>3, <2>4 DEF Printing
<1>9. CASE PrintTime
  <2>1. pc = "print" /\ pc' = "off" /\ ~dated' /\ d' = 0 /\ h' = 0 /\ m' = 0 /\ s' = 0
    BY <1>9, <1>a DEF PrintTime, PartsBehind
  <2> QED BY <1>c, <2>1 DEF Printing, PartsBehind, DateBehind, PartsExact
<1> QED BY <1>1, <1>2, <1>3, <1>4, <1>5, <1>6, <1>7, <1>8, <1>9 DEF PrintStep

LEMMA PrintingStep == IInv /\ [Next]_vars => Printing'
<1> SUFFICES ASSUME IInv, [Next]_vars PROVE Printing'
  OBVIOUS
<1>a. PartsBehind /\ DateBehind /\ PartsExact /\ SeenBefore
  BY DEF IInv, Printing
<1>1. CASE SysTick
  BY <1>1, PrintingUnderTick
<1>2. CASE PrintStep
  BY <1>2, PrintingSteps
<1>3. CASE InterruptPrint
  <2>1. /\ ~clean' /\ UNCHANGED <<seconds, time, milliseconds, isr, pc, dated, d, h, m, s, ms, seen>>
        /\ UptimeWas' = UptimeWas
    BY <1>3 DEF InterruptPrint, counters, UptimeWas
  <2>2. pc = "date" /\ seen = seconds => tb' = time
    BY <1>3, <1>a DEF InterruptPrint, PartsExact
  <2> QED BY <1>a, <2>1, <2>2 DEF Printing, PartsBehind, DateBehind, PartsExact, SeenBefore
<1>4. CASE SetTime
  BY <1>4, <1>a DEF SetTime, print, Main, Printing, PartsBehind, DateBehind, PartsExact, SeenBefore
<1>5. CASE UNCHANGED vars
  BY <1>5, <1>a DEF vars, counters, print, Printing, PartsBehind, DateBehind, PartsExact, SeenBefore,
                    UptimeWas, TimeWas
<1> QED BY <1>1, <1>2, <1>3, <1>4, <1>5 DEF Next

-----------------------------------------------------------------------------
(* The invariant holds for all units, starts and periods. *)
THEOREM Inductive == Spec => []IInv
<1>1. IInv /\ [Next]_vars => IInv'
  BY TypeStep, CountingStep, PrintingStep DEF IInv
<1> QED BY InitInv, <1>1, PTL DEF Spec

(* Every variable keeps its type; ms_cnt stays below 1000 and milliseconds, a *)
(* field of 10 bits, does not pass it.                                       *)
THEOREM TypeCorrect == Spec => []TypeOK
<1>1. IInv => TypeOK
  BY DEF IInv
<1> QED BY Inductive, <1>1, PTL

(* SysTick_Handler counts every tick into the uptime and the time of day, and *)
(* what an interrupt sees between its stores is at most a second and START off. *)
THEOREM CountersAreTrue == Spec => []CountersTrue
<1>1. IInv => CountersTrue
  <2> SUFFICES ASSUME IInv PROVE CountersTrue
    OBVIOUS
  <2>1. /\ SEC \in Nat \ {0} /\ START \in 0 .. SEC - 1 /\ seconds \in Nat /\ ms_cnt \in 0 .. SEC - 1
        /\ ticks \in Nat /\ isr \in {"off", "second", "time", "clear"}
    BY UnitAssumption DEF IInv, TypeOK
  <2>2. CountsTicks /\ TimeOfDay
    BY DEF IInv, Counting
  <2>3. (seconds + 1) * SEC = seconds * SEC + SEC /\ (seconds + 0) * SEC = seconds * SEC
        /\ 0 * SEC = 0 /\ 1 * SEC = SEC /\ seconds * SEC \in Nat
    BY <2>1
  <2>4. CASE isr = "off"
    <3>1. seconds * SEC + milliseconds = ticks + (IF seconds = 0 THEN 0 ELSE START)
      <4>1. START + ticks = seconds * SEC + ms_cnt
        BY <2>1, <2>2, <2>4 DEF CountsTicks
      <4>2. milliseconds = IF seconds = 0 THEN ms_cnt - START ELSE ms_cnt
        BY <2>2, <2>4 DEF CountsTicks
      <4> QED BY <2>1, <2>3, <4>1, <4>2
    <3>2. time = TimeAfter(seconds - setAt)
      <4>1. seconds - setAt - 0 = seconds - setAt
        BY <2>1 DEF IInv, TypeOK
      <4> QED BY <2>2, <2>4, <4>1 DEF TimeOfDay
    <3>3. seconds * SEC + milliseconds \in ticks .. ticks + SEC + START
      BY <2>1, <3>1
    <3> QED BY <2>4, <3>1, <3>2, <3>3 DEF CountersTrue
  <2>5. CASE isr = "second"
    BY <2>1, <2>2, <2>3, <2>5 DEF CountersTrue, CountsTicks
  <2>6. CASE isr \in {"time", "clear"}
    BY <2>1, <2>2, <2>3, <2>6 DEF CountersTrue, CountsTicks
  <2> QED BY <2>1, <2>4, <2>5, <2>6
<1> QED BY Inductive, <1>1, PTL

(* The green LED changes at every (LedPeriod + 1)th tenth of a second, over   *)
(* all the restarts of ms_cnt.                                               *)
THEOREM LedKeepsCadence == Spec => []LedCadence
<1>1. IInv => LedCadence
  BY DEF IInv, Counting
<1> QED BY Inductive, <1>1, PTL

(* A print of the main loop that no other print disturbs never shows a time   *)
(* ahead of the clock, however many seconds pass between its reads.          *)
THEOREM PrintsNotAhead == Spec => []PrintNotAhead
<1>1. IInv => PrintNotAhead
  <2> SUFFICES ASSUME IInv, pc = "print", clean
               PROVE  b <= IF dated THEN TimeNow ELSE seconds * SEC + milliseconds
    BY DEF PrintNotAhead
  <2>1. /\ SEC \in Nat /\ seconds \in Nat /\ time \in Int /\ milliseconds \in Nat /\ b \in Int
        /\ isr \in {"off", "second", "time", "clear"}
    BY UnitAssumption DEF IInv, TypeOK
  <2>2. /\ (seconds - 1) * SEC + SEC = seconds * SEC /\ (time - 1) * SEC + SEC = time * SEC
        /\ (seconds - 0) * SEC = seconds * SEC /\ (time - 0) * SEC = time * SEC
        /\ (seconds - 1) * SEC \in Int /\ (time - 1) * SEC \in Int
        /\ seconds * SEC \in Int /\ time * SEC \in Int
    BY <2>1
  <2>3. UptimeWas <= seconds * SEC + milliseconds /\ UptimeWas \in Int
    BY <2>1, <2>2 DEF UptimeWas
  <2>4. TimeWas <= TimeNow /\ TimeWas \in Int /\ TimeNow \in Int
    BY <2>1, <2>2 DEF TimeWas, TimeNow
  <2>5. IF dated THEN b <= TimeWas ELSE b <= UptimeWas
    BY DEF IInv, Printing, PartsBehind, DateBehind
  <2> QED BY <2>1, <2>2, <2>3, <2>4, <2>5
<1> QED BY Inductive, <1>1, PTL

(* The five reads of a print give the exact time of the last one if no second *)
(* has passed, also past the wrap of days.                                   *)
THEOREM PrintsExact == Spec => PrintExact
<1> DEFINE A == ReadMilliseconds /\ seen = seconds =>
                  (d * DAY + h * HOUR + m * MINUTE + s) * SEC + ms' = IF dated THEN TimeNow ELSE Now
<1>1. IInv => A
  <2> SUFFICES ASSUME IInv, ReadMilliseconds, seen = seconds
               PROVE  (d * DAY + h * HOUR + m * MINUTE + s) * SEC + ms'
                        = IF dated THEN TimeNow ELSE Now
    OBVIOUS
  <2>1. pc = "milliseconds" /\ ms' = milliseconds /\ seconds \in Nat /\ s \in Int
    BY DEF ReadMilliseconds, IInv, TypeOK
  <2>2. ASSUME dated PROVE d * DAY + h * HOUR + m * MINUTE + s = time
    <3>1. d = 0 /\ h = 0 /\ m = 0 /\ s = time
      BY <2>1, <2>2 DEF IInv, Printing, DateBehind, PartsExact
    <3>2. 0 * DAY + 0 * HOUR + 0 * MINUTE + s = s
      BY <2>1, Units
    <3> QED BY <3>1, <3>2
  <2>3. ASSUME ~dated PROVE d * DAY + h * HOUR + m * MINUTE + s = seconds % (UCHAR * DAY)
    <3> DEFINE cycle == UCHAR * DAY
               cycles == cycle * (seconds \div cycle)
               p1 == d * DAY
               p2 == h * HOUR
               p3 == m * MINUTE
    <3>1. /\ d = (seconds \div DAY) % UCHAR
          /\ h = (seconds \div HOUR) % (DAY \div HOUR)
          /\ m = (seconds \div MINUTE) % (HOUR \div MINUTE)
          /\ s = seconds % MINUTE
      BY <2>1, <2>3 DEF IInv, Printing, PartsExact
    <3> DEFINE dayPart == DAY * (seconds \div DAY)
               hours == HOUR * (seconds \div HOUR)
               minutes == MINUTE * (seconds \div MINUTE)
    <3>a. dayPart = cycles + p1
      <4>1. dayPart = cycle * (seconds \div cycle) + ((seconds \div DAY) % UCHAR) * DAY
        BY <2>1, Units, Digit
      <4> QED BY <3>1, <4>1
    <3>b. hours = dayPart + p2
      <4>1. hours = ((DAY \div HOUR) * HOUR) * (seconds \div ((DAY \div HOUR) * HOUR))
                      + ((seconds \div HOUR) % (DAY \div HOUR)) * HOUR
        BY <2>1, Units, Digit
      <4> QED BY <3>1, <4>1, Units
    <3>c. minutes = hours + p3
      <4>1. minutes = ((HOUR \div MINUTE) * MINUTE) * (seconds \div ((HOUR \div MINUTE) * MINUTE))
                        + ((seconds \div MINUTE) % (HOUR \div MINUTE)) * MINUTE
        BY <2>1, Units, Digit
      <4> QED BY <3>1, <4>1, Units
    <3>3. seconds = minutes + s
      BY <2>1, <3>1, Units, DivMod
    <3>4. seconds = cycles + (seconds % cycle) /\ seconds % cycle \in Nat /\ cycles \in Nat
      <4>1. cycle \in Nat \ {0}
        BY Units
      <4> HIDE DEF cycle
      <4>2. seconds \div cycle \in Nat /\ seconds % cycle \in Nat
            /\ seconds = cycle * (seconds \div cycle) + (seconds % cycle)
        BY <2>1, <4>1, DivMod
      <4> QED BY <4>1, <4>2
    <3>5. p1 \in Nat /\ p2 \in Nat /\ p3 \in Nat
      BY Units DEF IInv, TypeOK
    <3> HIDE DEF cycle, cycles, p1, p2, p3, dayPart, hours, minutes
    <3>6. p1 + p2 + p3 + s = seconds % cycle
      <4>1. seconds = cycles + p1 + p2 + p3 + s
        BY <2>1, <3>a, <3>b, <3>c, <3>3, <3>4, <3>5
      <4> DEFINE rest == seconds % cycle
      <4>2. seconds = cycles + rest /\ rest \in Nat /\ cycles \in Nat
        BY <3>4
      <4> HIDE DEF rest
      <4>3. p1 + p2 + p3 + s = rest
        BY <2>1, <3>5, <4>1, <4>2
      <4> QED BY <4>3 DEF rest
    <3> QED BY <3>6 DEF cycle, p1, p2, p3
  <2> QED BY <2>1, <2>2, <2>3 DEF TimeNow, Now
<1>2. IInv /\ [Next]_vars => [A]_vars
  BY <1>1
<1> QED BY Inductive, <1>2, PTL DEF Spec, PrintExact

-----------------------------------------------------------------------------
(***************************************************************************)
(* The arithmetic of C against the arithmetic of the calendar.             *)
(***************************************************************************)
Leaps(y) == y \div 4 - y \div 100 + y \div 400

(* The first of January of a year, in days since 1970. *)
NewYear(y) == 365 * (y - 1970) + Leaps(y - 1) - Leaps(1969)

YearDays(y) == IF LeapYear(y) THEN 366 ELSE 365

LEMMA LeapRule == ASSUME NEW y \in Int PROVE IsLeap(y) <=> LeapYear(y)
<1>1. CMod(y, 4) = 0 <=> y % 4 = 0
  BY DEF CMod, CDiv
<1>2. CMod(y, 100) = 0 <=> y % 100 = 0
  BY DEF CMod, CDiv
<1>3. CMod(y, 400) = 0 <=> y % 400 = 0
  BY DEF CMod, CDiv
<1>4. y % 400 = 0 => y % 4 = 0
  OBVIOUS
<1> QED BY <1>1, <1>2, <1>3, <1>4 DEF IsLeap, LeapYear

LEMMA LeapCount == ASSUME NEW y \in Int PROVE LeapsThruEndOf(y) = Leaps(y) /\ Leaps(y) \in Int
<1>1. DIV(y, 4) = y \div 4
  BY DEF DIV, CMod, CDiv
<1>2. DIV(y, 100) = y \div 100
  BY DEF DIV, CMod, CDiv
<1>3. DIV(y, 400) = y \div 400
  BY DEF DIV, CMod, CDiv
<1> QED BY <1>1, <1>2, <1>3 DEF LeapsThruEndOf, Leaps

LEMMA YearAfter ==
  ASSUME NEW y \in Int
  PROVE  NewYear(y) \in Int /\ NewYear(y + 1) = NewYear(y) + YearDays(y)
<1>1. (y + 1) - 1 = y
  OBVIOUS
<1>2. y \div 4 = (y - 1) \div 4 + (IF y % 4 = 0 THEN 1 ELSE 0)
  OBVIOUS
<1>3. y \div 100 = (y - 1) \div 100 + (IF y % 100 = 0 THEN 1 ELSE 0)
  OBVIOUS
<1>4. y \div 400 = (y - 1) \div 400 + (IF y % 400 = 0 THEN 1 ELSE 0)
  OBVIOUS
<1>5. (y % 400 = 0 => y % 100 = 0) /\ (y % 100 = 0 => y % 4 = 0)
  OBVIOUS
<1>6. Leaps(y) = Leaps(y - 1) + (IF LeapYear(y) THEN 1 ELSE 0)
  BY <1>2, <1>3, <1>4, <1>5 DEF Leaps, LeapYear
<1>7. Leaps(y) \in Int /\ Leaps(y - 1) \in Int /\ Leaps(1969) \in Int
  BY LeapCount
<1> QED BY <1>1, <1>6, <1>7 DEF NewYear, YearDays

LEMMA YearsGrow ==
  ASSUME NEW y \in Int, NEW z \in Int, y < z
  PROVE  NewYear(y) + YearDays(y) <= NewYear(z)
<1>1. NewYear(y + 1) \in Int /\ NewYear(y) \in Int /\ NewYear(z) \in Int /\ y + 1 \in Int
  BY YearAfter
<1>2. CASE z = y + 1
  BY <1>1, <1>2, YearAfter
<1>3. CASE z > y + 1
  <2> DEFINE p == z - 1
  <2>1. p > y /\ p \in Int
    BY <1>3
  <2> HIDE DEF p
  <2>2. /\ p \div 4 >= y \div 4 /\ p \div 100 <= y \div 100 + (p - y) \div 100 + 1
        /\ p \div 400 >= y \div 400
    BY <2>1
  <2>3. (p - y) \div 100 <= p - y /\ (p - y) \div 100 \in Int
    BY <2>1
  <2>4. Leaps(p) >= Leaps(y) - (p - y) - 1
    BY <2>1, <2>2, <2>3 DEF Leaps
  <2>5. Leaps(p) \in Int /\ Leaps(y) \in Int /\ Leaps(1969) \in Int
    BY <2>1, LeapCount
  <2>6. NewYear(z) = 365 * (p + 1 - 1970) + Leaps(p) - Leaps(1969)
    BY DEF NewYear, p
  <2>7. NewYear(y + 1) = 365 * (y + 1 - 1970) + Leaps(y) - Leaps(1969)
    <3>1. (y + 1) - 1 = y
      OBVIOUS
    <3> QED BY <3>1 DEF NewYear
  <2>8. NewYear(z) >= NewYear(y + 1)
    BY <2>1, <2>4, <2>5, <2>6, <2>7
  <2> QED BY <1>1, <2>8, YearAfter
<1> QED BY <1>2, <1>3

(* A day belongs to one year only. *)
LEMMA OneYear ==
  ASSUME NEW y \in Int, NEW z \in Int, NEW n \in Int, NEW k \in Int,
         0 <= n, n < YearDays(y), 0 <= k, k < YearDays(z), NewYear(y) + n = NewYear(z) + k
  PROVE  y = z /\ n = k
<1>1. NewYear(y) \in Int /\ NewYear(z) \in Int /\ YearDays(y) \in Int /\ YearDays(z) \in Int
  BY YearAfter DEF YearDays
<1>2. ~(y < z)
  BY <1>1, YearsGrow
<1>3. ~(z < y)
  BY <1>1, YearsGrow
<1> QED BY <1>1, <1>2, <1>3

-----------------------------------------------------------------------------
(***************************************************************************)
(* The table of the months.                                                *)
(***************************************************************************)
(* The day of the year on which the next month after month k begins. *)
Begins(y, k) == MonYday(LeapYear(y))[k]

LEMMA MonthTable ==
  ASSUME NEW y \in Int
  PROVE  /\ \A k \in 0 .. 12 : Begins(y, k) \in Nat
         /\ Begins(y, 0) = 0 /\ Begins(y, 12) = YearDays(y)
         /\ \A k \in 1 .. 12 : Begins(y, k) = Begins(y, k - 1) + MonthDays(y, k)
         /\ \A k \in 1 .. 12 : MonthDays(y, k) \in Nat /\ MonthDays(y, k) > 0
         /\ MonthDays(y, 12) = 31
         /\ \A j \in 0 .. 12, k \in 0 .. 12 : j < k => Begins(y, j) < Begins(y, k)
<1> DEFINE leap == LeapYear(y)
           e == IF leap THEN 1 ELSE 0
           ip == MonYday(leap)
<1>1. /\ ip[0] = 0 /\ ip[1] = 31 /\ ip[2] = 59 + e /\ ip[3] = 90 + e /\ ip[4] = 120 + e
      /\ ip[5] = 151 + e /\ ip[6] = 181 + e /\ ip[7] = 212 + e /\ ip[8] = 243 + e
      /\ ip[9] = 273 + e /\ ip[10] = 304 + e /\ ip[11] = 334 + e /\ ip[12] = 365 + e
  BY DEF MonYday
<1>2. e \in 0 .. 1
  OBVIOUS
<1>3. /\ \A k \in {4, 6, 9, 11} : MonthDays(y, k) = 30
      /\ MonthDays(y, 2) = 28 + e
      /\ \A k \in {1, 3, 5, 7, 8, 10, 12} : MonthDays(y, k) = 31
  BY DEF MonthDays
<1>4. YearDays(y) = 365 + e
  BY DEF YearDays
<1>5. \A k \in 0 .. 12 : Begins(y, k) = ip[k]
  BY DEF Begins
<1> HIDE DEF leap, e, ip
<1>6. \A k \in 0 .. 12 : Begins(y, k) \in Nat
  BY <1>1, <1>2, <1>5
<1>7. \A k \in 1 .. 12 : Begins(y, k) = Begins(y, k - 1) + MonthDays(y, k)
  BY <1>1, <1>2, <1>3, <1>5
<1>8. \A k \in 1 .. 12 : MonthDays(y, k) \in Nat /\ MonthDays(y, k) > 0
  BY <1>2, <1>3
<1>9. Begins(y, 0) = 0 /\ Begins(y, 12) = YearDays(y) /\ MonthDays(y, 12) = 31
  BY <1>1, <1>3, <1>4, <1>5
<1>10. \A j \in 0 .. 12, k \in 0 .. 12 : j < k => Begins(y, j) < Begins(y, k)
  BY <1>1, <1>2, <1>5
<1> QED BY <1>6, <1>7, <1>8, <1>9, <1>10

(* The search finds the month of the day. *)
LEMMA MonthFound ==
  ASSUME NEW y \in Int, NEW n \in Int, NEW k \in 0 .. 11,
         Begins(y, k) <= n, n < Begins(y, k + 1)
  PROVE  Month(n, MonYday(LeapYear(y))) = k
<1> DEFINE ip == MonYday(LeapYear(y))
<1>1. \A j \in 0 .. 12 : Begins(y, j) = ip[j]
  BY DEF Begins
<1>2. \A j \in 0 .. 12 : ip[j] \in Int
  <2>1. ASSUME NEW j \in 0 .. 12 PROVE ip[j] \in Int
    <3>1. Begins(y, j) \in Nat /\ Begins(y, j) = ip[j]
      BY <1>1, MonthTable
    <3> HIDE DEF ip
    <3> QED BY <3>1
  <2> QED BY <2>1
<1>3. \A j \in 0 .. 12, l \in 0 .. 12 : j < l => ip[j] < ip[l]
  <2>1. \A j \in 0 .. 12, l \in 0 .. 12 : j < l => Begins(y, j) < Begins(y, l)
    BY MonthTable
  <2> HIDE DEF ip
  <2> QED BY <1>1, <2>1
<1> HIDE DEF ip
<1>4. ip[k] <= n /\ n < ip[k + 1]
  BY <1>1
<1>5. ASSUME NEW l \in k + 1 .. 11 PROVE n < ip[l]
  <2>1. CASE l = k + 1
    BY <1>4, <2>1
  <2>2. CASE l > k + 1
    <3>1. ip[k + 1] < ip[l] /\ ip[k + 1] \in Int /\ ip[l] \in Int
      BY <1>2, <1>3, <2>2
    <3> QED BY <1>4, <3>1
  <2> QED BY <2>1, <2>2
<1>6. ASSUME NEW q \in 0 .. 11, ip[q] <= n /\ \A l \in q + 1 .. 11 : n < ip[l]
      PROVE  q = k
  <2>1. CASE q < k
    <3>1. k \in q + 1 .. 11
      BY <2>1
    <3>2. n < ip[k] /\ ip[k] \in Int
      BY <1>2, <1>6, <3>1
    <3> QED BY <1>4, <3>2
  <2>2. CASE q > k
    <3>1. q \in k + 1 .. 11 /\ ip[q] \in Int
      BY <1>2, <2>2
    <3>2. n < ip[q]
      BY <1>5, <3>1
    <3> QED BY <1>6, <3>1, <3>2
  <2> QED BY <2>1, <2>2
<1>7. Month(n, ip) = k
  <2>1. ip[k] <= n /\ \A l \in k + 1 .. 11 : n < ip[l]
    BY <1>4, <1>5
  <2>2. \A q \in 0 .. 11 : (ip[q] <= n /\ \A l \in q + 1 .. 11 : n < ip[l]) => q = k
    BY <1>6
  <2> QED BY <2>1, <2>2 DEF Month
<1> QED BY <1>7 DEF ip

(* The day and the time of day, before and after 1970. *)
LEMMA SplitTime ==
  ASSUME NEW n \in Int, NEW r \in Nat, r < 86400
  PROVE  Split(n * 86400 + r) = [days |-> n, rem |-> r]
<1> DEFINE a == n * 86400 + r
<1>1. a \in Int /\ a \div 86400 = n /\ a % 86400 = r
  BY SMT
<1> HIDE DEF a
<1>2. /\ a >= 0 => CDiv(a, 86400) = n /\ CMod(a, 86400) = r
      /\ a < 0 /\ r = 0 => CDiv(a, 86400) = n /\ CMod(a, 86400) = 0
      /\ a < 0 /\ r # 0 => CDiv(a, 86400) = n + 1 /\ CMod(a, 86400) = r - 86400
  BY <1>1, SMT DEF CDiv, CMod
<1>3. CASE r = 0 \/ a >= 0
  <2>1. CDiv(a, 86400) = n /\ CMod(a, 86400) = r
    BY <1>1, <1>2, <1>3, SMT
  <2> QED BY <2>1, SMT DEF Split, a
<1>4. CASE r # 0 /\ a < 0
  <2>1. CDiv(a, 86400) = n + 1 /\ CMod(a, 86400) = r - 86400
    BY <1>2, <1>4, SMT
  <2> QED BY <2>1, SMT DEF Split, a
<1> QED BY <1>1, <1>3, <1>4, SMT

LEMMA ClockTime ==
  ASSUME NEW r \in Nat, r < 86400
  PROVE  /\ CDiv(r, 3600) = r \div 3600
         /\ CDiv(CMod(r, 3600), 60) = (r \div 60) % 60
         /\ CMod(CMod(r, 3600), 60) = r % 60
<1>1. CDiv(r, 3600) = r \div 3600 /\ CMod(r, 3600) = r % 3600 /\ r % 3600 \in Nat
  BY SMT DEF CDiv, CMod
<1>2. CDiv(r % 3600, 60) = (r % 3600) \div 60 /\ CMod(r % 3600, 60) = (r % 3600) % 60
  <2> DEFINE a == r % 3600
  <2>1. a \in Nat
    BY <1>1
  <2> HIDE DEF a
  <2>2. CDiv(a, 60) = a \div 60 /\ CMod(a, 60) = a % 60
    BY <2>1, SMT DEF CDiv, CMod
  <2> QED BY <2>2 DEF a
<1>3. (r % 3600) \div 60 = (r \div 60) % 60 /\ (r % 3600) % 60 = r % 60
  BY SMT
<1> QED BY <1>1, <1>2, <1>3, SMT

LEMMA Weekday ==
  ASSUME NEW n \in Int
  PROVE  (IF CMod(4 + n, 7) < 0 THEN CMod(4 + n, 7) + 7 ELSE CMod(4 + n, 7)) = (4 + n) % 7
<1> DEFINE a == 4 + n
<1>1. a \in Int /\ a % 7 \in 0 .. 6
  OBVIOUS
<1> HIDE DEF a
<1>2. /\ a >= 0 => CMod(a, 7) = a % 7
      /\ a < 0 /\ a % 7 = 0 => CMod(a, 7) = 0
      /\ a < 0 /\ a % 7 # 0 => CMod(a, 7) = (a % 7) - 7
  BY <1>1 DEF CMod, CDiv
<1>3. (IF CMod(a, 7) < 0 THEN CMod(a, 7) + 7 ELSE CMod(a, 7)) = a % 7
  BY <1>1, <1>2
<1> QED BY <1>3 DEF a

(* The guess of the year loop rounds down. *)
LEMMA GuessDown ==
  ASSUME NEW n \in Int
  PROVE  CDiv(n, 365) - (IF CMod(n, 365) < 0 THEN 1 ELSE 0) = n \div 365
BY DEF CDiv, CMod

-----------------------------------------------------------------------------
(***************************************************************************)
(* The calendar counts the days, gmtime counts them off again.             *)
(***************************************************************************)
CalendarOK ==
  /\ today \in Int /\ year \in Int /\ month \in 1 .. 12 /\ mday \in Int /\ yday \in Int
  /\ today = NewYear(year) + yday
  /\ 1 <= mday /\ mday <= MonthDays(year, month)
  /\ yday = Begins(year, month - 1) + mday - 1
  /\ wday = (4 + today) % 7

(* A result field by field. *)
Tm(e, f, g, l, p, q, r, u) ==
  [tm_hour |-> e, tm_min |-> f, tm_sec |-> g, tm_wday |-> l,
   tm_year |-> p, tm_yday |-> q, tm_mon |-> r, tm_mday |-> u]

LEMMA TimeFields ==
  ASSUME NEW e, NEW f, NEW g, NEW l
  PROVE  [NoTime EXCEPT !.tm_hour = e, !.tm_min = f, !.tm_sec = g, !.tm_wday = l]
           = Tm(e, f, g, l, 0, 0, 0, 0)
<1>1. NoTime = Tm(0, 0, 0, 0, 0, 0, 0, 0)
  BY DEF NoTime, Tm
<1>2. [Tm(0, 0, 0, 0, 0, 0, 0, 0) EXCEPT !.tm_hour = e] = Tm(e, 0, 0, 0, 0, 0, 0, 0)
  BY DEF Tm
<1>3. [Tm(e, 0, 0, 0, 0, 0, 0, 0) EXCEPT !.tm_min = f] = Tm(e, f, 0, 0, 0, 0, 0, 0)
  BY DEF Tm
<1>4. [Tm(e, f, 0, 0, 0, 0, 0, 0) EXCEPT !.tm_sec = g] = Tm(e, f, g, 0, 0, 0, 0, 0)
  BY DEF Tm
<1>5. [Tm(e, f, g, 0, 0, 0, 0, 0) EXCEPT !.tm_wday = l] = Tm(e, f, g, l, 0, 0, 0, 0)
  BY DEF Tm
<1> QED BY <1>1, <1>2, <1>3, <1>4, <1>5

(* What gmtime has found of the second it was called for. *)
Found(yr, yd, mo, md) ==
  Tm(second \div 3600, (second \div 60) % 60, second % 60, wday, yr, yd, mo, md)

(* The year and the days of the loop are always another name of today. *)
CallOK ==
  /\ at \in {"idle", "years", "done"}
  /\ at = "years" => /\ days \in Int /\ guess \in Int
                     /\ NewYear(guess) + days = today
                     /\ tp = Found(0, 0, 0, 0)
  /\ at = "done" => tp = Found(year, yday, month, mday)

(* The first guess is off by the leap days in between, less than a year: the  *)
(* second one is right.                                                       *)
TurnsOK ==
  /\ turns \in Nat
  /\ Settable(today) /\ at = "years" =>
       /\ turns = 0 => guess = 1970
       /\ turns = 1 => -365 <= days /\ days < 730
       /\ turns >= 2 => Fits(days, guess)
  /\ Settable(today) => turns <= 2
  /\ at = "idle" => turns = 0

GmtInv == CalendarOK /\ CallOK /\ TurnsOK

LEMMA GmtInitInv == GmtInit => GmtInv
<1> SUFFICES ASSUME GmtInit PROVE GmtInv
  OBVIOUS
<1>1. /\ today = 0 /\ year = 1970 /\ month = 1 /\ mday = 1 /\ wday = 4 /\ yday = 0
      /\ at = "idle" /\ turns = 0
  BY DEF GmtInit
<1>2. NewYear(1970) = 0
  BY DEF NewYear, Leaps
<1>3. Begins(1970, 0) = 0 /\ MonthDays(1970, 1) \in Nat /\ MonthDays(1970, 1) > 0
  BY MonthTable
<1>4. CalendarOK
  BY <1>1, <1>2, <1>3 DEF CalendarOK
<1>5. CallOK /\ TurnsOK
  BY <1>1 DEF CallOK, TurnsOK
<1> QED BY <1>4, <1>5 DEF GmtInv

(* The day of the year is one. *)
LEMMA YdayRange ==
  ASSUME CalendarOK
  PROVE  /\ 0 <= yday /\ yday < YearDays(year)
         /\ Begins(year, month - 1) <= yday
         /\ yday < Begins(year, month - 1 + 1)
<1>1. /\ year \in Int /\ month \in 1 .. 12 /\ mday \in Int /\ 1 <= mday
      /\ mday <= MonthDays(year, month) /\ yday = Begins(year, month - 1) + mday - 1
      /\ yday \in Int
  BY DEF CalendarOK
<1>2. /\ \A k \in 0 .. 12 : Begins(year, k) \in Nat
      /\ Begins(year, 0) = 0 /\ Begins(year, 12) = YearDays(year)
      /\ \A k \in 1 .. 12 : Begins(year, k) = Begins(year, k - 1) + MonthDays(year, k)
      /\ \A k \in 1 .. 12 : MonthDays(year, k) \in Nat /\ MonthDays(year, k) > 0
  BY <1>1, MonthTable
<1>3. \A j \in 0 .. 12, k \in 0 .. 12 : j < k => Begins(year, j) < Begins(year, k)
  BY <1>1, MonthTable
<1>4. /\ Begins(year, month - 1) \in Nat /\ Begins(year, month) \in Nat
      /\ Begins(year, 12) \in Nat
      /\ Begins(year, month) = Begins(year, month - 1) + MonthDays(year, month)
      /\ MonthDays(year, month) \in Nat /\ MonthDays(year, month) > 0 /\ month - 1 + 1 = month
  BY <1>1, <1>2
<1>5. Begins(year, month) <= Begins(year, 12)
  <2>1. CASE month = 12
    BY <1>4, <2>1
  <2>2. CASE month < 12
    <3>1. Begins(year, month) < Begins(year, 12)
      BY <1>1, <1>3, <2>2
    <3>2. Begins(year, month) \in Nat /\ Begins(year, 12) \in Nat
      BY <1>4
    <3> QED BY <3>1, <3>2
  <2> QED BY <1>1, <2>1, <2>2
<1>6. 0 <= yday /\ Begins(year, month - 1) <= yday /\ yday < Begins(year, month)
  BY <1>1, <1>4
<1>7. yday < YearDays(year)
  <2>1. Begins(year, month) <= YearDays(year) /\ YearDays(year) \in Nat
    BY <1>2, <1>4, <1>5
  <2>2. yday \in Int /\ Begins(year, month) \in Nat
    BY <1>1, <1>4
  <2> QED BY <1>6, <2>1, <2>2
<1> QED BY <1>4, <1>6, <1>7

LEMMA NextDayStep == ASSUME CalendarOK, NextDay PROVE CalendarOK'
<1>1. /\ today \in Int /\ year \in Int /\ month \in 1 .. 12 /\ mday \in Int /\ yday \in Int
      /\ today = NewYear(year) + yday
      /\ 1 <= mday /\ mday <= MonthDays(year, month) /\ yday = Begins(year, month - 1) + mday - 1
      /\ wday = (4 + today) % 7
  BY DEF CalendarOK
<1>2. today' = today + 1 /\ wday' = (wday + 1) % 7
  BY DEF NextDay
<1>3. wday' = (4 + today') % 7
  BY <1>1, <1>2
<1>4. /\ Begins(year, month - 1) \in Nat /\ Begins(year, month) \in Nat
      /\ Begins(year, 12) = YearDays(year)
      /\ Begins(year, month) = Begins(year, month - 1) + MonthDays(year, month)
      /\ \A k \in 1 .. 12 : MonthDays(year, k) \in Nat /\ MonthDays(year, k) > 0
  <2>1. /\ \A k \in 0 .. 12 : Begins(year, k) \in Nat
        /\ \A k \in 1 .. 12 : Begins(year, k) = Begins(year, k - 1) + MonthDays(year, k)
        /\ \A k \in 1 .. 12 : MonthDays(year, k) \in Nat /\ MonthDays(year, k) > 0
        /\ Begins(year, 12) = YearDays(year)
    BY <1>1, MonthTable
  <2> QED BY <1>1, <2>1
<1>5. NewYear(year) \in Int /\ NewYear(year + 1) = NewYear(year) + YearDays(year)
  BY <1>1, YearAfter
<1>6. CASE mday < MonthDays(year, month)
  <2>1. mday' = mday + 1 /\ yday' = yday + 1 /\ year' = year /\ month' = month
    BY <1>6 DEF NextDay
  <2>2. today' = NewYear(year') + yday'
    BY <1>1, <1>2, <1>5, <2>1
  <2>3. mday' <= MonthDays(year', month') /\ 1 <= mday'
    BY <1>1, <1>4, <1>6, <2>1
  <2>4. yday' = Begins(year, month' - 1) + mday' - 1
    BY <1>1, <1>4, <2>1
  <2> QED BY <1>1, <1>2, <1>3, <2>1, <2>2, <2>3, <2>4 DEF CalendarOK
<1>7. CASE ~(mday < MonthDays(year, month)) /\ month < 12
  <2>1. mday' = 1 /\ yday' = yday + 1 /\ year' = year /\ month' = month + 1
    BY <1>7 DEF NextDay
  <2>2. mday = MonthDays(year, month)
    BY <1>1, <1>4, <1>7
  <2>3. today' = NewYear(year') + yday'
    BY <1>1, <1>2, <1>5, <2>1
  <2>4. yday' = Begins(year, month' - 1) + mday' - 1
    <3>1. month' - 1 = month
      BY <1>1, <2>1
    <3> QED BY <1>1, <1>4, <2>1, <2>2, <3>1
  <2>5. 1 <= mday' /\ mday' <= MonthDays(year', month') /\ month' \in 1 .. 12
    <3>1. month' \in 1 .. 12
      BY <1>1, <1>7, <2>1
    <3> QED BY <1>4, <2>1, <3>1
  <2> QED BY <1>1, <1>2, <1>3, <2>1, <2>3, <2>4, <2>5 DEF CalendarOK
<1>8. CASE ~(mday < MonthDays(year, month)) /\ ~(month < 12)
  <2>1. mday' = 1 /\ yday' = 0 /\ year' = year + 1 /\ month' = 1
    BY <1>8 DEF NextDay
  <2>2. mday = MonthDays(year, month) /\ month = 12
    BY <1>1, <1>4, <1>8
  <2>3. yday = YearDays(year) - 1
    BY <1>1, <1>4, <2>2
  <2>4. today' = NewYear(year') + yday'
    <3>1. NewYear(year') = NewYear(year) + YearDays(year) /\ YearDays(year) \in Nat
      BY <1>5, <2>1 DEF YearDays
    <3> QED BY <1>1, <1>2, <1>5, <2>1, <2>3, <3>1
  <2>5. Begins(year', 0) = 0 /\ MonthDays(year', 1) \in Nat /\ MonthDays(year', 1) > 0 /\ year' \in Int
    <3>1. year' \in Int
      BY <1>1, <2>1
    <3> QED BY <3>1, MonthTable
  <2>6. yday' = Begins(year', month' - 1) + mday' - 1
    BY <2>1, <2>5
  <2>7. 1 <= mday' /\ mday' <= MonthDays(year', month')
    BY <2>1, <2>5
  <2> QED BY <1>1, <1>2, <1>3, <2>1, <2>4, <2>5, <2>6, <2>7 DEF CalendarOK
<1> QED BY <1>6, <1>7, <1>8

LEMMA PreviousDayStep == ASSUME CalendarOK, PreviousDay PROVE CalendarOK'
<1>1. /\ today \in Int /\ year \in Int /\ month \in 1 .. 12 /\ mday \in Int /\ yday \in Int
      /\ today = NewYear(year) + yday
      /\ 1 <= mday /\ mday <= MonthDays(year, month) /\ yday = Begins(year, month - 1) + mday - 1
      /\ wday = (4 + today) % 7
  BY DEF CalendarOK
<1>2. today' = today - 1 /\ wday' = (wday + 6) % 7
  BY DEF PreviousDay
<1>3. wday' = (4 + today') % 7
  BY <1>1, <1>2
<1>4. /\ \A k \in 0 .. 12 : Begins(year, k) \in Nat
      /\ \A k \in 1 .. 12 : Begins(year, k) = Begins(year, k - 1) + MonthDays(year, k)
      /\ \A k \in 1 .. 12 : MonthDays(year, k) \in Nat /\ MonthDays(year, k) > 0
      /\ Begins(year, 0) = 0
  BY <1>1, MonthTable
<1>5. NewYear(year) \in Int
  BY <1>1, YearAfter
<1>6. CASE mday > 1
  <2>1. mday' = mday - 1 /\ yday' = yday - 1 /\ year' = year /\ month' = month
    BY <1>6 DEF PreviousDay
  <2>2. today' = NewYear(year') + yday'
    BY <1>1, <1>2, <1>5, <2>1
  <2>3. mday' <= MonthDays(year', month') /\ 1 <= mday'
    BY <1>1, <1>4, <1>6, <2>1
  <2>4. yday' = Begins(year, month' - 1) + mday' - 1
    <3>1. Begins(year, month - 1) \in Int
      BY <1>1, <1>4
    <3> QED BY <1>1, <2>1, <3>1
  <2> QED BY <1>1, <1>2, <1>3, <2>1, <2>2, <2>3, <2>4 DEF CalendarOK
<1>7. CASE ~(mday > 1) /\ month > 1
  <2>1. /\ mday' = MonthDays(year, month - 1) /\ yday' = yday - 1 /\ year' = year
        /\ month' = month - 1
    BY <1>7 DEF PreviousDay
  <2>2. mday = 1 /\ month - 1 \in 1 .. 12
    BY <1>1, <1>7
  <2>3. today' = NewYear(year') + yday'
    BY <1>1, <1>2, <1>5, <2>1
  <2>4. yday' = Begins(year, month' - 1) + mday' - 1
    <3>1. /\ Begins(year, month - 1) = Begins(year, month - 1 - 1) + MonthDays(year, month - 1)
          /\ MonthDays(year, month - 1) \in Int /\ Begins(year, month - 1 - 1) \in Int
      BY <1>4, <2>2
    <3> QED BY <1>1, <2>1, <2>2, <3>1
  <2>5. 1 <= mday' /\ mday' <= MonthDays(year', month') /\ mday' \in Int
    BY <1>4, <2>1, <2>2
  <2> QED BY <1>1, <1>2, <1>3, <2>1, <2>2, <2>3, <2>4, <2>5 DEF CalendarOK
<1>8. CASE ~(mday > 1) /\ ~(month > 1)
  <2>1. /\ mday' = 31 /\ year' = year - 1 /\ month' = 12
        /\ yday' = IF LeapYear(year - 1) THEN 365 ELSE 364
    BY <1>8 DEF PreviousDay
  <2>2. mday = 1 /\ month = 1 /\ yday = 0
    BY <1>1, <1>4, <1>8
  <2>3. year' \in Int /\ year' + 1 = year /\ yday' = YearDays(year') - 1 /\ yday' \in Int
    BY <1>1, <2>1 DEF YearDays
  <2>4. NewYear(year') \in Int /\ NewYear(year) = NewYear(year') + YearDays(year')
    BY <2>3, YearAfter
  <2>5. today' = NewYear(year') + yday'
    <3>1. today = NewYear(year) /\ YearDays(year') \in Nat
      BY <1>1, <1>5, <2>2 DEF YearDays
    <3> HIDE DEF YearDays
    <3> QED BY <1>2, <1>5, <2>3, <2>4, <3>1
  <2>6. /\ Begins(year', 12) = YearDays(year') /\ MonthDays(year', 12) = 31
        /\ Begins(year', 12) = Begins(year', 11) + MonthDays(year', 12)
        /\ Begins(year', 11) \in Nat
    BY <2>3, MonthTable
  <2>7. yday' = Begins(year', month' - 1) + mday' - 1
    BY <2>1, <2>3, <2>6
  <2> QED BY <1>1, <1>2, <1>3, <2>1, <2>3, <2>5, <2>6, <2>7 DEF CalendarOK
<1> QED BY <1>6, <1>7, <1>8

(* The two actions of the calendar leave no call behind. *)
LEMMA ReturnedStep == ASSUME Returned PROVE CallOK' /\ TurnsOK'
<1>1. at' = "idle" /\ turns' = 0
  BY DEF Returned
<1> QED BY <1>1 DEF CallOK, TurnsOK

LEMMA CallStep == ASSUME GmtInv, NEW sec \in Seconds, Call(sec) PROVE GmtInv'
<1>1. sec \in Nat /\ sec < 86400
  BY SecondAssumption
<1>2. today \in Int /\ wday = (4 + today) % 7
  BY DEF GmtInv, CalendarOK
<1> DEFINE n == Split(today * 86400 + sec)
           w == CMod(4 + n.days, 7)
<1>3. n = [days |-> today, rem |-> sec]
  BY <1>1, <1>2, SplitTime
<1>4. n.days = today /\ n.rem = sec
  BY <1>3
<1>5. /\ days' = n.days
      /\ tp' = [NoTime EXCEPT !.tm_hour = CDiv(n.rem, 3600),
                              !.tm_min = CDiv(CMod(n.rem, 3600), 60),
                              !.tm_sec = CMod(CMod(n.rem, 3600), 60),
                              !.tm_wday = IF w < 0 THEN w + 7 ELSE w]
      /\ at' = "years" /\ second' = sec /\ guess' = 1970 /\ turns' = 0
      /\ UNCHANGED calendar
  BY DEF Call
<1>6. (IF w < 0 THEN w + 7 ELSE w) = wday
  BY <1>2, <1>4, Weekday
<1>7. /\ CDiv(n.rem, 3600) = sec \div 3600 /\ CDiv(CMod(n.rem, 3600), 60) = (sec \div 60) % 60
      /\ CMod(CMod(n.rem, 3600), 60) = sec % 60
  BY <1>1, <1>4, ClockTime
<1>8. today' = today /\ year' = year /\ month' = month /\ mday' = mday /\ wday' = wday
      /\ yday' = yday
  BY <1>5 DEF calendar
<1> HIDE DEF n, w
<1>9. tp' = Found(0, 0, 0, 0)'
  <2> DEFINE wd == IF w < 0 THEN w + 7 ELSE w
             hr == CDiv(n.rem, 3600)
             mn == CDiv(CMod(n.rem, 3600), 60)
             sc == CMod(CMod(n.rem, 3600), 60)
  <2>1. tp' = [NoTime EXCEPT !.tm_hour = hr, !.tm_min = mn, !.tm_sec = sc, !.tm_wday = wd]
    BY <1>5
  <2>2. wd = wday /\ hr = sec \div 3600 /\ mn = (sec \div 60) % 60 /\ sc = sec % 60
    BY <1>6, <1>7
  <2> HIDE DEF wd, hr, mn, sc
  <2>3. tp' = Tm(hr, mn, sc, wd, 0, 0, 0, 0)
    BY <2>1, TimeFields
  <2> QED BY <1>5, <1>8, <2>2, <2>3 DEF Found
<1>10. NewYear(guess') + days' = today'
  <2>1. NewYear(1970) = 0
    BY DEF NewYear, Leaps
  <2> QED BY <1>2, <1>4, <1>5, <1>8, <2>1
<1>11. CalendarOK'
  BY <1>8 DEF GmtInv, CalendarOK
<1>12. CallOK'
  BY <1>2, <1>4, <1>5, <1>9, <1>10 DEF CallOK
<1>13. TurnsOK'
  BY <1>5 DEF TurnsOK
<1> QED BY <1>11, <1>12, <1>13 DEF GmtInv

(* A turn of the loop: another year for the same day.                         *)
LEMMA CorrectStep == ASSUME GmtInv, Correct PROVE GmtInv'
<1> DEFINE yg == guess + days \div 365
<1>1. /\ at = "years" /\ days \in Int /\ guess \in Int /\ today \in Int
      /\ NewYear(guess) + days = today /\ tp = Found(0, 0, 0, 0)
  BY DEF GmtInv, CalendarOK, CallOK, Correct
<1>2. guess + CDiv(days, 365) - (IF CMod(days, 365) < 0 THEN 1 ELSE 0) = yg
  <2>1. CDiv(days, 365) \in Int
    BY <1>1 DEF CDiv
  <2>2. (IF CMod(days, 365) < 0 THEN 1 ELSE 0) \in Int
    OBVIOUS
  <2>3. CDiv(days, 365) - (IF CMod(days, 365) < 0 THEN 1 ELSE 0) = days \div 365
    BY <1>1, GuessDown
  <2> QED BY <1>1, <2>1, <2>2, <2>3
<1>3. /\ guess' = yg
      /\ days' = days - ((yg - guess) * 365 + LeapsThruEndOf(yg - 1)
                                              - LeapsThruEndOf(guess - 1))
      /\ turns' = turns + 1 /\ at' = "years" /\ UNCHANGED <<calendar, second, tp>>
  <2> DEFINE y == guess + CDiv(days, 365) - (IF CMod(days, 365) < 0 THEN 1 ELSE 0)
  <2>1. /\ guess' = y
        /\ days' = days - ((y - guess) * 365 + LeapsThruEndOf(y - 1)
                                               - LeapsThruEndOf(guess - 1))
        /\ turns' = turns + 1 /\ at' = "years" /\ UNCHANGED <<calendar, second, tp>>
    BY <1>1 DEF Correct
  <2>2. y = yg
    BY <1>2
  <2> HIDE DEF y, yg
  <2> QED BY <2>1, <2>2, Zenon
<1>4. yg \in Int
  BY <1>1
<1>5. /\ LeapsThruEndOf(yg - 1) = Leaps(yg - 1) /\ Leaps(yg - 1) \in Int
      /\ LeapsThruEndOf(guess - 1) = Leaps(guess - 1) /\ Leaps(guess - 1) \in Int
      /\ Leaps(1969) \in Int
  BY <1>1, <1>4, LeapCount
<1>6. /\ NewYear(guess) = 365 * (guess - 1970) + Leaps(guess - 1) - Leaps(1969)
      /\ NewYear(yg) = 365 * (yg - 1970) + Leaps(yg - 1) - Leaps(1969)
  BY DEF NewYear
<1>7. /\ today' = today /\ year' = year /\ month' = month /\ mday' = mday
      /\ wday' = wday /\ yday' = yday /\ second' = second /\ tp' = tp
  BY <1>3 DEF calendar
<1> HIDE DEF yg
<1>8. days' = today - NewYear(yg) /\ days' \in Int
  BY <1>1, <1>3, <1>4, <1>5, <1>6
<1>9. CalendarOK'
  BY <1>7 DEF GmtInv, CalendarOK
<1>10. CallOK'
  <2>1. NewYear(yg) \in Int
    BY <1>4, YearAfter
  <2>2. NewYear(guess') + days' = today'
    BY <1>1, <1>3, <1>7, <1>8, <2>1
  <2>3. tp' = Found(0, 0, 0, 0)'
    <3>1. Found(0, 0, 0, 0)' = Found(0, 0, 0, 0)
      BY <1>7 DEF Found
    <3> QED BY <1>1, <1>7, <3>1
  <2> QED BY <1>3, <1>4, <1>8, <2>2, <2>3 DEF CallOK
<1>11. turns \in Nat /\ (Settable(today) => turns <= 2)
  BY DEF GmtInv, TurnsOK
<1>12. ASSUME Settable(today), turns = 0
       PROVE  -365 <= days' /\ days' < 730
  <2>1. guess = 1970
    BY <1>1, <1>12 DEF GmtInv, TurnsOK
  <2>2. NewYear(1970) = 0
    BY DEF NewYear, Leaps
  <2>3. days = today
    BY <1>1, <2>1, <2>2
  <2>4. -24855 <= days /\ days <= 115740
    BY <1>12, <2>3 DEF Settable
  <2> DEFINE q == days \div 365
             r == days % 365
  <2>5. /\ q \in Int /\ r \in Int /\ -69 <= q /\ q <= 317 /\ 0 <= r /\ r < 365
        /\ days = 365 * q + r /\ yg = 1970 + q
    <3>1. q \in Int /\ r \in Int /\ 0 <= r /\ r < 365 /\ days = 365 * q + r
      BY <1>1
    <3>2. yg = 1970 + q
      BY <2>1 DEF yg
    <3> HIDE DEF q, r
    <3> QED BY <2>4, <3>1, <3>2
  <2> HIDE DEF q, r
  <2> DEFINE y == yg - 1
  <2>6. y \in Int /\ 1900 <= y /\ y <= 2286
    BY <2>5
  <2> HIDE DEF y
  <2>7. Leaps(y) \in Int /\ 457 <= Leaps(y) /\ Leaps(y) <= 557
    <3>1. y \div 4 \in Int /\ 475 <= y \div 4 /\ y \div 4 <= 571
      BY <2>6
    <3>2. y \div 100 \in Int /\ 19 <= y \div 100 /\ y \div 100 <= 22
      BY <2>6
    <3>3. y \div 400 \in Int /\ 4 <= y \div 400 /\ y \div 400 <= 5
      BY <2>6
    <3> QED BY <3>1, <3>2, <3>3 DEF Leaps
  <2>8. Leaps(1969) = 477
    BY DEF Leaps
  <2>9. NewYear(yg) = 365 * q + Leaps(y) - 477
    BY <1>6, <2>5, <2>8 DEF y
  <2> QED BY <1>8, <2>3, <2>5, <2>7, <2>9
<1>13. ASSUME Settable(today), turns = 1
       PROVE  Fits(days', guess')
  <2>1. -365 <= days /\ days < 730 /\ ~Fits(days, guess)
    BY <1>1, <1>13 DEF GmtInv, TurnsOK, Correct
  <2>2. \A y \in Int, n \in Int : Fits(n, y) <=> 0 <= n /\ n < YearDays(y)
    BY LeapRule DEF Fits, YearDays
  <2>3. YearDays(guess) \in {365, 366} /\ YearDays(yg) \in {365, 366}
    BY DEF YearDays
  <2>4. NewYear(guess) \in Int /\ NewYear(yg) \in Int
    BY <1>1, <1>4, YearAfter
  <2>5. CASE days < 0
    <3>1. yg = guess - 1
      BY <1>1, <2>1, <2>5 DEF yg
    <3>2. yg + 1 = guess
      BY <1>1, <3>1
    <3>3. NewYear(guess) = NewYear(yg) + YearDays(yg)
      BY <1>4, <3>2, YearAfter
    <3>4. days' = days + YearDays(yg)
      BY <1>1, <1>8, <2>3, <2>4, <3>3
    <3>5. 0 <= days' /\ days' < YearDays(yg)
      BY <1>1, <2>1, <2>3, <2>5, <3>4
    <3> QED BY <1>3, <1>4, <1>8, <2>2, <3>5
  <2>6. CASE days >= YearDays(guess)
    <3>1. days >= 365
      BY <1>1, <2>3, <2>6
    <3>2. yg = guess + 1
      BY <1>1, <2>1, <3>1 DEF yg
    <3>3. NewYear(yg) = NewYear(guess) + YearDays(guess)
      BY <1>1, <3>2, YearAfter
    <3>4. days' = days - YearDays(guess)
      BY <1>1, <1>8, <2>3, <2>4, <3>3
    <3>5. 0 <= days' /\ days' < YearDays(yg)
      BY <1>1, <2>1, <2>3, <2>6, <3>4
    <3> QED BY <1>3, <1>4, <1>8, <2>2, <3>5
  <2> QED BY <1>1, <2>1, <2>2, <2>3, <2>5, <2>6
<1>14. Settable(today) => turns < 2
  BY <1>1, <1>11 DEF GmtInv, TurnsOK, Correct
<1>15. TurnsOK'
  <2>1. turns' = turns + 1 /\ at' = "years" /\ turns' \in Nat /\ turns' # 0
    BY <1>3, <1>11
  <2>2. Settable(today)' <=> Settable(today)
    BY <1>7 DEF Settable
  <2>3. Settable(today) => turns' <= 2
    BY <1>11, <1>14, <2>1
  <2>4. Settable(today) /\ turns' = 1 => -365 <= days' /\ days' < 730
    BY <1>11, <1>12, <2>1
  <2>5. Settable(today) /\ turns' >= 2 => Fits(days', guess')
    <3>1. Settable(today) /\ turns' >= 2 => turns = 1
      BY <1>11, <1>14, <2>1
    <3> QED BY <1>13, <3>1
  <2> QED BY <2>1, <2>2, <2>3, <2>4, <2>5 DEF TurnsOK
<1> QED BY <1>9, <1>10, <1>15 DEF GmtInv

(* The loop ends in the year of the calendar, and the search in its month.    *)
LEMMA FinishStep == ASSUME GmtInv, Finish PROVE GmtInv'
<1>1. /\ days \in Int /\ guess \in Int /\ NewYear(guess) + days = today
      /\ tp = Found(0, 0, 0, 0)
  BY DEF GmtInv, CallOK, Finish
<1>2. CalendarOK
  BY DEF GmtInv
<1>3. /\ today = NewYear(year) + yday /\ year \in Int /\ yday \in Int /\ today \in Int
      /\ month \in 1 .. 12 /\ mday \in Int
      /\ yday = Begins(year, month - 1) + mday - 1
  BY <1>2 DEF CalendarOK
<1>4. 0 <= days /\ days < YearDays(guess)
  BY <1>1, LeapRule DEF Finish, Fits, YearDays
<1>5. /\ 0 <= yday /\ yday < YearDays(year) /\ Begins(year, month - 1) <= yday
      /\ yday < Begins(year, month - 1 + 1)
  BY <1>2, YdayRange
<1>6. guess = year /\ days = yday
  <2>1. NewYear(guess) + days = NewYear(year) + yday
    BY <1>1, <1>3
  <2> QED BY <1>1, <1>3, <1>4, <1>5, <2>1, OneYear
<1> DEFINE ip == MonYday(IsLeap(guess))
           mo == Month(days, ip)
<1>7. IsLeap(guess) = LeapYear(year)
  <2>1. IsLeap(guess) \in BOOLEAN /\ LeapYear(year) \in BOOLEAN
    BY DEF IsLeap, LeapYear
  <2>2. IsLeap(guess) <=> LeapYear(year)
    BY <1>3, <1>6, LeapRule
  <2> QED BY <2>1, <2>2
<1>8. mo = month - 1
  <2>1. month - 1 \in 0 .. 11
    BY <1>3
  <2>2. Month(yday, MonYday(LeapYear(year))) = month - 1
    BY <1>3, <1>5, <2>1, MonthFound
  <2> QED BY <1>6, <1>7, <2>2
<1>9. days - ip[mo] + 1 = mday /\ mo + 1 = month
  <2>1. ip[mo] = Begins(year, month - 1)
    BY <1>7, <1>8, Zenon DEF Begins
  <2>2. Begins(year, month - 1) \in Nat
    <3>1. month - 1 \in 0 .. 12
      BY <1>3
    <3> QED BY <1>3, <3>1, MonthTable
  <2>3. days - Begins(year, month - 1) + 1 = mday
    <3>1. days = Begins(year, month - 1) + mday - 1 /\ mday \in Int
      BY <1>3, <1>6
    <3> QED BY <2>2, <3>1
  <2>4. mo + 1 = month
    BY <1>3, <1>8
  <2> HIDE DEF ip, mo
  <2> QED BY <2>1, <2>3, <2>4
<1>10. /\ tp' = [tp EXCEPT !.tm_year = guess, !.tm_yday = days,
                           !.tm_mon = mo + 1, !.tm_mday = days - ip[mo] + 1]
       /\ at' = "done" /\ UNCHANGED <<calendar, second, days, guess, turns>>
  BY DEF Finish
<1> HIDE DEF ip, mo
<1>11. tp' = [tp EXCEPT !.tm_year = year, !.tm_yday = yday, !.tm_mon = month, !.tm_mday = mday]
  BY <1>6, <1>9, <1>10, Zenon
<1>12. tp' = Found(year, yday, month, mday)
  <2> DEFINE hr == second \div 3600
             mn == (second \div 60) % 60
             sc == second % 60
  <2>1. tp = Tm(hr, mn, sc, wday, 0, 0, 0, 0)
    BY <1>1 DEF Found
  <2>2. Found(year, yday, month, mday) = Tm(hr, mn, sc, wday, year, yday, month, mday)
    BY DEF Found
  <2> HIDE DEF hr, mn, sc
  <2>3. [Tm(hr, mn, sc, wday, 0, 0, 0, 0) EXCEPT !.tm_year = year, !.tm_yday = yday,
                                                 !.tm_mon = month, !.tm_mday = mday]
          = Tm(hr, mn, sc, wday, year, yday, month, mday)
    <3>1. [Tm(hr, mn, sc, wday, 0, 0, 0, 0) EXCEPT !.tm_year = year]
            = Tm(hr, mn, sc, wday, year, 0, 0, 0)
      BY DEF Tm
    <3>2. [Tm(hr, mn, sc, wday, year, 0, 0, 0) EXCEPT !.tm_yday = yday]
            = Tm(hr, mn, sc, wday, year, yday, 0, 0)
      BY DEF Tm
    <3>3. [Tm(hr, mn, sc, wday, year, yday, 0, 0) EXCEPT !.tm_mon = month]
            = Tm(hr, mn, sc, wday, year, yday, month, 0)
      BY DEF Tm
    <3>4. [Tm(hr, mn, sc, wday, year, yday, month, 0) EXCEPT !.tm_mday = mday]
            = Tm(hr, mn, sc, wday, year, yday, month, mday)
      BY DEF Tm
    <3> QED BY <3>1, <3>2, <3>3, <3>4
  <2> QED BY <1>11, <2>1, <2>2, <2>3
<1>13. /\ today' = today /\ year' = year /\ month' = month /\ mday' = mday
       /\ wday' = wday /\ yday' = yday /\ second' = second /\ turns' = turns
  BY <1>10 DEF calendar
<1>14. CalendarOK'
  BY <1>2, <1>13 DEF CalendarOK
<1>15. CallOK'
  <2>1. Found(year, yday, month, mday)' = Found(year, yday, month, mday)
    BY <1>13 DEF Found
  <2> QED BY <1>10, <1>12, <2>1 DEF CallOK
<1>16. TurnsOK'
  <2>1. Settable(today)' <=> Settable(today)
    BY <1>13 DEF Settable
  <2> QED BY <1>10, <1>13, <2>1 DEF GmtInv, TurnsOK
<1> QED BY <1>14, <1>15, <1>16 DEF GmtInv

LEMMA GmtStepInv == ASSUME GmtInv, [GmtNext]_gmtVars PROVE GmtInv'
<1>1. CASE NextDay
  <2>1. CalendarOK'
    BY <1>1, NextDayStep DEF GmtInv
  <2> QED BY <1>1, <2>1, ReturnedStep DEF NextDay, GmtInv
<1>2. CASE PreviousDay
  <2>1. CalendarOK'
    BY <1>2, PreviousDayStep DEF GmtInv
  <2> QED BY <1>2, <2>1, ReturnedStep DEF PreviousDay, GmtInv
<1>3. CASE \E sec \in Seconds : Call(sec)
  BY <1>3, CallStep
<1>4. CASE Correct
  BY <1>4, CorrectStep
<1>5. CASE Finish
  BY <1>5, FinishStep
<1>6. CASE UNCHANGED gmtVars
  <2>1. /\ UNCHANGED <<today, year, month, mday, wday, yday>>
        /\ UNCHANGED <<at, second, days, guess, tp, turns>>
    BY <1>6 DEF gmtVars, calendar, call
  <2>2. CalendarOK'
    BY <2>1 DEF GmtInv, CalendarOK
  <2>3. CallOK'
    BY <2>1 DEF GmtInv, CallOK, Found, Tm
  <2>4. TurnsOK'
    BY <2>1 DEF GmtInv, TurnsOK, Settable, Fits
  <2> QED BY <2>2, <2>3, <2>4 DEF GmtInv
<1> QED BY <1>1, <1>2, <1>3, <1>4, <1>5, <1>6 DEF GmtNext

(* The loop only ever renames the day, and it stops in the one year that the
   day belongs to. *)
THEOREM GmtInductive == GmtSpec => []GmtInv
<1> QED BY GmtInitInv, GmtStepInv, PTL DEF GmtSpec

(* gmtime gives the date, the time of day, the weekday and the day of the year
   of the calendar, on every day before and after 1970 and at every second of
   it; on the days that can be set its loop ends within two corrections. *)
THEOREM GmtimeIsCorrect == GmtSpec => []GmtimeCorrect
<1>1. GmtInv => GmtimeCorrect
  BY DEF GmtInv, CallOK, TurnsOK, Found, Tm, GmtimeCorrect
<1> QED BY <1>1, GmtInductive, PTL
=============================================================================
