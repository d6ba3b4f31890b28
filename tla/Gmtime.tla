------------------------------- MODULE Gmtime -------------------------------
(***************************************************************************)
(* The gmtime of lib.c, called on the days of a calendar that only knows   *)
(* how one day follows another.  The calendar walks away from 1970-01-01   *)
(* in both directions; gmtime guesses the year in a loop, one turn a step. *)
(***************************************************************************)
EXTENDS Integers

CONSTANTS
  FirstDay, LastDay,   \* bounds: the days walked through, 0 is 1970-01-01
  Seconds              \* bound: the seconds of each day that are converted

ASSUME DayAssumption == FirstDay \in Int /\ LastDay \in Int
ASSUME SecondAssumption == \A s \in Seconds : s \in Nat /\ s < 86400

VARIABLES
  today, year, month, mday, wday, yday,   \* the calendar, month from 1
  at, second,    \* where gmtime is, and the second of today it was called for
  days, guess,   \* its days and y
  tp,            \* its result
  turns          \* history: how often its loop has corrected the year

calendar == <<today, year, month, mday, wday, yday>>
call == <<at, second, days, guess, tp, turns>>
gmtVars == <<calendar, call>>

-----------------------------------------------------------------------------
\* The division and remainder of C round towards zero.
CDiv(a, b) == IF a >= 0 THEN a \div b ELSE -((-a) \div b)
CMod(a, b) == a - b * CDiv(a, b)

\* The macro DIV rounds down.
DIV(a, b) == CDiv(a, b) - (IF CMod(a, b) < 0 THEN 1 ELSE 0)

IsLeap(y) == CMod(y, 4) = 0 /\ (CMod(y, 100) # 0 \/ CMod(y, 400) = 0)

LeapsThruEndOf(y) == DIV(y, 4) - DIV(y, 100) + DIV(y, 400)

\* __mon_yday: the days of a year before each month.
MonYday(leap) ==
  LET d == IF leap THEN 1 ELSE 0
  IN  [m \in 0 .. 12 |->
         <<0, 31, 59 + d, 90 + d, 120 + d, 151 + d, 181 + d, 212 + d, 243 + d,
           273 + d, 304 + d, 334 + d, 365 + d>>[m + 1]]

\* Days and the rest of the day, and a form that forgets to borrow a day.
SplitNoBorrow(epoch) ==
  [days |-> CDiv(epoch, 86400),
   rem |-> IF CMod(epoch, 86400) < 0 THEN CMod(epoch, 86400) + 86400
           ELSE CMod(epoch, 86400)]

Split(epoch) ==
  LET q == CDiv(epoch, 86400)
      r == CMod(epoch, 86400)
  IN  IF r < 0 THEN [days |-> q - 1, rem |-> r + 86400]
      ELSE [days |-> q, rem |-> r]

-----------------------------------------------------------------------------
\* The calendar, from the Gregorian rules.
LeapYear(y) == y % 400 = 0 \/ (y % 4 = 0 /\ y % 100 # 0)

MonthDays(y, m) ==
  CASE m \in {4, 6, 9, 11} -> 30
    [] m = 2 -> IF LeapYear(y) THEN 29 ELSE 28
    [] OTHER -> 31

NoTime == [tm_hour |-> 0, tm_min |-> 0, tm_sec |-> 0, tm_wday |-> 0,
           tm_year |-> 0, tm_yday |-> 0, tm_mon |-> 0, tm_mday |-> 0]
GmtInit ==
  /\ today = 0
  /\ year = 1970 /\ month = 1 /\ mday = 1
  /\ wday = 4 /\ yday = 0
  /\ at = "idle" /\ second = 0 /\ days = 0 /\ guess = 1970 /\ tp = NoTime /\ turns = 0

\* A call has returned, or there was none today.
Returned ==
  /\ at \in {"idle", "done"}
  /\ at' = "idle" /\ second' = 0 /\ days' = 0 /\ guess' = 1970 /\ tp' = NoTime /\ turns' = 0

NextDay ==
  /\ Returned
  /\ 0 <= today /\ today < LastDay
  /\ today' = today + 1
  /\ wday' = (wday + 1) % 7
  /\ IF mday < MonthDays(year, month)
       THEN mday' = mday + 1 /\ yday' = yday + 1 /\ UNCHANGED <<year, month>>
     ELSE IF month < 12
       THEN mday' = 1 /\ month' = month + 1 /\ yday' = yday + 1 /\ UNCHANGED year
     ELSE mday' = 1 /\ month' = 1 /\ yday' = 0 /\ year' = year + 1

PreviousDay ==
  /\ Returned
  /\ FirstDay < today /\ today <= 0
  /\ today' = today - 1
  /\ wday' = (wday + 6) % 7
  /\ IF mday > 1
       THEN mday' = mday - 1 /\ yday' = yday - 1 /\ UNCHANGED <<year, month>>
     ELSE IF month > 1
       THEN /\ month' = month - 1 /\ mday' = MonthDays(year, month - 1)
            /\ yday' = yday - 1 /\ UNCHANGED year
     ELSE /\ month' = 12 /\ mday' = 31 /\ year' = year - 1
          /\ yday' = IF LeapYear(year - 1) THEN 365 ELSE 364

-----------------------------------------------------------------------------
\* gmtime: the day, the time of day and the weekday, ...
Call(s) ==
  /\ at = "idle"
  /\ LET p == Split(today * 86400 + s)
         w == CMod(4 + p.days, 7)
     IN  /\ days' = p.days
         /\ tp' = [NoTime EXCEPT !.tm_hour = CDiv(p.rem, 3600),
                                 !.tm_min = CDiv(CMod(p.rem, 3600), 60),
                                 !.tm_sec = CMod(CMod(p.rem, 3600), 60),
                                 !.tm_wday = IF w < 0 THEN w + 7 ELSE w]
  /\ at' = "years" /\ second' = s /\ guess' = 1970 /\ turns' = 0
  /\ UNCHANGED calendar

\* ... the year, guessed with 365 days a year until the days fit it, ...
Fits(n, y) == n >= 0 /\ n < (IF IsLeap(y) THEN 366 ELSE 365)

Correct ==
  /\ at = "years" /\ ~Fits(days, guess)
  /\ LET yg == guess + CDiv(days, 365) - (IF CMod(days, 365) < 0 THEN 1 ELSE 0)
     IN  /\ days' = days - ((yg - guess) * 365 + LeapsThruEndOf(yg - 1)
                                               - LeapsThruEndOf(guess - 1))
         /\ guess' = yg
  /\ turns' = turns + 1
  /\ UNCHANGED <<calendar, at, second, tp>>

\* ... and the last month that begins on the day or before it.
Month(n, ip) == CHOOSE m \in 0 .. 11 : ip[m] <= n /\ \A l \in m + 1 .. 11 : n < ip[l]

Finish ==
  /\ at = "years" /\ Fits(days, guess)
  /\ LET ip == MonYday(IsLeap(guess))
         m == Month(days, ip)
     IN  tp' = [tp EXCEPT !.tm_year = guess, !.tm_yday = days,
                          !.tm_mon = m + 1, !.tm_mday = days - ip[m] + 1]
  /\ at' = "done"
  /\ UNCHANGED <<calendar, second, days, guess, turns>>

GmtNext == NextDay \/ PreviousDay \/ (\E s \in Seconds : Call(s)) \/ Correct \/ Finish

GmtSpec == GmtInit /\ [][GmtNext]_gmtVars

-----------------------------------------------------------------------------
\* The days that the ten characters of set_time can name (9999999999 s is in 2286),
\* and what a 32-bit time_t would make of them, from December 1901 on.
Settable(n) == -24855 <= n /\ n <= 115740

\* On every day and at every second tried, before and after 1970, gmtime gives
\* the date, the weekday and the day of the year of the calendar, and its loop
\* ends, within two corrections on a day that can be set.  The month is 1 to 12
\* and the year the full one, as gmtime leaves them and mcu_time prints them; the
\* comments of struct tm say 0 to 11, and the year less 1900.
GmtimeCorrect ==
  /\ at = "done" =>
       tp = [tm_hour |-> second \div 3600, tm_min |-> (second \div 60) % 60,
             tm_sec |-> second % 60, tm_wday |-> wday, tm_year |-> year,
             tm_yday |-> yday, tm_mon |-> month, tm_mday |-> mday]
  /\ Settable(today) => turns <= 2
=============================================================================
