---------------------------- MODULE FanSensors ----------------------------
(***************************************************************************)
(* Fan speed: the rising edges of eight tachometer lines, latched by EXTI, *)
(* are counted one per interrupt by EXTI9_5_IRQHandler and                 *)
(* EXTI15_10_IRQHandler, and read and cleared by the main loop (get_fan).  *)
(* The pin levels move on while a handler runs.                            *)
(*                                                                         *)
(* Of the interrupt controller, which is no part of the source, the module *)
(* assumes what the ARMv7-M manual says of level-sensitive interrupts:     *)
(* EXTI requests an interrupt as long as a pending bit of its lines is     *)
(* set; the request is latched when it rises, taken by the entry of the    *)
(* handler, and latched again if it still stands when the handler returns. *)
(* The handlers end with HAL_NVIC_ClearPendingIRQ, which drops the latch;  *)
(* the manual spares a latch whose request still stands, and the module    *)
(* takes the worse case that it goes, too.                                 *)
(***************************************************************************)
EXTENDS Integers, FiniteSets, Functions

CONSTANTS
  Lines,       \* the EXTI lines with a fan on them, among 8 .. 15
  USHORT,      \* how many values a counter can have
  MaxEdges     \* bound: how many pulses the lines give in all

ASSUME LineAssumption == Lines \subseteq 8 .. 15
ASSUME BoundAssumption == USHORT \in Nat \ {0} /\ MaxEdges \in Nat

VARIABLES
  level,       \* the pins
  pr,          \* the pending bits of EXTI
  fan,         \* status.fan
  nvic,        \* the interrupts latched by the NVIC: groups of lines
  isr, line,   \* where the handler is, and the line it found
  group,       \* the lines of the handler that runs, or none
  pc, f, got,  \* where get_fan is, its argument, the count it has read
  edges,       \* history: pulses so far
  counted,     \* history: increments of each counter
  lost,        \* history: increments between the load and the store of get_fan
  seen,        \* history: the increments when get_fan loaded the count
  reported,    \* history: what get_fan has returned so far, in pulses
  short        \* history: lines with a pulse that ended before it was counted

pins == <<level, pr, edges, short>>
service == <<isr, line>>
requests == <<nvic, group>>
reader == <<pc, f, got, seen, lost, reported>>
vars == <<pins, fan, service, requests, reader, counted>>

Fans == 0 .. 7

\* FAN0_GPIO .. FAN7_GPIO of app.h: the pin that each fan is wired to, which is
\* also its EXTI line (a comment in fan_sensors_init of lib.c speaks of lines 0 to 7).
FanPin == [n \in Fans |-> <<11, 10, 12, 13, 14, 15, 8, 9>>[n + 1]]

\* p2f of app.c, and a form with two entries swapped.
P2fSwapped == [n \in Fans |-> <<6, 7, 0, 1, 2, 3, 4, 5>>[n + 1]]

P2f == [n \in Fans |-> <<6, 7, 1, 0, 2, 3, 4, 5>>[n + 1]]

\* pin2fan, for the pins that HAL_GPIO_EXTI_Callback gives it
Pin2fan(pin) == P2f[pin - 8]

\* The lines of EXTI9_5 and of EXTI15_10.
Groups == {Lines \intersect 5 .. 9, Lines \intersect 10 .. 15}

\* The groups that request an interrupt with these pending bits.
Asserted(bits) == {g \in Groups : \E l \in g : bits[l]}

-----------------------------------------------------------------------------
Init ==
  /\ level = [l \in Lines |-> 0]
  /\ pr = [l \in Lines |-> FALSE]
  /\ fan = [n \in Fans |-> 0]
  /\ isr = "off" /\ line = 0
  /\ nvic = {} /\ group = {}
  /\ pc = "off" /\ f = 0 /\ got = 0 /\ seen = 0
  /\ edges = [l \in Lines |-> 0]
  /\ counted = [n \in Fans |-> 0]
  /\ lost = [n \in Fans |-> 0]
  /\ reported = [n \in Fans |-> 0]
  /\ short = {}

\* The hardware: a pulse begins, sets the pending bit and may raise the request of
\* its group; a pulse ends.
Waiting(l) == pr[l] \/ (isr = "count" /\ line = l)

Rise(l) ==
  /\ level[l] = 0
  /\ SumFunction(edges) < MaxEdges
  /\ level' = [level EXCEPT ![l] = 1]
  /\ pr' = [pr EXCEPT ![l] = TRUE]
  /\ nvic' = nvic \union (Asserted(pr') \ Asserted(pr))
  /\ edges' = [edges EXCEPT ![l] = @ + 1]
  /\ UNCHANGED <<fan, service, group, reader, counted, short>>

Fall(l) ==
  /\ level[l] = 1
  /\ level' = [level EXCEPT ![l] = 0]
  /\ short' = IF Waiting(l) THEN short \union {l} ELSE short
  /\ UNCHANGED <<pr, edges, fan, service, requests, reader, counted>>

-----------------------------------------------------------------------------
\* A latched interrupt enters the handler of its group, which takes the lowest
\* pending line and then breaks; first a form whose loop is one short.
ScanFor(g, found) ==
  /\ isr = "off"
  /\ nvic' = nvic \ {g} /\ group' = g
  /\ IF found = {}
       THEN isr' = "exit" /\ UNCHANGED line
       ELSE isr' = "clear" /\ line' = CHOOSE l \in found : \A k \in found : l <= k
  /\ UNCHANGED <<pins, fan, reader, counted>>

ScanShort == \E g \in nvic : ScanFor(g, {l \in g : pr[l] /\ l < 15})

Scan == \E g \in nvic : ScanFor(g, {l \in g : pr[l]})

\* HAL_GPIO_EXTI_IRQHandler clears the pending bit of the line before it calls
\* HAL_GPIO_EXTI_Callback; first a form that clears those of all lines.
ClearAllPending ==
  /\ isr = "clear"
  /\ pr' = [l \in Lines |-> FALSE]
  /\ isr' = "count"
  /\ UNCHANGED <<level, edges, short, fan, line, requests, reader, counted>>

ClearPending ==
  /\ isr = "clear"
  /\ pr' = [pr EXCEPT ![line] = FALSE]
  /\ isr' = "count"
  /\ UNCHANGED <<level, edges, short, fan, line, requests, reader, counted>>

\* HAL_GPIO_EXTI_Callback: count if the pin is still high.
Count ==
  /\ isr = "count"
  /\ IF level[line] = 1
       THEN LET n == Pin2fan(line)
            IN  /\ fan' = [fan EXCEPT ![n] = (@ + 1) % USHORT]
                /\ counted' = [counted EXCEPT ![n] = @ + 1]
       ELSE UNCHANGED <<fan, counted>>
  /\ isr' = "exit" /\ line' = 0
  /\ UNCHANGED <<pins, requests, reader>>

\* HAL_NVIC_ClearPendingIRQ drops what was latched since the entry, and the return
\* from the handler latches a request that still stands.  First a form that names
\* the interrupt of the other handler.
ClearOtherIRQ ==
  /\ isr = "exit"
  /\ nvic' = nvic \ (Groups \ {group})
  /\ isr' = "return"
  /\ UNCHANGED <<pins, fan, line, group, reader, counted>>

ClearPendingIRQ ==
  /\ isr = "exit"
  /\ nvic' = nvic \ {group}
  /\ isr' = "return"
  /\ UNCHANGED <<pins, fan, line, group, reader, counted>>

Return ==
  /\ isr = "return"
  /\ nvic' = nvic \union (Asserted(pr) \intersect {group})
  /\ isr' = "off" /\ group' = {}
  /\ UNCHANGED <<pins, fan, line, reader, counted>>

Handler == Scan \/ ClearPending \/ Count \/ ClearPendingIRQ \/ Return

-----------------------------------------------------------------------------
\* get_fan, which the handler can preempt between its load and its store; info
\* calls it for each fan.
GetFan(n) ==
  /\ isr = "off" /\ pc = "off"
  /\ pc' = "clear"
  /\ f' = n /\ got' = fan[n] /\ seen' = counted[n]
  /\ UNCHANGED <<pins, fan, service, requests, counted, lost, reported>>

\* status.fan[fan] = 0, and the return.  First a form that forgets the clearing.
KeepFan ==
  /\ isr = "off" /\ pc = "clear"
  /\ reported' = [reported EXCEPT ![f] = @ + got]
  /\ lost' = [lost EXCEPT ![f] = @ + counted[f] - seen]
  /\ pc' = "off" /\ f' = 0 /\ got' = 0 /\ seen' = 0
  /\ UNCHANGED <<pins, fan, service, requests, counted>>

ClearFan ==
  /\ isr = "off" /\ pc = "clear"
  /\ fan' = [fan EXCEPT ![f] = 0]
  /\ reported' = [reported EXCEPT ![f] = @ + got]
  /\ lost' = [lost EXCEPT ![f] = @ + counted[f] - seen]
  /\ pc' = "off" /\ f' = 0 /\ got' = 0 /\ seen' = 0
  /\ UNCHANGED <<pins, service, requests, counted>>

Next ==
  \/ \E l \in Lines : Rise(l) \/ Fall(l)
  \/ Handler
  \/ \E l \in Lines : GetFan(Pin2fan(l))
  \/ ClearFan

Spec == Init /\ [][Next]_vars

\* The handlers outrank everything else that is modelled here.
FairSpec == Spec /\ WF_vars(Handler)

-----------------------------------------------------------------------------
TypeOK ==
  /\ level \in [Lines -> 0 .. 1] /\ pr \in [Lines -> BOOLEAN]
  /\ fan \in [Fans -> 0 .. USHORT - 1]
  /\ isr \in {"off", "clear", "count", "exit", "return"} /\ line \in Lines \union {0}
  /\ nvic \subseteq Groups /\ group \in Groups \union {{}}
  /\ pc \in {"off", "clear"} /\ f \in Fans /\ got \in 0 .. USHORT - 1
  /\ edges \in [Lines -> Nat] /\ short \subseteq Lines /\ seen \in Nat
  /\ counted \in [Fans -> Nat] /\ lost \in [Fans -> Nat] /\ reported \in [Fans -> Nat]

\* The pulses of the pin that fan n is wired to.
Pulses(n) == IF FanPin[n] \in Lines THEN edges[FanPin[n]] ELSE 0

\* Fan n is never credited with more pulses than the pin it is wired to gave: the
\* handlers, p2f and get_fan together never count a pulse twice, report it twice
\* or put it down to another fan.
NeverOvercounted ==
  \A n \in Fans : reported[n] + fan[n] <= Pulses(n)

\* A pulse that stays high until its handler reads the pin is counted exactly
\* once, even when other lines of the group pend and each entry serves one.
LongPulsesCounted ==
  \A n \in Fans :
    LET l == FanPin[n]
    IN  l \in Lines \ short => counted[n] + (IF Waiting(l) THEN 1 ELSE 0) = edges[l]

\* n pulses make a counter wrap some number of times.
WholeRanges(n) == \E wraps \in 0 .. n : n = wraps * USHORT

\* A counted pulse is reported, still in the counter, or came between the load
\* and the store of get_fan; or the counter has wrapped.  No other is lost.
CountsAccounted ==
  \A n \in Fans :
    LET known == reported[n] + lost[n] + fan[n]
    IN  WholeRanges(counted[n] - known)

\* No pending line is without an interrupt: its group is latched by the NVIC, or its
\* handler runs and the return will see the request.  HAL_NVIC_ClearPendingIRQ may
\* drop a latch that a pulse has set while the handler ran.
NoneForgotten ==
  \A g \in Asserted(pr) : g \in nvic \/ (isr # "off" /\ group = g)

\* A latched pulse is served once the pulses of the other lines pause (MaxEdges
\* bounds them): an entry of the handler serves only the lowest pending line, drops
\* what was latched meanwhile, and leaves the rest to the entry that follows from
\* the request that still stands at its return.
PendingServed == \A l \in Lines : pr[l] ~> ~pr[l]
=============================================================================
