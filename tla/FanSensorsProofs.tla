-------------------------- MODULE FanSensorsProofs --------------------------
(* Proofs about the fan sensors, for every set of lines, every width of the  *)
(* counters and any number of pulses.                                        *)
EXTENDS FanSensors, TLAPS

(* app.h and p2f of app.c agree: every fan gets the interrupts of its own pin. *)
LEMMA Wiring ==
  /\ \A n \in Fans : FanPin[n] \in 8 .. 15 /\ Pin2fan(FanPin[n]) = n
  /\ \A l \in 8 .. 15 : Pin2fan(l) \in Fans /\ FanPin[Pin2fan(l)] = l
<1>1. \A n \in Fans : n \in {0, 1, 2, 3, 4, 5, 6, 7}
  BY DEF Fans
<1>2. \A n \in Fans : FanPin[n] \in 8 .. 15 /\ Pin2fan(FanPin[n]) = n
  BY <1>1 DEF Fans, FanPin, Pin2fan, P2f
<1>3. \A l \in 8 .. 15 : l \in {8, 9, 10, 11, 12, 13, 14, 15}
  OBVIOUS
<1>4. \A l \in 8 .. 15 : Pin2fan(l) \in Fans /\ FanPin[Pin2fan(l)] = l
  BY <1>3 DEF Fans, FanPin, Pin2fan, P2f
<1> QED BY <1>2, <1>4

(* A counter that wraps is one more range behind. *)
LEMMA OneRangeMore ==
  ASSUME NEW x \in Int, WholeRanges(x)
  PROVE  WholeRanges(x + USHORT)
<1>1. PICK w \in 0 .. x : x = w * USHORT
  BY DEF WholeRanges
<1>2. w + 1 \in 0 .. x + USHORT /\ x + USHORT = (w + 1) * USHORT
  BY <1>1, BoundAssumption
<1> QED BY <1>2 DEF WholeRanges

LEMMA NoRange == WholeRanges(0)
BY BoundAssumption DEF WholeRanges

LEMMA CountWraps ==
  ASSUME NEW u \in Nat \ {0}, NEW x \in 0 .. u - 1
  PROVE  (x + 1) % u = IF x + 1 = u THEN 0 ELSE x + 1
OBVIOUS

-----------------------------------------------------------------------------
(* The handler has found a pending line. *)
ServiceOK ==
  /\ isr \in {"clear", "count"} => line \in Lines
  /\ isr = "clear" => pr[line]

(* What get_fan has loaded is accounted for up to the load. *)
ReaderOK ==
  pc = "clear" =>
    LET known == reported[f] + lost[f] + got
    IN  WholeRanges(seen - known) /\ seen <= counted[f]

(* A pulse is pending, in service or counted, and never two of these. *)
Pending(n) == IF FanPin[n] \in Lines /\ pr[FanPin[n]] THEN 1 ELSE 0
Serving(n) == IF isr = "count" /\ line = FanPin[n] THEN 1 ELSE 0
PulsesOK == \A n \in Fans : counted[n] + Pending(n) + Serving(n) <= Pulses(n)

(* A waiting pulse that has not ended is still there, and waits once. *)
LongPulseOK ==
  \A l \in Lines \ short :
    /\ Waiting(l) => level[l] = 1
    /\ ~(pr[l] /\ isr = "count" /\ line = l)

IInv ==
  /\ TypeOK /\ ServiceOK /\ ReaderOK /\ CountsAccounted
  /\ PulsesOK /\ LongPulseOK /\ LongPulsesCounted /\ NoneForgotten

LEMMA InitInv == Init => IInv
<1> SUFFICES ASSUME Init PROVE IInv
  OBVIOUS
<1>1. TypeOK
  BY BoundAssumption DEF Init, TypeOK, Fans
<1>2. CountsAccounted
  BY NoRange DEF Init, CountsAccounted, Fans
<1>3. PulsesOK
  BY Wiring DEF Init, PulsesOK, Pending, Serving, Pulses, Fans
<1>4. LongPulseOK /\ LongPulsesCounted
  BY DEF Init, LongPulseOK, LongPulsesCounted, Waiting, Fans
<1>5. NoneForgotten
  BY DEF Init, NoneForgotten, Asserted, Groups
<1> QED BY <1>1, <1>2, <1>3, <1>4, <1>5 DEF Init, IInv, ServiceOK, ReaderOK

(* A step that latches every request it raises and drops no latch. *)
LEMMA Remembered ==
  ASSUME NoneForgotten, Asserted(pr') \subseteq Asserted(pr) \union nvic',
         nvic \subseteq nvic', UNCHANGED <<isr, group>>
  PROVE  NoneForgotten'
BY DEF NoneForgotten, Asserted

(* The hardware changes nothing that is counted. *)
LEMMA PinSteps == ASSUME IInv, NEW l \in Lines, Rise(l) \/ Fall(l) PROVE IInv'
<1> USE DEF IInv
<1>1. CASE Rise(l)
  <2>1. TypeOK'
    <3>1. nvic' \subseteq Groups
      BY <1>1 DEF Rise, TypeOK, Asserted
    <3>2. level' \in [Lines -> 0 .. 1] /\ pr' \in [Lines -> BOOLEAN] /\ edges' \in [Lines -> Nat]
      BY <1>1 DEF Rise, TypeOK
    <3>3. UNCHANGED <<fan, isr, line, group, pc, f, got, seen, lost, reported, counted, short>>
      BY <1>1 DEF Rise, service, reader
    <3> QED BY <3>1, <3>2, <3>3 DEF TypeOK
  <2>2. ServiceOK' /\ ReaderOK' /\ CountsAccounted'
    BY <1>1 DEF Rise, TypeOK, ServiceOK, ReaderOK, CountsAccounted, WholeRanges, service, reader
  <2>3. PulsesOK'
    BY <1>1, Wiring DEF Rise, TypeOK, PulsesOK, Pending, Serving, Pulses, service, reader
  <2>4. LongPulseOK' /\ LongPulsesCounted'
    BY <1>1, Wiring DEF Rise, TypeOK, LongPulseOK, LongPulsesCounted, Waiting, service, reader
  <2>5. NoneForgotten'
    <3>1. /\ nvic' = nvic \union (Asserted(pr') \ Asserted(pr))
          /\ UNCHANGED <<isr, group>>
      BY <1>1 DEF Rise, service
    <3> QED BY <3>1, Remembered
  <2> QED BY <2>1, <2>2, <2>3, <2>4, <2>5
<1>2. CASE Fall(l)
  <2>1. TypeOK'
    BY <1>2 DEF Fall, TypeOK, service, requests, reader
  <2>2. ServiceOK' /\ ReaderOK' /\ CountsAccounted'
    BY <1>2 DEF Fall, TypeOK, ServiceOK, ReaderOK, CountsAccounted, WholeRanges, service, reader
  <2>3. PulsesOK'
    BY <1>2 DEF Fall, PulsesOK, Pending, Serving, Pulses, service, reader
  <2>4. LongPulseOK' /\ LongPulsesCounted'
    BY <1>2, Wiring DEF Fall, TypeOK, LongPulseOK, LongPulsesCounted, Waiting, service, reader
  <2>5. NoneForgotten'
    BY <1>2 DEF Fall, service, requests, NoneForgotten, Asserted
  <2> QED BY <2>1, <2>2, <2>3, <2>4, <2>5
<1> QED BY <1>1, <1>2

(* The loop of a handler finds the lowest of the lines pending. *)
LEMMA LowestLine ==
  ASSUME NEW found \in SUBSET (8 .. 15), found # {}
  PROVE  (CHOOSE l \in found : \A k \in found : l <= k) \in found
<1>1. \E l \in found : \A k \in found : l <= k
  <2> SUFFICES ASSUME \A l \in found : \E k \in found : k < l PROVE FALSE
    OBVIOUS
  <2>1. \A l \in found : l \in 8 .. 15
    OBVIOUS
  <2>2. 8 \notin found /\ 9 \notin found
    <3>1. 8 \notin found
      BY <2>1
    <3> QED BY <2>1, <3>1
  <2>3. 10 \notin found
    BY <2>1, <2>2
  <2>4. 11 \notin found
    BY <2>1, <2>2, <2>3
  <2>5. 12 \notin found
    BY <2>1, <2>2, <2>3, <2>4
  <2>6. 13 \notin found
    BY <2>1, <2>2, <2>3, <2>4, <2>5
  <2>7. 14 \notin found
    BY <2>1, <2>2, <2>3, <2>4, <2>5, <2>6
  <2>8. 15 \notin found
    BY <2>1, <2>2, <2>3, <2>4, <2>5, <2>6, <2>7
  <2>9. PICK l \in found : TRUE
    OBVIOUS
  <2>10. l \in {8, 9, 10, 11, 12, 13, 14, 15}
    BY <2>1, <2>9
  <2> QED BY <2>2, <2>3, <2>4, <2>5, <2>6, <2>7, <2>8, <2>9, <2>10
<1> QED BY <1>1

(* The handlers: only Count changes a counter, by one pulse of its own line. *)
LEMMA HandlerSteps == IInv /\ Handler => IInv'
<1> SUFFICES ASSUME IInv, Handler PROVE IInv'
  OBVIOUS
<1> USE DEF IInv, pins, reader
<1>1. CASE Scan
  <2>1. PICK g \in nvic : ScanFor(g, {l \in g : pr[l]})
    BY <1>1 DEF Scan
  <2> DEFINE found == {l \in g : pr[l]}
  <2>2. /\ isr = "off" /\ nvic' = nvic \ {g} /\ group' = g /\ isr' # "off"
        /\ UNCHANGED <<pins, fan, reader, counted>>
        /\ IF found = {} THEN isr' = "exit" /\ line' = line
           ELSE isr' = "clear" /\ line' = CHOOSE l \in found : \A k \in found : l <= k
    BY <2>1 DEF ScanFor
  <2>3. g \in Groups /\ found \in SUBSET Lines /\ \A l \in found : pr[l]
    BY DEF TypeOK, Groups
  <2> HIDE DEF found
  <2>4. isr' = "clear" => line' \in Lines /\ pr[line']
    <3>1. \A some \in SUBSET Lines : some # {} =>
            (CHOOSE l \in some : \A k \in some : l <= k) \in some
      BY LineAssumption, LowestLine
    <3> QED BY <2>2, <2>3, <3>1
  <2>5. TypeOK'
    BY <2>2, <2>3, <2>4 DEF TypeOK
  <2>6. ServiceOK' /\ ReaderOK' /\ CountsAccounted'
    BY <2>2, <2>4 DEF ServiceOK, ReaderOK, CountsAccounted, WholeRanges
  <2>7. PulsesOK'
    BY <2>2 DEF PulsesOK, Pending, Serving, Pulses
  <2>8. LongPulseOK' /\ LongPulsesCounted'
    BY <2>2 DEF LongPulseOK, LongPulsesCounted, Waiting
  <2>9. NoneForgotten'
    BY <2>2 DEF NoneForgotten, Asserted
  <2> QED BY <2>5, <2>6, <2>7, <2>8, <2>9
<1>2. CASE ClearPending
  <2>1. TypeOK'
    BY <1>2 DEF ClearPending, TypeOK, requests
  <2>2. ServiceOK' /\ ReaderOK' /\ CountsAccounted'
    BY <1>2 DEF ClearPending, ServiceOK, ReaderOK, CountsAccounted, WholeRanges
  <2>3. PulsesOK'
    BY <1>2, Wiring DEF ClearPending, TypeOK, ServiceOK, PulsesOK, Pending, Serving, Pulses
  <2>4. LongPulseOK' /\ LongPulsesCounted'
    BY <1>2, Wiring, LineAssumption
    DEF ClearPending, TypeOK, ServiceOK, LongPulseOK, LongPulsesCounted, Waiting
  <2>5. NoneForgotten'
    BY <1>2 DEF ClearPending, requests, TypeOK, NoneForgotten, Asserted
  <2> QED BY <2>1, <2>2, <2>3, <2>4, <2>5
<1>3. CASE Count
  <2> DEFINE n == Pin2fan(line)
  <2>1. /\ isr = "count" /\ line \in Lines /\ n \in Fans /\ FanPin[n] = line
        /\ isr' = "exit" /\ line' = 0 /\ UNCHANGED <<pins, reader>> /\ UNCHANGED <<nvic, group>>
    BY <1>3, Wiring, LineAssumption DEF Count, ServiceOK, requests
  <2>a. NoneForgotten'
    BY <2>1 DEF NoneForgotten, Asserted
  <2>2. CASE level[line] = 1
    <3>1. /\ fan' = [fan EXCEPT ![n] = IF fan[n] + 1 = USHORT THEN 0 ELSE fan[n] + 1]
          /\ counted' = [counted EXCEPT ![n] = counted[n] + 1]
      BY <1>3, <2>1, <2>2, CountWraps, BoundAssumption DEF Count, TypeOK
    <3> HIDE DEF n
    <3>2. TypeOK'
      BY <2>1, <3>1, BoundAssumption DEF TypeOK
    <3>3. ServiceOK' /\ ReaderOK'
      BY <2>1, <3>1 DEF TypeOK, ServiceOK, ReaderOK, WholeRanges
    <3>4. CountsAccounted'
      <4> SUFFICES ASSUME NEW k \in Fans
                   PROVE  WholeRanges(counted'[k] - (reported[k] + lost[k] + fan'[k]))
        BY <2>1 DEF CountsAccounted, WholeRanges
      <4>1. WholeRanges(counted[k] - (reported[k] + lost[k] + fan[k]))
        BY DEF CountsAccounted
      <4>2. CASE k = n /\ fan[n] + 1 = USHORT
        <5>1. counted'[k] - (reported[k] + lost[k] + fan'[k])
                = (counted[k] - (reported[k] + lost[k] + fan[k])) + USHORT
          BY <3>1, <4>2, BoundAssumption DEF TypeOK
        <5> QED BY <4>1, <5>1, OneRangeMore DEF TypeOK
      <4>3. CASE ~(k = n /\ fan[n] + 1 = USHORT)
        <5>1. counted'[k] - (reported[k] + lost[k] + fan'[k])
                = counted[k] - (reported[k] + lost[k] + fan[k])
          BY <3>1, <4>3, BoundAssumption DEF TypeOK
        <5> QED BY <4>1, <5>1
      <4> QED BY <4>2, <4>3
    <3>5. PulsesOK'
      BY <2>1, <3>1, Wiring DEF TypeOK, PulsesOK, Pending, Serving, Pulses
    <3>6. LongPulseOK' /\ LongPulsesCounted'
      BY <2>1, <3>1, Wiring DEF TypeOK, LongPulseOK, LongPulsesCounted, Waiting
    <3> QED BY <2>a, <3>2, <3>3, <3>4, <3>5, <3>6
  <2>3. CASE level[line] # 1
    <3>1. UNCHANGED <<fan, counted>>
      BY <1>3, <2>3 DEF Count
    <3>2. TypeOK'
      BY <2>1, <3>1 DEF TypeOK
    <3>3. ServiceOK' /\ ReaderOK' /\ CountsAccounted'
      BY <2>1, <3>1 DEF ServiceOK, ReaderOK, CountsAccounted, WholeRanges
    <3>4. PulsesOK'
      BY <2>1, <3>1 DEF TypeOK, PulsesOK, Pending, Serving, Pulses
    <3>5. LongPulseOK' /\ LongPulsesCounted'
      BY <2>1, <2>3, <3>1 DEF TypeOK, LongPulseOK, LongPulsesCounted, Waiting
    <3> QED BY <2>a, <3>2, <3>3, <3>4, <3>5
  <2> QED BY <2>2, <2>3
<1>4. CASE ClearPendingIRQ \/ Return
  <2>1. /\ isr \in {"exit", "return"} /\ isr' \in {"return", "off"} /\ line' = line
        /\ UNCHANGED <<pins, fan, reader, counted>>
    BY <1>4 DEF ClearPendingIRQ, Return
  <2>2. nvic' \subseteq Groups /\ group' \in Groups \union {{}}
    BY <1>4 DEF ClearPendingIRQ, Return, Asserted, TypeOK
  <2>3. TypeOK'
    BY <2>1, <2>2 DEF TypeOK
  <2>4. ServiceOK' /\ ReaderOK' /\ CountsAccounted'
    BY <2>1 DEF ServiceOK, ReaderOK, CountsAccounted, WholeRanges
  <2>5. PulsesOK'
    BY <2>1 DEF PulsesOK, Pending, Serving, Pulses
  <2>6. LongPulseOK' /\ LongPulsesCounted'
    BY <2>1 DEF LongPulseOK, LongPulsesCounted, Waiting
  <2>7. NoneForgotten'
    <3>1. Asserted(pr)' = Asserted(pr)
      BY <2>1 DEF Asserted
    <3>2. CASE ClearPendingIRQ
      BY <3>1, <3>2 DEF ClearPendingIRQ, NoneForgotten
    <3>3. CASE Return
      BY <3>1, <3>3 DEF Return, NoneForgotten
    <3> QED BY <1>4, <3>2, <3>3
  <2> QED BY <2>3, <2>4, <2>5, <2>6, <2>7
<1> QED BY <1>1, <1>2, <1>3, <1>4 DEF Handler

(* get_fan: what came between the load and the store goes into lost. *)
LEMMA ReaderSteps ==
  ASSUME IInv, (\E n \in Fans : GetFan(n)) \/ ClearFan PROVE IInv'
<1> USE DEF IInv, pins, service, requests
<1>1. ASSUME NEW n \in Fans, GetFan(n) PROVE IInv'
  <2>1. TypeOK'
    BY <1>1 DEF GetFan, TypeOK
  <2>2. ServiceOK' /\ CountsAccounted'
    BY <1>1 DEF GetFan, ServiceOK, CountsAccounted, WholeRanges
  <2>3. ReaderOK'
    BY <1>1 DEF GetFan, TypeOK, ReaderOK, CountsAccounted, WholeRanges
  <2>4. PulsesOK' /\ LongPulseOK' /\ LongPulsesCounted'
    BY <1>1 DEF GetFan, PulsesOK, Pending, Serving, Pulses, LongPulseOK, LongPulsesCounted, Waiting
  <2>5. NoneForgotten'
    BY <1>1 DEF GetFan, NoneForgotten, Asserted
  <2> QED BY <2>1, <2>2, <2>3, <2>4, <2>5
<1>2. CASE ClearFan
  <2>1. TypeOK'
    BY <1>2, BoundAssumption DEF ClearFan, TypeOK, ReaderOK, WholeRanges, Fans
  <2>2. ServiceOK' /\ ReaderOK'
    BY <1>2 DEF ClearFan, ServiceOK, ReaderOK
  <2>3. CountsAccounted'
    <3> SUFFICES ASSUME NEW k \in Fans
                 PROVE  WholeRanges(counted[k] - (reported'[k] + lost'[k] + fan'[k]))
      BY <1>2 DEF ClearFan, CountsAccounted, WholeRanges
    <3>1. CASE k = f
      <4>1. counted[k] - (reported'[k] + lost'[k] + fan'[k]) = seen - (reported[f] + lost[f] + got)
        BY <1>2, <3>1 DEF ClearFan, TypeOK
      <4> QED BY <1>2, <4>1 DEF ClearFan, ReaderOK
    <3>2. CASE k # f
      BY <1>2, <3>2 DEF ClearFan, TypeOK, CountsAccounted
    <3> QED BY <3>1, <3>2
  <2>4. PulsesOK' /\ LongPulseOK' /\ LongPulsesCounted'
    BY <1>2 DEF ClearFan, PulsesOK, Pending, Serving, Pulses, LongPulseOK, LongPulsesCounted, Waiting
  <2>5. NoneForgotten'
    BY <1>2 DEF ClearFan, NoneForgotten, Asserted
  <2> QED BY <2>1, <2>2, <2>3, <2>4, <2>5
<1> QED BY <1>1, <1>2

LEMMA StepInv == IInv /\ [Next]_vars => IInv'
<1> SUFFICES ASSUME IInv, [Next]_vars PROVE IInv'
  OBVIOUS
<1>1. ASSUME NEW l \in Lines, GetFan(Pin2fan(l)) PROVE IInv'
  BY <1>1, Wiring, LineAssumption, ReaderSteps
<1>2. CASE UNCHANGED vars
  BY <1>2 DEF vars, pins, service, requests, reader, IInv, TypeOK, ServiceOK, ReaderOK,
              CountsAccounted, WholeRanges, PulsesOK, Pending, Serving, Pulses, LongPulseOK,
              LongPulsesCounted, Waiting, NoneForgotten, Asserted
<1> QED BY <1>1, <1>2, PinSteps, HandlerSteps, ReaderSteps DEF Next

-----------------------------------------------------------------------------
(* The invariant of the handlers, the callback and get_fan together. *)
THEOREM Inductive == Spec => []IInv
BY InitInv, StepInv, PTL DEF Spec

(* Every variable keeps its type: a counter of status.fan its width. *)
THEOREM TypeCorrect == Spec => []TypeOK
<1>1. IInv => TypeOK
  BY DEF IInv
<1> QED BY Inductive, <1>1, PTL

(* For any number of pulses on any lines, every counted pulse was reported, is *)
(* in its counter, fell between the load and the store of get_fan, or went     *)
(* with a wrap of the counter.                                                 *)
THEOREM AllAccounted == Spec => []CountsAccounted
<1>1. IInv => CountsAccounted
  BY DEF IInv
<1> QED BY Inductive, <1>1, PTL

(* No interleaving of pulses, handlers and get_fan reports a pulse twice or    *)
(* for another fan.                                                            *)
THEOREM NoneInvented == Spec => []NeverOvercounted
<1>1. IInv => NeverOvercounted
  <2> SUFFICES ASSUME IInv, NEW n \in Fans PROVE reported[n] + fan[n] <= Pulses(n)
    BY DEF NeverOvercounted
  <2>1. reported[n] + lost[n] + fan[n] <= counted[n]
    BY DEF IInv, TypeOK, CountsAccounted, WholeRanges
  <2>2. counted[n] <= Pulses(n)
    BY Wiring DEF IInv, TypeOK, PulsesOK, Pending, Serving, Pulses
  <2> QED BY <2>1, <2>2, Wiring DEF IInv, TypeOK, Pulses
<1> QED BY Inductive, <1>1, PTL

(* A pulse that outlasts its wait for the handler is counted exactly once, in  *)
(* spite of handlers that serve one line per entry.                            *)
THEOREM NoLongPulseLost == Spec => []LongPulsesCounted
<1>1. IInv => LongPulsesCounted
  BY DEF IInv
<1> QED BY Inductive, <1>1, PTL

(* For any lines, a pending bit never stays without an interrupt to serve it, *)
(* although each entry serves one line and then drops its latch.              *)
THEOREM AllRemembered == Spec => []NoneForgotten
<1>1. IInv => NoneForgotten
  BY DEF IInv
<1> QED BY Inductive, <1>1, PTL
=============================================================================
