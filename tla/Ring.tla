-------------------------------- MODULE Ring --------------------------------
(***************************************************************************)
(* ring.c: the ring buffer behind the terminal echo.  The USB interrupt    *)
(* writes it (process_input), the main loop reads it (app), no lock and no *)
(* interrupt masking: a whole ring_write falls between two accesses of     *)
(* ring_read, each of which is a step below.  The reader is stopped while  *)
(* ring_write runs, so the loads of tail in ring_freespace (up to three)   *)
(* agree, and the test of the room is one step with the call.  The stores  *)
(* of ring_write are steps of their own, and the reader may run between    *)
(* them: more than the code does, and what is shown holds for it as well.  *)
(***************************************************************************)
EXTENDS Integers, Sequences

CONSTANTS
  Size,       \* RING_BUFFER_SIZE
  Data,       \* the values of a uint8_t that the runs tell apart
  Zero,       \* the value of a byte of static storage at start
  MaxLen      \* bound: the longest block a caller writes or asks for

\* The code has 32, and any size that the uint16_t indices can count will do.
ASSUME SizeAssumption == Size \in Nat \ {0}
ASSUME DataAssumption == Zero \in Data
ASSUME LenAssumption == MaxLen \in Nat

VARIABLES
  data, head, tail,   \* the fields of ring_t
  wpc,                \* ring_write: "idle", at the loop test, or about to move head
  wbuf, counter,      \* ring_write: its data argument, its counter
  wret,               \* ring_write: the last value returned
  rpc,                \* ring_read: "idle", at the loop test, or about to move tail
  rlen, rbuf          \* ring_read: its len argument, the bytes copied out so far

ring == <<data, head, tail>>
writer == <<wpc, wbuf, counter, wret>>
reader == <<rpc, rlen, rbuf>>
vars == <<data, head, tail, wpc, wbuf, counter, wret, rpc, rlen, rbuf>>

Blocks == UNION {[1 .. n -> Data] : n \in 0 .. MaxLen}

-----------------------------------------------------------------------------
\* ring_freespace, and a form that forgets the byte kept free
FreespaceNoGap ==
  IF tail = head THEN Size - 1
  ELSE IF head > tail THEN Size - (head - tail)
  ELSE tail - head

Freespace ==
  IF tail = head THEN Size - 1
  ELSE IF head > tail THEN Size - ((head - tail) + 1)
  ELSE (tail - head) - 1

\* ring_datalen
Datalen == Size - (Freespace + 1)

\* The index update of both loops.
Step(x) == (x + 1) % Size

-----------------------------------------------------------------------------
Init ==
  /\ data = [i \in 0 .. Size - 1 |-> Zero]
  /\ head = 0
  /\ tail = 0
  /\ wpc = "idle" /\ wbuf = << >> /\ counter = 0 /\ wret = "ok"
  /\ rpc = "idle" /\ rlen = 0 /\ rbuf = << >>

\* ring_write is called with block s: it fits, or is refused whole.
WriteCallFitsIgnored(s) ==
  /\ wpc = "idle"
  /\ IF Freespace = 0
       THEN wret' = "full" /\ UNCHANGED <<wpc, wbuf, counter>>
       ELSE wpc' = "test" /\ wbuf' = s /\ counter' = 0 /\ wret' = "ok"
  /\ UNCHANGED <<ring, reader>>

WriteCall(s) ==
  /\ wpc = "idle"
  /\ IF Freespace = 0
       THEN wret' = "full" /\ UNCHANGED <<wpc, wbuf, counter>>
     ELSE IF Freespace < Len(s)
       THEN wret' = "no_space" /\ UNCHANGED <<wpc, wbuf, counter>>
     ELSE wpc' = "test" /\ wbuf' = s /\ counter' = 0 /\ wret' = "ok"
  /\ UNCHANGED <<ring, reader>>

\* a form that stores after head has moved
WriteStoreLate ==
  /\ wpc = "test"
  /\ counter < Len(wbuf)
  /\ data' = [data EXCEPT ![(head + Size - 1) % Size] = wbuf[counter + 1]]
  /\ counter' = counter + 1
  /\ wpc' = "advance"
  /\ UNCHANGED <<head, tail, wbuf, wret, reader>>

\* r->data[r->head] = data[counter++]
WriteStore ==
  /\ wpc = "test"
  /\ counter < Len(wbuf)
  /\ data' = [data EXCEPT ![head] = wbuf[counter + 1]]
  /\ counter' = counter + 1
  /\ wpc' = "advance"
  /\ UNCHANGED <<head, tail, wbuf, wret, reader>>

\* r->head = (r->head + 1) % RING_BUFFER_SIZE
WriteAdvance ==
  /\ wpc = "advance"
  /\ head' = Step(head)
  /\ wpc' = "test"
  /\ UNCHANGED <<data, tail, wbuf, counter, wret, reader>>

\* return RING_BUFFER_OK
WriteReturn ==
  /\ wpc = "test"
  /\ counter = Len(wbuf)
  /\ wpc' = "idle"
  /\ UNCHANGED <<ring, wbuf, counter, wret, reader>>

-----------------------------------------------------------------------------
\* ring_read is called for at most n bytes.
ReadCall(n) ==
  /\ rpc = "idle"
  /\ rpc' = "test"
  /\ rlen' = n
  /\ rbuf' = << >>
  /\ UNCHANGED <<ring, writer>>

ReadMore == tail # head /\ Len(rbuf) < rlen

\* data[counter++] = r->data[r->tail]
ReadCopy ==
  /\ rpc = "test"
  /\ ReadMore
  /\ rbuf' = Append(rbuf, data[tail])
  /\ rpc' = "advance"
  /\ UNCHANGED <<ring, rlen, writer>>

\* r->tail = (r->tail + 1) % RING_BUFFER_SIZE
ReadAdvance ==
  /\ rpc = "advance"
  /\ tail' = Step(tail)
  /\ rpc' = "test"
  /\ UNCHANGED <<data, head, rlen, rbuf, writer>>

\* return counter
ReadReturn ==
  /\ rpc = "test"
  /\ ~ReadMore
  /\ rpc' = "idle"
  /\ UNCHANGED <<ring, rlen, rbuf, writer>>

WriterStep == WriteStore \/ WriteAdvance \/ WriteReturn
ReaderStep == ReadCopy \/ ReadAdvance \/ ReadReturn

Next ==
  \/ \E s \in Blocks : WriteCall(s)
  \/ WriterStep
  \/ \E n \in 0 .. MaxLen : ReadCall(n)
  \/ ReaderStep

Spec == Init /\ [][Next]_vars

-----------------------------------------------------------------------------
TypeOK ==
  /\ data \in [0 .. Size - 1 -> Data]
  /\ head \in 0 .. Size - 1
  /\ tail \in 0 .. Size - 1
  /\ wpc \in {"idle", "test", "advance"}
  /\ wbuf \in Seq(Data)
  /\ counter \in 0 .. Len(wbuf)
  /\ wret \in {"ok", "full", "no_space"}
  /\ rpc \in {"idle", "test", "advance"}
  /\ rlen \in Nat
  /\ rbuf \in Seq(Data)

\* The number of unread bytes, and the slot of the k-th of them (k from 0).
Used == IF head >= tail THEN head - tail ELSE Size - (tail - head)
Slot(k) == IF tail + k < Size THEN tail + k ELSE tail + k - Size

\* The unread bytes, oldest first.
Contents == [i \in 1 .. Used |-> data[Slot(i - 1)]]

\* How many bytes of the accepted write are still to be made readable.
Remaining ==
  IF wpc = "idle" THEN 0
  ELSE IF wpc = "advance" THEN Len(wbuf) - counter + 1
  ELSE Len(wbuf) - counter

\* Space that ring_write found free stays free until it is used: it tests
\* ring_freespace once and then stores without looking at tail again.
WriterHasRoom == Remaining <= Freespace

\* Between its copy and its tail update the reader's slot is still unread, and
\* the last byte copied is the one that the update will release.
ReaderHoldsOldest ==
  rpc = "advance" =>
    /\ Used > 0
    /\ Len(rbuf) > 0
    /\ rbuf[Len(rbuf)] = data[tail]

\* The byte stored by the writer is in the slot that its head update publishes.
WriterHoldsNext ==
  wpc = "advance" =>
    /\ counter > 0
    /\ data[head] = wbuf[counter]

\* Unread bytes are kept: no step changes one of them, and only the reader's
\* own tail update makes one go away.  A full ring refuses; it never overwrites
\* its oldest bytes, nor wraps head onto tail and so turns full into empty.
UnreadBytesKept ==
  [][/\ \A k \in 0 .. Used - 1 : data'[Slot(k)] = data[Slot(k)]
     /\ tail' = tail => Used' >= Used]_vars

\* The bytes of the accepted write that are not readable yet, and the bytes
\* that the current or last read has taken out.
Offered ==
  IF wpc = "idle" THEN << >>
  ELSE IF wpc = "advance" THEN SubSeq(wbuf, counter, Len(wbuf))
  ELSE SubSeq(wbuf, counter + 1, Len(wbuf))

Taken == IF rpc = "advance" THEN SubSeq(rbuf, 1, Len(rbuf) - 1) ELSE rbuf

Queue == INSTANCE Fifo WITH
  Capacity <- Size - 1,
  queue <- Contents,
  offered <- Offered,
  got <- Taken,
  verdict <- wret

\* What the callers see is a first-in first-out queue of Size - 1 bytes with
\* whole-block writes: nothing lost, duplicated or reordered by preemption.
ImplementsFifo == Queue!Spec
=============================================================================
