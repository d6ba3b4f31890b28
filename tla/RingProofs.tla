----------------------------- MODULE RingProofs -----------------------------
(* Proofs about ring.c for every buffer size and every block length. *)
EXTENDS Ring, SequenceTheorems, TLAPS

USE SizeAssumption, DataAssumption, LenAssumption

-----------------------------------------------------------------------------
(* The index arithmetic: the modulo of the loops wraps exactly at Size. *)
LEMMA StepWraps ==
  ASSUME NEW x \in 0 .. Size - 1
  PROVE  /\ Step(x) \in 0 .. Size - 1
         /\ Step(x) = IF x + 1 = Size THEN 0 ELSE x + 1
  BY DEF Step

(* What ring_freespace and ring_datalen return in terms of the unread bytes:  *)
(* together they always account for Size - 1 bytes.                           *)
LEMMA SpaceAccounts ==
  ASSUME head \in 0 .. Size - 1, tail \in 0 .. Size - 1
  PROVE  /\ Used \in 0 .. Size - 1
         /\ Freespace = Size - 1 - Used
         /\ Datalen = Used
  BY DEF Used, Freespace, Datalen

-----------------------------------------------------------------------------
(* Every variable keeps the range its C type and role give it: head and tail *)
(* never leave the buffer, counter never passes the end of the block.        *)
THEOREM TypeCorrect == Spec => []TypeOK
<1>1. Init => TypeOK
  BY DEF Init, TypeOK
<1>2. TypeOK /\ [Next]_vars => TypeOK'
  <2> SUFFICES ASSUME TypeOK, [Next]_vars PROVE TypeOK'
    OBVIOUS
  <2> USE DEF TypeOK, ring, writer, reader
  <2>1. ASSUME NEW s \in Blocks, WriteCall(s) PROVE TypeOK'
    <3>1. s \in Seq(Data)
      BY DEF Blocks
    <3> QED BY <2>1, <3>1 DEF WriteCall
  <2>2. CASE WriteStore
    BY <2>2 DEF WriteStore
  <2>3. CASE WriteAdvance
    BY <2>3, StepWraps DEF WriteAdvance
  <2>4. CASE WriteReturn
    BY <2>4 DEF WriteReturn
  <2>5. ASSUME NEW n \in 0 .. MaxLen, ReadCall(n) PROVE TypeOK'
    BY <2>5 DEF ReadCall
  <2>6. CASE ReadCopy
    BY <2>6 DEF ReadCopy
  <2>7. CASE ReadAdvance
    BY <2>7, StepWraps DEF ReadAdvance
  <2>8. CASE ReadReturn
    BY <2>8 DEF ReadReturn
  <2>9. CASE UNCHANGED vars
    BY <2>9 DEF vars
  <2> QED
    BY <2>1, <2>2, <2>3, <2>4, <2>5, <2>6, <2>7, <2>8, <2>9
    DEF Next, WriterStep, ReaderStep
<1> QED
  BY <1>1, <1>2, PTL DEF Spec

-----------------------------------------------------------------------------
(* The inductive invariant: besides the types, the room that an accepted     *)
(* write still needs is free, and what each side has copied but not yet      *)
(* published is in the slot it is about to publish.                          *)
IInv == TypeOK /\ WriterHasRoom /\ ReaderHoldsOldest /\ WriterHoldsNext

(* Moving tail by one slot releases exactly one unread byte, moving head by   *)
(* one slot makes exactly one more readable when there is room for it.        *)
LEMMA TailStepReleases ==
  ASSUME TypeOK, Used > 0, tail' = Step(tail), head' = head
  PROVE  /\ tail' \in 0 .. Size - 1
         /\ Used' = Used - 1
         /\ Freespace' = Freespace + 1
         /\ \A k \in 0 .. Used - 2 : Slot(k)' = Slot(k + 1)
         /\ Slot(0) = tail
<1>1. tail' \in 0 .. Size - 1 /\ tail' = IF tail + 1 = Size THEN 0 ELSE tail + 1
  BY StepWraps DEF TypeOK
<1>2. Used' = Used - 1
  BY <1>1 DEF TypeOK, Used
<1>3. Freespace' = Freespace + 1
  BY <1>1 DEF TypeOK, Used, Freespace
<1>4. ASSUME NEW k \in 0 .. Used - 2 PROVE Slot(k)' = Slot(k + 1)
  BY <1>1 DEF TypeOK, Slot, Used
<1>5. Slot(0) = tail
  BY DEF TypeOK, Slot
<1> QED
  BY <1>1, <1>2, <1>3, <1>4, <1>5

LEMMA HeadStepPublishes ==
  ASSUME TypeOK, Freespace > 0, head' = Step(head), tail' = tail
  PROVE  /\ head' \in 0 .. Size - 1
         /\ Used' = Used + 1
         /\ Freespace' = Freespace - 1
         /\ Slot(Used) = head
<1>1. head' \in 0 .. Size - 1 /\ head' = IF head + 1 = Size THEN 0 ELSE head + 1
  BY StepWraps DEF TypeOK
<1>2. Used' = Used + 1
  BY <1>1 DEF TypeOK, Used, Freespace
<1>3. Freespace' = Freespace - 1
  BY <1>1 DEF TypeOK, Used, Freespace
<1>4. Slot(Used) = head
  BY DEF TypeOK, Used, Slot
<1> QED
  BY <1>1, <1>2, <1>3, <1>4

(* The slots of the unread bytes are slots of the buffer, and none of them is *)
(* the one that head points to.                                               *)
LEMMA UnreadSlots ==
  ASSUME TypeOK, NEW k \in 0 .. Used - 1
  PROVE  Slot(k) \in 0 .. Size - 1 /\ Slot(k) # head
  BY DEF TypeOK, Used, Slot

(* IInv holds at the start and no step of either side breaks it.              *)
THEOREM Inductive == Spec => []IInv
<1>1. Init /\ TypeOK => IInv
  BY SpaceAccounts DEF IInv, Init, WriterHasRoom, ReaderHoldsOldest, WriterHoldsNext,
     Remaining, Freespace
<1>2. IInv /\ TypeOK' /\ [Next]_vars => IInv'
  <2> USE DEF ring, writer, reader
  <2> DEFINE Parts == WriterHasRoom /\ ReaderHoldsOldest /\ WriterHoldsNext
  <2> SUFFICES ASSUME IInv, TypeOK', [Next]_vars PROVE Parts'
    BY DEF IInv
  <2>a. TypeOK /\ Parts
    BY DEF IInv
  <2>b. Used \in 0 .. Size - 1 /\ Freespace = Size - 1 - Used
    BY <2>a, SpaceAccounts DEF TypeOK
  <2>1. ASSUME NEW s \in Blocks, WriteCall(s) PROVE Parts'
    <3>1. s \in Seq(Data)
      BY DEF Blocks
    <3>2. head' = head /\ tail' = tail /\ data' = data /\ rpc' = rpc /\ rbuf' = rbuf
      BY <2>1 DEF WriteCall
    <3>3. Freespace' = Freespace /\ Used' = Used
      BY <3>2 DEF Freespace, Used
    <3>4. WriterHasRoom'
      BY <2>1, <2>a, <2>b, <3>1, <3>3 DEF WriteCall, WriterHasRoom, Remaining, TypeOK
    <3>5. ReaderHoldsOldest'
      BY <2>a, <3>2, <3>3 DEF ReaderHoldsOldest
    <3>6. WriterHoldsNext'
      BY <2>1 DEF WriteCall, WriterHoldsNext
    <3> QED BY <3>4, <3>5, <3>6
  <2>2. CASE WriteStore
    <3>1. Freespace' = Freespace /\ Used' = Used
      BY <2>2 DEF WriteStore, Freespace, Used
    <3>2. WriterHasRoom'
      BY <2>2, <2>a, <3>1 DEF WriteStore, WriterHasRoom, Remaining, TypeOK
    <3>3. rpc = "advance" => tail \in 0 .. Size - 1 /\ tail # head
      BY <2>a DEF ReaderHoldsOldest, Used, TypeOK
    <3>4. ReaderHoldsOldest'
      BY <2>2, <2>a, <3>1, <3>3 DEF WriteStore, ReaderHoldsOldest, TypeOK
    <3>5. WriterHoldsNext'
      BY <2>2, <2>a DEF WriteStore, WriterHoldsNext, TypeOK
    <3> QED BY <3>2, <3>4, <3>5
  <2>3. CASE WriteAdvance
    <3>1. Freespace > 0
      BY <2>3, <2>a, <2>b DEF WriteAdvance, WriterHasRoom, Remaining, TypeOK
    <3>2. Used' = Used + 1 /\ Freespace' = Freespace - 1
      BY <2>3, <2>a, <3>1, HeadStepPublishes DEF WriteAdvance
    <3>3. WriterHasRoom'
      BY <2>3, <2>a, <2>b, <3>2 DEF WriteAdvance, WriterHasRoom, Remaining, TypeOK
    <3>4. ReaderHoldsOldest'
      BY <2>3, <2>a, <2>b, <3>2 DEF WriteAdvance, ReaderHoldsOldest
    <3>5. WriterHoldsNext'
      BY <2>3 DEF WriteAdvance, WriterHoldsNext
    <3> QED BY <3>3, <3>4, <3>5
  <2>4. CASE WriteReturn
    <3>1. Freespace' = Freespace /\ Used' = Used
      BY <2>4 DEF WriteReturn, Freespace, Used
    <3>2. WriterHasRoom'
      BY <2>4, <2>b, <3>1 DEF WriteReturn, WriterHasRoom, Remaining
    <3>3. ReaderHoldsOldest'
      BY <2>4, <2>a, <3>1 DEF WriteReturn, ReaderHoldsOldest
    <3>4. WriterHoldsNext'
      BY <2>4 DEF WriteReturn, WriterHoldsNext
    <3> QED BY <3>2, <3>3, <3>4
  <2>5. ASSUME NEW n \in 0 .. MaxLen, ReadCall(n) PROVE Parts'
    BY <2>5, <2>a DEF ReadCall, WriterHasRoom, ReaderHoldsOldest, WriterHoldsNext,
       Remaining, Freespace
  <2>6. CASE ReadCopy
    <3>1. Freespace' = Freespace /\ Used' = Used
      BY <2>6 DEF ReadCopy, Freespace, Used
    <3>2. WriterHasRoom' /\ WriterHoldsNext'
      BY <2>6, <2>a, <3>1 DEF ReadCopy, WriterHasRoom, WriterHoldsNext, Remaining
    <3>3. Used > 0
      BY <2>6, <2>a DEF ReadCopy, ReadMore, Used, TypeOK
    <3>4. data[tail] \in Data
      BY <2>a DEF TypeOK
    <3>5. ReaderHoldsOldest'
      BY <2>6, <2>a, <3>1, <3>3, <3>4 DEF ReadCopy, ReaderHoldsOldest, TypeOK
    <3> QED BY <3>2, <3>5
  <2>7. CASE ReadAdvance
    <3>1. Used > 0
      BY <2>7, <2>a DEF ReadAdvance, ReaderHoldsOldest
    <3>2. Freespace' = Freespace + 1
      BY <2>7, <2>a, <3>1, TailStepReleases DEF ReadAdvance
    <3>3. WriterHasRoom'
      BY <2>7, <2>a, <2>b, <3>2 DEF ReadAdvance, WriterHasRoom, Remaining, TypeOK
    <3>4. ReaderHoldsOldest' /\ WriterHoldsNext'
      BY <2>7, <2>a DEF ReadAdvance, ReaderHoldsOldest, WriterHoldsNext
    <3> QED BY <3>3, <3>4
  <2>8. CASE ReadReturn
    BY <2>8, <2>a DEF ReadReturn, WriterHasRoom, ReaderHoldsOldest, WriterHoldsNext,
       Remaining, Freespace
  <2>9. CASE UNCHANGED vars
    BY <2>9, <2>a DEF vars, WriterHasRoom, ReaderHoldsOldest, WriterHoldsNext,
       Remaining, Freespace, Used
  <2> QED
    BY <2>1, <2>2, <2>3, <2>4, <2>5, <2>6, <2>7, <2>8, <2>9
    DEF Next, WriterStep, ReaderStep, IInv
<1> QED
  BY <1>1, <1>2, TypeCorrect, PTL DEF Spec

-----------------------------------------------------------------------------
(* The room that ring_write found free is still free at each of its stores,   *)
(* although it looks at tail only once: the reader can only add to it.        *)
THEOREM RoomStaysFree == Spec => []WriterHasRoom
<1>1. IInv => WriterHasRoom
  BY DEF IInv
<1> QED
  BY <1>1, Inductive, PTL

(* No step changes an unread byte, and only the reader makes one go away.     *)
THEOREM UnreadKept == Spec => UnreadBytesKept
<1> DEFINE Kept == /\ \A k \in 0 .. Used - 1 : data'[Slot(k)] = data[Slot(k)]
                   /\ tail' = tail => Used' >= Used
<1>1. IInv /\ [Next]_vars => Kept
  <2> SUFFICES ASSUME IInv, [Next]_vars PROVE Kept
    OBVIOUS
  <2> USE DEF ring, writer, reader
  <2>a. TypeOK /\ WriterHasRoom
    BY DEF IInv
  <2>b. Used \in 0 .. Size - 1 /\ Freespace = Size - 1 - Used
    BY <2>a, SpaceAccounts DEF TypeOK
  <2>1. ASSUME data' = data, head' = head PROVE Kept
    BY <2>1, <2>b DEF Used
  <2>2. CASE WriteStore
    <3>1. \A k \in 0 .. Used - 1 : data'[Slot(k)] = data[Slot(k)]
      BY <2>2, <2>a, UnreadSlots DEF WriteStore, TypeOK
    <3>2. Used' = Used
      BY <2>2 DEF WriteStore, Used
    <3> QED BY <3>1, <3>2, <2>b
  <2>3. CASE WriteAdvance
    <3>1. Freespace > 0
      BY <2>3, <2>a, <2>b DEF WriteAdvance, WriterHasRoom, Remaining, TypeOK
    <3>2. Used' = Used + 1
      BY <2>3, <2>a, <3>1, HeadStepPublishes DEF WriteAdvance
    <3> QED BY <2>3, <2>b, <3>2 DEF WriteAdvance
  <2> QED
    BY <2>1, <2>2, <2>3 DEF Next, WriterStep, ReaderStep, WriteCall, WriteReturn,
       ReadCall, ReadCopy, ReadAdvance, ReadReturn, vars
<1> QED
  BY <1>1, Inductive, PTL DEF Spec, UnreadBytesKept

-----------------------------------------------------------------------------
(* The refinement.  Contents depends on data only at the unread slots, so it  *)
(* changes at the two index updates and nowhere else.                         *)
LEMMA ContentsType ==
  ASSUME TypeOK
  PROVE  /\ Contents \in Seq(Data)
         /\ Len(Contents) = Used
         /\ Used \in 0 .. Size - 1
<1>1. Used \in 0 .. Size - 1
  BY SpaceAccounts DEF TypeOK
<1>2. \A i \in 1 .. Used : Slot(i - 1) \in 0 .. Size - 1
  BY <1>1, UnreadSlots
<1>3. Contents \in [1 .. Used -> Data]
  BY <1>1, <1>2 DEF Contents, TypeOK
<1> QED
  BY <1>1, <1>3

LEMMA ContentsUnchanged ==
  ASSUME TypeOK, head' = head, tail' = tail,
         \A k \in 0 .. Used - 1 : data'[Slot(k)] = data[Slot(k)]
  PROVE  Contents' = Contents
<1>1. Used' = Used /\ \A k : Slot(k)' = Slot(k)
  BY DEF Used, Slot
<1>2. Used \in Nat
  BY ContentsType
<1>3. Contents' = [i \in 1 .. Used |-> data'[Slot(i - 1)]]
  BY <1>1 DEF Contents
<1>4. \A i \in 1 .. Used : data'[Slot(i - 1)] = data[Slot(i - 1)]
  BY <1>2
<1> QED
  BY <1>3, <1>4 DEF Contents

(* The tail update takes the oldest byte out of Contents.                     *)
LEMMA ContentsTail ==
  ASSUME TypeOK, Used > 0, tail' = Step(tail), head' = head, data' = data
  PROVE  Contents' = Tail(Contents) /\ Head(Contents) = data[tail]
<1>1. /\ Used' = Used - 1
      /\ \A k \in 0 .. Used - 2 : Slot(k)' = Slot(k + 1)
      /\ Slot(0) = tail
  BY TailStepReleases
<1>2. Contents \in Seq(Data) /\ Len(Contents) = Used /\ Used \in Nat
  BY ContentsType
<1>3. Contents' = [i \in 1 .. Used - 1 |-> data[Slot(i)]]
  <2>1. Contents' = [i \in 1 .. Used' |-> data'[Slot(i - 1)']]
    BY DEF Contents
  <2>2. \A i \in 1 .. Used - 1 : Slot(i - 1)' = Slot(i)
    BY <1>1, <1>2
  <2> QED BY <2>1, <2>2, <1>1
<1>4. \A i \in 1 .. Used : Contents[i] = data[Slot(i - 1)]
  BY DEF Contents
<1>5. \A i \in 1 .. Used : Slot(i - 1) \in 0 .. Size - 1
  BY <1>2, UnreadSlots
<1>6. Contents' \in Seq(Data) /\ Len(Contents') = Used - 1
  <2>1. \A i \in 1 .. Used - 1 : data[Slot(i)] \in Data
    BY <1>2, UnreadSlots DEF TypeOK
  <2> QED BY <1>2, <1>3, <2>1
<1>7. /\ Tail(Contents) \in Seq(Data)
      /\ Len(Tail(Contents)) = Used - 1
      /\ \A i \in 1 .. Used - 1 : Tail(Contents)[i] = Contents[i + 1]
  BY <1>2, HeadTailProperties
<1>8. \A i \in 1 .. Used - 1 : Contents'[i] = Tail(Contents)[i]
  BY <1>2, <1>3, <1>4, <1>7
<1>9. Contents' = Tail(Contents)
  BY <1>6, <1>7, <1>8, SeqEqual
<1>10. Head(Contents) = data[tail]
  BY <1>1, <1>2, <1>4
<1> QED
  BY <1>9, <1>10

(* The head update appends the byte in the slot it publishes.                 *)
LEMMA ContentsHead ==
  ASSUME TypeOK, Freespace > 0, head' = Step(head), tail' = tail, data' = data
  PROVE  Contents' = Append(Contents, data[head])
<1>1. Used' = Used + 1 /\ Slot(Used) = head
  BY HeadStepPublishes
<1>2. Contents \in Seq(Data) /\ Len(Contents) = Used /\ Used \in Nat
  BY ContentsType
<1>3. Contents' = [i \in 1 .. Used + 1 |-> data[Slot(i - 1)]]
  <2>1. \A k : Slot(k)' = Slot(k)
    BY DEF Slot
  <2> QED BY <1>1, <2>1 DEF Contents
<1>4. \A i \in 1 .. Used : Contents[i] = data[Slot(i - 1)]
  BY DEF Contents
<1>5. Append(Contents, data[head])
        = [i \in 1 .. Used + 1 |-> IF i = Used + 1 THEN data[head] ELSE Contents[i]]
  BY <1>2
<1>6. \A i \in 1 .. Used + 1 :
        data[Slot(i - 1)] = IF i = Used + 1 THEN data[head] ELSE Contents[i]
  BY <1>1, <1>2, <1>4
<1> QED
  BY <1>3, <1>5, <1>6

(* A suffix of a sequence, and the suffix one shorter.                        *)
LEMMA RestOfSequence ==
  ASSUME NEW S, NEW s \in Seq(S), NEW m \in 1 .. Len(s)
  PROVE  /\ SubSeq(s, m, Len(s)) # << >>
         /\ Head(SubSeq(s, m, Len(s))) = s[m]
         /\ Tail(SubSeq(s, m, Len(s))) = SubSeq(s, m + 1, Len(s))
<1> DEFINE long == SubSeq(s, m, Len(s))
           short == SubSeq(s, m + 1, Len(s))
<1>1. \A i \in m .. Len(s) : s[i] \in S
  BY ElementOfSeq
<1>2. /\ long \in Seq(S)
      /\ Len(long) = Len(s) - m + 1
      /\ \A i \in 1 .. Len(s) - m + 1 : long[i] = s[m + i - 1]
  BY <1>1, SubSeqProperties
<1>3. /\ short \in Seq(S)
      /\ Len(short) = Len(s) - m
      /\ \A i \in 1 .. Len(s) - m : short[i] = s[m + i]
  <2>1. \A i \in 1 .. Len(s) - (m + 1) + 1 : short[i] = s[(m + 1) + i - 1]
    BY <1>1, SubSeqProperties
  <2>2. short \in Seq(S) /\ Len(short) = IF m + 1 <= Len(s) THEN Len(s) - (m + 1) + 1 ELSE 0
    BY <1>1, SubSeqProperties
  <2> QED BY <2>1, <2>2
<1> HIDE DEF long, short
<1>4. long # << >> /\ Head(long) = s[m]
  BY <1>2
<1>5. /\ Tail(long) \in Seq(S)
      /\ Len(Tail(long)) = Len(s) - m
      /\ \A i \in 1 .. Len(s) - m : Tail(long)[i] = long[i + 1]
  BY <1>2, <1>4, HeadTailProperties
<1>6. ASSUME NEW i \in 1 .. Len(s) - m PROVE Tail(long)[i] = short[i]
  <2>1. i + 1 \in 1 .. Len(s) - m + 1 /\ m + (i + 1) - 1 = m + i
    OBVIOUS
  <2>2. long[i + 1] = s[m + i]
    BY <1>2, <2>1
  <2> QED BY <1>3, <1>5, <2>2
<1>7. Tail(long) = short
  BY <1>3, <1>5, <1>6, SeqEqual
<1> QED
  BY <1>4, <1>7 DEF long, short

(* ring.c implements the bounded first-in first-out queue, whatever the       *)
(* interleaving of the interrupt that writes with the loop that reads.        *)
THEOREM Refinement == Spec => ImplementsFifo
<1>1. Init => Queue!Init
  <2> SUFFICES ASSUME Init PROVE Queue!Init
    OBVIOUS
  <2>1. Used = 0
    BY DEF Init, Used
  <2>2. Contents = << >>
    BY <2>1 DEF Contents
  <2> QED
    BY <2>2 DEF Init, Queue!Init, Offered, Taken
<1>2. IInv /\ TypeOK' /\ [Next]_vars => [Queue!Next]_(Queue!vars)
  <2> SUFFICES ASSUME IInv, TypeOK', [Next]_vars
               PROVE  Queue!Next \/ UNCHANGED Queue!vars
    BY DEF Queue!vars
  <2> USE DEF ring, writer, reader
  <2>a. TypeOK /\ WriterHasRoom /\ ReaderHoldsOldest /\ WriterHoldsNext
    BY DEF IInv
  <2>b. /\ Contents \in Seq(Data) /\ Len(Contents) = Used /\ Used \in 0 .. Size - 1
        /\ Freespace = Size - 1 - Used
    BY <2>a, ContentsType, SpaceAccounts DEF TypeOK
  <2>c. data' = data /\ head' = head /\ tail' = tail => Contents' = Contents
    BY <2>a, ContentsUnchanged
  <2>1. ASSUME NEW s \in Blocks, WriteCall(s) PROVE Queue!Next
    <3>1. s \in Seq(Data) /\ SubSeq(s, 1, Len(s)) = s
      BY DEF Blocks
    <3>2. wpc = "idle" /\ Offered = << >> /\ Contents' = Contents /\ Taken' = Taken
      BY <2>1, <2>c DEF WriteCall, Offered, Taken
    <3>3. CASE Freespace < Len(s) \/ Freespace = 0
      <4>1. Offered' = Offered
        BY <2>1, <3>3 DEF WriteCall, Offered
      <4>2. Queue!Refuse(s)
        BY <2>1, <2>b, <3>1, <3>2, <3>3, <4>1 DEF WriteCall, Queue!Refuse
      <4> QED BY <4>2 DEF Queue!Next
    <3>4. CASE Freespace >= Len(s) /\ Freespace # 0
      <4>1. Offered' = s
        BY <2>1, <2>b, <3>1, <3>4 DEF WriteCall, Offered
      <4>2. Queue!Accept(s)
        BY <2>1, <2>b, <3>1, <3>2, <3>4, <4>1 DEF WriteCall, Queue!Accept
      <4> QED BY <4>2 DEF Queue!Next
    <3> QED BY <3>1, <3>3, <3>4, <2>b
  <2>2. CASE WriteStore
    <3>1. Contents' = Contents
      <4>1. \A k \in 0 .. Used - 1 : data'[Slot(k)] = data[Slot(k)]
        BY <2>2, <2>a, UnreadSlots DEF WriteStore, TypeOK
      <4> QED BY <2>2, <2>a, <4>1, ContentsUnchanged DEF WriteStore
    <3>2. Offered' = Offered /\ Taken' = Taken
      BY <2>2, <2>a DEF WriteStore, Offered, Taken, TypeOK
    <3> QED BY <2>2, <3>1, <3>2 DEF WriteStore, Queue!vars
  <2>3. CASE WriteAdvance
    <3>1. Freespace > 0
      BY <2>3, <2>a, <2>b DEF WriteAdvance, WriterHasRoom, Remaining, TypeOK
    <3>2. Contents' = Append(Contents, data[head])
      BY <2>3, <2>a, <3>1, ContentsHead DEF WriteAdvance
    <3>3. counter \in 1 .. Len(wbuf) /\ data[head] = wbuf[counter] /\ wbuf \in Seq(Data)
      BY <2>3, <2>a DEF WriteAdvance, WriterHoldsNext, TypeOK
    <3>4. /\ Offered = SubSeq(wbuf, counter, Len(wbuf))
          /\ Offered' = SubSeq(wbuf, counter + 1, Len(wbuf))
      BY <2>3 DEF WriteAdvance, Offered
    <3>5. Offered # << >> /\ Head(Offered) = wbuf[counter] /\ Offered' = Tail(Offered)
      BY <3>3, <3>4, RestOfSequence
    <3>6. Taken' = Taken
      BY <2>3 DEF WriteAdvance, Taken
    <3>7. Queue!Put
      BY <2>3, <2>b, <3>1, <3>2, <3>3, <3>5, <3>6 DEF WriteAdvance, Queue!Put
    <3> QED BY <3>7 DEF Queue!Next
  <2>4. CASE WriteReturn
    <3>1. Offered' = Offered
      BY <2>4, <2>a DEF WriteReturn, Offered, TypeOK
    <3> QED BY <2>4, <2>c, <3>1 DEF WriteReturn, Taken, Queue!vars
  <2>5. ASSUME NEW n \in 0 .. MaxLen, ReadCall(n) PROVE Queue!Next
    <3>1. Queue!Ask
      BY <2>5, <2>c DEF ReadCall, Offered, Taken, Queue!Ask
    <3> QED BY <3>1 DEF Queue!Next
  <2>6. CASE ReadCopy
    <3>1. Taken' = Taken
      <4>1. data[tail] \in Data /\ rbuf \in Seq(Data)
        BY <2>a DEF TypeOK
      <4> QED BY <2>6, <4>1 DEF ReadCopy, Taken
    <3> QED BY <2>6, <2>c, <3>1 DEF ReadCopy, Offered, Queue!vars
  <2>7. CASE ReadAdvance
    <3>1. Used > 0 /\ Len(rbuf) > 0 /\ rbuf[Len(rbuf)] = data[tail] /\ rbuf \in Seq(Data)
      BY <2>7, <2>a DEF ReadAdvance, ReaderHoldsOldest, TypeOK
    <3>2. Contents' = Tail(Contents) /\ Head(Contents) = data[tail]
      BY <2>7, <2>a, <3>1, ContentsTail DEF ReadAdvance
    <3>3. Taken = SubSeq(rbuf, 1, Len(rbuf) - 1) /\ Taken' = rbuf
      BY <2>7 DEF ReadAdvance, Taken
    <3>4. Append(SubSeq(rbuf, 1, Len(rbuf) - 1), rbuf[Len(rbuf)]) = rbuf
      BY <3>1
    <3>5. Offered' = Offered /\ wret' = wret
      BY <2>7 DEF ReadAdvance, Offered
    <3>6. Queue!Get
      BY <2>b, <3>1, <3>2, <3>3, <3>4, <3>5 DEF Queue!Get
    <3> QED BY <3>6 DEF Queue!Next
  <2>8. CASE ReadReturn
    BY <2>8, <2>c DEF ReadReturn, Offered, Taken, Queue!vars
  <2>9. CASE UNCHANGED vars
    BY <2>9, <2>c DEF vars, Offered, Taken, Queue!vars
  <2> QED
    BY <2>1, <2>2, <2>3, <2>4, <2>5, <2>6, <2>7, <2>8, <2>9
    DEF Next, WriterStep, ReaderStep
<1> QED
  BY <1>1, <1>2, TypeCorrect, Inductive, PTL DEF Spec, ImplementsFifo, Queue!Spec
=============================================================================
