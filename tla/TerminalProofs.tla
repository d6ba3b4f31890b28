--------------------------- MODULE TerminalProofs ---------------------------
(* Proofs about both ends of the line: what the user sees of the board        *)
(* (Terminal), and the host program between them (HostTty).                   *)
EXTENDS Terminal, HostTty, SequenceTheorems, TLAPS

(***************************************************************************)
(* The order of the echoes.                                                *)
(***************************************************************************)
OnWire == ep.what = "echo"
InHand == Sending /\ say.what = "echo"

(* Told, then on the wire, then in the hand of the main loop, then in the    *)
(* ring from its head to its tail, then not yet typed.                       *)
InOrder ==
  /\ told <= typed /\ ep.key <= typed /\ say.key <= typed
  /\ OnWire => told < ep.key
  /\ InHand => told < say.key
  /\ OnWire /\ InHand => ep.key < say.key
  /\ \A n \in 1 .. Len(tty_out) :
       /\ told < tty_out[n] /\ tty_out[n] <= typed
       /\ OnWire => ep.key < tty_out[n]
       /\ InHand => say.key < tty_out[n]
  /\ \A m, n \in 1 .. Len(tty_out) : m < n => tty_out[m] < tty_out[n]

(* The interrupt sends no echo: beyond the tests of usb_cdc_send, an echo in  *)
(* tx_b is the one the main loop has copied, and there is none on the wire.   *)
EchoIsMine ==
  /\ pc \in {"copy", "length", "test", "start"} => ~OnWire
  /\ pc \in {"length", "test", "start"} => tx_b = say \/ tx_b.what # "echo"

(***************************************************************************)
(* Who is on the link.                                                     *)
(***************************************************************************)
(* While the host keeps pace and the interrupt answers only a settled         *)
(* terminal, the main loop finds the link free whenever it sends: what is on  *)
(* the wire outside its delay is an answer to somebody who waits.             *)
LinkFree ==
  alone /\ ~late =>
    /\ ~refused
    /\ Sending => ep = NoMsg
    /\ ep # NoMsg /\ pc # "delay" =>
         Answering /\ tty_out = <<>> /\ ~new_cmd /\ pc \in {"read", "command"}

(***************************************************************************)
(* What a patient user sees.                                               *)
(***************************************************************************)
(* The screen as it will be when the host has fetched what is on the wire.    *)
Screen == Fetched(ep, shown)

Fits(text, keys, cleared) == IF cleared THEN IsSuffix(text, keys) ELSE text = keys
Matches(text) == Fits(text, line, cut)

(* The last text of a command is on the way or has been sent.                 *)
Blanking == \/ pc = "exec" /\ left < 2
            \/ pc = "delay" /\ say.what # "echo" /\ left < 2
            \/ pc = "free" /\ left < 1

(* While a command runs nothing is typed, and its prompt will leave a blank   *)
(* line; else the line is on the screen but for the last key, which is in the *)
(* ring, in the hand of the main loop or on the wire.                         *)
PatientView ==
  /\ pc \in {"copy", "length", "test", "start"} => ep = NoMsg
  /\ pc \in {"length", "test", "start"} => tx_b = say
  /\ pc \in {"test", "start"} => TxLength = Bytes(say)
  /\ pc = "exec" => new_cmd
  /\ (Sending \/ pc = "delay") /\ say.what # "echo" => new_cmd /\ say.what \in {"output", "prompt"}
  /\ new_cmd => /\ line = <<>> /\ ~cut /\ tty_out = <<>> /\ ~InHand
                /\ ep = NoMsg \/ Screen = <<>>
                /\ Blanking => Screen = <<>>
  /\ ~new_cmd =>
       \/ tty_out = <<>> /\ ~InHand /\ Matches(Screen)
       \/ /\ Len(tty_out) = 1 /\ ~InHand /\ ep = NoMsg
          /\ Matches(Append(shown, tty_out[1]))
       \/ /\ tty_out = <<>> /\ InHand /\ ep = NoMsg
          /\ Matches(Append(shown, say.key))

PatientOK == patient => PatientView

IInv == TypeOK /\ InOrder /\ EchoIsMine /\ LinkFree /\ PatientOK


-----------------------------------------------------------------------------
(* A message of the interrupt: not an echo.                                   *)
Answers == {"erase", "clear", "todo", "prompt"}

LEMMA TextMessage ==
  ASSUME NEW w \in Answers \cup {"none", "output", "fragment"}
  PROVE  /\ Text(w) \in Message /\ Text(w).key = 0 /\ Text(w).what = w /\ w # "echo"
         /\ Bytes(Text(w)) \in Nat
BY BoundAssumption DEF Text, Message, Answers, Bytes

LEMMA EchoMessage ==
  ASSUME NEW k \in 1 .. MaxKeys
  PROVE  /\ Echo(k) \in Message /\ Echo(k).key = k /\ Echo(k).what = "echo"
         /\ Bytes(Echo(k)) = 1
BY BoundAssumption DEF Echo, Message, Bytes

LEMMA BytesType == ASSUME NEW m PROVE Bytes(m) \in Nat
BY DEF Bytes

(* What an answer of the interrupt does: it is sent whole, or refused.        *)
LEMMA AnswerSent ==
  ASSUME NEW w \in Answers, Answer(Text(w))
  PROVE  /\ UNCHANGED <<tty_out, typed, pc, say, left, shown, told, late>>
         /\ patient' = (patient /\ Settled) /\ alone' = (alone /\ Settled)
         /\ \/ /\ ep # NoMsg /\ refused' = TRUE /\ UNCHANGED <<tx_b, TxLength, ep>>
            \/ /\ ep = NoMsg /\ tx_b' = Text(w) /\ TxLength' = Bytes(Text(w)) /\ ep' = Text(w)
               /\ UNCHANGED refused
BY DEF Answer, Send, main, link, screen

LEMMA FrontType ==
  ASSUME NEW S, NEW s \in Seq(S), s # <<>>
  PROVE  /\ Front(s) \in Seq(S) /\ Len(Front(s)) = Len(s) - 1
         /\ \A n \in 1 .. Len(s) - 1 : Front(s)[n] = s[n]
<1>0. Len(s) \in Nat /\ Len(s) > 0
  BY EmptySeq
<1>1. Len(s) \in Nat \ {0} /\ \A n \in 1 .. Len(s) - 1 : s[n] \in S
  BY <1>0, ElementOfSeq
<1>2. /\ SubSeq(s, 1, Len(s) - 1) \in Seq(S)
      /\ Len(SubSeq(s, 1, Len(s) - 1)) = IF 1 <= Len(s) - 1 THEN Len(s) - 1 - 1 + 1 ELSE 0
      /\ \A n \in 1 .. Len(s) - 1 - 1 + 1 : SubSeq(s, 1, Len(s) - 1)[n] = s[1 + n - 1]
  BY <1>1, SubSeqProperties
<1>3. Len(s) - 1 - 1 + 1 = Len(s) - 1 /\ \A n \in 1 .. Len(s) - 1 : 1 + n - 1 = n
  BY <1>1
<1>4. Len(SubSeq(s, 1, Len(s) - 1)) = Len(s) - 1
  <2>1. CASE Len(s) = 1
    <3>1. SubSeq(s, 1, Len(s) - 1) = <<>>
      BY <2>1, SubSeqEmpty
    <3> QED BY <2>1, <3>1, EmptySeq
  <2>2. CASE Len(s) > 1
    BY <1>1, <1>2, <1>3, <2>2, 1 <= Len(s) - 1
  <2>3. Len(s) = 1 \/ Len(s) > 1
    <3> DEFINE n == Len(s)
    <3> HIDE DEF n
    <3>1. n \in Nat /\ n > 0
      BY <1>0 DEF n
    <3>2. n = 1 \/ n > 1
      BY <3>1
    <3> QED BY <3>2 DEF n
  <2> QED BY <2>1, <2>2, <2>3
<1>5. \A n \in 1 .. Len(s) - 1 : SubSeq(s, 1, Len(s) - 1)[n] = s[n]
  BY <1>2, <1>3
<1> QED BY <1>2, <1>4, <1>5 DEF Front

LEMMA TypeInit == Init => TypeOK
<1>1. NoMsg \in Message /\ NoMsg.key = 0 /\ NoMsg.what # "echo"
  BY TextMessage DEF NoMsg
<1>2. <<>> \in Seq(1 .. MaxKeys) /\ Len(<<>>) = 0
  BY EmptySeq
<1>3. CASE Init
  <2>1. /\ line \in Seq(1 .. MaxKeys) /\ Len(line) <= MAX_CMD_SIZE
        /\ tty_out \in Seq(1 .. MaxKeys) /\ Len(tty_out) <= EchoRoom
        /\ shown \in Seq(1 .. MaxKeys)
    BY <1>2, <1>3, SizeAssumption DEF Init
  <2>2. \A m \in {say, tx_b, ep} : m \in Message /\ (m.key # 0 <=> m.what = "echo")
    BY <1>1, <1>3 DEF Init
  <2>3. /\ pc \in {"read", "command", "exec", "delay", "stopped"} \/ Sending
        /\ left \in 0 .. MaxText + 1 /\ typed \in 0 .. MaxKeys /\ told \in 0 .. MaxKeys
        /\ TxLength \in Nat
    BY <1>3, BoundAssumption DEF Init
  <2>4. {new_cmd, cut, patient, alone, late, refused} \subseteq BOOLEAN
    BY <1>3 DEF Init
  <2> QED BY <2>1, <2>2, <2>3, <2>4 DEF TypeOK
<1> QED BY <1>3

LEMMA AnswerType ==
  ASSUME TypeOK, NEW w \in Answers, Answer(Text(w)), new_cmd' = new_cmd, cut' \in BOOLEAN,
         line' \in Seq(1 .. MaxKeys), Len(line') <= MAX_CMD_SIZE
  PROVE  TypeOK'
<1>1. /\ Text(w) \in Message /\ (Text(w).key # 0 <=> Text(w).what = "echo")
      /\ Bytes(Text(w)) \in Nat
  BY TextMessage
<1>2. UNCHANGED <<tty_out, typed, pc, say, left, shown, told, late>>
  BY AnswerSent
<1>3. \A m \in {say', tx_b', ep'} : m \in Message /\ (m.key # 0 <=> m.what = "echo")
  <2>1. UNCHANGED <<tx_b, TxLength, ep>> \/ (tx_b' = Text(w) /\ ep' = Text(w))
    BY AnswerSent
  <2> QED BY <1>1, <1>2, <2>1 DEF TypeOK
<1>4. TxLength' \in Nat
  BY <1>1, AnswerSent DEF TypeOK
<1>5. {new_cmd', cut', patient', alone', late', refused'} \subseteq BOOLEAN
  BY AnswerSent DEF TypeOK
<1> QED BY <1>2, <1>3, <1>4, <1>5 DEF TypeOK, Sending

LEMMA TypeStep == TypeOK /\ [Next]_vars => TypeOK'
<1> SUFFICES ASSUME TypeOK, [Next]_vars PROVE TypeOK'
  OBVIOUS
<1> USE SizeAssumption, BoundAssumption
<1>1. CASE Key
  <2>1. CASE Len(line) = MAX_CMD_SIZE
    BY <1>1, <2>1 DEF Key, Queued, TypeOK, Sending, main, link, screen
  <2>2. CASE Len(line) # MAX_CMD_SIZE
    <3>1. /\ typed' = typed + 1 /\ line' = Append(line, typed') /\ tty_out' = Written(typed')
          /\ UNCHANGED <<new_cmd, cut, pc, say, left, tx_b, TxLength, ep, shown, told, late, refused>>
      BY <1>1, <2>2 DEF Key, main, link, screen
    <3>2. typed' \in 1 .. MaxKeys
      BY <1>1, <3>1 DEF Key, TypeOK
    <3>3. line' \in Seq(1 .. MaxKeys) /\ Len(line') <= MAX_CMD_SIZE
      BY <2>2, <3>1, <3>2 DEF TypeOK
    <3>4. tty_out' \in Seq(1 .. MaxKeys) /\ Len(tty_out') <= EchoRoom
      <4>1. CASE Len(tty_out) < EchoRoom
        <5>1. tty_out' = Append(tty_out, typed')
          BY <3>1, <4>1 DEF Written
        <5> QED BY <3>2, <4>1, <5>1 DEF TypeOK
      <4>2. CASE ~(Len(tty_out) < EchoRoom)
        BY <3>1, <4>2 DEF TypeOK, Written
      <4> QED BY <4>1, <4>2
    <3>5. patient' \in BOOLEAN /\ alone' \in BOOLEAN
      BY <1>1 DEF Key, Queued
    <3> QED BY <3>1, <3>2, <3>3, <3>4, <3>5 DEF TypeOK, Sending
  <2> QED BY <2>1, <2>2
<1>2. CASE Backspace
  <2>1. line' \in Seq(1 .. MaxKeys) /\ Len(line') <= MAX_CMD_SIZE
    <3>1. line \in Seq(1 .. MaxKeys) /\ line # <<>> /\ line' = Front(line)
      BY <1>2 DEF Backspace, TypeOK
    <3>2. line' \in Seq(1 .. MaxKeys) /\ Len(line') = Len(line) - 1
      BY <3>1, FrontType
    <3> QED BY <3>1, <3>2 DEF TypeOK
  <2> QED BY <1>2, <2>1, AnswerType DEF Backspace, Answers, TypeOK
<1>3. CASE Enter
  <2>1. <<>> \in Seq(1 .. MaxKeys) /\ Len(<<>>) = 0
    BY EmptySeq
  <2>2. line' \in Seq(1 .. MaxKeys) /\ Len(line') <= MAX_CMD_SIZE
    BY <1>3, <2>1 DEF Enter
  <2> QED BY <1>3, <2>2 DEF Enter, Queued, TypeOK, Sending, main, link, screen
<1>4. CASE Blank
  <2>1. <<>> \in Seq(1 .. MaxKeys) /\ Len(<<>>) = 0
    BY EmptySeq
  <2>2. line' \in Seq(1 .. MaxKeys) /\ Len(line') <= MAX_CMD_SIZE
    BY <1>4, <2>1 DEF Blank
  <2> QED BY <1>4, <2>2, AnswerType DEF Blank, Answers, TypeOK
<1>5. CASE Clear
  BY <1>5, AnswerType DEF Clear, Answers, TypeOK
<1>6. CASE Read
  <2>1. CASE tty_out = <<>>
    BY <1>6, <2>1 DEF Read, TypeOK, Sending, link, screen, manners
  <2>2. CASE tty_out # <<>>
    <3>1. /\ Head(tty_out) \in 1 .. MaxKeys /\ Tail(tty_out) \in Seq(1 .. MaxKeys)
          /\ Len(Tail(tty_out)) <= EchoRoom
      BY <2>2 DEF TypeOK
    <3>2. say' = Echo(Head(tty_out)) /\ tty_out' = Tail(tty_out) /\ pc' = "free"
      BY <1>6, <2>2 DEF Read
    <3>3. say' \in Message /\ say'.key # 0 /\ say'.what = "echo"
      BY <3>1, <3>2, EchoMessage
    <3> QED BY <1>6, <3>1, <3>2, <3>3 DEF Read, TypeOK, Sending, link, screen, manners
  <2> QED BY <2>1, <2>2
<1>7. CASE Command
  BY <1>7 DEF Command, TypeOK, Sending, edit, link, screen, manners
<1>8. CASE Exec
  <2>1. CASE left = 0
    BY <1>8, <2>1 DEF Exec, TypeOK, Sending, link, screen, manners
  <2>2. CASE left # 0
    <3>1. say' \in {Text("prompt"), Text("output")} /\ left' = left - 1 /\ pc' = "free"
      BY <1>8, <2>2 DEF Exec
    <3>2. say' \in Message /\ (say'.key # 0 <=> say'.what = "echo")
      BY <3>1, TextMessage DEF Answers
    <3> QED BY <1>8, <2>2, <3>1, <3>2 DEF Exec, TypeOK, Sending, link, screen, manners
  <2> QED BY <2>1, <2>2
<1>9. CASE TestFree
  BY <1>9 DEF TestFree, TypeOK, Sending, edit, link, screen, manners
<1>10. CASE Copy
  BY <1>10 DEF Copy, TypeOK, Sending, edit, screen, manners
<1>11. CASE SetLength
  BY <1>11, BytesType DEF SetLength, TypeOK, Sending, edit, screen, manners
<1>12. CASE TestTx
  BY <1>12 DEF TestTx, TypeOK, Sending, edit, link, screen, manners
<1>13. CASE StartTx
  <2>1. Text("fragment") \in Message /\ Text("fragment").key = 0 /\ Text("fragment").what # "echo"
    BY TextMessage
  <2> QED BY <1>13, <2>1 DEF StartTx, TypeOK, Sending, edit, screen, manners
<1>14. CASE Delay
  <2>1. NoMsg \in Message /\ NoMsg.key = 0 /\ NoMsg.what # "echo"
    BY TextMessage DEF NoMsg
  <2> QED BY <1>14, <2>1 DEF Delay, TypeOK, Sending, edit, link, screen, manners
<1>15. CASE DataIn
  <2>1. NoMsg \in Message /\ NoMsg.key = 0 /\ NoMsg.what # "echo"
    BY TextMessage DEF NoMsg
  <2>2. /\ ep' = NoMsg /\ UNCHANGED <<edit, main, tx_b, TxLength, manners, late, refused>>
        /\ told' = (IF ep.what = "echo" THEN ep.key ELSE told)
    BY <1>15 DEF DataIn
  <2>3. ep.what = "echo" => ep.key \in 1 .. MaxKeys
    BY DEF TypeOK, Message
  <2>4. shown' \in Seq(1 .. MaxKeys)
    <3>1. CASE ep.what = "echo"
      BY <1>15, <2>3, <3>1 DEF DataIn, Fetched, TypeOK
    <3>2. CASE ep.what # "echo"
      <4>1. shown' \in {Front(shown), shown, <<>>} /\ (shown' = Front(shown) => shown # <<>> \/ shown' = shown)
        BY <1>15, <3>2 DEF DataIn, Fetched
      <4>2. shown # <<>> => Front(shown) \in Seq(1 .. MaxKeys)
        BY FrontType DEF TypeOK
      <4>3. <<>> \in Seq(1 .. MaxKeys) /\ shown \in Seq(1 .. MaxKeys)
        BY EmptySeq DEF TypeOK
      <4> QED BY <4>1, <4>2, <4>3
    <3> QED BY <3>1, <3>2
  <2> QED BY <2>1, <2>2, <2>3, <2>4 DEF TypeOK, Sending, edit, main, manners
<1>16. CASE UNCHANGED vars
  BY <1>16 DEF vars, TypeOK, Sending, edit, main, link, screen, manners
<1>17. CASE Cursor
  BY <1>17, AnswerType DEF Cursor, Answers, TypeOK
<1>18. CASE Stop
  BY <1>18 DEF Stop, TypeOK, Sending, edit, link, screen, manners
<1> QED BY <1>1, <1>2, <1>3, <1>4, <1>5, <1>6, <1>7, <1>8, <1>9, <1>10, <1>11, <1>12,
          <1>13, <1>14, <1>15, <1>16, <1>17, <1>18 DEF Next, Type, Main


-----------------------------------------------------------------------------
(* The order of the echoes. *)
LEMMA OrderInit == Init => InOrder /\ EchoIsMine
BY BoundAssumption DEF Init, InOrder, EchoIsMine, OnWire, InHand, Sending, NoMsg, Text

(* A step that leaves the ring, the hand and what was told, and puts no echo  *)
(* on the wire. *)
LEMMA OrderKept ==
  ASSUME TypeOK, InOrder, tty_out' = tty_out, typed' = typed, told' = told,
         InHand' => InHand, say'.key <= typed, InHand' => say' = say,
         ep'.key <= typed, OnWire' => OnWire /\ ep' = ep
  PROVE  InOrder'
BY DEF InOrder

LEMMA OrderStep == TypeOK /\ InOrder /\ EchoIsMine /\ [Next]_vars => InOrder'
<1> SUFFICES ASSUME TypeOK, InOrder, EchoIsMine, [Next]_vars PROVE InOrder'
  OBVIOUS
<1>0. typed \in 0 .. MaxKeys /\ told \in Nat /\ ep.key \in Nat /\ say.key \in Nat /\ MaxKeys \in Nat
  BY BoundAssumption DEF TypeOK, Message
<1>1. CASE Key
  <2>1. CASE UNCHANGED <<typed, tty_out>>
    BY <1>1, <2>1, OrderKept DEF Key, main, link, screen, InHand, OnWire, Sending, InOrder
  <2>2. CASE typed' = typed + 1 /\ tty_out' = Written(typed')
    <3>1. UNCHANGED <<pc, say, told, ep>> /\ (InHand' <=> InHand) /\ (OnWire' <=> OnWire)
      BY <1>1 DEF Key, main, link, screen, InHand, OnWire, Sending
    <3>2. CASE Len(tty_out) < EchoRoom
      <4>1. tty_out' = Append(tty_out, typed + 1)
        BY <2>2, <3>2 DEF Written
      <4>2. tty_out \in Seq(1 .. MaxKeys) /\ Len(tty_out) \in Nat
        BY DEF TypeOK
      <4>3. /\ Len(tty_out') = Len(tty_out) + 1 /\ tty_out'[Len(tty_out) + 1] = typed + 1
            /\ \A n \in 1 .. Len(tty_out) : tty_out'[n] = tty_out[n] /\ tty_out[n] <= typed /\ tty_out[n] \in Nat
        <5>1. typed + 1 \in Int /\ tty_out \in Seq(Int)
          BY <1>0, <4>2, SeqMonotonic
        <5>2. \A n \in 1 .. Len(tty_out) : tty_out[n] \in 1 .. MaxKeys
          BY <4>2, ElementOfSeq
        <5> QED BY <4>1, <5>1, <5>2, AppendProperties, BoundAssumption DEF InOrder
      <4>4. told' <= typed' /\ ep'.key <= typed' /\ say'.key <= typed'
        BY <1>0, <2>2, <3>1 DEF InOrder
      <4>5. ASSUME NEW n \in 1 .. Len(tty_out')
            PROVE  /\ told < tty_out'[n] /\ tty_out'[n] <= typed + 1
                   /\ OnWire => ep.key < tty_out'[n]
                   /\ InHand => say.key < tty_out'[n]
        <5>1. CASE n \in 1 .. Len(tty_out)
          BY <1>0, <4>3, <5>1 DEF InOrder
        <5>2. CASE n = Len(tty_out) + 1
          BY <1>0, <4>3, <5>2 DEF InOrder
        <5> QED BY <4>2, <4>3, <5>1, <5>2
      <4>6. ASSUME NEW m \in 1 .. Len(tty_out'), NEW n \in 1 .. Len(tty_out'), m < n
            PROVE  tty_out'[m] < tty_out'[n]
        <5>1. CASE n \in 1 .. Len(tty_out)
          <6>1. m \in 1 .. Len(tty_out)
            BY <4>6, <5>1
          <6> QED BY <4>3, <4>6, <5>1, <6>1 DEF InOrder
        <5>2. CASE n = Len(tty_out) + 1
          <6>1. m \in 1 .. Len(tty_out)
            BY <4>2, <4>6, <5>2
          <6> QED BY <1>0, <4>3, <5>2, <6>1
        <5> QED BY <4>2, <4>3, <5>1, <5>2
      <4> QED BY <2>2, <3>1, <4>4, <4>5, <4>6 DEF InOrder
    <3>3. CASE ~(Len(tty_out) < EchoRoom)
      <4>1. tty_out' = tty_out
        BY <2>2, <3>3 DEF Written
      <4>2. \A n \in 1 .. Len(tty_out) : tty_out[n] \in Nat
        <5>1. \A n \in 1 .. Len(tty_out) : tty_out[n] \in 1 .. MaxKeys
          BY ElementOfSeq DEF TypeOK
        <5> QED BY <1>0, <5>1
      <4> QED BY <1>0, <2>2, <3>1, <4>1, <4>2 DEF InOrder
    <3> QED BY <3>2, <3>3
  <2> QED BY <1>1, <2>1, <2>2 DEF Key
<1>2. ASSUME NEW w \in Answers, Answer(Text(w)) PROVE InOrder'
  <2>1. Text(w).key = 0 /\ Text(w).what # "echo"
    BY TextMessage
  <2>2. UNCHANGED <<tty_out, typed, pc, say, told>>
        /\ (ep' = ep \/ ep' = Text(w))
    BY <1>2, AnswerSent
  <2>3. say'.key <= typed /\ ep'.key <= typed /\ (InHand' => InHand)
        /\ (OnWire' => OnWire /\ ep' = ep)
    BY <1>0, <2>1, <2>2 DEF InHand, OnWire, Sending, InOrder
  <2> QED BY <2>2, <2>3, OrderKept
<1>3. CASE Enter
  BY <1>3, OrderKept DEF Enter, main, link, screen, InHand, OnWire, Sending, InOrder
<1>4. CASE Read
  <2>1. CASE tty_out = <<>>
    BY <1>4, <2>1, OrderKept DEF Read, link, screen, InHand, OnWire, Sending, InOrder
  <2>2. CASE tty_out # <<>>
    <3>1. /\ say' = Echo(Head(tty_out)) /\ tty_out' = Tail(tty_out) /\ pc' = "free"
          /\ UNCHANGED <<typed, told, ep>>
      BY <1>4, <2>2 DEF Read, link, screen
    <3>2. say'.key = Head(tty_out)
      BY <3>1 DEF Echo
    <3>3. /\ Len(tty_out') = Len(tty_out) - 1 /\ Len(tty_out) \in Nat \ {0} /\ Head(tty_out) = tty_out[1]
          /\ \A n \in 1 .. Len(tty_out') : tty_out'[n] = tty_out[n + 1]
      BY <2>2, <3>1, HeadTailProperties DEF TypeOK
    <3>4. /\ told < say'.key /\ say'.key <= typed
          /\ OnWire' => ep'.key < say'.key
      BY <3>1, <3>2, <3>3 DEF InOrder, OnWire
    <3>5. \A n \in 1 .. Len(tty_out') :
             /\ told' < tty_out'[n] /\ tty_out'[n] <= typed' /\ say'.key < tty_out'[n]
             /\ OnWire' => ep'.key < tty_out'[n]
      BY <3>1, <3>2, <3>3 DEF InOrder, OnWire
    <3>6. \A m, n \in 1 .. Len(tty_out') : m < n => tty_out'[m] < tty_out'[n]
      BY <3>3 DEF InOrder
    <3>7. told' <= typed' /\ ep'.key <= typed' /\ (OnWire' => told' < ep'.key)
      BY <3>1 DEF InOrder, OnWire
    <3> QED BY <3>1, <3>4, <3>5, <3>6, <3>7 DEF InOrder
  <2> QED BY <2>1, <2>2
<1>5. CASE Command \/ Stop
  BY <1>5, OrderKept DEF Command, Stop, edit, link, screen, InHand, OnWire, Sending, InOrder
<1>6. CASE Exec
  <2>1. CASE left = 0
    BY <1>6, <2>1, OrderKept DEF Exec, link, screen, InHand, OnWire, Sending, InOrder
  <2>2. CASE left # 0
    <3>1. say' \in {Text("prompt"), Text("output")} /\ UNCHANGED <<tty_out, typed, told, ep>>
      BY <1>6, <2>2 DEF Exec, link, screen
    <3>2. say'.key = 0 /\ say'.what # "echo"
      BY <3>1 DEF Text
    <3> QED BY <1>0, <3>1, <3>2, OrderKept DEF InHand, OnWire, InOrder
  <2> QED BY <2>1, <2>2
<1>7. CASE TestFree \/ Copy \/ SetLength \/ TestTx
  BY <1>7, OrderKept DEF TestFree, Copy, SetLength, TestTx, edit, link, screen, InHand, OnWire,
                         Sending, InOrder
<1>8. CASE StartTx
  <2>1. /\ pc = "start" /\ pc' = "delay" /\ UNCHANGED <<tty_out, typed, told, say>>
        /\ ep' \in {tx_b, Text("fragment")} /\ (tx_b = say \/ tx_b.what # "echo")
    BY <1>8 DEF StartTx, EchoIsMine, edit, screen
  <2>2. ~InHand'
    BY <2>1 DEF InHand, Sending
  <2>3. CASE ep'.what = "echo"
    <3>1. ep' = say /\ InHand
      BY <2>1, <2>3 DEF Text, InHand, Sending
    <3> QED BY <1>0, <2>1, <2>2, <3>1 DEF InOrder, InHand, OnWire
  <2>4. CASE ep'.what # "echo"
    <3>1. ep'.key = 0
      BY <2>1, <2>4 DEF Text, TypeOK
    <3> QED BY <1>0, <2>1, <2>2, <2>4, <3>1, OrderKept DEF OnWire, InOrder
  <2> QED BY <2>3, <2>4
<1>9. CASE Delay
  <2>1. say'.key = 0 /\ say'.what # "echo" /\ UNCHANGED <<tty_out, typed, told, ep>>
    BY <1>9 DEF Delay, edit, link, screen, NoMsg, Text
  <2> QED BY <1>0, <2>1, OrderKept DEF InHand, OnWire, InOrder
<1>10. CASE DataIn
  <2>1. /\ ep'.key = 0 /\ ep'.what # "echo" /\ UNCHANGED <<tty_out, typed, pc, say>>
        /\ told' = (IF OnWire THEN ep.key ELSE told)
    BY <1>10 DEF DataIn, edit, main, NoMsg, Text, OnWire
  <2>2. (InHand' <=> InHand) /\ ~OnWire'
    BY <2>1 DEF InHand, Sending, OnWire
  <2> QED BY <1>0, <2>1, <2>2 DEF InOrder
<1>11. CASE UNCHANGED vars
  BY <1>11, OrderKept DEF vars, edit, main, link, screen, InHand, OnWire, Sending, InOrder
<1>12. CASE Backspace \/ Blank \/ Clear \/ Cursor
  BY <1>2, <1>12 DEF Backspace, Blank, Clear, Cursor, Answers
<1> QED BY <1>1, <1>3, <1>4, <1>5, <1>6, <1>7, <1>8, <1>9, <1>10, <1>11, <1>12 DEF Next, Type, Main

LEMMA MineStep == TypeOK /\ EchoIsMine /\ [Next]_vars => EchoIsMine'
<1> SUFFICES ASSUME TypeOK, EchoIsMine, [Next]_vars PROVE EchoIsMine'
  OBVIOUS
<1>1. ASSUME NEW w \in Answers, Answer(Text(w)) PROVE EchoIsMine'
  <2>1. Text(w).what # "echo"
    BY TextMessage
  <2> QED BY <1>1, <2>1, AnswerSent DEF EchoIsMine, OnWire
<1>2. CASE Backspace \/ Blank \/ Clear \/ Cursor
  BY <1>1, <1>2 DEF Backspace, Blank, Clear, Cursor, Answers
<1>3. CASE Key \/ Enter
  BY <1>3 DEF Key, Enter, main, link, EchoIsMine, OnWire
<1>4. CASE Read \/ Command \/ Stop \/ Exec \/ Delay
  BY <1>4 DEF Read, Command, Stop, Exec, Delay, EchoIsMine
<1>5. CASE TestFree \/ Copy \/ SetLength \/ TestTx \/ StartTx
  BY <1>5 DEF TestFree, Copy, SetLength, TestTx, StartTx, link, EchoIsMine, OnWire, NoMsg, Text
<1>6. CASE DataIn
  BY <1>6 DEF DataIn, main, EchoIsMine, OnWire, NoMsg, Text
<1>7. CASE UNCHANGED vars
  BY <1>7 DEF vars, main, link, EchoIsMine, OnWire
<1> QED BY <1>2, <1>3, <1>4, <1>5, <1>6, <1>7 DEF Next, Type, Main

(* Ascending sequences, the later one above the earlier one.                  *)
Ascending(s) == \A n \in 1 .. Len(s) - 1 : s[n] < s[n + 1]
Below(s, t) == \A m \in 1 .. Len(s), n \in 1 .. Len(t) : s[m] < t[n]

LEMMA AscendingConcat ==
  ASSUME NEW s \in Seq(Nat), NEW t \in Seq(Nat), Ascending(s), Ascending(t), Below(s, t)
  PROVE  s \o t \in Seq(Nat) /\ Ascending(s \o t)
<1>1. /\ s \o t \in Seq(Nat) /\ Len(s \o t) = Len(s) + Len(t)
      /\ \A n \in 1 .. Len(s) + Len(t) :
           (s \o t)[n] = IF n <= Len(s) THEN s[n] ELSE t[n - Len(s)]
  BY ConcatProperties
<1>2. Len(s) \in Nat /\ Len(t) \in Nat
  BY LenProperties
<1>3. ASSUME NEW n \in 1 .. Len(s) + Len(t) - 1
      PROVE  (s \o t)[n] < (s \o t)[n + 1]
  <2>1. n \in Nat /\ n >= 1 /\ n + 1 <= Len(s) + Len(t)
    BY <1>2
  <2>2. CASE n + 1 <= Len(s)
    <3>1. (s \o t)[n] = s[n] /\ (s \o t)[n + 1] = s[n + 1]
      BY <1>1, <1>2, <2>1, <2>2
    <3> QED BY <1>2, <2>1, <2>2, <3>1 DEF Ascending
  <2>3. CASE n = Len(s)
    <3>1. (s \o t)[n] = s[n] /\ (s \o t)[n + 1] = t[1] /\ 1 \in 1 .. Len(t) /\ n \in 1 .. Len(s)
      BY <1>1, <1>2, <2>1, <2>3
    <3> QED BY <3>1 DEF Below
  <2>4. CASE n > Len(s)
    <3>1. (s \o t)[n] = t[n - Len(s)] /\ (s \o t)[n + 1] = t[n + 1 - Len(s)]
      BY <1>1, <1>2, <2>1, <2>4
    <3>2. n - Len(s) \in 1 .. Len(t) - 1 /\ n + 1 - Len(s) = (n - Len(s)) + 1
      BY <1>2, <2>1, <2>4
    <3> QED BY <3>1, <3>2 DEF Ascending
  <2> QED BY <1>2, <2>1, <2>2, <2>3, <2>4
<1> QED BY <1>1, <1>3 DEF Ascending

LEMMA BelowConcat ==
  ASSUME NEW s \in Seq(Nat), NEW t \in Seq(Nat), NEW u \in Seq(Nat), Below(s, u), Below(t, u)
  PROVE  Below(s \o t, u)
<1>1. /\ Len(s \o t) = Len(s) + Len(t) /\ Len(s) \in Nat /\ Len(t) \in Nat
      /\ \A n \in 1 .. Len(s) + Len(t) :
           (s \o t)[n] = IF n <= Len(s) THEN s[n] ELSE t[n - Len(s)]
  BY ConcatProperties, LenProperties
<1>2. ASSUME NEW m \in 1 .. Len(s \o t), NEW n \in 1 .. Len(u)
      PROVE  (s \o t)[m] < u[n]
  <2>1. CASE m <= Len(s)
    BY <1>1, <2>1 DEF Below
  <2>2. CASE ~(m <= Len(s))
    <3>1. m - Len(s) \in 1 .. Len(t) /\ (s \o t)[m] = t[m - Len(s)]
      BY <1>1, <2>2
    <3> QED BY <3>1 DEF Below
  <2> QED BY <2>1, <2>2
<1> QED BY <1>2 DEF Below

(* None or one: the wire and the hand hold at most one echo each.             *)
LEMMA FewAscending ==
  /\ <<>> \in Seq(Nat) /\ Ascending(<<>>)
  /\ \A k \in Nat : <<k>> \in Seq(Nat) /\ Ascending(<<k>>)
BY DEF Ascending

LEMMA OrderMeans == TypeOK /\ InOrder => EchoesInOrder
<1> SUFFICES ASSUME TypeOK, InOrder PROVE EchoesInOrder
  OBVIOUS
<1> DEFINE wire == IF ep.what = "echo" THEN <<ep.key>> ELSE <<>>
           hand == IF Sending /\ say.what = "echo" THEN <<say.key>> ELSE <<>>
<1>1. told \in Nat /\ ep.key \in Nat /\ say.key \in Nat
  BY BoundAssumption DEF TypeOK, Message
<1>2. tty_out \in Seq(Nat) /\ Ascending(tty_out)
  <2>1. tty_out \in Seq(Nat) /\ Len(tty_out) \in Nat
    BY SeqMonotonic, LenProperties, BoundAssumption DEF TypeOK
  <2> QED BY <2>1 DEF InOrder, Ascending
<1>3. /\ <<told>> \in Seq(Nat) /\ wire \in Seq(Nat) /\ hand \in Seq(Nat)
      /\ Ascending(<<told>>) /\ Ascending(wire) /\ Ascending(hand)
  BY <1>1, FewAscending
<1>4. Below(<<told>>, wire) /\ Below(<<told>>, hand) /\ Below(<<told>>, tty_out)
  BY <1>1 DEF Below, InOrder, OnWire, InHand
<1>5. Below(wire, hand) /\ Below(wire, tty_out) /\ Below(hand, tty_out)
  BY <1>1 DEF Below, InOrder, OnWire, InHand
<1> HIDE DEF wire, hand
<1>6. <<told>> \o wire \in Seq(Nat) /\ Ascending(<<told>> \o wire)
  BY <1>3, <1>4, AscendingConcat
<1>7. Below(<<told>> \o wire, hand) /\ Below(<<told>> \o wire, tty_out)
  BY <1>2, <1>3, <1>4, <1>5, BelowConcat
<1>8. <<told>> \o wire \o hand \in Seq(Nat) /\ Ascending(<<told>> \o wire \o hand)
  BY <1>3, <1>6, <1>7, AscendingConcat
<1>9. Below(<<told>> \o wire \o hand, tty_out)
  BY <1>2, <1>3, <1>5, <1>6, <1>7, BelowConcat
<1>10. Ascending(<<told>> \o wire \o hand \o tty_out)
  BY <1>2, <1>8, <1>9, AscendingConcat
<1> QED BY <1>10 DEF EchoesInOrder, Ascending, wire, hand

-----------------------------------------------------------------------------
(* Who is on the link. *)
LEMMA LinkInit == Init => LinkFree
BY DEF Init, LinkFree, Sending

LEMMA LinkStep == TypeOK /\ LinkFree /\ [Next]_vars => LinkFree'
<1> SUFFICES ASSUME TypeOK, LinkFree, [Next]_vars, alone', ~late'
             PROVE  /\ ~refused' /\ (Sending' => ep' = NoMsg)
                    /\ ep' # NoMsg /\ pc' # "delay" =>
                         /\ Answering' /\ tty_out' = <<>> /\ ~new_cmd'
                         /\ pc' \in {"read", "command"}
  BY DEF LinkFree
<1>0. {new_cmd, alone, late, refused} \subseteq BOOLEAN
  BY DEF TypeOK
<1>1. CASE Key \/ Enter
  <2>1. alone /\ ~Answering /\ ~late /\ UNCHANGED <<refused, pc, ep>>
    <3>1. alone' = (alone /\ ~Answering)
      BY <1>1 DEF Key, Enter, Queued
    <3>2. alone /\ ~Answering
      BY <1>0, <3>1
    <3>3. late' = late /\ UNCHANGED <<refused, pc, ep>>
      BY <1>1 DEF Key, Enter, main, link
    <3>4. ~late
      BY <3>3
    <3> QED BY <3>2, <3>3, <3>4
  <2>2. ~refused /\ (Sending => ep = NoMsg) /\ ~(ep # NoMsg /\ pc # "delay")
    BY <2>1 DEF LinkFree
  <2> QED BY <2>1, <2>2 DEF Sending
<1>2. ASSUME NEW w \in Answers, Answer(Text(w)), new_cmd' = new_cmd
      PROVE  /\ ~refused' /\ (Sending' => ep' = NoMsg)
             /\ ep' # NoMsg /\ pc' # "delay" =>
                  /\ Answering' /\ tty_out' = <<>> /\ ~new_cmd'
                  /\ pc' \in {"read", "command"}
  <2>1. /\ UNCHANGED <<tty_out, pc, late>> /\ alone /\ Settled
        /\ ep' = Text(w) /\ UNCHANGED refused
    BY <1>2, AnswerSent DEF Settled
  <2>2. ~Sending' /\ pc' \in {"read", "delay", "command"} /\ tty_out' = <<>> /\ ~new_cmd'
    BY <1>2, <2>1 DEF Settled, Sending
  <2>3. Answering'
    BY <2>1, <2>2 DEF Answering, Text, Answers
  <2>4. ~refused'
    BY <2>1 DEF LinkFree
  <2> QED BY <2>2, <2>3, <2>4
<1>3. CASE Backspace \/ Blank \/ Clear \/ Cursor
  BY <1>2, <1>3 DEF Backspace, Blank, Clear, Cursor, Answers
<1>4. ASSUME Main, alone, ~late
      PROVE  /\ ~refused' /\ (Sending' => ep' = NoMsg)
             /\ ep' # NoMsg /\ pc' # "delay" =>
                  /\ Answering' /\ tty_out' = <<>> /\ ~new_cmd'
                  /\ pc' \in {"read", "command"}
  <2>1. /\ ~refused /\ (Sending => ep = NoMsg)
        /\ ep # NoMsg /\ pc # "delay" =>
             Answering /\ tty_out = <<>> /\ ~new_cmd /\ pc \in {"read", "command"}
    BY <1>4 DEF LinkFree
  <2>2. CASE Read
    BY <2>1, <2>2 DEF Read, link, Sending, Answering
  <2>3. CASE Command
    BY <2>1, <2>3 DEF Command, edit, link, Sending, Answering
  <2>8. CASE Stop
    BY <2>1, <2>8 DEF Stop, edit, link, Sending
  <2>4. CASE Exec
    BY <2>1, <2>4 DEF Exec, link, Sending
  <2>5. CASE Delay
    BY <2>1, <2>5, ~late' DEF Delay, edit, link, Sending
  <2>6. CASE TestFree \/ TestTx
    BY <2>1, <2>6 DEF TestFree, TestTx, link, Sending
  <2>7. CASE Copy \/ SetLength \/ StartTx
    BY <2>1, <2>7 DEF Copy, SetLength, StartTx, Sending
  <2> QED BY <1>4, <2>2, <2>3, <2>4, <2>5, <2>6, <2>7, <2>8 DEF Main
<1>5. CASE Main
  <2>1. alone' = alone
    BY <1>5 DEF Main, Read, Command, Stop, Exec, Delay, TestFree, Copy, SetLength, TestTx, StartTx,
                manners
  <2>2. late' = late \/ late' = (late \/ ep # NoMsg)
    BY <1>5 DEF Main, Read, Command, Stop, Exec, Delay, TestFree, Copy, SetLength, TestTx, StartTx
  <2>3. alone /\ ~late
    <3>1. alone
      BY <2>1
    <3>2. CASE late' = late
      BY <3>1, <3>2
    <3>3. CASE late' = (late \/ ep # NoMsg)
      BY <1>0, <3>1, <3>3
    <3> QED BY <2>2, <3>2, <3>3
  <2> QED BY <1>4, <1>5, <2>3
<1>7. CASE DataIn
  BY <1>7 DEF DataIn, manners, LinkFree
<1>8. CASE UNCHANGED vars
  BY <1>8 DEF vars, edit, main, link, manners, LinkFree, Sending, Answering
<1> QED BY <1>1, <1>3, <1>5, <1>7, <1>8 DEF Next, Type

-----------------------------------------------------------------------------
(* Suffixes, by their elements. *)
LEMMA SuffixElements ==
  ASSUME NEW S, NEW s \in Seq(S), NEW t \in Seq(S)
  PROVE  IsSuffix(s, t) <=>
           /\ Len(s) <= Len(t)
           /\ \A n \in 1 .. Len(s) : s[n] = t[Len(t) - Len(s) + n]
<1> DEFINE rs == Reverse(s)
           rt == Reverse(t)
<1>1. Len(s) \in Nat /\ Len(t) \in Nat
  BY LenProperties
<1>2. /\ rs \in Seq(S) /\ Len(rs) = Len(s) /\ \A n \in 1 .. Len(s) : rs[n] = s[Len(s) - n + 1]
      /\ rt \in Seq(S) /\ Len(rt) = Len(t) /\ \A n \in 1 .. Len(t) : rt[n] = t[Len(t) - n + 1]
  <2>1. /\ \A n \in 1 .. Len(s) : s[Len(s) - n + 1] \in S
        /\ \A n \in 1 .. Len(t) : t[Len(t) - n + 1] \in S
    BY <1>1, ElementOfSeq
  <2>2. rs \in Seq(S) /\ rt \in Seq(S)
    BY <1>1, <2>1 DEF Reverse
  <2> QED BY <1>1, <2>2 DEF Reverse
<1> HIDE DEF rs, rt
<1>3. IsSuffix(s, t) <=> Len(s) <= Len(t) /\ SubSeq(rs, 1, Len(s)) = SubSeq(rt, 1, Len(s))
  BY <1>2 DEF IsSuffix, IsPrefix, rs, rt
<1>4. ASSUME Len(s) <= Len(t)
      PROVE  SubSeq(rs, 1, Len(s)) = SubSeq(rt, 1, Len(s))
               <=> \A n \in 1 .. Len(s) : rs[n] = rt[n]
  <2>1. SubSeq(rs, 1, Len(s)) = rs
    BY <1>2, SubSeqFull
  <2>2. \A n \in 1 .. Len(s) : rt[n] \in S
    BY <1>1, <1>2, <1>4, ElementOfSeq
  <2>3. /\ SubSeq(rt, 1, Len(s)) \in Seq(S)
        /\ Len(SubSeq(rt, 1, Len(s))) = IF 1 <= Len(s) THEN Len(s) - 1 + 1 ELSE 0
        /\ \A n \in 1 .. Len(s) - 1 + 1 : SubSeq(rt, 1, Len(s))[n] = rt[1 + n - 1]
    BY <1>1, <2>2, SubSeqProperties
  <2>4. Len(s) - 1 + 1 = Len(s) /\ \A n \in 1 .. Len(s) : 1 + n - 1 = n
    BY <1>1
  <2>5. Len(SubSeq(rt, 1, Len(s))) = Len(s)
    <3> DEFINE k == Len(s)
               u == SubSeq(rt, 1, Len(s))
    <3>1. k \in Nat /\ Len(u) = IF 1 <= k THEN k - 1 + 1 ELSE 0
      BY <1>1, <2>3
    <3> HIDE DEF k, u
    <3>2. Len(u) = k
      BY <3>1
    <3> QED BY <3>2 DEF k, u
  <2>6. \A n \in 1 .. Len(s) : SubSeq(rt, 1, Len(s))[n] = rt[n]
    BY <2>3, <2>4
  <2> DEFINE u == SubSeq(rt, 1, Len(s))
  <2>7. u \in Seq(S) /\ Len(u) = Len(rs) /\ \A n \in 1 .. Len(rs) : u[n] = rt[n]
    BY <1>2, <2>3, <2>5, <2>6
  <2> HIDE DEF u
  <2>8. rs = u <=> \A n \in 1 .. Len(rs) : rs[n] = rt[n]
    BY <1>2, <2>7, SeqEqual
  <2> QED BY <1>2, <2>1, <2>8 DEF u
<1>5. ASSUME Len(s) <= Len(t)
      PROVE  (\A n \in 1 .. Len(s) : rs[n] = rt[n])
               <=> \A n \in 1 .. Len(s) : s[n] = t[Len(t) - Len(s) + n]
  <2>1. ASSUME \A n \in 1 .. Len(s) : rs[n] = rt[n], NEW m \in 1 .. Len(s)
        PROVE  s[m] = t[Len(t) - Len(s) + m]
    <3>1. /\ Len(s) - m + 1 \in 1 .. Len(s) /\ Len(s) - m + 1 \in 1 .. Len(t)
          /\ Len(s) - (Len(s) - m + 1) + 1 = m
          /\ Len(t) - (Len(s) - m + 1) + 1 = Len(t) - Len(s) + m
      BY <1>1, <1>5
    <3>2. /\ rs[Len(s) - m + 1] = s[Len(s) - (Len(s) - m + 1) + 1]
          /\ rt[Len(s) - m + 1] = t[Len(t) - (Len(s) - m + 1) + 1]
      BY <1>2, <3>1
    <3>3. rs[Len(s) - m + 1] = rt[Len(s) - m + 1]
      BY <2>1, <3>1
    <3> QED BY <3>1, <3>2, <3>3
  <2>2. ASSUME \A n \in 1 .. Len(s) : s[n] = t[Len(t) - Len(s) + n], NEW m \in 1 .. Len(s)
        PROVE  rs[m] = rt[m]
    <3>1. /\ m \in 1 .. Len(t) /\ Len(s) - m + 1 \in 1 .. Len(s)
          /\ Len(t) - Len(s) + (Len(s) - m + 1) = Len(t) - m + 1
      BY <1>1, <1>5
    <3>2. rs[m] = s[Len(s) - m + 1] /\ rt[m] = t[Len(t) - m + 1]
      BY <1>2, <3>1
    <3>3. s[Len(s) - m + 1] = t[Len(t) - Len(s) + (Len(s) - m + 1)]
      BY <2>2, <3>1
    <3> QED BY <3>1, <3>2, <3>3
  <2> QED BY <2>1, <2>2
<1> QED BY <1>3, <1>4, <1>5

(* Nothing, a key appended to both, the last key taken from both.             *)
LEMMA FitsEmpty ==
  ASSUME NEW S, NEW t \in Seq(S), NEW c
  PROVE  Fits(<<>>, t, TRUE) /\ Fits(<<>>, <<>>, c)
<1> DEFINE e == <<>>
<1>1. e \in Seq(S) /\ Len(e) = 0 /\ Len(t) \in Nat
  BY EmptySeq, LenProperties
<1> HIDE DEF e
<1>2. Len(e) <= Len(t) /\ \A n \in 1 .. Len(e) : e[n] = t[Len(t) - Len(e) + n]
  BY <1>1
<1>3. Len(e) <= Len(e) /\ \A n \in 1 .. Len(e) : e[n] = e[Len(e) - Len(e) + n]
  BY <1>1
<1>4. IsSuffix(e, t)
  BY <1>1, <1>2, SuffixElements
<1>5. IsSuffix(e, e)
  BY <1>1, <1>3, SuffixElements
<1> QED BY <1>4, <1>5 DEF e, Fits

LEMMA FitsAppend ==
  ASSUME NEW S, NEW s \in Seq(S), NEW t \in Seq(S), NEW k \in S, NEW c \in BOOLEAN, Fits(s, t, c)
  PROVE  Fits(Append(s, k), Append(t, k), c)
<1> DEFINE sk == Append(s, k)
           tk == Append(t, k)
<1>1. Len(s) \in Nat /\ Len(t) \in Nat
  BY LenProperties
<1>2. /\ sk \in Seq(S) /\ Len(sk) = Len(s) + 1 /\ sk[Len(s) + 1] = k
      /\ \A n \in 1 .. Len(s) : sk[n] = s[n]
      /\ tk \in Seq(S) /\ Len(tk) = Len(t) + 1 /\ tk[Len(t) + 1] = k
      /\ \A n \in 1 .. Len(t) : tk[n] = t[n]
  BY AppendProperties
<1> HIDE DEF sk, tk
<1>3. CASE ~c
  BY <1>3 DEF Fits, sk, tk
<1>4. CASE c
  <2>1. Len(s) <= Len(t) /\ \A n \in 1 .. Len(s) : s[n] = t[Len(t) - Len(s) + n]
    BY <1>4, SuffixElements DEF Fits
  <2>2. Len(sk) <= Len(tk) /\ Len(tk) - Len(sk) = Len(t) - Len(s)
    BY <1>1, <1>2, <2>1
  <2>3. ASSUME NEW n \in 1 .. Len(sk)
        PROVE  sk[n] = tk[Len(t) - Len(s) + n]
    <3>1. CASE n \in 1 .. Len(s)
      <4>1. Len(t) - Len(s) + n \in 1 .. Len(t)
        BY <1>1, <2>1, <3>1
      <4> QED BY <1>2, <2>1, <3>1, <4>1
    <3>2. CASE n = Len(s) + 1
      <4>1. Len(t) - Len(s) + n = Len(t) + 1
        BY <1>1, <3>2
      <4> QED BY <1>2, <3>2, <4>1
    <3> QED BY <1>1, <1>2, <3>1, <3>2
  <2>4. IsSuffix(sk, tk)
    BY <1>2, <2>2, <2>3, SuffixElements
  <2> QED BY <1>4, <2>4 DEF Fits, sk, tk
<1> QED BY <1>3, <1>4

LEMMA FitsFront ==
  ASSUME NEW S, NEW s \in Seq(S), NEW t \in Seq(S), NEW c \in BOOLEAN, Fits(s, t, c),
         s # <<>>, t # <<>>
  PROVE  Fits(Front(s), Front(t), c)
<1> DEFINE sf == Front(s)
           tf == Front(t)
<1>1. Len(s) \in Nat /\ Len(t) \in Nat
  BY LenProperties
<1>2. /\ sf \in Seq(S) /\ Len(sf) = Len(s) - 1 /\ Len(s) > 0
      /\ \A n \in 1 .. Len(s) - 1 : sf[n] = s[n]
      /\ tf \in Seq(S) /\ Len(tf) = Len(t) - 1 /\ Len(t) > 0
      /\ \A n \in 1 .. Len(t) - 1 : tf[n] = t[n]
  BY FrontType, EmptySeq
<1> HIDE DEF sf, tf
<1>3. CASE ~c
  BY <1>3 DEF Fits, sf, tf
<1>4. CASE c
  <2>1. Len(s) <= Len(t) /\ \A n \in 1 .. Len(s) : s[n] = t[Len(t) - Len(s) + n]
    BY <1>4, SuffixElements DEF Fits
  <2>2. Len(sf) <= Len(tf) /\ Len(tf) - Len(sf) = Len(t) - Len(s)
    <3>1. Len(sf) = Len(s) - 1 /\ Len(tf) = Len(t) - 1
      BY <1>2
    <3> QED BY <1>1, <2>1, <3>1
  <2>3. ASSUME NEW n \in 1 .. Len(sf)
        PROVE  sf[n] = tf[Len(t) - Len(s) + n]
    <3>1. n \in 1 .. Len(s) - 1 /\ n \in 1 .. Len(s) /\ Len(t) - Len(s) + n \in 1 .. Len(t) - 1
      BY <1>1, <1>2, <2>1
    <3> QED BY <1>2, <2>1, <3>1
  <2>4. IsSuffix(sf, tf)
    BY <1>2, <2>2, <2>3, SuffixElements
  <2> QED BY <1>4, <2>4 DEF Fits, sf, tf
<1> QED BY <1>3, <1>4

-----------------------------------------------------------------------------
(* What a patient user sees. *)
LEMMA FetchedIs ==
  ASSUME NEW text, NEW m
  PROVE  /\ m = NoMsg => Fetched(m, text) = text
         /\ m.what = "echo" => Fetched(m, text) = Append(text, m.key)
         /\ m.what = "erase" => Fetched(m, text) = IF text = <<>> THEN <<>> ELSE Front(text)
         /\ m.what = "clear" => Fetched(m, text) = text
         /\ m.what \in {"todo", "prompt", "output"} => Fetched(m, text) = <<>>
<1>1. /\ m = NoMsg => Fetched(m, text) = text
      /\ m.what = "clear" => Fetched(m, text) = text
  BY DEF Fetched, NoMsg, Text
<1>2. m.what = "echo" => Fetched(m, text) = Append(text, m.key)
  BY DEF Fetched
<1>3. m.what = "erase" => Fetched(m, text) = IF text = <<>> THEN <<>> ELSE Front(text)
  BY DEF Fetched
<1>4. m.what \in {"todo", "prompt", "output"} => Fetched(m, text) = <<>>
  BY DEF Fetched
<1> QED BY <1>1, <1>2, <1>3, <1>4

LEMMA PatientInit == Init => PatientOK
<1> SUFFICES ASSUME Init PROVE PatientView
  BY DEF PatientOK
<1>1. Screen = <<>>
  BY FetchedIs DEF Init, Screen
<1> QED BY <1>1 DEF Init, PatientView, InHand, Sending, Matches, Fits

(* A settled terminal shows the line. *)
LEMMA SettledView ==
  ASSUME TypeOK, PatientView, Settled
  PROVE  /\ Matches(shown) /\ ~new_cmd /\ tty_out = <<>> /\ ep = NoMsg
         /\ ~Sending /\ pc # "exec" /\ (pc = "delay" => say.what = "echo")
<1>1. ~new_cmd /\ tty_out = <<>> /\ ep = NoMsg /\ pc \in {"read", "delay", "command"}
  BY DEF Settled
<1>2. ~Sending /\ ~InHand /\ pc # "exec"
  BY <1>1 DEF Sending, InHand
<1>3. Screen = shown
  BY <1>1, FetchedIs DEF Screen
<1>4. Matches(Screen)
  <2>1. Len(tty_out) # 1
    BY <1>1
  <2> QED BY <1>1, <1>2, <2>1 DEF PatientView
<1> QED BY <1>1, <1>2, <1>3, <1>4 DEF PatientView

(* A byte that a patient user types. *)
LEMMA PatientTypes ==
  ASSUME TypeOK, PatientView, Settled, Type
  PROVE  PatientView'
<1> USE SizeAssumption, BoundAssumption
<1>1. /\ Matches(shown) /\ ~new_cmd /\ tty_out = <<>> /\ ep = NoMsg
      /\ ~Sending /\ pc # "exec" /\ (pc = "delay" => say.what = "echo")
  BY SettledView
<1>2. /\ line \in Seq(1 .. MaxKeys) /\ shown \in Seq(1 .. MaxKeys) /\ cut \in BOOLEAN
      /\ typed \in 0 .. MaxKeys
  BY DEF TypeOK
<1>3. CASE Key
  <2>1. UNCHANGED <<new_cmd, cut, pc, say, left, tx_b, TxLength, ep, shown>>
    BY <1>3 DEF Key, main, link, screen
  <2>2. ~Sending' /\ ~InHand'
    BY <1>1, <2>1 DEF Sending, InHand
  <2>3. CASE UNCHANGED <<line, tty_out>>
    <3>1. Screen' = shown
      BY <1>1, <2>1, FetchedIs DEF Screen
    <3> QED BY <1>1, <2>1, <2>2, <2>3, <3>1 DEF PatientView, Matches, Sending
  <2>4. CASE typed' = typed + 1 /\ line' = Append(line, typed') /\ tty_out' = Written(typed')
    <3>1. typed' \in 1 .. MaxKeys
      BY <1>2, <1>3, <2>4 DEF Key
    <3>2. tty_out' = <<typed'>>
      BY <1>1, <2>4 DEF Written
    <3>3. Fits(Append(shown, typed'), line', cut)
      BY <1>1, <1>2, <2>4, <3>1, FitsAppend DEF Matches
    <3>4. Len(tty_out') = 1 /\ tty_out'[1] = typed'
      BY <3>2
    <3> QED BY <1>1, <2>1, <2>2, <3>3, <3>4 DEF PatientView, Matches, Sending
  <2> QED BY <1>3, <2>3, <2>4 DEF Key
<1>4. ASSUME NEW w \in Answers, Answer(Text(w)), new_cmd' = new_cmd,
             Fits(Fetched(Text(w), shown), line', cut')
      PROVE  PatientView'
  <2>1. UNCHANGED <<tty_out, pc, say, left, shown>> /\ ep' = Text(w)
    BY <1>1, <1>4, AnswerSent
  <2>2. ~Sending' /\ ~InHand' /\ tty_out' = <<>> /\ ~new_cmd'
    BY <1>1, <1>4, <2>1 DEF Sending, InHand
  <2>3. Matches(Screen)'
    BY <1>4, <2>1 DEF Matches, Screen
  <2> QED BY <1>1, <2>1, <2>2, <2>3 DEF PatientView, Sending
<1>5. CASE Backspace
  <2>1. line # <<>> /\ line' = Front(line) /\ cut' = cut
    BY <1>5 DEF Backspace
  <2>2. Fetched(Text("erase"), shown) = IF shown = <<>> THEN <<>> ELSE Front(shown)
    BY FetchedIs DEF Text
  <2>3. Fits(Fetched(Text("erase"), shown), line', cut')
    <3>1. CASE shown # <<>>
      BY <1>1, <1>2, <2>1, <2>2, <3>1, FitsFront DEF Matches
    <3>2. CASE shown = <<>>
      <4>1. cut
        BY <1>1, <2>1, <3>2 DEF Matches, Fits
      <4>2. Front(line) \in Seq(1 .. MaxKeys)
        BY <1>2, <2>1, FrontType
      <4>3. Fits(<<>>, Front(line), TRUE)
        BY <4>2, FitsEmpty
      <4> QED BY <1>2, <2>1, <2>2, <3>2, <4>1, <4>3
    <3> QED BY <3>1, <3>2
  <2> QED BY <1>4, <1>5, <2>3 DEF Backspace, Answers
<1>6. CASE Enter
  <2>1. /\ line' = <<>> /\ new_cmd' /\ ~cut' /\ tty_out' = <<>>
        /\ UNCHANGED <<pc, say, left, tx_b, TxLength, ep, shown>>
    BY <1>1, <1>6 DEF Enter, main, link, screen
  <2>2. ~Sending' /\ ~InHand' /\ ~Blanking'
    BY <1>1, <2>1 DEF Sending, InHand, Blanking
  <2> QED BY <1>1, <2>1, <2>2 DEF PatientView, Sending
<1>7. CASE Blank
  <2>1. Fits(Fetched(Text("prompt"), shown), line', cut')
    BY <1>7, FetchedIs DEF Blank, Text, Fits
  <2> QED BY <1>4, <1>7, <2>1 DEF Blank, Answers
<1>8. CASE Clear
  <2>1. Fetched(Text("clear"), shown) = shown
    BY FetchedIs DEF Text
  <2>2. Fits(Fetched(Text("clear"), shown), line', cut')
    BY <1>1, <1>8, <2>1 DEF Clear, Matches
  <2> QED BY <1>4, <1>8, <2>2 DEF Clear, Answers
<1>9. CASE Cursor
  <2>1. Fits(<<>>, line, TRUE)
    BY <1>2, FitsEmpty
  <2>2. Fetched(Text("todo"), shown) = <<>>
    BY FetchedIs DEF Text
  <2>3. Fits(Fetched(Text("todo"), shown), line', cut')
    BY <1>9, <2>1, <2>2 DEF Cursor
  <2> QED BY <1>4, <1>9, <2>3 DEF Cursor, Answers
<1> QED BY <1>3, <1>5, <1>6, <1>7, <1>8, <1>9 DEF Type

(* A step of the main loop. *)
LEMMA PatientMain ==
  ASSUME TypeOK, PatientView, Main
  PROVE  PatientView'
<1>1. CASE Read
  <2>1. CASE tty_out = <<>>
    <3>1. /\ pc = "read" /\ pc' = "command"
          /\ UNCHANGED <<tty_out, say, line, new_cmd, cut, left, tx_b, TxLength, ep, shown>>
      BY <1>1, <2>1 DEF Read, link, screen
    <3>2. ~Sending' /\ ~InHand /\ ~InHand' /\ ~Blanking'
      BY <3>1 DEF Sending, InHand, Blanking
    <3>3. Screen' = Screen /\ (Matches(Screen) => Matches(Screen)')
      BY <3>1 DEF Screen, Matches
    <3>4. Len(tty_out) # 1
      BY <2>1
    <3> QED BY <2>1, <3>1, <3>2, <3>3, <3>4 DEF PatientView
  <2>2. CASE tty_out # <<>>
    <3>1. /\ pc = "read" /\ pc' = "free" /\ say' = Echo(Head(tty_out)) /\ tty_out' = Tail(tty_out)
          /\ UNCHANGED <<line, new_cmd, cut, left, tx_b, TxLength, ep, shown>>
      BY <1>1, <2>2 DEF Read, link, screen
    <3>2. ~new_cmd /\ Len(tty_out) = 1 /\ ep = NoMsg /\ Matches(Append(shown, tty_out[1]))
      BY <2>2, <3>1 DEF PatientView, InHand, Sending
    <3>3. say'.what = "echo" /\ say'.key = tty_out[1] /\ tty_out' = <<>>
      <4>1. Tail(tty_out) \in Seq(1 .. MaxKeys) /\ Len(Tail(tty_out)) = 0
        BY <2>2, <3>2, HeadTailProperties DEF TypeOK
      <4>2. Tail(tty_out) = <<>>
        BY <4>1, EmptySeq
      <4> QED BY <3>1, <4>2 DEF Echo
    <3>4. InHand'
      BY <3>1, <3>3 DEF InHand, Sending
    <3>5. Matches(Append(shown, say.key))'
      BY <3>1, <3>2, <3>3 DEF Matches
    <3> QED BY <3>1, <3>2, <3>3, <3>4, <3>5 DEF PatientView
  <2> QED BY <2>1, <2>2
<1>2. CASE Command
  <2>1. /\ pc = "command" /\ pc' \in {"exec", "read"} /\ (pc' = "exec" => new_cmd /\ left' \in Nat /\ left' >= 2)
        /\ UNCHANGED <<tty_out, say, line, new_cmd, cut, tx_b, TxLength, ep, shown>>
    BY <1>2, BoundAssumption DEF Command, edit, link, screen
  <2>2. ~Sending' /\ ~InHand /\ ~InHand' /\ ~Blanking'
    BY <2>1 DEF Sending, InHand, Blanking
  <2>3. /\ Screen' = Screen /\ (Matches(Screen) => Matches(Screen)')
        /\ (Matches(Append(shown, tty_out[1])) => Matches(Append(shown, tty_out[1]))')
    BY <2>1 DEF Screen, Matches
  <2> QED BY <2>1, <2>2, <2>3 DEF PatientView
<1>3. CASE Exec
  <2>1. /\ pc = "exec" /\ new_cmd /\ line = <<>> /\ ~cut /\ tty_out = <<>>
        /\ ep = NoMsg \/ Screen = <<>>
        /\ left < 2 => Screen = <<>>
    BY <1>3 DEF Exec, PatientView, Blanking
  <2>2. /\ UNCHANGED <<line, tty_out, cut, tx_b, TxLength, ep, shown>> /\ Screen' = Screen
    BY <1>3 DEF Exec, link, screen, Screen
  <2>3. CASE left = 0
    <3>1. pc' = "read" /\ ~new_cmd' /\ say' = say
      BY <1>3, <2>3 DEF Exec
    <3>2. ~Sending' /\ ~InHand'
      BY <3>1 DEF Sending, InHand
    <3>3. Matches(Screen)'
      BY <2>1, <2>2, <2>3 DEF Matches, Fits
    <3> QED BY <2>1, <2>2, <3>1, <3>2, <3>3 DEF PatientView
  <2>4. CASE left # 0
    <3>1. /\ pc' = "free" /\ new_cmd' = new_cmd /\ left' = left - 1 /\ left \in Int
          /\ say'.what \in {"prompt", "output"}
      BY <1>3, <2>4, BoundAssumption DEF Exec, Text, TypeOK
    <3>2. ~InHand'
      BY <3>1 DEF InHand
    <3>3. Blanking' => left < 2
      BY <3>1 DEF Blanking
    <3> QED BY <2>1, <2>2, <3>1, <3>2, <3>3 DEF PatientView
  <2> QED BY <2>3, <2>4
<1>4. CASE TestFree
  <2>1. /\ pc = "free" /\ pc' = (IF ep # NoMsg THEN "delay" ELSE "copy")
        /\ UNCHANGED <<line, tty_out, new_cmd, cut, say, left, tx_b, TxLength, ep, shown>>
    BY <1>4 DEF TestFree, edit, link, screen
  <2>2. /\ Screen' = Screen /\ Sending /\ (InHand <=> say.what = "echo")
        /\ (InHand' <=> say.what = "echo" /\ ep = NoMsg) /\ (Sending' => ep = NoMsg)
    BY <2>1 DEF Screen, Sending, InHand
  <2>3. Matches(Append(shown, say.key)) => Matches(Append(shown, say.key))'
    BY <2>1 DEF Matches
  <2>4. CASE new_cmd
    <3>1. say.what # "echo" /\ (Blanking' => ep # NoMsg)
      BY <2>1, <2>2, <2>4 DEF PatientView, Blanking
    <3> QED BY <2>1, <2>2, <2>4, <3>1 DEF PatientView
  <2>5. CASE ~new_cmd
    <3>1. say.what = "echo" /\ tty_out = <<>> /\ ep = NoMsg /\ Matches(Append(shown, say.key))
      BY <2>2, <2>5 DEF PatientView
    <3> QED BY <2>1, <2>2, <2>3, <2>5, <3>1 DEF PatientView
  <2> QED BY <2>4, <2>5
<1>5. CASE Copy \/ SetLength \/ TestTx
  <2>1. /\ UNCHANGED <<line, tty_out, new_cmd, cut, say, left, ep, shown>> /\ ep = NoMsg
        /\ Sending /\ Sending' /\ pc' \in {"length", "test", "start"}
        /\ tx_b' = say /\ (pc' \in {"test", "start"} => TxLength' = Bytes(say))
    BY <1>5 DEF Copy, SetLength, TestTx, PatientView, Sending, edit, link, screen
  <2>2. Screen' = Screen /\ (InHand' <=> InHand) /\ ~Blanking'
    BY <2>1 DEF Screen, InHand, Blanking
  <2>3. /\ (Matches(Screen) => Matches(Screen)')
        /\ (Matches(Append(shown, tty_out[1])) => Matches(Append(shown, tty_out[1]))')
        /\ (Matches(Append(shown, say.key)) => Matches(Append(shown, say.key))')
    BY <2>1, <2>2 DEF Matches
  <2> QED BY <2>1, <2>2, <2>3 DEF PatientView
<1>6. CASE StartTx
  <2>1. /\ UNCHANGED <<line, tty_out, new_cmd, cut, say, left, tx_b, TxLength, shown>>
        /\ ep = NoMsg /\ ep' = say /\ pc = "start" /\ pc' = "delay"
    BY <1>6 DEF StartTx, PatientView, edit, screen
  <2>2. Sending /\ ~Sending' /\ (InHand <=> say.what = "echo") /\ ~InHand'
    BY <2>1 DEF Sending, InHand
  <2>3. CASE new_cmd
    <3>1. say.what \in {"output", "prompt"}
      BY <2>2, <2>3 DEF PatientView
    <3>2. Screen' = <<>>
      BY <2>1, <3>1, FetchedIs DEF Screen
    <3> QED BY <2>1, <2>2, <2>3, <3>1, <3>2 DEF PatientView
  <2>4. CASE ~new_cmd
    <3>1. say.what = "echo" /\ tty_out = <<>> /\ Matches(Append(shown, say.key))
      BY <2>2, <2>4 DEF PatientView
    <3>2. Screen' = Append(shown, say.key)
      BY <2>1, <3>1, FetchedIs DEF Screen
    <3>3. Matches(Screen)'
      BY <2>1, <3>1, <3>2 DEF Matches
    <3> QED BY <2>1, <2>2, <2>4, <3>1, <3>3 DEF PatientView
  <2> QED BY <2>3, <2>4
<1>7. CASE Delay
  <2>1. /\ UNCHANGED <<line, tty_out, new_cmd, cut, left, tx_b, TxLength, ep, shown>>
        /\ pc = "delay" /\ pc' = (IF say.what = "echo" THEN "command" ELSE "exec")
    BY <1>7 DEF Delay, edit, link, screen
  <2>2. Screen' = Screen /\ ~Sending' /\ ~InHand /\ ~InHand' /\ (Blanking' => Blanking)
    BY <2>1 DEF Screen, Sending, InHand, Blanking
  <2>3. pc' = "exec" => new_cmd
    BY <2>1 DEF PatientView
  <2>4. /\ (Matches(Screen) => Matches(Screen)')
        /\ (Matches(Append(shown, tty_out[1])) => Matches(Append(shown, tty_out[1]))')
    BY <2>1, <2>2 DEF Matches
  <2> QED BY <2>1, <2>2, <2>3, <2>4 DEF PatientView
<1>8. CASE Stop
  <2>1. /\ pc = "command" /\ pc' = "stopped" /\ new_cmd
        /\ UNCHANGED <<tty_out, say, line, new_cmd, cut, left, tx_b, TxLength, ep, shown>>
    BY <1>8 DEF Stop, edit, link, screen
  <2>2. ~Sending' /\ ~InHand' /\ ~Blanking' /\ Screen' = Screen
    BY <2>1 DEF Sending, InHand, Blanking, Screen
  <2> QED BY <2>1, <2>2 DEF PatientView
<1> QED BY <1>1, <1>2, <1>3, <1>4, <1>5, <1>6, <1>7, <1>8 DEF Main

LEMMA PatientData ==
  ASSUME TypeOK, PatientView, DataIn
  PROVE  PatientView'
<1>1. /\ ep # NoMsg /\ ep' = NoMsg
      /\ UNCHANGED <<line, tty_out, new_cmd, cut, pc, say, left, tx_b, TxLength>>
  BY DEF DataIn, edit, main
<1>2. shown' = Screen
  BY DEF DataIn, Screen
<1>3. Screen' = Screen
  BY <1>1, <1>2, FetchedIs DEF Screen
<1>4. (Sending' <=> Sending) /\ (InHand' <=> InHand) /\ (Blanking' <=> Blanking)
  BY <1>1 DEF Sending, InHand, Blanking
<1>5. Matches(Screen) => Matches(Screen)'
  BY <1>1, <1>3 DEF Matches
<1> QED BY <1>1, <1>3, <1>4, <1>5 DEF PatientView

LEMMA PatientStep == TypeOK /\ PatientOK /\ [Next]_vars => PatientOK'
<1> SUFFICES ASSUME TypeOK, PatientOK, [Next]_vars, patient' PROVE PatientView'
  BY DEF PatientOK
<1>0. patient \in BOOLEAN
  BY DEF TypeOK
<1>1. CASE Type
  <2>1. patient' = (patient /\ Settled)
    BY <1>1 DEF Type, Key, Backspace, Enter, Blank, Clear, Cursor, Queued, Answer
  <2>2. patient /\ Settled
    BY <1>0, <2>1
  <2> QED BY <1>1, <2>2, PatientTypes DEF PatientOK
<1>2. CASE Main
  <2>1. patient' = patient
    BY <1>2 DEF Main, Read, Command, Stop, Exec, TestFree, Copy, SetLength, TestTx, StartTx, Delay,
                manners
  <2>2. PatientView
    BY <2>1 DEF PatientOK
  <2> QED BY <1>2, <2>2, PatientMain
<1>3. CASE DataIn
  <2>1. patient' = patient
    BY <1>3 DEF DataIn, manners
  <2>2. PatientView
    BY <2>1 DEF PatientOK
  <2> QED BY <1>3, <2>2, PatientData
<1>4. CASE UNCHANGED vars
  <2>1. UNCHANGED <<line, tty_out, new_cmd, cut, pc, say, left, tx_b, TxLength, ep, shown, patient>>
    BY <1>4 DEF vars, edit, main, link, screen, manners
  <2>2. PatientView
    BY <2>1 DEF PatientOK
  <2> QED BY <2>1, <2>2 DEF PatientView, Sending, InHand, Blanking, Screen, Matches
<1> QED BY <1>1, <1>2, <1>3, <1>4 DEF Next

-----------------------------------------------------------------------------
(* The typing, the order of the echoes, who is on the link and what a patient *)
(* user sees: each holds at first and is kept by every step.                  *)
THEOREM Inductive == Spec => []IInv
<1>1. Init => IInv
  BY TypeInit, OrderInit, LinkInit, PatientInit DEF IInv
<1>2. IInv /\ [Next]_vars => IInv'
  BY TypeStep, OrderStep, MineStep, LinkStep, PatientStep DEF IInv
<1> QED BY <1>1, <1>2, PTL DEF Spec

(* Every variable keeps its type, each message and key a legal one.            *)
THEOREM TypeCorrect == Spec => []TypeOK
<1>1. IInv => TypeOK
  BY DEF IInv
<1> QED BY <1>1, Inductive, PTL

(* An echo is shown at most once and never before an older one, whatever the  *)
(* interrupt sends in between.                                                *)
THEOREM EchoesStayInOrder == Spec => []EchoesInOrder
<1>1. IInv => EchoesInOrder
  BY OrderMeans DEF IInv
<1> QED BY <1>1, Inductive, PTL

(* A user who waits for the answer to each byte sees the line being edited.   *)
THEOREM PatientUserSeesLine == Spec => []PatientSeesLine
<1>1. IInv => PatientSeesLine
  BY SettledView DEF IInv, PatientOK, PatientSeesLine, Matches, Fits
<1> QED BY <1>1, Inductive, PTL

(* With a host that fetches each packet within the delay and an interrupt that *)
(* answers only a settled terminal no message is refused.                      *)
THEOREM PacedTerminalRefusesNothing == Spec => []PacedNothingRefused
<1>1. IInv => PacedNothingRefused
  BY DEF IInv, LinkFree, PacedNothingRefused
<1> QED BY <1>1, Inductive, PTL

-----------------------------------------------------------------------------
(***************************************************************************)
(* The host program.                                                       *)
(***************************************************************************)
(* Where the loop is, what it holds: the "[" whose successor is awaited, the  *)
(* keys of the last call, or nothing.                                         *)
HandOK ==
  /\ at = "cursor" => i = <<"[">> /\ taken # <<>> /\ taken[Len(taken)] = <<"[">>
  /\ at = "write" => /\ i # <<>> /\ taken # <<>>
                     /\ IsCall(taken[Len(taken)]) /\ i = Whole(taken[Len(taken)])
  /\ at \notin {"cursor", "write", "exited"} => i = <<>>

(* The request for a prompt is made before any key is read, on an open port.  *)
PromptFirst ==
  /\ show_prompt => /\ sent = <<>> /\ taken = <<>>
                    /\ at \in {"start", "open", "prompt", "exited"}
  /\ at = "prompt" => show_prompt
  /\ at \in {"start", "prompt"} => sent = <<>>

(* The keys in hand are those of the last call and have not been written.     *)
SentBefore ==
  \A n \in 1 .. Len(sent) : sent[n].call < Len(taken) + (IF i = <<>> THEN 1 ELSE 0)

(* Whoever is past the poll on a port that has gone will lose one write.      *)
Doomed == stmcool = "stale" /\ at \in {"prompt", "keys", "cursor", "write"}

LossOK ==
  /\ lost + (IF Doomed THEN 1 ELSE 0) <= unplugs
  /\ stmcool = "none" => at \in {"start", "open", "exited"}
  /\ at \in {"start", "open"} => stmcool = "none"
  /\ stmcool # "good" => fromDevice = 0
  /\ at = "read" /\ stmcool = "good" => fromDevice > 0

TtyInv == TtyTypeOK /\ HandOK /\ PromptFirst /\ SentBefore /\ LossOK /\ KeysInOrder

LEMMA TtyInitInv == TtyInit => TtyInv
BY TtyBoundAssumption, KeyAssumption
   DEF TtyInit, TtyInv, TtyTypeOK, HandOK, PromptFirst, SentBefore, LossOK, Doomed,
       KeysInOrder

(* The keys of a call are all keys, and what it should send is not empty.     *)
LEMMA WholeType ==
  ASSUME NEW keys \in Seq(AllKeys), IsCall(keys), keys # <<>>
  PROVE  Whole(keys) \in Seq(AllBytes) /\ Whole(keys) # <<>>
<1>1. Len(keys) \in {1, 2} /\ keys[1] \in AllKeys
  BY DEF IsCall
<1>2. \A k \in AllKeys : k \in AllBytes /\ Translate(k) \in AllBytes
  BY DEF AllKeys, AllBytes, Translate
<1>3. CASE Len(keys) = 2
  <2>1. keys[2] \in AllKeys
    <3>1. 2 \in 1 .. Len(keys)
      BY <1>3
    <3> QED BY <3>1
  <2>2. keys \in Seq(AllBytes) /\ <<keys[1]>> \in Seq(AllBytes) /\ <<keys[1]>> # <<>>
    BY <1>1, <1>2
  <2> QED BY <1>3, <2>2 DEF Whole
<1>4. CASE Len(keys) = 1
  <2>1. Translate(keys[1]) \in AllBytes
    BY <1>1, <1>2
  <2>2. <<Translate(keys[1])>> \in Seq(AllBytes) /\ <<Translate(keys[1])>> # <<>>
    BY <2>1
  <2> QED BY <1>4, <2>2 DEF Whole
<1> QED BY <1>1, <1>3, <1>4

LEMMA SentType ==
  ASSUME TtyInv
  PROVE  Len(sent) \in Nat /\ \A n \in 1 .. Len(sent) : sent[n].call \in Nat
<1>1. sent \in Seq([bytes : Seq(AllBytes), call : Nat])
  BY DEF TtyInv, TtyTypeOK
<1>2. \A n \in 1 .. Len(sent) : sent[n] \in [bytes : Seq(AllBytes), call : Nat]
  BY <1>1, ElementOfSeq
<1> QED BY <1>1, <1>2

(* A write to the device adds the keys in hand to what was sent, or is lost.  *)
LEMMA WriteKeysStep == TtyInv /\ WriteKeys => TtyInv'
<1> SUFFICES ASSUME TtyInv, WriteKeys PROVE TtyInv'
  OBVIOUS
<1> USE DEF TtyInv
<1>1. /\ at = "write" /\ at' = "poll" /\ i' = <<>>
      /\ UNCHANGED <<echo, stmcool, show_prompt, present, unplugs, fromDevice, stdin, pressed, taken>>
  BY DEF WriteKeys, device, user
<1>2. ~show_prompt /\ i # <<>> /\ taken # <<>> /\ taken \in Seq(Seq(AllKeys)) /\ stmcool # "none"
  BY <1>1 DEF PromptFirst, HandOK, TtyTypeOK, LossOK
<1>3. Len(taken) \in Nat \ {0}
  BY <1>2
<1>6. Len(sent) \in Nat /\ \A n \in 1 .. Len(sent) : sent[n].call \in Nat
  BY SentType
<1>7. \A n \in 1 .. Len(sent) : sent[n].call < Len(taken)
  BY <1>2, <1>3, <1>6 DEF SentBefore
<1>4. CASE stmcool = "good"
  <2> DEFINE w == [bytes |-> i, call |-> Len(taken)]
  <2>1. sent' = Append(sent, w) /\ lost' = lost
    BY <1>1, <1>4 DEF WriteKeys, Write
  <2>2. sent \in Seq([bytes : Seq(AllBytes), call : Nat]) /\ w \in [bytes : Seq(AllBytes), call : Nat]
    BY <1>3 DEF TtyTypeOK, HandOK
  <2>3. /\ sent' \in Seq([bytes : Seq(AllBytes), call : Nat]) /\ Len(sent') = Len(sent) + 1
        /\ \A n \in 1 .. Len(sent) : sent'[n] = sent[n]
        /\ sent'[Len(sent) + 1] = w
    BY <2>1, <2>2
  <2> HIDE DEF w
  <2>4. TtyTypeOK'
    BY <1>1, <2>1, <2>3 DEF TtyTypeOK
  <2>5. HandOK' /\ PromptFirst'
    BY <1>1, <1>2 DEF HandOK, PromptFirst
  <2>6. SentBefore'
    <3>1. \A n \in 1 .. Len(sent') : sent'[n].call < Len(taken) + 1
      <4> TAKE n \in 1 .. Len(sent')
      <4>1. CASE n = Len(sent) + 1
        <5>1. sent'[n].call = Len(taken)
          BY <2>3, <4>1 DEF w
        <5> QED BY <1>3, <5>1
      <4>2. CASE n \in 1 .. Len(sent)
        <5>1. sent'[n].call = sent[n].call /\ sent[n].call < Len(taken) /\ sent[n].call \in Nat
          BY <1>6, <1>7, <2>3, <4>2
        <5> QED BY <1>3, <5>1
      <4> QED BY <1>6, <2>3, <4>1, <4>2
    <3> QED BY <1>1, <3>1 DEF SentBefore
  <2>7. LossOK'
    BY <1>1, <1>4, <2>1 DEF LossOK, Doomed, TtyTypeOK
  <2>8. KeysInOrder'
    <3>1. w.call = Len(taken) /\ w.bytes = Whole(taken[Len(taken)]) /\ IsCall(taken[Len(taken)])
      BY <1>1 DEF w, HandOK
    <3>3. ASSUME NEW n \in 1 .. Len(sent')
          PROVE  LET c == sent'[n].call
                 IN  IF c = 0 THEN n = 1 /\ sent'[n].bytes = <<"ctrl-a">>
                     ELSE /\ c <= Len(taken') /\ IsCall(taken'[c])
                          /\ sent'[n].bytes = Whole(taken'[c])
                          /\ n > 1 => sent'[n - 1].call < c
      <4>1. CASE n = Len(sent) + 1
        <5>1. n > 1 => n - 1 \in 1 .. Len(sent)
          BY <4>1, <2>2
        <5>2. sent'[n] = w
          BY <2>3, <4>1
        <5>3. n > 1 => sent'[n - 1].call < Len(taken)
          BY <1>7, <2>3, <5>1
        <5>4. n > 1 => sent'[n - 1].call < sent'[n].call
          BY <3>1, <5>2, <5>3
        <5> QED BY <1>1, <1>3, <3>1, <5>2, <5>4
      <4>2. CASE n \in 1 .. Len(sent)
        <5>1. n > 1 => n - 1 \in 1 .. Len(sent)
          BY <4>2, <2>2
        <5> QED BY <1>1, <2>3, <4>2, <5>1 DEF KeysInOrder
      <4> QED BY <1>6, <2>3, <4>1, <4>2
    <3>4. Len(sent') + lost' + 0 = Len(taken') + 1
      BY <1>1, <1>2, <2>1, <2>2, <2>3 DEF KeysInOrder, TtyTypeOK
    <3> QED BY <1>1, <1>2, <3>3, <3>4 DEF KeysInOrder
  <2> QED BY <2>4, <2>5, <2>6, <2>7, <2>8
<1>5. CASE stmcool = "stale"
  <2>1. sent' = sent /\ lost' = lost + 1
    BY <1>1, <1>5 DEF WriteKeys, Write
  <2>2. TtyTypeOK' /\ HandOK' /\ PromptFirst' /\ LossOK'
    BY <1>1, <1>2, <1>5, <2>1 DEF TtyTypeOK, HandOK, PromptFirst, LossOK, Doomed
  <2>3. SentBefore'
    BY <1>1, <1>3, <1>6, <1>7, <2>1 DEF SentBefore
  <2>4. KeysInOrder'
    <3>1. Len(sent') + lost' + 0 = Len(taken') + 1
      BY <1>1, <1>2, <1>3, <1>6, <2>1 DEF KeysInOrder, TtyTypeOK
    <3> QED BY <1>1, <1>2, <2>1, <3>1 DEF KeysInOrder
  <2> QED BY <2>2, <2>3, <2>4
<1> QED BY <1>2, <1>4, <1>5 DEF TtyTypeOK



(* The request for a prompt is the first write of all, or is lost.            *)
LEMMA PromptStep == TtyInv /\ Prompt => TtyInv'
<1> SUFFICES ASSUME TtyInv, Prompt PROVE TtyInv'
  OBVIOUS
<1> USE DEF TtyInv
<1>1. /\ at = "prompt" /\ at' = "poll" /\ show_prompt' = FALSE
      /\ UNCHANGED <<echo, stmcool, i, present, unplugs, fromDevice, stdin, pressed, taken>>
  BY DEF Prompt, device, user
<1>2. show_prompt /\ sent = <<>> /\ taken = <<>> /\ i = <<>> /\ stmcool # "none"
  BY <1>1 DEF PromptFirst, HandOK, LossOK
<1>3. CASE stmcool = "good"
  <2> DEFINE w == [bytes |-> <<"ctrl-a">>, call |-> 0]
  <2>1. sent' = <<w>> /\ lost' = lost
    BY <1>1, <1>2, <1>3 DEF Prompt, Write
  <2>2. <<"ctrl-a">> \in Seq(AllBytes)
    BY DEF AllBytes
  <2>3. TtyTypeOK'
    <3>1. w \in [bytes : Seq(AllBytes), call : Nat]
      BY <2>2
    <3>2. sent' \in Seq([bytes : Seq(AllBytes), call : Nat])
      BY <2>1, <3>1
    <3> QED BY <1>1, <2>1, <3>2 DEF TtyTypeOK
  <2>4. HandOK' /\ PromptFirst' /\ LossOK'
    BY <1>1, <1>2, <1>3, <2>1 DEF HandOK, PromptFirst, LossOK, Doomed
  <2>5. SentBefore' /\ KeysInOrder'
    BY <1>1, <1>2, <2>1 DEF SentBefore, KeysInOrder, TtyTypeOK
  <2> QED BY <2>3, <2>4, <2>5
<1>4. CASE stmcool = "stale"
  <2>1. sent' = sent /\ lost' = lost + 1
    BY <1>1, <1>4 DEF Prompt, Write
  <2>2. TtyTypeOK'
    <3>1. lost' \in Nat
      BY <2>1 DEF TtyTypeOK
    <3>2. at' \in {"poll"} /\ show_prompt' \in BOOLEAN
      BY <1>1
    <3> QED BY <1>1, <2>1, <3>1, <3>2 DEF TtyTypeOK
  <2>5. HandOK' /\ PromptFirst'
    BY <1>1, <1>2, <2>1 DEF HandOK, PromptFirst
  <2>4. LossOK'
    BY <1>1, <1>4, <2>1 DEF TtyTypeOK, LossOK, Doomed
  <2>3. SentBefore' /\ KeysInOrder'
    BY <1>1, <1>2, <2>1 DEF SentBefore, KeysInOrder, TtyTypeOK
  <2> QED BY <2>2, <2>3, <2>4, <2>5
<1> QED BY <1>2, <1>3, <1>4 DEF TtyTypeOK

(* The first key of a call opens a new entry of the history.                  *)
LEMMA ReadKeyStep == TtyInv /\ ReadKey => TtyInv'
<1> SUFFICES ASSUME TtyInv, ReadKey PROVE TtyInv'
  OBVIOUS
<1> USE DEF TtyInv
<1> DEFINE k == Head(stdin)
<1>1. /\ at = "keys" /\ at' = (IF k = "[" THEN "cursor" ELSE "write")
      /\ stdin # <<>> /\ stdin' = Tail(stdin) /\ taken' = Append(taken, <<k>>)
      /\ i' = <<Translate(k)>>
      /\ UNCHANGED <<echo, stmcool, show_prompt, present, unplugs, fromDevice, pressed, sent, lost>>
  BY DEF ReadKey, Take, device
<1>2. k \in AllKeys /\ stdin' \in Seq(AllKeys)
  BY <1>1, HeadTailProperties DEF TtyTypeOK
<1>3. Translate(k) \in AllBytes
  BY <1>2 DEF AllKeys, AllBytes, Translate
<1> HIDE DEF k
<1>4. taken \in Seq(Seq(AllKeys)) /\ <<k>> \in Seq(AllKeys) /\ Len(taken) \in Nat
  BY <1>2 DEF TtyTypeOK
<1>5. /\ taken' \in Seq(Seq(AllKeys)) /\ Len(taken') = Len(taken) + 1
      /\ taken'[Len(taken')] = <<k>>
      /\ \A n \in 1 .. Len(taken) : taken'[n] = taken[n]
  BY <1>1, <1>4, AppendProperties
<1>6. i = <<>> /\ i' # <<>> /\ i' \in Seq(AllBytes) /\ ~show_prompt
  BY <1>1, <1>3 DEF HandOK, PromptFirst
<1>7. taken' # <<>>
  BY <1>4, <1>5
<1>8. TtyTypeOK'
  BY <1>1, <1>2, <1>5, <1>6 DEF TtyTypeOK
<1>9. HandOK'
  <2>1. CASE k = "["
    BY <1>1, <1>5, <1>6, <1>7, <2>1 DEF HandOK, Translate
  <2>2. CASE k # "["
    <3>1. IsCall(<<k>>) /\ Whole(<<k>>) = <<Translate(k)>>
      BY <2>2 DEF IsCall, Whole
    <3> QED BY <1>1, <1>5, <1>6, <1>7, <2>2, <3>1 DEF HandOK
  <2> QED BY <2>1, <2>2
<1>10. PromptFirst' /\ LossOK'
  BY <1>1, <1>6 DEF PromptFirst, LossOK, Doomed
<1>11. SentBefore'
  BY <1>1, <1>4, <1>5, <1>6 DEF SentBefore
<1>12. KeysInOrder'
  <2>1. ASSUME NEW n \in 1 .. Len(sent)
        PROVE  LET c == sent[n].call
               IN  IF c = 0 THEN n = 1 /\ sent[n].bytes = <<"ctrl-a">>
                   ELSE /\ c <= Len(taken') /\ IsCall(taken'[c])
                        /\ sent[n].bytes = Whole(taken'[c])
                        /\ n > 1 => sent[n - 1].call < c
    <3>1. sent[n].call \in Nat
      BY SentType
    <3>2. CASE sent[n].call = 0
      BY <3>2 DEF KeysInOrder
    <3>3. CASE sent[n].call # 0
      <4>1. sent[n].call \in 1 .. Len(taken)
        BY <1>4, <3>1, <3>3 DEF KeysInOrder
      <4>2. taken'[sent[n].call] = taken[sent[n].call]
        BY <1>5, <4>1
      <4> QED BY <1>4, <1>5, <3>3, <4>1, <4>2 DEF KeysInOrder
    <3> QED BY <3>2, <3>3
  <2>2. Len(sent) + lost + 1 = Len(taken') + 1
    <3>1. Len(sent) + lost + 0 = Len(taken) + 1
      BY <1>6 DEF KeysInOrder
    <3>2. Len(sent) \in Nat /\ lost \in Nat /\ Len(taken') = Len(taken) + 1
      BY <1>5, SentType DEF TtyTypeOK
    <3> QED BY <1>4, <3>1, <3>2
  <2> QED BY <1>1, <1>6, <2>1, <2>2 DEF KeysInOrder
<1> QED BY <1>8, <1>9, <1>10, <1>11, <1>12

(* The successor of a "[" completes the entry of its call.                    *)
LEMMA ReadCursorStep == TtyInv /\ ReadCursor => TtyInv'
<1> SUFFICES ASSUME TtyInv, ReadCursor PROVE TtyInv'
  OBVIOUS
<1> USE DEF TtyInv
<1> DEFINE k == Head(stdin)
<1>1. /\ at = "cursor" /\ at' = "write" /\ stdin # <<>> /\ stdin' = Tail(stdin)
      /\ taken' = [taken EXCEPT ![Len(taken)] = Append(@, k)]
      /\ i' = IF k = "nul" THEN i ELSE Append(i, k)
      /\ UNCHANGED <<echo, stmcool, show_prompt, present, unplugs, fromDevice, pressed, sent, lost>>
  BY DEF ReadCursor, Take, device
<1>2. k \in AllKeys /\ stdin' \in Seq(AllKeys)
  BY <1>1, HeadTailProperties DEF TtyTypeOK
<1> HIDE DEF k
<1>3. /\ i = <<"[">> /\ taken # <<>> /\ taken[Len(taken)] = <<"[">> /\ ~show_prompt
      /\ taken \in Seq(Seq(AllKeys)) /\ Len(taken) \in Nat \ {0}
  BY <1>1 DEF HandOK, PromptFirst, TtyTypeOK
<1>4. <<"[", k>> \in Seq(AllKeys) /\ <<"[", k>> \in Seq(AllBytes) /\ <<"[">> \in Seq(AllBytes)
  BY <1>2 DEF AllKeys, AllBytes
<1>13. Append(<<"[">>, k) = <<"[", k>>
  <2> DEFINE a == Append(<<"[">>, k)
  <2>1. <<"[">> \in Seq(AllKeys) /\ "[" \in AllKeys
    BY DEF AllKeys
  <2>2. /\ a \in Seq(AllKeys) /\ Len(a) = 2 /\ a[2] = k /\ a[1] = "["
    BY <1>2, <2>1, AppendProperties
  <2>3. /\ <<"[", k>> \in Seq(AllKeys) /\ Len(<<"[", k>>) = 2
        /\ <<"[", k>>[1] = "[" /\ <<"[", k>>[2] = k
    BY <1>4
  <2> HIDE DEF a
  <2>4. a = <<"[", k>>
    BY <2>2, <2>3, SeqEqual
  <2> QED BY <2>4 DEF a
<1>5. taken' = [taken EXCEPT ![Len(taken)] = <<"[", k>>]
  BY <1>1, <1>3, <1>13
<1>6. /\ taken' \in Seq(Seq(AllKeys)) /\ Len(taken') = Len(taken) /\ taken' # <<>>
      /\ taken'[Len(taken')] = <<"[", k>>
      /\ \A n \in 1 .. Len(taken) - 1 : taken'[n] = taken[n]
  BY <1>3, <1>4, <1>5, ExceptSeq
<1>7. /\ i' = (IF k = "nul" THEN <<"[">> ELSE <<"[", k>>) /\ i' # <<>>
      /\ i' \in Seq(AllBytes)
  <2>1. <<"[">> # <<>> /\ <<"[", k>> # <<>>
    OBVIOUS
  <2> QED BY <1>1, <1>3, <1>4, <1>13, <2>1
<1>8. TtyTypeOK'
  BY <1>1, <1>2, <1>6, <1>7 DEF TtyTypeOK
<1>9. HandOK'
  <2>1. IsCall(<<"[", k>>) /\ Whole(<<"[", k>>) = i'
    BY <1>7 DEF IsCall, Whole
  <2> QED BY <1>1, <1>6, <1>7, <2>1 DEF HandOK
<1>10. PromptFirst' /\ LossOK'
  BY <1>1, <1>3 DEF PromptFirst, LossOK, Doomed
<1>11. SentBefore'
  BY <1>1, <1>3, <1>6, <1>7 DEF SentBefore
<1>12. KeysInOrder'
  <2>1. ASSUME NEW n \in 1 .. Len(sent)
        PROVE  LET c == sent[n].call
               IN  IF c = 0 THEN n = 1 /\ sent[n].bytes = <<"ctrl-a">>
                   ELSE /\ c <= Len(taken') /\ IsCall(taken'[c])
                        /\ sent[n].bytes = Whole(taken'[c])
                        /\ n > 1 => sent[n - 1].call < c
    <3>1. sent[n].call \in Nat /\ sent[n].call < Len(taken)
      <4>1. i # <<>>
        BY <1>3
      <4>2. sent[n].call \in Nat
        BY SentType
      <4>3. sent[n].call < Len(taken) + 0
        BY <4>1 DEF SentBefore
      <4> QED BY <1>3, <4>2, <4>3
    <3>2. CASE sent[n].call = 0
      BY <3>2 DEF KeysInOrder
    <3>3. CASE sent[n].call # 0
      <4>1. taken'[sent[n].call] = taken[sent[n].call]
        <5>1. sent[n].call \in 1 .. Len(taken) - 1
          BY <1>3, <3>1, <3>3
        <5> QED BY <1>6, <5>1
      <4> QED BY <1>3, <1>6, <3>3, <4>1 DEF KeysInOrder
    <3> QED BY <3>2, <3>3
  <2>2. Len(sent) + lost + 1 = Len(taken') + 1
    BY <1>3, <1>6, SentType DEF KeysInOrder, TtyTypeOK
  <2> QED BY <1>1, <1>3, <1>7, <2>1, <2>2 DEF KeysInOrder
<1> QED BY <1>8, <1>9, <1>10, <1>11, <1>12

(* The history of what is sent is not touched by the other steps.             *)
LEMMA OtherSteps ==
  ASSUME TtyInv,
         \/ Start \/ Open \/ Poll \/ ReadDevice \/ NoKey \/ EndKey
         \/ World \/ UNCHANGED ttyVars
  PROVE  TtyInv'
<1> USE DEF TtyInv
<1>1. CASE Start
  BY <1>1 DEF Start, device, user, TtyTypeOK, HandOK, PromptFirst, SentBefore, LossOK,
              Doomed, KeysInOrder
<1>2. CASE Open
  <2> USE <1>2 DEF Open, device, user
  <2>1. TtyTypeOK'
    BY DEF TtyTypeOK, LossOK
  <2>2. HandOK' /\ PromptFirst'
    BY DEF HandOK, PromptFirst
  <2>3. LossOK'
    BY DEF LossOK, Doomed, TtyTypeOK
  <2>4. SentBefore' /\ KeysInOrder'
    BY DEF SentBefore, KeysInOrder
  <2> QED BY <2>1, <2>2, <2>3, <2>4
<1>3. CASE Poll
  <2> USE <1>3 DEF Poll, Pending, device, user
  <2>1. TtyTypeOK'
    BY DEF TtyTypeOK, LossOK
  <2>2. HandOK' /\ PromptFirst'
    BY DEF HandOK, PromptFirst
  <2>3. LossOK'
    BY DEF LossOK, Doomed, TtyTypeOK
  <2>4. SentBefore' /\ KeysInOrder'
    BY DEF SentBefore, KeysInOrder
  <2> QED BY <2>1, <2>2, <2>3, <2>4
<1>4. CASE ReadDevice
  <2> USE <1>4 DEF ReadDevice, device, user
  <2>1. TtyTypeOK'
    <3>1. fromDevice' \in 0 .. MaxBytes
      <4>1. fromDevice \in 0 .. MaxBytes /\ MaxBytes \in Nat
        BY TtyBoundAssumption DEF TtyTypeOK
      <4>2. fromDevice' = fromDevice \/ (fromDevice > 0 /\ fromDevice' = fromDevice - 1)
        BY DEF LossOK
      <4> QED BY <4>1, <4>2
    <3>2. stmcool' \in {"none", "good", "stale"}
      BY DEF TtyTypeOK
    <3>3. UNCHANGED <<echo, show_prompt, i, present, unplugs, stdin, pressed, taken, sent, lost>>
      OBVIOUS
    <3>4. at' \in {"poll", "open"}
      OBVIOUS
    <3> QED BY <3>1, <3>2, <3>3, <3>4 DEF TtyTypeOK
  <2>2. HandOK' /\ PromptFirst'
    BY DEF HandOK, PromptFirst
  <2>3. LossOK'
    BY DEF LossOK, Doomed, TtyTypeOK
  <2>4. SentBefore' /\ KeysInOrder'
    BY DEF SentBefore, KeysInOrder
  <2> QED BY <2>1, <2>2, <2>3, <2>4
<1>5. CASE NoKey
  <2> USE <1>5 DEF NoKey, device, user
  <2>1. TtyTypeOK'
    BY DEF TtyTypeOK, LossOK
  <2>2. HandOK' /\ PromptFirst'
    BY DEF HandOK, PromptFirst
  <2>3. LossOK'
    BY DEF LossOK, Doomed, TtyTypeOK
  <2>4. SentBefore' /\ KeysInOrder'
    BY DEF SentBefore, KeysInOrder
  <2> QED BY <2>1, <2>2, <2>3, <2>4
<1>6. CASE EndKey
  <2> USE <1>6 DEF EndKey, Take, device
  <2>5. stdin' \in Seq(AllKeys)
    BY DEF TtyTypeOK
  <2>1. TtyTypeOK'
    BY <2>5 DEF TtyTypeOK, LossOK
  <2>2. HandOK' /\ PromptFirst'
    BY DEF HandOK, PromptFirst
  <2>3. LossOK'
    BY DEF LossOK, Doomed, TtyTypeOK
  <2>4. SentBefore' /\ KeysInOrder'
    BY DEF SentBefore, KeysInOrder
  <2> QED BY <2>1, <2>2, <2>3, <2>4
<1>7. CASE Signal
  <2> USE <1>7 DEF Signal, device, user
  <2>1. TtyTypeOK'
    BY DEF TtyTypeOK, LossOK
  <2>2. HandOK' /\ PromptFirst'
    BY DEF HandOK, PromptFirst
  <2>3. LossOK'
    BY DEF LossOK, Doomed, TtyTypeOK
  <2>4. SentBefore' /\ KeysInOrder'
    BY DEF SentBefore, KeysInOrder
  <2> QED BY <2>1, <2>2, <2>3, <2>4
<1>8. ASSUME NEW k \in Keys, Press(k) PROVE TtyInv'
  <2> USE <1>8 DEF Press, device
  <2>5. stdin' \in Seq(AllKeys)
    BY KeyAssumption DEF TtyTypeOK
  <2>1. TtyTypeOK'
    BY <2>5, TtyBoundAssumption DEF TtyTypeOK, LossOK
  <2>2. HandOK' /\ PromptFirst'
    BY DEF HandOK, PromptFirst
  <2>3. LossOK'
    BY DEF LossOK, Doomed, TtyTypeOK
  <2>4. SentBefore' /\ KeysInOrder'
    BY DEF SentBefore, KeysInOrder
  <2> QED BY <2>1, <2>2, <2>3, <2>4
<1>9. CASE DeviceSends
  <2> USE <1>9 DEF DeviceSends, user
  <2>1. TtyTypeOK'
    BY TtyBoundAssumption DEF TtyTypeOK, LossOK
  <2>2. HandOK' /\ PromptFirst'
    BY DEF HandOK, PromptFirst
  <2>3. LossOK'
    BY DEF LossOK, Doomed, TtyTypeOK
  <2>4. SentBefore' /\ KeysInOrder'
    BY DEF SentBefore, KeysInOrder
  <2> QED BY <2>1, <2>2, <2>3, <2>4
<1>10. CASE Unplug
  <2> USE <1>10 DEF Unplug, user
  <2>1. TtyTypeOK'
    <3>1. unplugs' \in 0 .. MaxUnplugs /\ fromDevice' \in 0 .. MaxBytes
      BY TtyBoundAssumption DEF TtyTypeOK
    <3>2. stmcool' \in {"none", "good", "stale"} /\ present' \in BOOLEAN
      BY DEF TtyTypeOK
    <3>3. UNCHANGED <<echo, at, show_prompt, i, stdin, pressed, taken, sent, lost>>
      OBVIOUS
    <3> QED BY <3>1, <3>2, <3>3 DEF TtyTypeOK
  <2>2. HandOK' /\ PromptFirst'
    BY DEF HandOK, PromptFirst
  <2>3. LossOK'
    BY DEF LossOK, Doomed, TtyTypeOK
  <2>4. SentBefore' /\ KeysInOrder'
    BY DEF SentBefore, KeysInOrder
  <2> QED BY <2>1, <2>2, <2>3, <2>4
<1>11. CASE Plug
  <2> USE <1>11 DEF Plug, user
  <2>1. TtyTypeOK'
    BY DEF TtyTypeOK, LossOK
  <2>2. HandOK' /\ PromptFirst'
    BY DEF HandOK, PromptFirst
  <2>3. LossOK'
    BY DEF LossOK, Doomed, TtyTypeOK
  <2>4. SentBefore' /\ KeysInOrder'
    BY DEF SentBefore, KeysInOrder
  <2> QED BY <2>1, <2>2, <2>3, <2>4
<1>12. CASE UNCHANGED ttyVars
  BY <1>12 DEF ttyVars, device, user, TtyTypeOK, HandOK, PromptFirst, SentBefore, LossOK,
              Doomed, KeysInOrder
<1> QED BY <1>1, <1>2, <1>3, <1>4, <1>5, <1>6, <1>7, <1>8, <1>9, <1>10, <1>11, <1>12 DEF World

(* Every behaviour of the loop of tty.cpp satisfies the invariant.            *)
THEOREM TtyInductive == TtySpec => []TtyInv
<1>1. TtyInv /\ [TtyNext]_ttyVars => TtyInv'
  BY WriteKeysStep, PromptStep, ReadKeyStep, ReadCursorStep, OtherSteps DEF TtyNext, Program
<1> QED BY TtyInitInv, <1>1, PTL DEF TtySpec

(* For every keyboard, every bound on keys and unplugs, and every moment of an *)
(* unplug: the keys that were read arrive in order, whole and at most once,    *)
(* and each that does not is counted as lost (process_input, read_stdin, app). *)
THEOREM KeysStayInOrder == TtySpec => []KeysInOrder
<1>1. TtyInv => KeysInOrder
  BY DEF TtyInv
<1> QED BY TtyInductive, <1>1, PTL

(* An unplug costs one write at most, whenever it comes: a failed aWrite in    *)
(* app is followed by a failed aRead before the next key is read.              *)
THEOREM LossIsBounded == TtySpec => []LossBounded
<1>1. TtyInv => LossBounded
  BY DEF TtyInv, TtyTypeOK, LossOK, LossBounded
<1> QED BY TtyInductive, <1>1, PTL
=============================================================================
