--------------------------- MODULE ConsoleProofs ---------------------------
(* Proofs about the command line, for every number and length of the lines,  *)
(* every set of keys and every number of lines entered.                      *)
EXTENDS Console, FiniteSetTheorems, SequenceTheorems, TLAPS

Lines == [0 .. MAX_CMD_SIZE -> Keys \union {NUL}]

(* The line has n bytes of text and then zero bytes only. *)
EndsAt(row, n) ==
  /\ n \in 0 .. MAX_CMD_SIZE
  /\ \A i \in 0 .. n - 1 : row[i] # NUL
  /\ \A i \in n .. MAX_CMD_SIZE : row[i] = NUL

-----------------------------------------------------------------------------
(* Strings: what strlen and sscanf see of a line with n bytes of text. *)
LEMMA StringWhole ==
  ASSUME NEW row \in Lines, NEW n, EndsAt(row, n)
  PROVE  /\ StringIn(row, 0) = [k \in 1 .. n |-> row[k - 1]]
         /\ StringIn(row, 0) \in Seq(Keys)
         /\ Len(StringIn(row, 0)) = n
<1> DEFINE Ends == {j \in 0 .. MAX_CMD_SIZE : row[j] = NUL}
           end == CHOOSE j \in Ends : \A k \in Ends : j <= k
<1>1. n \in Ends /\ \A k \in Ends : n <= k
  BY LineAssumption DEF EndsAt
<1>2. \A j \in Ends : (\A k \in Ends : j <= k) => j = n
  BY <1>1, LineAssumption DEF EndsAt
<1>3. end = n
  BY <1>1, <1>2
<1>4. StringIn(row, 0) = [k \in 1 .. end - 0 |-> row[0 + k - 1]]
  BY <1>1 DEF StringIn
<1>5. StringIn(row, 0) = [k \in 1 .. n |-> row[k - 1]]
  BY <1>3, <1>4 DEF EndsAt
<1>6. StringIn(row, 0) \in [1 .. n -> Keys]
  <2>1. \A k \in 1 .. n : row[k - 1] \in Keys
    BY LineAssumption DEF EndsAt, Lines
  <2> QED BY <1>5, <2>1
<1>7. StringIn(row, 0) \in Seq(Keys)
  BY <1>6, SeqDef DEF EndsAt
<1> QED BY <1>5, <1>6, <1>7, LenProperties DEF EndsAt

LEMMA StringTail ==
  ASSUME NEW row \in Lines, NEW n, EndsAt(row, n)
  PROVE  /\ StringIn(row, 2) \in Seq(Keys)
         /\ n > 2 \/ Len(StringIn(row, 2)) # 0 =>
              /\ n > 2
              /\ StringIn(row, 2) = SubSeq(StringIn(row, 0), 3, n)
              /\ Len(StringIn(row, 2)) = n - 2
<1> DEFINE Ends == {j \in 2 .. MAX_CMD_SIZE : row[j] = NUL}
           end == CHOOSE j \in Ends : \A k \in Ends : j <= k
<1>1. CASE Ends = {}
  BY <1>1, EmptySeq, LineAssumption DEF StringIn, EndsAt
<1>2. ASSUME Ends # {}
      PROVE  StringIn(row, 2) = [k \in 1 .. end - 2 |-> row[2 + k - 1]]
  BY <1>2 DEF StringIn
<1>3. ASSUME NEW m \in Ends, \A k \in Ends : m <= k
      PROVE  end = m
  <2>1. \A j \in Ends : (\A k \in Ends : j <= k) => j = m
    BY <1>3, LineAssumption
  <2> QED BY <1>3, <2>1
<1> HIDE DEF end
<1>4. CASE n <= 2 /\ Ends # {}
  <2>1. 2 \in Ends /\ \A k \in Ends : 2 <= k
    BY <1>4, LineAssumption DEF EndsAt
  <2>2. StringIn(row, 2) \in [1 .. 0 -> Keys]
    BY <1>2, <1>3, <1>4, <2>1
  <2>3. StringIn(row, 2) \in Seq(Keys)
    BY <2>2, SeqDef
  <2>4. Len(StringIn(row, 2)) = 0
    BY <2>2, <2>3, LenProperties
  <2> QED BY <1>4, <2>3, <2>4 DEF EndsAt
<1>5. CASE n > 2
  <2>1. n \in Ends /\ \A k \in Ends : n <= k
    BY <1>5, LineAssumption DEF EndsAt
  <2>2. end = n
    BY <1>3, <2>1
  <2>3. StringIn(row, 2) = [k \in 1 .. n - 2 |-> row[2 + k - 1]]
    BY <1>2, <2>1, <2>2
  <2>4. StringIn(row, 2) \in Seq(Keys) /\ Len(StringIn(row, 2)) = n - 2
    <3>1. \A k \in 1 .. n - 2 : row[2 + k - 1] \in Keys
      BY LineAssumption DEF EndsAt, Lines
    <3>2. StringIn(row, 2) \in [1 .. n - 2 -> Keys]
      BY <2>3, <3>1
    <3>3. StringIn(row, 2) \in Seq(Keys)
      BY <1>5, <3>2, SeqDef DEF EndsAt
    <3> QED BY <1>5, <3>2, <3>3, LenProperties DEF EndsAt
  <2> DEFINE whole == StringIn(row, 0)
             tail == SubSeq(whole, 3, n)
  <2>5. whole \in Seq(Keys) /\ Len(whole) = n /\ \A k \in 1 .. n : whole[k] = row[k - 1]
    BY StringWhole
  <2>6. \A i \in 3 .. n : whole[i] \in Keys
    BY <2>5, ElementOfSeq
  <2>7. /\ tail \in Seq(Keys) /\ Len(tail) = n - 2
        /\ \A i \in 1 .. n - 2 : tail[i] = whole[3 + i - 1]
    BY <1>5, <2>6, SubSeqProperties DEF EndsAt
  <2>8. ASSUME NEW i \in 1 .. n - 2 PROVE tail[i] = StringIn(row, 2)[i]
    <3>1. tail[i] = whole[3 + i - 1] /\ 3 + i - 1 \in 1 .. n
      BY <1>5, <2>7 DEF EndsAt
    <3>2. whole[3 + i - 1] = row[(3 + i - 1) - 1]
      BY <2>5, <3>1
    <3>3. StringIn(row, 2)[i] = row[2 + i - 1]
      BY <2>3
    <3>4. (3 + i - 1) - 1 = 2 + i - 1
      BY DEF EndsAt
    <3> QED BY <3>1, <3>2, <3>3, <3>4
  <2>9. tail = StringIn(row, 2)
    BY <2>4, <2>7, <2>8, SeqEqual
  <2> QED BY <1>5, <2>4, <2>9
<1> QED BY <1>1, <1>4, <1>5 DEF EndsAt

(* The digits at the front of a text are a sequence of digits. *)
LEMMA NumberDigits ==
  ASSUME NEW s \in Seq(Keys)
  PROVE  Number(s) \in Seq(Digits)
<1> DEFINE Fronts == {n \in 1 .. Len(s) : \A k \in 1 .. n : s[k] \in Digits}
           c == Cardinality(Fronts)
<1>1. Len(s) \in Nat
  BY LenProperties
<1>2. IsFiniteSet(Fronts) /\ c \in Nat
  <2>1. IsFiniteSet(1 .. Len(s))
    BY <1>1, FS_Interval
  <2>2. Fronts \in SUBSET (1 .. Len(s))
    OBVIOUS
  <2>3. IsFiniteSet(Fronts)
    BY <2>1, <2>2, FS_Subset
  <2> QED BY <2>3, FS_CardinalityType
<1>3. \A k \in 1 .. c : s[k] \in Digits
  <2> SUFFICES ASSUME NEW k \in 1 .. c, s[k] \notin Digits PROVE FALSE
    OBVIOUS
  <2>1. Fronts \subseteq 1 .. k - 1
    BY <1>1, <1>2
  <2>2. c <= Cardinality(1 .. k - 1)
    <3>1. IsFiniteSet(1 .. k - 1)
      BY <1>2, FS_Interval
    <3>2. Fronts \in SUBSET (1 .. k - 1)
      BY <2>1
    <3> QED BY <3>1, <3>2, FS_Subset
  <2>3. Cardinality(1 .. k - 1) = k - 1
    BY <1>2, FS_Interval
  <2> QED BY <1>2, <2>2, <2>3
<1> HIDE DEF c
<1>4. SubSeq(s, 1, c) \in Seq(Digits)
  BY <1>2, <1>3, SubSeqProperties
<1> QED BY <1>4 DEF Number, c

-----------------------------------------------------------------------------
(* The inductive invariant. *)

(* Every slot holds a text and then zero bytes, the line being typed one of  *)
(* curr_cmd_idx bytes.                                                       *)
LinesEnd ==
  /\ EndsAt(cmd[curr_history_idx], curr_cmd_idx)
  /\ \A h \in Slots : \E n \in 0 .. MAX_CMD_SIZE : EndsAt(cmd[h], n)

(* The last line handed over is still in the slot before the one being typed. *)
HandedOver ==
  MAX_CMD_HISTORY > 1 /\ entered > 0 =>
    /\ curr_history_idx = NextSlot(status_cmd)
    /\ last = StringAt(status_cmd, 0) /\ last # << >>

(* The flag is up before an execution only for a line that was not taken yet. *)
FlagFresh ==
  pc = "fetch" \/ (new_cmd /\ pc \in {"echo", "poll"}) => taken < entered

(* How many slots the line being typed is ahead of the text being executed. *)
Ahead ==
  IF curr_history_idx >= text THEN curr_history_idx - text
  ELSE curr_history_idx - text + MAX_CMD_HISTORY

(* Unless the history has come round, typing is Behind + 1 slots ahead of the *)
(* text, which is therefore as it was, and set_time acts on what it has seen. *)
TextKept ==
  Executing /\ Behind < MAX_CMD_HISTORY - 1 =>
    /\ Ahead = Behind + 1
    /\ StringAt(text, 0) = order /\ order # << >>
    /\ pc \in {"strlen", "sscanf"} => order[1] = SetTime
    /\ pc = "sscanf" => Len(order) = TimestampLen + 2

IInv == TypeOK /\ LinesEnd /\ HandedOver /\ FlagFresh /\ TextKept

LEMMA InitInv == Init => IInv
<1> SUFFICES ASSUME Init PROVE IInv
  OBVIOUS
<1> USE HistoryAssumption, LineAssumption, BoundAssumption
<1>1. TypeOK
  BY EmptySeq DEF Init, TypeOK, Slots, Keys
<1>2. LinesEnd
  BY DEF Init, LinesEnd, EndsAt, Slots
<1> QED BY <1>1, <1>2 DEF Init, IInv, HandedOver, FlagFresh, TextKept, Executing

(* A change of the line being typed, and of nothing else. *)
LEMMA TypingKeeps ==
  ASSUME IInv,
         cmd' \in [Slots -> Lines],
         \A h \in Slots \ {curr_history_idx} : cmd'[h] = cmd[h],
         EndsAt(cmd'[curr_history_idx], curr_cmd_idx'),
         tty_out' \in 0 .. EchoRoom,
         UNCHANGED <<curr_history_idx, status_cmd, new_cmd, time, pc, text, history>>
  PROVE  IInv'
<1> USE DEF IInv
<1>1. TypeOK'
  BY DEF TypeOK, EndsAt, Lines, history
<1>2. LinesEnd'
  <2>1. curr_cmd_idx' \in 0 .. MAX_CMD_SIZE
    BY DEF EndsAt
  <2>2. ASSUME NEW h \in Slots PROVE \E n \in 0 .. MAX_CMD_SIZE : EndsAt(cmd'[h], n)
    BY <2>1 DEF LinesEnd
  <2> QED BY <2>2 DEF LinesEnd
<1>3. HandedOver'
  BY HistoryAssumption DEF HandedOver, NextSlot, StringAt, TypeOK, Slots, history
<1>4. FlagFresh'
  BY DEF FlagFresh, history
<1>5. TextKept'
  BY HistoryAssumption DEF TextKept, Ahead, Executing, Behind, StringAt, TypeOK, Slots, history
<1> QED BY <1>1, <1>2, <1>3, <1>4, <1>5

(* memset and the byte it leaves out: the cleared slot is empty. *)
LEMMA ClearedEmpty ==
  ASSUME IInv, NEW h \in Slots
  PROVE  /\ Cleared(h) \in [Slots -> Lines]
         /\ \A k \in Slots \ {h} : Cleared(h)[k] = cmd[k]
         /\ EndsAt(Cleared(h)[h], 0)
<1>1. cmd[h][MAX_CMD_SIZE] = NUL
  BY LineAssumption DEF IInv, LinesEnd, EndsAt
<1> QED BY <1>1, LineAssumption DEF IInv, Cleared, TypeOK, Lines, EndsAt

LEMMA TypeSteps == IInv /\ Type => IInv'
<1> SUFFICES ASSUME IInv, Type PROVE IInv'
  OBVIOUS
<1> USE DEF IInv
<1>1. CASE EnterLine
  <2> USE <1>1, HistoryAssumption DEF EnterLine
  <2>1. curr_history_idx' \in Slots /\ status_cmd' \in Slots
    BY DEF NextSlot, TypeOK, Slots
  <2>2. /\ cmd' \in [Slots -> Lines]
        /\ \A k \in Slots \ {curr_history_idx'} : cmd'[k] = cmd[k]
        /\ EndsAt(cmd'[curr_history_idx'], 0)
    BY <2>1, ClearedEmpty
  <2>3. last' \in Seq(Keys) /\ last' # << >>
    <3>1. last' \in Seq(Keys) /\ Len(last') = curr_cmd_idx
      BY StringWhole DEF TypeOK, LinesEnd, StringAt, Lines
    <3> QED BY <3>1, EmptySeq
  <2>4. TypeOK'
    BY <2>1, <2>2, <2>3, LineAssumption, BoundAssumption DEF TypeOK, Lines
  <2>5. LinesEnd'
    <3>1. ASSUME NEW h \in Slots PROVE \E n \in 0 .. MAX_CMD_SIZE : EndsAt(cmd'[h], n)
      BY <2>2, LineAssumption DEF LinesEnd
    <3> QED BY <2>2, <3>1 DEF LinesEnd
  <2>6. HandedOver'
    BY <2>1, <2>2, <2>3 DEF HandedOver, NextSlot, StringAt, TypeOK, Slots
  <2>7. FlagFresh'
    BY DEF FlagFresh, TypeOK
  <2>8. TextKept'
    <3> SUFFICES ASSUME Executing', Behind' < MAX_CMD_HISTORY - 1 PROVE TextKept'
      BY DEF TextKept
    <3>1. Executing /\ Behind' = Behind + 1 /\ Behind \in Nat
      BY DEF Executing, Behind, TypeOK
    <3>2. TextKept /\ Ahead = Behind + 1
      BY <3>1 DEF TextKept
    <3>3. Ahead' = Behind' + 1 /\ text # curr_history_idx'
      BY <3>1, <3>2 DEF Ahead, NextSlot, TypeOK, Slots
    <3>4. StringAt(text, 0)' = StringAt(text, 0)
      BY <2>2, <3>3 DEF StringAt, TypeOK
    <3> QED BY <3>1, <3>2, <3>3, <3>4 DEF TextKept
  <2> QED BY <2>4, <2>5, <2>6, <2>7, <2>8
<1>2. CASE BlankLine
  <2>1. /\ cmd' \in [Slots -> Lines]
        /\ \A k \in Slots \ {curr_history_idx} : cmd'[k] = cmd[k]
        /\ EndsAt(cmd'[curr_history_idx], 0)
    BY <1>2, ClearedEmpty DEF BlankLine, TypeOK
  <2> QED BY <1>2, <2>1, TypingKeeps DEF BlankLine, TypeOK
<1>3. CASE Backspace
  <2>1. /\ cmd' \in [Slots -> Lines]
        /\ \A k \in Slots \ {curr_history_idx} : cmd'[k] = cmd[k]
    BY <1>3 DEF Backspace, TypeOK, Lines
  <2>2. EndsAt(cmd'[curr_history_idx], curr_cmd_idx')
    <3>1. cmd'[curr_history_idx] = [cmd[curr_history_idx] EXCEPT ![curr_cmd_idx - 1] = NUL]
      BY <1>3 DEF Backspace, TypeOK
    <3>2. /\ curr_cmd_idx \in 1 .. MAX_CMD_SIZE /\ curr_cmd_idx' = curr_cmd_idx - 1
          /\ cmd[curr_history_idx] \in Lines /\ EndsAt(cmd[curr_history_idx], curr_cmd_idx)
      BY <1>3, LineAssumption DEF Backspace, TypeOK, Lines, LinesEnd
    <3> QED BY <3>1, <3>2, LineAssumption DEF EndsAt, Lines
  <2> QED BY <1>3, <2>1, <2>2, TypingKeeps DEF Backspace, TypeOK
<1>4. ASSUME NEW c \in Keys, Key(c) PROVE IInv'
  <2>1. /\ cmd' \in [Slots -> Lines]
        /\ \A k \in Slots \ {curr_history_idx} : cmd'[k] = cmd[k]
    <3>1. PICK i \in 0 .. MAX_CMD_SIZE, b \in Keys \union {NUL} :
            cmd' = [cmd EXCEPT ![curr_history_idx][i] = b]
      <4>1. CASE curr_cmd_idx = MAX_CMD_SIZE
        BY <1>4, <4>1, LineAssumption DEF Key
      <4>2. CASE curr_cmd_idx # MAX_CMD_SIZE
        BY <1>4, <4>2 DEF Key, TypeOK
      <4> QED BY <4>1, <4>2
    <3>2. cmd \in [Slots -> Lines] /\ curr_history_idx \in Slots
      BY DEF TypeOK, Lines
    <3> HIDE <1>4 DEF IInv
    <3>3. [cmd[curr_history_idx] EXCEPT ![i] = b] \in Lines
      BY <3>2 DEF Lines
    <3>4. cmd' = [cmd EXCEPT ![curr_history_idx] = [cmd[curr_history_idx] EXCEPT ![i] = b]]
      BY <3>1
    <3> QED BY <3>2, <3>3, <3>4
  <2>2. EndsAt(cmd'[curr_history_idx], curr_cmd_idx')
    <3>1. c # NUL
      BY KeyAssumption DEF Keys
    <3>2. /\ cmd \in [Slots -> Lines] /\ curr_history_idx \in Slots
          /\ curr_cmd_idx \in 0 .. MAX_CMD_SIZE /\ EndsAt(cmd[curr_history_idx], curr_cmd_idx)
      BY DEF TypeOK, LinesEnd, Lines
    <3>3. CASE curr_cmd_idx = MAX_CMD_SIZE
      <4>1. /\ cmd'[curr_history_idx] = [cmd[curr_history_idx] EXCEPT ![MAX_CMD_SIZE] = NUL]
            /\ curr_cmd_idx' = curr_cmd_idx /\ curr_history_idx' = curr_history_idx
        BY <1>4, <3>2, <3>3 DEF Key
      <4> QED BY <3>2, <3>3, <4>1, LineAssumption DEF EndsAt, Lines
    <3>4. CASE curr_cmd_idx # MAX_CMD_SIZE
      <4>1. /\ cmd'[curr_history_idx] = [cmd[curr_history_idx] EXCEPT ![curr_cmd_idx] = c]
            /\ curr_cmd_idx' = curr_cmd_idx + 1 /\ curr_history_idx' = curr_history_idx
        BY <1>4, <3>2, <3>4 DEF Key
      <4> QED BY <3>1, <3>2, <3>4, <4>1, LineAssumption DEF EndsAt, Lines
    <3> QED BY <3>3, <3>4
  <2>3. tty_out' \in 0 .. EchoRoom
    BY <1>4, BoundAssumption DEF Key, TypeOK
  <2> QED BY <1>4, <2>1, <2>2, <2>3, TypingKeeps DEF Key
<1> QED BY <1>1, <1>2, <1>3, <1>4 DEF Type, Keys

(* What the switch looks at is the first byte of the text, if it has one. *)
LEMMA FirstByte ==
  ASSUME IInv, StringAt(text, 0) = order, order # << >>
  PROVE  order[1] = cmd[text][0]
<1>1. PICK n \in 0 .. MAX_CMD_SIZE : EndsAt(cmd[text], n)
  BY DEF IInv, LinesEnd, TypeOK
<1>2. order = [k \in 1 .. n |-> cmd[text][k - 1]] /\ Len(order) = n /\ order \in Seq(Keys)
  BY <1>1, StringWhole DEF IInv, TypeOK, Lines, StringAt
<1>3. n > 0
  BY <1>1, <1>2, EmptySeq
<1>4. order[1] = cmd[text][1 - 1]
  BY <1>1, <1>2, <1>3
<1> QED BY <1>4

(* A step of the main loop that goes on executing the same text. *)
LEMMA ExecutionKeeps ==
  ASSUME IInv, Executing,
         UNCHANGED <<input, text, history>>,
         tty_out' = tty_out, new_cmd' \in BOOLEAN, time' \in Seq(Digits),
         pc' \in {"strlen", "sscanf", "unknown", "finish", "hung", "crashed", "echo"},
         pc' = "echo" => ~new_cmd',
         TextKept /\ Behind < MAX_CMD_HISTORY - 1 =>
           /\ pc' \in {"strlen", "sscanf"} => order[1] = SetTime
           /\ pc' = "sscanf" => Len(order) = TimestampLen + 2
  PROVE  IInv'
<1> USE DEF IInv, input, history
<1>1. TypeOK'
  BY DEF TypeOK
<1>2. LinesEnd' /\ HandedOver'
  BY DEF LinesEnd, HandedOver, StringAt
<1>3. FlagFresh'
  BY DEF FlagFresh
<1>4. TextKept'
  BY DEF TextKept, Executing, Behind, Ahead, StringAt
<1> QED BY <1>1, <1>2, <1>3, <1>4

LEMMA MainSteps == IInv /\ Main => IInv'
<1> SUFFICES ASSUME IInv, Main PROVE IInv'
  OBVIOUS
<1> USE DEF IInv, input, history
<1>1. ASSUME UNCHANGED <<input, entered, last>> PROVE LinesEnd' /\ HandedOver'
  BY <1>1 DEF LinesEnd, HandedOver, StringAt
<1>2. CASE Echo
  <2>1. LinesEnd' /\ HandedOver'
    BY <1>1, <1>2 DEF Echo
  <2> QED BY <1>2, <2>1, BoundAssumption DEF Echo, TypeOK, FlagFresh, TextKept, Executing
<1>3. CASE Poll
  <2>1. LinesEnd' /\ HandedOver'
    BY <1>1, <1>3 DEF Poll
  <2> QED BY <1>3, <2>1 DEF Poll, TypeOK, FlagFresh, TextKept, Executing
<1>4. CASE Fetch
  <2>1. entered > 0 /\ taken' = entered /\ Behind' = 0
    BY <1>4 DEF Fetch, FlagFresh, TypeOK, Behind
  <2>2. TypeOK'
    BY <1>4 DEF Fetch, TypeOK
  <2>3. LinesEnd' /\ HandedOver'
    BY <1>1, <1>4 DEF Fetch
  <2>4. FlagFresh'
    BY <1>4 DEF Fetch, FlagFresh
  <2>5. TextKept'
    <3> SUFFICES ASSUME Behind' < MAX_CMD_HISTORY - 1 PROVE TextKept'
      BY DEF TextKept
    <3>1. curr_history_idx = NextSlot(status_cmd) /\ last = StringAt(status_cmd, 0) /\ last # << >>
      BY <2>1, HistoryAssumption DEF HandedOver
    <3>2. Ahead' = Behind' + 1
      BY <1>4, <2>1, <3>1, HistoryAssumption DEF Fetch, Ahead, NextSlot, TypeOK, Slots
    <3>3. StringAt(text, 0)' = order' /\ order' # << >>
      BY <1>4, <3>1 DEF Fetch, StringAt
    <3> QED BY <1>4, <3>2, <3>3 DEF Fetch, TextKept
  <2> QED BY <2>2, <2>3, <2>4, <2>5
<1>5. PICK n \in 0 .. MAX_CMD_SIZE : EndsAt(cmd[text], n)
  BY DEF LinesEnd, TypeOK
<1>6. cmd[text] \in Lines
  BY DEF TypeOK, Lines
<1>7. CASE Switch
  <2>1. Executing
    BY <1>7 DEF Switch, Executing
  <2>2. ASSUME StringAt(text, 0) = order, order # << >>, pc' = "strlen"
        PROVE  order[1] = SetTime
    BY <1>7, <2>2, FirstByte, KeyAssumption DEF Switch
  <2>3. pc' \in {"strlen", "crashed", "hung", "finish", "unknown"}
    BY <1>7 DEF Switch
  <2> QED BY <1>7, <2>1, <2>2, <2>3, ExecutionKeeps DEF Switch, TypeOK, TextKept
<1>8. CASE Measure
  <2>1. Executing
    BY <1>8 DEF Measure, Executing
  <2>2. ASSUME StringAt(text, 0) = order, pc' = "sscanf"
        PROVE  Len(order) = TimestampLen + 2
    <3>1. Len(StringIn(cmd[text], 2)) = TimestampLen /\ TimestampLen # 0
      BY <1>8, <2>2, TimeAssumption DEF Measure, StringAt
    <3>2. Len(StringIn(cmd[text], 2)) = n - 2
      BY <1>5, <1>6, <3>1, StringTail
    <3>3. Len(order) = n
      BY <1>5, <1>6, <2>2, StringWhole DEF StringAt
    <3> QED BY <1>5, <3>1, <3>2, <3>3
  <2>3. pc' \in {"sscanf", "finish"} /\ pc = "strlen"
    BY <1>8 DEF Measure
  <2> QED BY <1>8, <2>1, <2>2, <2>3, ExecutionKeeps DEF Measure, TypeOK, TextKept
<1>9. CASE Scan
  <2>1. Executing
    BY <1>9 DEF Scan, Executing
  <2>2. StringAt(text, 2) \in Seq(Keys)
    BY <1>5, <1>6, StringTail DEF StringAt
  <2>3. time' \in Seq(Digits)
    BY <1>9, <2>2, NumberDigits DEF Scan, TypeOK
  <2> QED BY <1>9, <2>1, <2>3, ExecutionKeeps DEF Scan, TypeOK
<1>10. CASE PrintUnknown
  BY <1>10, ExecutionKeeps DEF PrintUnknown, Executing, TypeOK
<1>11. CASE Finish
  BY <1>11, ExecutionKeeps DEF Finish, Executing, TypeOK
<1> QED BY <1>2, <1>3, <1>4, <1>7, <1>8, <1>9, <1>10, <1>11 DEF Main

LEMMA StepInv == IInv /\ [Next]_vars => IInv'
<1> SUFFICES ASSUME IInv, [Next]_vars PROVE IInv'
  OBVIOUS
<1>1. CASE Type
  BY <1>1, TypeSteps
<1>2. CASE Main
  BY <1>2, MainSteps
<1>3. CASE Restart
  <2>1. Init'
    BY <1>3 DEF Restart, Init
  <2>2. TypeOK'
    BY <2>1, HistoryAssumption, LineAssumption, BoundAssumption, EmptySeq
    DEF Init, TypeOK, Slots, Keys
  <2>3. LinesEnd'
    BY <2>1, HistoryAssumption, LineAssumption DEF Init, LinesEnd, EndsAt, Slots
  <2> QED BY <2>1, <2>2, <2>3 DEF Init, IInv, HandedOver, FlagFresh, TextKept, Executing
<1>4. CASE UNCHANGED vars
  BY <1>4 DEF vars, input, history, IInv, TypeOK, LinesEnd, HandedOver, FlagFresh, TextKept,
              Executing, Behind, Ahead, StringAt
<1> QED BY <1>1, <1>2, <1>3, <1>4 DEF Next

-----------------------------------------------------------------------------
(* The invariant holds for every number and length of the lines of app.c. *)
THEOREM Inductive == Spec => []IInv
BY InitInv, StepInv, PTL DEF Spec

(* Every variable keeps its type; curr_cmd_idx never passes MAX_CMD_SIZE      *)
(* although process_input increments it before it tests it.                  *)
THEOREM TypeCorrect == Spec => []TypeOK
<1>1. IInv => TypeOK
  BY DEF IInv
<1> QED BY Inductive, <1>1, PTL

(* Every slot always ends in a zero byte and the line being typed in zero     *)
(* bytes only, although memset leaves out the last byte of a slot.           *)
THEOREM EveryStringEnds == Spec => []StringsEnd
<1>1. IInv => StringsEnd
  BY LineAssumption DEF IInv, TypeOK, LinesEnd, EndsAt, StringsEnd
<1> QED BY Inductive, <1>1, PTL

(* The text that exec_cmd reads is the text that was entered, until as many   *)
(* lines less one as the history has slots are entered behind it.            *)
THEOREM TextStaysIntact == Spec => []TextIntact
<1>1. IInv => TextIntact
  BY DEF IInv, TextKept, TextIntact
<1> QED BY Inductive, <1>1, PTL

(* What set_time scans is the end of the text, if that is long enough for it. *)
LEMMA TailOfText ==
  ASSUME IInv, StringAt(text, 0) = order
  PROVE  /\ order \in Seq(Keys)
         /\ Len(StringAt(text, 2)) = TimestampLen <=> Len(order) = TimestampLen + 2
         /\ Len(order) = TimestampLen + 2 => StringAt(text, 2) = SubSeq(order, 3, Len(order))
<1>1. PICK n \in 0 .. MAX_CMD_SIZE : EndsAt(cmd[text], n)
  BY DEF IInv, LinesEnd, TypeOK
<1>2. cmd[text] \in Lines
  BY DEF IInv, TypeOK, Lines
<1>3. Len(order) = n /\ order \in Seq(Keys)
  BY <1>1, <1>2, StringWhole DEF StringAt
<1>4. /\ StringIn(cmd[text], 2) \in Seq(Keys)
      /\ n > 2 \/ Len(StringIn(cmd[text], 2)) # 0 =>
           /\ n > 2
           /\ StringIn(cmd[text], 2) = SubSeq(StringIn(cmd[text], 0), 3, n)
           /\ Len(StringIn(cmd[text], 2)) = n - 2
  BY <1>1, <1>2, StringTail
<1> QED BY <1>1, <1>3, <1>4, TimeAssumption DEF StringAt

(* The hand-over through three shared slots and one flag keeps the promise of *)
(* Executor: a line is executed at most once, as it was typed unless too many *)
(* lines are entered behind it, and sets the clock to the number that was    *)
(* typed behind "t " although set_time reads it twice.                       *)
THEOREM Refinement == Spec => ImplementsExecutor
<1>1. Init => Promise!Init
  BY DEF Init, Promise!Init, Doing
<1>2. IInv /\ IInv' /\ [Next]_vars => [Promise!Next]_(Promise!vars)
  <2> SUFFICES ASSUME IInv, IInv', [Next]_vars
               PROVE  Promise!Next \/ UNCHANGED Promise!vars
    BY DEF Promise!vars
  <2> USE DEF input, history
  <2>1. ASSUME UNCHANGED <<history, time, Doing>> PROVE UNCHANGED Promise!vars
    BY <2>1 DEF Promise!vars
  <2>2. ASSUME Executing, ~Promise!Spoilt
        PROVE  StringAt(text, 0) = order /\ order # << >> /\ TextKept /\ Behind < MAX_CMD_HISTORY - 1
    BY <2>2, HistoryAssumption DEF IInv, TypeOK, TextKept, Behind, Promise!Spoilt
  <2>3. CASE EnterLine
    <3>1. last' \in Seq(Keys) /\ last' # << >>
      <4>1. last' \in Seq(Keys) /\ Len(last') = curr_cmd_idx
        BY <2>3, StringWhole DEF EnterLine, IInv, TypeOK, LinesEnd, StringAt, Lines
      <4> QED BY <2>3, <4>1, EmptySeq DEF EnterLine
    <3>2. Promise!HandOver
      BY <2>3, <3>1 DEF EnterLine, Promise!HandOver, Doing
    <3> QED BY <3>2 DEF Promise!Next
  <2>4. CASE BlankLine
    BY <2>4, <2>1 DEF BlankLine, Doing
  <2>5. CASE Backspace
    BY <2>5, <2>1 DEF Backspace, Doing
  <2>6. ASSUME NEW c \in Keys, Key(c) PROVE UNCHANGED Promise!vars
    BY <2>6, <2>1 DEF Key, Doing
  <2>7. CASE Echo
    BY <2>7, <2>1 DEF Echo, Doing
  <2>8. CASE Poll
    BY <2>8, <2>1 DEF Poll, Doing
  <2>9. CASE Fetch
    <3>1. Promise!Take
      BY <2>9 DEF Fetch, Promise!Take, Doing, IInv, FlagFresh
    <3> QED BY <3>1 DEF Promise!Next
  <2>10. CASE Switch
    <3>1. Executing /\ Doing = "busy"
      BY <2>10 DEF Switch, Executing, Doing
    <3>2. ~Promise!Spoilt => order[1] = cmd[text][0]
      BY <2>2, <3>1, FirstByte
    <3>3. CASE pc' = "strlen"
      BY <2>1, <2>10, <3>1, <3>3 DEF Switch, Doing
    <3>4. CASE pc' \in {"hung", "crashed"}
      <4>1. cmd[text][0] \in {Hang, Crash}
        BY <2>10, <3>4 DEF Switch
      <4>2. Doing' = "stopped"
        BY <3>4 DEF Doing
      <4>3. Promise!Stop
        BY <2>10, <3>1, <3>2, <4>1, <4>2 DEF Switch, Promise!Stop, Stops
      <4> QED BY <4>3 DEF Promise!Next
    <3>5. CASE pc' \in {"finish", "unknown"}
      <4>1. cmd[text][0] \notin {SetTime, Hang, Crash}
        BY <2>10, <3>5, CommandAssumption DEF Switch
      <4>2. Doing' = "done"
        BY <3>5 DEF Doing
      <4>3. time \in Seq(Digits) /\ UNCHANGED <<history, time>>
        BY <2>10 DEF Switch, IInv, TypeOK
      <4>4. ~Promise!Spoilt => ~Stops(order) /\ TimeAfter(order, time) = time
        BY <3>2, <4>1 DEF Stops, TimeAfter
      <4>5. Promise!CarryOut
        BY <3>1, <4>2, <4>3, <4>4 DEF Promise!CarryOut
      <4> QED BY <4>5 DEF Promise!Next
    <3>6. pc' \in {"strlen", "hung", "crashed", "finish", "unknown"}
      BY <2>10 DEF Switch
    <3> QED BY <3>3, <3>4, <3>5, <3>6
  <2>11. CASE Measure
    <3>1. Executing /\ Doing = "busy"
      BY <2>11 DEF Measure, Executing, Doing
    <3>2. CASE pc' = "sscanf"
      BY <2>1, <2>11, <3>1, <3>2 DEF Measure, Doing
    <3>3. CASE pc' = "finish"
      <4>1. Doing' = "done"
        BY <3>3 DEF Doing
      <4>2. time \in Seq(Digits) /\ UNCHANGED <<history, time>>
        BY <2>11 DEF Measure, IInv, TypeOK
      <4>3. ASSUME ~Promise!Spoilt PROVE ~Stops(order) /\ TimeAfter(order, time) = time
        <5>1. order[1] = SetTime
          BY <2>2, <2>11, <3>1, <4>3 DEF Measure, TextKept
        <5>2. Len(order) # TimestampLen + 2
          BY <2>2, <2>11, <3>1, <3>3, <4>3, TailOfText DEF Measure
        <5> QED BY <5>1, <5>2, CommandAssumption DEF Stops, TimeAfter
      <4>4. Promise!CarryOut
        BY <3>1, <4>1, <4>2, <4>3 DEF Promise!CarryOut
      <4> QED BY <4>4 DEF Promise!Next
    <3> QED BY <2>11, <3>2, <3>3 DEF Measure
  <2>12. CASE Scan
    <3>1. Executing /\ Doing = "busy" /\ Doing' = "done"
      BY <2>12 DEF Scan, Executing, Doing
    <3>2. time' \in Seq(Digits) /\ UNCHANGED history
      BY <2>12 DEF Scan, IInv, TypeOK
    <3>3. ASSUME ~Promise!Spoilt PROVE ~Stops(order) /\ time' = TimeAfter(order, time)
      <4>1. order[1] = SetTime /\ Len(order) = TimestampLen + 2
        BY <2>2, <2>12, <3>1, <3>3 DEF Scan, TextKept
      <4>2. StringAt(text, 2) = SubSeq(order, 3, Len(order))
        BY <2>2, <3>1, <3>3, <4>1, TailOfText
      <4>3. time' = IF Number(SubSeq(order, 3, Len(order))) = << >> THEN time
                    ELSE Number(SubSeq(order, 3, Len(order)))
        BY <2>12, <4>2 DEF Scan
      <4> QED BY <4>1, <4>3, CommandAssumption DEF Stops, TimeAfter
    <3>4. Promise!CarryOut
      BY <3>1, <3>2, <3>3 DEF Promise!CarryOut
    <3> QED BY <3>4 DEF Promise!Next
  <2>13. CASE PrintUnknown
    BY <2>13, <2>1 DEF PrintUnknown, Doing
  <2>14. CASE Finish
    <3>1. Promise!Finish
      BY <2>14 DEF Finish, Promise!Finish, Doing
    <3> QED BY <3>1 DEF Promise!Next
  <2>15. CASE Restart
    <3>1. Promise!Reset
      BY <2>15 DEF Restart, Promise!Reset, Doing
    <3> QED BY <3>1 DEF Promise!Next
  <2>16. CASE UNCHANGED vars
    BY <2>16, <2>1 DEF vars, Doing
  <2> QED
    BY <2>3, <2>4, <2>5, <2>6, <2>7, <2>8, <2>9, <2>10, <2>11, <2>12, <2>13, <2>14, <2>15, <2>16
    DEF Next, Type, Main, Keys
<1> QED BY <1>1, <1>2, Inductive, PTL DEF Spec, ImplementsExecutor, Promise!Spec
=============================================================================
