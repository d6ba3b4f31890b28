------------------------------ MODULE Console ------------------------------
(***************************************************************************)
(* The command line of app.c.  The USB interrupt edits the line being      *)
(* typed and hands a finished line over through status.cmd and             *)
(* status.new_cmd (process_input).  The main loop picks it up and executes *)
(* it (app, exec_cmd, set_time) while the interrupt goes on typing into    *)
(* the other slots of the same static array.  process_input runs to its    *)
(* end before the main loop resumes, so it is one action; the main loop    *)
(* can be interrupted between any two reads of the shared array.           *)
(***************************************************************************)
EXTENDS Naturals, Sequences, FiniteSets

CONSTANTS
  MAX_CMD_HISTORY, MAX_CMD_SIZE,
  TimestampLen,      \* the 10 of set_time
  EchoRoom,          \* RING_BUFFER_SIZE - 1
  NUL,               \* the byte 0
  SetTime, Hang, Crash, Help, Info,   \* 't', 'r', 'R', 'h' or '?', 'w'
  Digits,            \* the digits that the runs tell apart
  FirstKeys,         \* what the user may type as the first byte of a line
  LaterKeys,         \* and after it
  MaxLines           \* bound: how many lines are entered between two resets

ASSUME HistoryAssumption == MAX_CMD_HISTORY \in Nat \ {0}
ASSUME LineAssumption == MAX_CMD_SIZE \in Nat \ {0}
ASSUME KeyAssumption == NUL \notin FirstKeys \union LaterKeys \union {SetTime}
ASSUME CommandAssumption ==
  /\ SetTime \notin {Hang, Crash, Help, Info}
  /\ {Hang, Crash} \intersect {Help, Info} = {}
ASSUME TimeAssumption == TimestampLen \in Nat \ {0}
ASSUME BoundAssumption == EchoRoom \in Nat /\ MaxLines \in Nat

VARIABLES
  cmd,                \* process_input: the static array of lines
  curr_history_idx,   \* process_input: the line being typed
  curr_cmd_idx,       \* process_input: where its next byte goes
  status_cmd,         \* status.cmd, as the slot it points to
  new_cmd,            \* status.new_cmd
  tty_out,            \* how many bytes the echo ring holds (module Ring)
  time,               \* status.time as last set: the digits typed, or << >>
  pc,                 \* where the main loop is
  text,               \* exec_cmd: its local cmd, as the slot it points to
  entered, last,      \* history: lines handed over so far, text of the last
  taken, order        \* history: number and text of the line being executed

input == <<cmd, curr_history_idx, curr_cmd_idx, status_cmd>>
history == <<entered, last, taken, order>>
vars == <<input, new_cmd, tty_out, time, pc, text, history>>

Slots == 0 .. MAX_CMD_HISTORY - 1
Keys == FirstKeys \union LaterKeys

\* The string that starts at byte i of a line, as strlen and sscanf see it.
StringIn(row, i) ==
  LET Ends == {j \in i .. MAX_CMD_SIZE : row[j] = NUL}
      end == CHOOSE j \in Ends : \A k \in Ends : j <= k
  IN  IF Ends = {} THEN << >> ELSE [k \in 1 .. end - i |-> row[i + k - 1]]

StringAt(h, i) == StringIn(cmd[h], i)

\* What sscanf's %lld converts: the digits at the front.  The keys of this module
\* have no blank and no sign that could precede them (Clock has times below 0).
Number(s) ==
  LET Fronts == {n \in 1 .. Len(s) : \A k \in 1 .. n : s[k] \in Digits}
  IN  SubSeq(s, 1, Cardinality(Fronts))

-----------------------------------------------------------------------------
Init ==
  /\ cmd = [h \in Slots |-> [i \in 0 .. MAX_CMD_SIZE |-> NUL]]
  /\ curr_history_idx = 0
  /\ curr_cmd_idx = 0
  /\ status_cmd = 0
  /\ new_cmd = FALSE
  /\ tty_out = 0
  /\ time = << >>
  /\ pc = "echo"
  /\ text = 0
  /\ entered = 0 /\ last = << >> /\ taken = 0 /\ order = << >>

\* A hard fault outranks the USB interrupt, a hang of the main loop does not.
Listening == pc # "crashed"

\* memset(cmd[h], 0, MAX_CMD_SIZE): the last byte of the slot is left out.
Cleared(h) ==
  [cmd EXCEPT ![h] = [i \in 0 .. MAX_CMD_SIZE |->
                        IF i < MAX_CMD_SIZE THEN NUL ELSE cmd[h][i]]]

\* curr_history_idx++ and its wrap, and a form that wraps one line early.
NextSlotEarly(h) == IF h + 1 >= MAX_CMD_HISTORY - 1 THEN 0 ELSE h + 1

NextSlot(h) == IF h + 1 >= MAX_CMD_HISTORY THEN 0 ELSE h + 1

\* '\r' on a line with text: hand it over and start on the next slot.
EnterLine ==
  /\ Listening
  /\ curr_cmd_idx > 0
  /\ entered < MaxLines
  /\ status_cmd' = curr_history_idx
  /\ new_cmd' = TRUE
  /\ curr_history_idx' = NextSlot(curr_history_idx)
  /\ cmd' = Cleared(curr_history_idx')
  /\ curr_cmd_idx' = 0
  /\ entered' = entered + 1
  /\ last' = StringAt(curr_history_idx, 0)
  /\ UNCHANGED <<tty_out, time, pc, text, taken, order>>

\* '\r' on an empty line, and 0x1 on any line: start the same slot again.
BlankLine ==
  /\ Listening
  /\ cmd' = Cleared(curr_history_idx)
  /\ curr_cmd_idx' = 0
  /\ UNCHANGED <<curr_history_idx, status_cmd, new_cmd, tty_out, time, pc, text, history>>

\* 0x8: take the last byte back, and a form that leaves it in the slot.
BackspaceKeepsByte ==
  /\ Listening
  /\ curr_cmd_idx > 0
  /\ curr_cmd_idx' = curr_cmd_idx - 1
  /\ UNCHANGED <<cmd, curr_history_idx, status_cmd, new_cmd, tty_out, time, pc, text, history>>

Backspace ==
  /\ Listening
  /\ curr_cmd_idx > 0
  /\ curr_cmd_idx' = curr_cmd_idx - 1
  /\ cmd' = [cmd EXCEPT ![curr_history_idx][curr_cmd_idx'] = NUL]
  /\ UNCHANGED <<curr_history_idx, status_cmd, new_cmd, tty_out, time, pc, text, history>>

\* Any other byte.  On a full line it lands on the last byte of the slot, which
\* is then zeroed again, and the buzzer sounds (module Buzzer).  Otherwise it
\* is kept and queued for the echo, unless the echo ring is full.
Key(c) ==
  /\ Listening
  /\ IF curr_cmd_idx = MAX_CMD_SIZE
       THEN /\ cmd' = [cmd EXCEPT ![curr_history_idx][MAX_CMD_SIZE] = NUL]
            /\ UNCHANGED <<curr_cmd_idx, tty_out>>
       ELSE /\ cmd' = [cmd EXCEPT ![curr_history_idx][curr_cmd_idx] = c]
            /\ curr_cmd_idx' = curr_cmd_idx + 1
            /\ tty_out' = IF tty_out < EchoRoom THEN tty_out + 1 ELSE tty_out
  /\ UNCHANGED <<curr_history_idx, status_cmd, new_cmd, time, pc, text, history>>

\* Bytes of control (0xC, 0x1B), arrow keys and longer packets only cause
\* output or nothing at all, and change no variable of this module.
Type ==
  \/ EnterLine
  \/ BlankLine
  \/ Backspace
  \/ \E c \in IF curr_cmd_idx = 0 THEN FirstKeys ELSE LaterKeys : Key(c)

-----------------------------------------------------------------------------
\* app: echo at most one byte of the ring, and a form that drains it first.
EchoAll ==
  /\ pc = "echo"
  /\ IF tty_out > 0 THEN tty_out' = tty_out - 1 /\ pc' = "echo"
                     ELSE tty_out' = 0 /\ pc' = "poll"
  /\ UNCHANGED <<input, new_cmd, time, text, history>>

Echo ==
  /\ pc = "echo"
  /\ tty_out' = IF tty_out > 0 THEN tty_out - 1 ELSE 0
  /\ pc' = "poll"
  /\ UNCHANGED <<input, new_cmd, time, text, history>>

\* app: if (status.new_cmd) exec_cmd()
Poll ==
  /\ pc = "poll"
  /\ pc' = IF new_cmd THEN "fetch" ELSE "echo"
  /\ UNCHANGED <<input, new_cmd, tty_out, time, text, history>>

\* exec_cmd: cmd = status.cmd
Fetch ==
  /\ pc = "fetch"
  /\ text' = status_cmd
  /\ pc' = "switch"
  /\ taken' = entered
  /\ order' = last
  /\ UNCHANGED <<input, new_cmd, tty_out, time, entered, last>>

\* exec_cmd: switch (cmd[0]).  help, info and the prompt only print.
Switch ==
  /\ pc = "switch"
  /\ pc' = CASE cmd[text][0] = SetTime -> "strlen"
             [] cmd[text][0] = Crash -> "crashed"
             [] cmd[text][0] = Hang -> "hung"
             [] cmd[text][0] \in {Help, Info} -> "finish"
             [] OTHER -> "unknown"
  /\ UNCHANGED <<input, new_cmd, tty_out, time, text, history>>

\* set_time: strlen(t) != 10
Measure ==
  /\ pc = "strlen"
  /\ pc' = IF Len(StringAt(text, 2)) = TimestampLen THEN "sscanf" ELSE "finish"
  /\ UNCHANGED <<input, new_cmd, tty_out, time, text, history>>

\* set_time: sscanf reads the text again
Scan ==
  /\ pc = "sscanf"
  /\ time' = IF Number(StringAt(text, 2)) = << >> THEN time
             ELSE Number(StringAt(text, 2))
  /\ pc' = "finish"
  /\ UNCHANGED <<input, new_cmd, tty_out, text, history>>

\* The default case prints the text, one tick or more after the switch.
PrintUnknown ==
  /\ pc = "unknown"
  /\ pc' = "finish"
  /\ UNCHANGED <<input, new_cmd, tty_out, time, text, history>>

\* app: status.new_cmd = 0, and a form that forgets it.
FinishKeepsFlag ==
  /\ pc = "finish"
  /\ pc' = "echo"
  /\ UNCHANGED <<input, new_cmd, tty_out, time, text, history>>

Finish ==
  /\ pc = "finish"
  /\ new_cmd' = FALSE
  /\ pc' = "echo"
  /\ UNCHANGED <<input, tty_out, time, text, history>>

Main == Echo \/ Poll \/ Fetch \/ Switch \/ Measure \/ Scan \/ PrintUnknown \/ Finish

\* The watchdog resets a main loop that stopped (module Lifecycle): the start-up
\* code clears the static variables and board_init clears status.
Restart ==
  /\ pc \in {"hung", "crashed"}
  /\ cmd' = [h \in Slots |-> [i \in 0 .. MAX_CMD_SIZE |-> NUL]]
  /\ curr_history_idx' = 0 /\ curr_cmd_idx' = 0
  /\ status_cmd' = 0 /\ new_cmd' = FALSE
  /\ tty_out' = 0
  /\ time' = << >>
  /\ pc' = "echo" /\ text' = 0
  /\ entered' = 0 /\ last' = << >> /\ taken' = 0 /\ order' = << >>

Next == Type \/ Main \/ Restart

Spec == Init /\ [][Next]_vars

\* Interrupts are short and the main loop is resumed after them; the watchdog
\* runs on a clock of its own.  Nobody has to type.
FairSpec == Spec /\ WF_vars(Main) /\ WF_vars(Restart)

-----------------------------------------------------------------------------
TypeOK ==
  /\ cmd \in [Slots -> [0 .. MAX_CMD_SIZE -> Keys \union {NUL}]]
  /\ curr_history_idx \in Slots
  /\ curr_cmd_idx \in 0 .. MAX_CMD_SIZE
  /\ status_cmd \in Slots
  /\ new_cmd \in BOOLEAN
  /\ tty_out \in 0 .. EchoRoom
  /\ time \in Seq(Digits)
  /\ pc \in {"echo", "poll", "fetch", "switch", "strlen", "sscanf", "unknown",
             "finish", "hung", "crashed"}
  /\ text \in Slots
  /\ entered \in 0 .. MaxLines
  /\ taken \in 0 .. entered
  /\ last \in Seq(Keys) /\ order \in Seq(Keys)

Executing == pc \in {"switch", "strlen", "sscanf", "unknown", "finish"}

\* Every slot ends in a zero byte at all times, and the line being typed is
\* followed by zero bytes only: no string the main loop reads runs into the next
\* slot, and set_time(cmd + 2) on a short line never finds bytes of an old one.
StringsEnd ==
  /\ \A h \in Slots : cmd[h][MAX_CMD_SIZE] = NUL
  /\ \A i \in curr_cmd_idx .. MAX_CMD_SIZE : cmd[curr_history_idx][i] = NUL
  /\ \A i \in 0 .. curr_cmd_idx - 1 : cmd[curr_history_idx][i] # NUL

\* How many lines were handed over since the main loop took the one it executes.
Behind == entered - taken

\* The text being executed stays the text that was entered, for every read
\* of it, as long as fewer than MAX_CMD_HISTORY - 1 further lines are entered.
TextIntact ==
  Executing /\ Behind < MAX_CMD_HISTORY - 1 => StringAt(text, 0) = order

\* The lines that stop the main loop, and what a line makes of the clock: the
\* digits behind "t ", if it has the exact length and there are any.
Stops(typed) == typed[1] \in {Hang, Crash}

TimeAfter(typed, old) ==
  LET new == Number(SubSeq(typed, 3, Len(typed)))
  IN  IF typed[1] = SetTime /\ Len(typed) = TimestampLen + 2 /\ new # << >> THEN new ELSE old

Doing ==
  IF pc \in {"hung", "crashed"} THEN "stopped"
  ELSE IF pc \in {"switch", "strlen", "sscanf"} THEN "busy"
  ELSE IF pc \in {"unknown", "finish"} THEN "done" ELSE "idle"

\* The whole hand-over keeps the promise of Executor: however process_input and
\* exec_cmd interleave on the shared slots, a line is executed at most once and
\* never after a newer one, sets the clock exactly as typed, and stops the board
\* exactly if it says so, until MAX_CMD_HISTORY - 1 lines are entered behind it.
Promise == INSTANCE Executor WITH
  Lines <- Seq(Keys), NoLine <- << >>, Times <- Seq(Digits), NoTime <- << >>,
  Patience <- MAX_CMD_HISTORY - 1, doing <- Doing

ImplementsExecutor == Promise!Spec

\* A line handed over while no line is being executed is taken up, itself or a
\* newer one in its place, unless the board restarts.  (One handed over during
\* an execution is dropped by the clearing of the flag at its end.)
EnteredLineTaken ==
  \A n \in 1 .. MaxLines :
    (entered = n /\ new_cmd /\ pc \in {"echo", "poll", "fetch"})
      ~> (taken >= n \/ entered < n)
=============================================================================
