------------------------------ MODULE Terminal ------------------------------
(***************************************************************************)
(* What the user sees: the command line (app.c), the echo ring and the     *)
(* serial link composed.  The USB interrupt edits the line and queues the  *)
(* echo of a key, but answers a backspace, an empty line and the cursor    *)
(* keys by itself; the main loop echoes one byte of the ring per pass and  *)
(* prints the output of commands.  Both send through the one buffer of     *)
(* usb_cdc_send, and nobody looks at its result.                           *)
(*                                                                         *)
(* The line is a sequence of key numbers (Console shows that a slot holds  *)
(* just that), the ring a bounded queue (Ring implements Fifo), a message  *)
(* one packet on a port that stays open (CdcLink has the others).          *)
(***************************************************************************)
EXTENDS Naturals, Sequences, SequencesExt

CONSTANTS
  MAX_CMD_SIZE,
  EchoRoom,      \* RING_BUFFER_SIZE - 1
  MaxText,       \* bound: the most texts a command prints before the prompt
  MaxKeys        \* bound: how many keys are stored in the line in all

ASSUME SizeAssumption == MAX_CMD_SIZE \in Nat \ {0} /\ EchoRoom \in Nat \ {0}
ASSUME BoundAssumption == MaxText \in Nat \ {0} /\ MaxKeys \in Nat

VARIABLES
  line,            \* the keys of cmd[curr_history_idx] up to curr_cmd_idx
  tty_out,         \* the echo ring, by key number
  new_cmd,         \* status.new_cmd
  pc, say, left,   \* the main loop, what it sends, texts of the command to come
  tx_b, TxLength,  \* the buffer of usb_cdc_send, and the length for the class
  ep,              \* the packet waiting for the host; TxState is 1 while there is one
  shown,           \* the keys on the screen's last line
  told,            \* history: the last echo fetched
  typed,           \* history: keys stored so far
  cut,             \* history: a prompt was shown under the line
  patient,         \* history: every byte was typed after the answer to the one before
  alone,           \* history: no byte crossed an answer that the interrupt gave itself
  late,            \* history: the host took longer for a packet than HAL_Delay(1)
  refused          \* history: a message was refused

edit == <<line, tty_out, new_cmd, typed, cut>>
main == <<pc, say, left>>
link == <<tx_b, TxLength, ep>>
screen == <<shown, told>>
manners == <<patient, alone>>
vars == <<edit, main, link, screen, manners, late, refused>>

Text(w) == [what |-> w, key |-> 0]
Echo(k) == [what |-> "echo", key |-> k]
NoMsg == Text("none")
Bytes(m) ==
  CASE m.what \in {"echo", "clear"} -> 1 [] m.what \in {"erase", "prompt"} -> 3
    [] m.what = "todo" -> 11 [] OTHER -> 0      \* 0 stands for any other length

Settled ==
  tty_out = <<>> /\ ~new_cmd /\ ep = NoMsg /\ pc \in {"read", "delay", "command"}

\* An answer of the interrupt waits for the host.
Answering == ep.what \in {"erase", "clear", "todo"} \/ (ep.what = "prompt" /\ ~new_cmd)

Queued == patient' = (patient /\ Settled) /\ alone' = (alone /\ ~Answering)

Init ==
  /\ line = <<>> /\ tty_out = <<>> /\ new_cmd = FALSE /\ typed = 0 /\ cut = FALSE
  /\ pc = "read" /\ say = NoMsg /\ left = 0
  /\ tx_b = NoMsg /\ TxLength = 0 /\ ep = NoMsg
  /\ shown = <<>> /\ told = 0
  /\ patient = TRUE /\ alone = TRUE /\ late = FALSE /\ refused = FALSE

-----------------------------------------------------------------------------
\* The USB interrupt sends a message whole, or it is refused.
Send(m) ==
  IF ep # NoMsg
    THEN refused' = TRUE /\ UNCHANGED link
    ELSE tx_b' = m /\ TxLength' = Bytes(m) /\ ep' = m /\ UNCHANGED refused

Answer(m) ==
  /\ Send(m)
  /\ patient' = (patient /\ Settled) /\ alone' = (alone /\ Settled)
  /\ UNCHANGED <<tty_out, typed, main, screen, late>>

\* ring_write of one byte: a full ring refuses it.
Written(k) == IF Len(tty_out) < EchoRoom THEN Append(tty_out, k) ELSE tty_out

\* process_input, any key: on a full line it is taken back (and the buzzer
\* sounds), else stored and queued for the echo.  First two forms, one that
\* queues it always and one that sends past a full ring.
KeyEchoedAlways ==
  /\ typed < MaxKeys
  /\ typed' = typed + 1
  /\ line' = IF Len(line) = MAX_CMD_SIZE THEN line ELSE Append(line, typed')
  /\ tty_out' = Written(typed')
  /\ Queued
  /\ UNCHANGED <<new_cmd, cut, main, link, screen, late, refused>>

KeySentIfFull ==
  /\ typed < MaxKeys /\ Len(line) < MAX_CMD_SIZE
  /\ typed' = typed + 1
  /\ line' = Append(line, typed')
  /\ tty_out' = Written(typed')
  /\ IF Len(tty_out) < EchoRoom THEN UNCHANGED <<link, refused>> ELSE Send(Echo(typed'))
  /\ Queued
  /\ UNCHANGED <<new_cmd, cut, main, screen, late>>

Key ==
  /\ typed < MaxKeys
  /\ IF Len(line) = MAX_CMD_SIZE
       THEN UNCHANGED <<line, tty_out, typed>>
       ELSE typed' = typed + 1 /\ line' = Append(line, typed') /\ tty_out' = Written(typed')
  /\ Queued
  /\ UNCHANGED <<new_cmd, cut, main, link, screen, late, refused>>

\* 0x8 with text in the line sends "\b \b" past the echoes that wait.
Backspace ==
  /\ line # <<>>
  /\ line' = Front(line)
  /\ Answer(Text("erase"))
  /\ UNCHANGED <<new_cmd, cut>>

\* '\r' on a line with text hands it over ...
Enter ==
  /\ line # <<>>
  /\ line' = <<>> /\ new_cmd' = TRUE /\ cut' = FALSE
  /\ Queued
  /\ UNCHANGED <<tty_out, typed, main, link, screen, late, refused>>

\* ... and on an empty one, like 0x1 on any, asks for a prompt.
Blank ==
  /\ line' = <<>> /\ cut' = FALSE
  /\ Answer(Text("prompt"))
  /\ UNCHANGED new_cmd

\* 0xC goes back to the terminal, and the line stays as it is.
Clear ==
  /\ Answer(Text("clear"))
  /\ UNCHANGED <<line, new_cmd, cut>>

\* A cursor key is answered "todo" and a prompt: the line stays, but not on the
\* screen's last line.
Cursor ==
  /\ cut' = TRUE
  /\ Answer(Text("todo"))
  /\ UNCHANGED <<line, new_cmd>>

-----------------------------------------------------------------------------
\* app: one byte of the ring, if there is one, ...
Read ==
  /\ pc = "read"
  /\ IF tty_out = <<>>
       THEN pc' = "command" /\ UNCHANGED <<tty_out, say>>
       ELSE /\ say' = Echo(Head(tty_out)) /\ tty_out' = Tail(tty_out)
            /\ pc' = "free"
  /\ UNCHANGED <<line, new_cmd, typed, cut, left, link, screen, manners, late, refused>>

\* ... then the command, if there is one: up to MaxText texts and the prompt.
Command ==
  /\ pc = "command"
  /\ IF new_cmd
       THEN pc' = "exec" /\ \E n \in 1 .. MaxText : left' = n + 1
       ELSE pc' = "read" /\ UNCHANGED left
  /\ UNCHANGED <<edit, say, link, screen, manners, late, refused>>

\* exec_cmd on a line that begins with r or R: it spins, or faults, and comes back
\* with the watchdog's reset only (Lifecycle).  Interrupts go on below an r; after
\* a hard fault none runs, which is a terminal where nobody types.
Stop ==
  /\ pc = "command" /\ new_cmd
  /\ pc' = "stopped"
  /\ UNCHANGED <<edit, say, left, link, screen, manners, late, refused>>

\* exec_cmd sends its next text; at its end app clears new_cmd.  First a form of
\* app that leaves it.
ExecKeepsFlag ==
  /\ pc = "exec"
  /\ IF left = 0
       THEN pc' = "read" /\ UNCHANGED <<say, left>>
       ELSE /\ say' = Text(IF left = 1 THEN "prompt" ELSE "output")
            /\ left' = left - 1 /\ pc' = "free"
  /\ UNCHANGED <<edit, link, screen, manners, late, refused>>

Exec ==
  /\ pc = "exec"
  /\ IF left = 0
       THEN pc' = "read" /\ new_cmd' = FALSE /\ UNCHANGED <<say, left>>
       ELSE /\ say' = Text(IF left = 1 THEN "prompt" ELSE "output")
            /\ left' = left - 1 /\ pc' = "free" /\ UNCHANGED new_cmd
  /\ UNCHANGED <<line, tty_out, typed, cut, link, screen, manners, late, refused>>

\* usb_cdc_send by the main loop, open to the interrupt between its steps: the
\* test of TxState, ...
TestFree ==
  /\ pc = "free"
  /\ IF ep # NoMsg THEN pc' = "delay" /\ refused' = TRUE
                   ELSE pc' = "copy" /\ UNCHANGED refused
  /\ UNCHANGED <<edit, say, left, link, screen, manners, late>>

\* ... memcpy, the length, ...
Copy ==
  /\ pc = "copy"
  /\ tx_b' = say /\ pc' = "length"
  /\ UNCHANGED <<edit, say, left, TxLength, ep, screen, manners, late, refused>>

SetLength ==
  /\ pc = "length"
  /\ TxLength' = Bytes(say) /\ pc' = "test"
  /\ UNCHANGED <<edit, say, left, tx_b, ep, screen, manners, late, refused>>

\* ... and USBD_CDC_TransmitPacket: its own test and the start.  A length that is
\* not the text's sends a fragment or a mixture.
TestTx ==
  /\ pc = "test"
  /\ IF ep # NoMsg THEN pc' = "delay" /\ refused' = TRUE
                   ELSE pc' = "start" /\ UNCHANGED refused
  /\ UNCHANGED <<edit, say, left, link, screen, manners, late>>

StartTx ==
  /\ pc = "start"
  /\ ep' = IF Bytes(tx_b) = TxLength THEN tx_b ELSE Text("fragment")
  /\ pc' = "delay"
  /\ UNCHANGED <<edit, say, left, tx_b, TxLength, screen, manners, late, refused>>

\* HAL_Delay(1) gives the host a millisecond, and no more; first a form that
\* does not wait.
NoDelay ==
  /\ pc = "delay"
  /\ pc' = IF say.what = "echo" THEN "command" ELSE "exec"
  /\ say' = NoMsg
  /\ UNCHANGED <<edit, left, link, screen, manners, late, refused>>

Delay ==
  /\ pc = "delay"
  /\ late' = (late \/ ep # NoMsg)
  /\ pc' = IF say.what = "echo" THEN "command" ELSE "exec"
  /\ say' = NoMsg
  /\ UNCHANGED <<edit, left, link, screen, manners, refused>>

-----------------------------------------------------------------------------
\* The screen after a message, as the host program shows it: the key, or one key
\* less, or a new line.  It drops 0xC, its clearing of the screen is still to do.
Fetched(m, text) ==
  CASE m.what = "echo" -> Append(text, m.key)
    [] m.what = "erase" -> IF text = <<>> THEN <<>> ELSE Front(text)
    [] m.what \in {"clear", "fragment", "none"} -> text
    [] OTHER -> <<>>

\* The host fetches the packet and shows it.
DataIn ==
  /\ ep # NoMsg
  /\ ep' = NoMsg
  /\ told' = IF ep.what = "echo" THEN ep.key ELSE told
  /\ shown' = Fetched(ep, shown)
  /\ UNCHANGED <<edit, main, tx_b, TxLength, manners, late, refused>>

Type == Key \/ Backspace \/ Enter \/ Blank \/ Clear \/ Cursor
Main ==
  Read \/ Command \/ Stop \/ Exec \/ TestFree \/ Copy \/ SetLength \/ TestTx \/ StartTx
  \/ Delay

Next == Type \/ Main \/ DataIn

Spec == Init /\ [][Next]_vars

\* The main loop is resumed after interrupts, and the host polls an open port.
FairSpec == Spec /\ WF_vars(Main) /\ WF_vars(DataIn)

-----------------------------------------------------------------------------
Sending == pc \in {"free", "copy", "length", "test", "start"}

Message ==
  [what : {"none", "echo", "erase", "clear", "todo", "prompt", "output", "fragment"},
   key : 0 .. MaxKeys]

TypeOK ==
  /\ line \in Seq(1 .. MaxKeys) /\ Len(line) <= MAX_CMD_SIZE
  /\ tty_out \in Seq(1 .. MaxKeys) /\ Len(tty_out) <= EchoRoom
  /\ pc \in {"read", "command", "exec", "delay", "stopped"} \/ Sending
  /\ left \in 0 .. MaxText + 1 /\ typed \in 0 .. MaxKeys /\ told \in 0 .. MaxKeys
  /\ shown \in Seq(1 .. MaxKeys)
  /\ \A m \in {say, tx_b, ep} : m \in Message /\ (m.key # 0 <=> m.what = "echo")
  /\ TxLength \in Nat
  /\ {new_cmd, cut, patient, alone, late, refused} \subseteq BOOLEAN

\* An echo is shown at most once and never before an older one, whatever the
\* interrupt sends in between: what waits in the ring, in the hand of the main
\* loop and on the wire is younger than what was fetched, and in this order.
EchoesInOrder ==
  LET wire == IF ep.what = "echo" THEN <<ep.key>> ELSE <<>>
      hand == IF Sending /\ say.what = "echo" THEN <<say.key>> ELSE <<>>
      way == <<told>> \o wire \o hand \o tty_out
  IN  \A i \in 1 .. Len(way) - 1 : way[i] < way[i + 1]

\* A user who waits for the answer to each byte sees the line that is being
\* edited, or what was typed of it since the answer to a cursor key cut it off.
PatientSeesLine ==
  patient /\ Settled => IF cut THEN IsSuffix(shown, line) ELSE shown = line

\* The delay after each message of the main loop is enough to lose none, if the
\* host fetches each packet within it and the interrupt answers only a settled
\* terminal.  Keys may be typed at any speed, also during a command.
PacedNothingRefused == alone /\ ~late => ~refused

\* The terminal settles on every byte of a user who waits for it, and each
\* queued echo leaves the ring, also if he does not; unless a line that begins
\* with r or R was executed, after which the main loop does nothing.
Answered ==
  /\ patient /\ ~Settled ~> Settled \/ ~patient \/ pc = "stopped"
  /\ \A k \in 1 .. MaxKeys :
       k \in ToSet(tty_out) ~> k \notin ToSet(tty_out) \/ pc = "stopped"
=============================================================================
