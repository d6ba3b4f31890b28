------------------------------ MODULE HostTty ------------------------------
(***************************************************************************)
(* The terminal program on the host (tty.cpp): one loop that passes keys   *)
(* from the keyboard to the device and bytes from the device to the        *)
(* screen, opens the serial port again after an error and asks the device  *)
(* for a prompt the first time.                                            *)
(***************************************************************************)
EXTENDS Integers, Sequences

CONSTANTS
  Keys,        \* what the user may type, among the classes of AllKeys
  MaxPresses,     \* bound: how many keys are pressed
  MaxBytes,    \* bound: how many bytes of the device can wait
  MaxUnplugs   \* bound: how often the device is unplugged

\* "x" stands for every key without a case of its own.
AllKeys == {"x", "newline", "delete", "[", "ctrl-d", "nul"}
AllBytes == AllKeys \cup {"return", "backspace", "ctrl-a"}

ASSUME KeyAssumption == Keys \subseteq AllKeys
ASSUME TtyBoundAssumption == MaxPresses \in Nat /\ MaxBytes \in Nat /\ MaxUnplugs \in Nat

VARIABLES
  echo,                   \* ECHO and ICANON of the user's terminal
  at,                     \* where the program is
  show_prompt,            \* as in the code
  stmcool,                \* the Serial object: "none", "good", or "stale" after an unplug
  i,                      \* the bytes that process_input has got from the user
  present, unplugs,       \* the device, and how often it has gone
  fromDevice,             \* how many bytes the device has sent that are not read
  stdin, pressed,           \* keys that are not read yet, and the number of all
  taken,                  \* history: the keys read, by the call of read_stdin
  sent,                   \* history: the writes that reached the device, with their call
  lost                    \* history: how many writes did not

device == <<present, unplugs, fromDevice>>
user == <<stdin, pressed, taken>>
ttyVars == <<echo, at, show_prompt, stmcool, i, device, user, sent, lost>>

TtyInit ==
  /\ echo = TRUE /\ at = "start" /\ show_prompt = TRUE /\ stmcool = "none" /\ i = <<>>
  /\ present \in BOOLEAN /\ unplugs = 0 /\ fromDevice = 0
  /\ stdin = <<>> /\ pressed = 0 /\ taken = <<>> /\ sent = <<>> /\ lost = 0

-----------------------------------------------------------------------------
\* main: the terminal passes each key on as it is pressed.
Start ==
  /\ at = "start"
  /\ echo' = FALSE /\ at' = "open"
  /\ UNCHANGED <<show_prompt, stmcool, i, device, user, sent, lost>>

\* app: the old port is deleted, the constructor of Serial may throw.  main waits
\* and calls app again.
Open ==
  /\ at = "open"
  /\ IF present
       THEN stmcool' = "good" /\ at' = IF show_prompt THEN "prompt" ELSE "poll"
       ELSE stmcool' = "none" /\ UNCHANGED at
  /\ UNCHANGED <<echo, show_prompt, i, device, user, sent, lost>>

\* aWrite, whose result the program does not look at
Write(b, n) ==
  IF stmcool = "good"
    THEN sent' = Append(sent, [bytes |-> b, call |-> n]) /\ UNCHANGED lost
    ELSE lost' = lost + 1 /\ UNCHANGED sent

\* The first time, ctrl-a makes the console print its prompt.
Prompt ==
  /\ at = "prompt"
  /\ Write(<<"ctrl-a">>, 0)
  /\ show_prompt' = FALSE
  /\ at' = "poll"
  /\ UNCHANGED <<echo, stmcool, i, device, user>>

\* process_input: a byte of the device goes first; the poll of a stale port says
\* that there is one.  First a form that waits for one without a time limit, and one
\* that looks at the device only when no key waits.
Pending == fromDevice > 0 \/ stmcool = "stale"

PollWaits ==
  /\ at = "poll" /\ Pending
  /\ at' = "read"
  /\ UNCHANGED <<echo, show_prompt, stmcool, i, device, user, sent, lost>>

PollKeysFirst ==
  /\ at = "poll"
  /\ at' = IF Pending /\ stdin = <<>> THEN "read" ELSE "keys"
  /\ UNCHANGED <<echo, show_prompt, stmcool, i, device, user, sent, lost>>

Poll ==
  /\ at = "poll"
  /\ at' = IF Pending THEN "read" ELSE "keys"
  /\ UNCHANGED <<echo, show_prompt, stmcool, i, device, user, sent, lost>>

\* The byte is read and shown, or the read fails and throws.  First a form that
\* takes a failed read for no byte.
ReadDeviceNoThrow ==
  /\ at = "read"
  /\ fromDevice' = IF stmcool = "good" THEN fromDevice - 1 ELSE fromDevice
  /\ at' = "poll"
  /\ UNCHANGED <<echo, show_prompt, stmcool, i, present, unplugs, user, sent, lost>>

ReadDevice ==
  /\ at = "read"
  /\ IF stmcool = "good"
       THEN fromDevice' = fromDevice - 1 /\ at' = "poll" /\ UNCHANGED stmcool
       ELSE at' = "open" /\ stmcool' = "none" /\ UNCHANGED fromDevice
  /\ UNCHANGED <<echo, show_prompt, i, present, unplugs, user, sent, lost>>

-----------------------------------------------------------------------------
Translate(k) == CASE k = "newline" -> "return" [] k = "delete" -> "backspace" [] OTHER -> k

Take == stdin' = Tail(stdin) /\ UNCHANGED pressed

\* read_stdin: nothing within 10 ms, ...
NoKey ==
  /\ at = "keys" /\ stdin = <<>>
  /\ at' = "poll"
  /\ UNCHANGED <<echo, show_prompt, stmcool, i, device, user, sent, lost>>

\* ... the key that ends the program (sigquit_handler), ...
EndKey ==
  /\ at = "keys" /\ stdin # <<>> /\ Head(stdin) = "nul"
  /\ Take /\ UNCHANGED taken
  /\ echo' = TRUE /\ at' = "exited"
  /\ UNCHANGED <<show_prompt, stmcool, i, device, sent, lost>>

\* ... a key, translated, or the first of a cursor key, ...
ReadKey ==
  /\ at = "keys" /\ stdin # <<>> /\ Head(stdin) # "nul"
  /\ Take /\ taken' = Append(taken, <<Head(stdin)>>)
  /\ i' = <<Translate(Head(stdin))>>
  /\ at' = IF Head(stdin) = "[" THEN "cursor" ELSE "write"
  /\ UNCHANGED <<echo, show_prompt, stmcool, device, sent, lost>>

\* ... whose second byte is waited for and taken as it is; string(b) drops a nul.
\* First a form that does not put the two together.
ReadCursorAlone ==
  /\ at = "cursor" /\ stdin # <<>>
  /\ Take /\ taken' = [taken EXCEPT ![Len(taken)] = Append(@, Head(stdin))]
  /\ i' = <<Head(stdin)>>
  /\ at' = "write"
  /\ UNCHANGED <<echo, show_prompt, stmcool, device, sent, lost>>

ReadCursor ==
  /\ at = "cursor" /\ stdin # <<>>
  /\ Take /\ taken' = [taken EXCEPT ![Len(taken)] = Append(@, Head(stdin))]
  /\ i' = IF Head(stdin) = "nul" THEN i ELSE Append(i, Head(stdin))
  /\ at' = "write"
  /\ UNCHANGED <<echo, show_prompt, stmcool, device, sent, lost>>

\* app: the keys go to the device.
WriteKeys ==
  /\ at = "write"
  /\ Write(i, Len(taken))
  /\ i' = <<>> /\ at' = "poll"
  /\ UNCHANGED <<echo, show_prompt, stmcool, device, user>>

Program ==
  Start \/ Open \/ Prompt \/ Poll \/ ReadDevice \/ NoKey \/ EndKey \/ ReadKey
    \/ ReadCursor \/ WriteKeys

-----------------------------------------------------------------------------
\* The world around it: SIGINT, SIGTERM or SIGQUIT at any time, the user, the
\* device and its plug.
Signal ==
  /\ at # "exited"
  /\ echo' = TRUE /\ at' = "exited"
  /\ UNCHANGED <<show_prompt, stmcool, i, device, user, sent, lost>>

Press(k) ==
  /\ pressed < MaxPresses
  /\ stdin' = Append(stdin, k) /\ pressed' = pressed + 1
  /\ UNCHANGED <<echo, at, show_prompt, stmcool, i, device, taken, sent, lost>>

DeviceSends ==
  /\ stmcool = "good" /\ fromDevice < MaxBytes
  /\ fromDevice' = fromDevice + 1
  /\ UNCHANGED <<echo, at, show_prompt, stmcool, i, present, unplugs, user, sent, lost>>

Unplug ==
  /\ present /\ unplugs < MaxUnplugs
  /\ present' = FALSE /\ unplugs' = unplugs + 1 /\ fromDevice' = 0
  /\ stmcool' = IF stmcool = "good" THEN "stale" ELSE stmcool
  /\ UNCHANGED <<echo, at, show_prompt, i, user, sent, lost>>

Plug ==
  /\ ~present
  /\ present' = TRUE
  /\ UNCHANGED <<echo, at, show_prompt, stmcool, i, unplugs, fromDevice, user, sent, lost>>

World == Signal \/ (\E k \in Keys : Press(k)) \/ DeviceSends \/ Unplug \/ Plug

TtyNext == Program \/ World

TtySpec == TtyInit /\ [][TtyNext]_ttyVars

\* The operating system runs the program.
TtyFairSpec == TtySpec /\ WF_ttyVars(Program)

-----------------------------------------------------------------------------
TtyTypeOK ==
  /\ echo \in BOOLEAN /\ show_prompt \in BOOLEAN /\ present \in BOOLEAN
  /\ at \in {"start", "open", "prompt", "poll", "read", "keys", "cursor", "write", "exited"}
  /\ stmcool \in {"none", "good", "stale"}
  /\ stdin \in Seq(AllKeys) /\ i \in Seq(AllBytes) /\ taken \in Seq(Seq(AllKeys))
  /\ sent \in Seq([bytes : Seq(AllBytes), call : Nat])
  /\ unplugs \in 0 .. MaxUnplugs /\ fromDevice \in 0 .. MaxBytes
  /\ pressed \in 0 .. MaxPresses /\ lost \in Nat

\* What the device should get for the keys of one call of read_stdin.
Whole(keys) ==
  IF Len(keys) = 2
    THEN IF keys[2] = "nul" THEN <<keys[1]>> ELSE keys
    ELSE <<Translate(keys[1])>>

\* What a call reads: a key, or a "[" and its successor.
IsCall(keys) == Len(keys) = (IF keys[1] = "[" THEN 2 ELSE 1)

\* Every write the device gets is the keys of one call, translated where a key is
\* not the second of a pair, and a pair in one write, which the device needs to see
\* a cursor key; the writes come in the order of the calls and none comes twice.
\* The request for a prompt is the first write or none, however often the port is
\* lost and opened again.  What was read and has not been written is in the
\* program's hand or counted as lost.
KeysInOrder ==
  /\ \A n \in 1 .. Len(sent) :
       LET c == sent[n].call
       IN  IF c = 0 THEN n = 1 /\ sent[n].bytes = <<"ctrl-a">>
           ELSE /\ c <= Len(taken) /\ IsCall(taken[c])
                /\ sent[n].bytes = Whole(taken[c])
                /\ n > 1 => sent[n - 1].call < c
  /\ Len(sent) + lost + (IF i = <<>> THEN 0 ELSE 1)
       = Len(taken) + (IF show_prompt THEN 0 ELSE 1)

\* A lost port costs at most one write, of a key or of the prompt: the next poll
\* notices, before another key is read.
LossBounded == lost <= unplugs

\* A lost port is noticed, unless the program is waiting for the second byte of a
\* cursor key or has ended.
LossNoticed == stmcool = "stale" ~> (stmcool # "stale" \/ at \in {"cursor", "exited"})

\* The keyboard is served whenever the device is silent: with the device there and
\* nothing from it from some time on, every key is read in the end.  (A device that
\* never stops starves the keyboard, even of the key that ends the program.)
KeysServedWhenSilent ==
  <>[](~Pending /\ present) => <>[](stdin = <<>> \/ at = "exited")

\* "if (!b[0]) // ctrl-d": ctrl-d ends the program and does not reach the device.
CtrlDEnds == \A n \in 1 .. Len(sent) : sent[n].bytes # <<"ctrl-d">>
=============================================================================
