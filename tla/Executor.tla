------------------------------ MODULE Executor ------------------------------
(***************************************************************************)
(* What the command line of app.c promises its user: lines are handed over *)
(* while one of them is executed; one line is executed at a time, each at  *)
(* most once, always the newest, and exactly as it was typed as long as    *)
(* not too many lines are handed over behind it.  Slots, indices, zero     *)
(* bytes and the flag of the code do not appear here.                      *)
(***************************************************************************)
EXTENDS Naturals

CONSTANTS
  Lines, Times,       \* the lines a user can hand over, the values of the clock
  NoLine, NoTime,     \* ... and none yet
  Patience,           \* so many lines behind the running one, and it may be spoilt
  Stops(_),           \* the lines that end in a reset of the board
  TimeAfter(_, _)     \* the clock after a line, and before it

VARIABLES
  entered, last,      \* the lines handed over since the reset, and the newest
  taken, order,       \* the number and the text of the line executed last
  time,               \* the clock
  doing               \* "idle", "busy" before the effect, "done", "stopped"

vars == <<entered, last, taken, order, time, doing>>

Init ==
  /\ entered = 0 /\ last = NoLine
  /\ taken = 0 /\ order = NoLine
  /\ time = NoTime
  /\ doing = "idle"

HandOver ==
  /\ last' \in Lines \ {NoLine}
  /\ entered' = entered + 1
  /\ UNCHANGED <<taken, order, time, doing>>

\* Older lines that were not taken are dropped for good.
Take ==
  /\ doing = "idle"
  /\ taken < entered
  /\ taken' = entered /\ order' = last
  /\ doing' = "busy"
  /\ UNCHANGED <<entered, last, time>>

Spoilt == entered - taken >= Patience

CarryOut ==
  /\ doing = "busy"
  /\ \/ Spoilt /\ time' \in Times
     \/ ~Stops(order) /\ time' = TimeAfter(order, time)
  /\ doing' = "done"
  /\ UNCHANGED <<entered, last, taken, order>>

Stop ==
  /\ doing = "busy"
  /\ Spoilt \/ Stops(order)
  /\ doing' = "stopped"
  /\ UNCHANGED <<entered, last, taken, order, time>>

Finish ==
  /\ doing = "done"
  /\ doing' = "idle"
  /\ UNCHANGED <<entered, last, taken, order, time>>

Reset ==
  /\ doing = "stopped"
  /\ entered' = 0 /\ last' = NoLine
  /\ taken' = 0 /\ order' = NoLine
  /\ time' = NoTime
  /\ doing' = "idle"

Next == HandOver \/ Take \/ CarryOut \/ Stop \/ Finish \/ Reset

Spec == Init /\ [][Next]_vars
=============================================================================
