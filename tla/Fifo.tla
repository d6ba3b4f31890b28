-------------------------------- MODULE Fifo --------------------------------
(***************************************************************************)
(* What ring.c promises to its two callers: a first-in first-out queue of  *)
(* at most Capacity bytes.  A write is accepted whole or refused whole,    *)
(* and a read delivers the oldest bytes in the order they were written.    *)
(***************************************************************************)
EXTENDS Naturals, Sequences

CONSTANTS
  Blocks,     \* the sequences of bytes that a caller may write
  Capacity    \* how many bytes the queue can hold

VARIABLES
  queue,      \* the bytes written and not yet read, oldest first
  offered,    \* the bytes of an accepted write that are still to be queued
  got,        \* the bytes delivered by the current or last read
  verdict     \* the answer to the last write: "ok", "full" or "no_space"

vars == <<queue, offered, got, verdict>>

Init ==
  /\ queue = << >>
  /\ offered = << >>
  /\ got = << >>
  /\ verdict = "ok"

\* A write that fits is accepted.
Accept(s) ==
  /\ offered = << >>
  /\ Len(queue) + Len(s) <= Capacity
  /\ offered' = s
  /\ verdict' = "ok"
  /\ UNCHANGED <<queue, got>>

\* A write that does not fit leaves the queue as it is.  The two reasons are
\* told apart: no room at all, and less room than asked for.
Refuse(s) ==
  /\ offered = << >>
  /\ \/ Len(queue) = Capacity /\ verdict' = "full"
     \/ /\ Len(queue) < Capacity
        /\ Len(queue) + Len(s) > Capacity
        /\ verdict' = "no_space"
  /\ UNCHANGED <<queue, offered, got>>

\* The next byte of the accepted write becomes readable.
Put ==
  /\ offered # << >>
  /\ Len(queue) < Capacity
  /\ queue' = Append(queue, Head(offered))
  /\ offered' = Tail(offered)
  /\ UNCHANGED <<got, verdict>>

\* A read starts: it has delivered nothing yet.
Ask ==
  /\ got' = << >>
  /\ UNCHANGED <<queue, offered, verdict>>

\* The oldest byte is delivered.
Get ==
  /\ queue # << >>
  /\ got' = Append(got, Head(queue))
  /\ queue' = Tail(queue)
  /\ UNCHANGED <<offered, verdict>>

Next ==
  \/ \E s \in Blocks : Accept(s) \/ Refuse(s)
  \/ Put
  \/ Ask
  \/ Get

Spec == Init /\ [][Next]_vars
=============================================================================
