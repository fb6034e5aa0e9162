----------------------------- MODULE DisplayLock -----------------------------
(***************************************************************************)
(* What the display promises to the threads that share it: one holder, and *)
(* those who wait get it in the order in which they asked.  A thread that  *)
(* dies leaves the line, and gives up the display if it holds it.          *)
(***************************************************************************)
EXTENDS Naturals, Sequences

CONSTANTS Thread, NoOne

VARIABLES holder, line

lockVars == <<holder, line>>

Init == holder = NoOne /\ line = <<>>

InLine(t) == \E k \in 1 .. Len(line) : line[k] = t

Take(t) ==
  /\ holder = NoOne
  /\ holder' = t
  /\ UNCHANGED line

QueueUp(t) ==
  /\ holder # NoOne /\ ~InLine(t)
  /\ line' = Append(line, t)
  /\ UNCHANGED holder

\* The display goes to the first in the line q, if there is one.
PassOn(q) ==
  IF q = <<>> THEN holder' = NoOne /\ line' = <<>>
  ELSE holder' = Head(q) /\ line' = Tail(q)

GiveUp == holder # NoOne /\ PassOn(line)

\* The threads of S are no more.
Leave(S) ==
  LET rest == SelectSeq(line, LAMBDA t : t \notin S)
  IN IF holder \in S THEN PassOn(rest) ELSE line' = rest /\ UNCHANGED holder

Next ==
  \/ \E t \in Thread : Take(t) \/ QueueUp(t)
  \/ GiveUp
  \/ \E S \in SUBSET Thread : Leave(S)

Spec == Init /\ [][Next]_lockVars
=============================================================================
