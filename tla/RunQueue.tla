------------------------------ MODULE RunQueue ------------------------------
(***************************************************************************)
(* What the scheduler promises: one first-come first-served queue of ready *)
(* threads per priority, a thread that yields goes to the back of its      *)
(* queue, and whoever heads the highest non-empty queue is picked to run.  *)
(***************************************************************************)
EXTENDS Integers, Sequences

CONSTANTS Thread, MaxPriority, IdleThread

VARIABLES queue, running

vars == <<queue, running>>

Priority == 0 .. MaxPriority

Queued(t, p) == \E n \in DOMAIN queue[p] : queue[p][n] = t

\* The head of the highest non-empty queue of q.
Choice(q) ==
  Head(q[CHOOSE p \in Priority :
           q[p] # << >> /\ \A r \in Priority : q[r] # << >> => r <= p])

Init ==
  /\ queue = [p \in Priority |-> IF p = 0 THEN <<IdleThread>> ELSE << >>]
  /\ running = IdleThread

\* Becoming ready and leaving do not take the processor from the thread that
\* has it: only Change, Yield and Pick choose.
Enter(t, p) ==
  /\ \A r \in Priority : ~Queued(t, r)
  /\ queue' = [queue EXCEPT ![p] = Append(@, t)]
  /\ UNCHANGED running

Leave(t, p) ==
  /\ Queued(t, p)
  /\ queue' = [queue EXCEPT ![p] = SelectSeq(@, LAMBDA u : u # t)]
  /\ UNCHANGED running

Change(t, p, r) ==
  /\ Queued(t, p)
  /\ t = running
  /\ p # r
  /\ queue' = [queue EXCEPT ![p] = SelectSeq(@, LAMBDA u : u # t),
                            ![r] = Append(@, t)]
  /\ running' = Choice(queue')

\* Only a thread at the head of its queue has a turn to give up.
Yield(p) ==
  /\ queue[p] # << >>
  /\ Head(queue[p]) = running
  /\ queue' = [queue EXCEPT ![p] = Append(Tail(@), Head(@))]
  /\ running' = Choice(queue')

Pick ==
  /\ running' = Choice(queue)
  /\ UNCHANGED queue

Next ==
  \/ \E t \in Thread, p \in Priority : Enter(t, p)
  \/ \E t \in Thread, p \in Priority : Leave(t, p)
  \/ \E t \in Thread, p, r \in Priority : Change(t, p, r)
  \/ \E p \in Priority : Yield(p)
  \/ Pick

Spec == Init /\ [][Next]_vars
=============================================================================
