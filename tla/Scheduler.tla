------------------------------ MODULE Scheduler ------------------------------
(***************************************************************************)
(* The run queues of xous/kernel/src/scheduler.rs: per priority a circular *)
(* doubly linked list of ready threads with a head pointer, plus the       *)
(* highest priority that has one.  The lists are the three arrays of the   *)
(* Scheduler struct; every step below is the list surgery of the code.     *)
(*                                                                         *)
(* Process::set_thread_state and set_thread_priority are the only callers  *)
(* of ready_thread and park_thread; a system call is a series of such      *)
(* calls, most often ended by activate_current.  Kernel futures are left   *)
(* to module Kernel: here activate_current picks the head of the highest   *)
(* queue.  in_irq_handler stays false: nothing on AArch64 readies IRQ_TID. *)
(***************************************************************************)
EXTENDS Integers, FiniteSets, Sequences

CONSTANTS
  Thread,        \* (pid, tid) pairs, the kernel's idle thread included
  MaxPriority,   \* ThreadPriority::Highest
  AppDefault,    \* ThreadPriority::AppDefault
  IdleThread,    \* thread 1 of PID 1, always ready, at priority Idle
  NoThread       \* None

ASSUME PriorityAssumption == MaxPriority \in Nat /\ AppDefault \in 1 .. MaxPriority
ASSUME IdleAssumption == IdleThread \in Thread /\ NoThread \notin Thread

Priority == 0 .. MaxPriority

VARIABLES
  queue_heads,             \* queue_heads, per priority
  next, prev,              \* links
  highest_ready_priority,
  ready,                   \* the threads in ThreadState::Ready
  priority,                \* thread_priorities
  running                  \* the thread whose context will be loaded

lists == <<queue_heads, next, prev, highest_ready_priority>>
vars == <<queue_heads, next, prev, highest_ready_priority, ready, priority, running>>

-----------------------------------------------------------------------------
(* The lists as one value, so that park and ready can be composed.         *)

Lists == [heads |-> queue_heads, next |-> next, prev |-> prev,
          highest |-> highest_ready_priority]

SetLists(l) ==
  /\ queue_heads' = l.heads
  /\ next' = l.next
  /\ prev' = l.prev
  /\ highest_ready_priority' = l.highest

\* Faulty variants: the thread is left in a circle of its own; it is put behind
\* the head instead of before it.
ReadyThreadApart(l, t, p) ==
  [heads |-> [l.heads EXCEPT ![p] = IF @ = NoThread THEN t ELSE @],
   next |-> [l.next EXCEPT ![t] = t],
   prev |-> [l.prev EXCEPT ![t] = t],
   highest |-> IF l.highest < p THEN p ELSE l.highest]

ReadyThreadBehindHead(l, t, p) ==
  LET h == l.heads[p]
  IN IF h = NoThread
     THEN [heads |-> [l.heads EXCEPT ![p] = t],
           next |-> [l.next EXCEPT ![t] = t],
           prev |-> [l.prev EXCEPT ![t] = t],
           highest |-> IF l.highest < p THEN p ELSE l.highest]
     ELSE [l EXCEPT !.next = [@ EXCEPT ![h] = t, ![t] = l.next[h]],
                    !.prev = [@ EXCEPT ![l.next[h]] = t, ![t] = h]]

\* ready_thread: alone in its circle, or just before the head of it.
ReadyThread(l, t, p) ==
  LET h == l.heads[p]
  IN IF h = NoThread
     THEN [heads |-> [l.heads EXCEPT ![p] = t],
           next |-> [l.next EXCEPT ![t] = t],
           prev |-> [l.prev EXCEPT ![t] = t],
           highest |-> IF l.highest < p THEN p ELSE l.highest]
     ELSE [l EXCEPT !.prev = [@ EXCEPT ![h] = t, ![t] = l.prev[h]],
                    !.next = [@ EXCEPT ![l.prev[h]] = t, ![t] = h]]

\* Faulty variant: the lowest non-empty queue, not the next one down.
LowestBelow(heads, p) ==
  LET below == {r \in 0 .. p - 1 : heads[r] # NoThread}
  IN IF below = {} THEN 0 ELSE CHOOSE r \in below : \A q \in below : r <= q

\* The fallback of highest_ready_priority when queue p runs dry.
HighestBelow(heads, p) ==
  LET below == {r \in 0 .. p - 1 : heads[r] # NoThread}
  IN IF below = {} THEN 0 ELSE CHOOSE r \in below : \A q \in below : q <= r

ParkThread(l, t, p) ==
  LET n == l.next[t]
      b == l.prev[t]
      heads == [l.heads EXCEPT ![p] = NoThread]
  IN IF n = t
     THEN [heads |-> heads,
           next |-> [l.next EXCEPT ![t] = NoThread],
           prev |-> [l.prev EXCEPT ![t] = NoThread],
           highest |-> IF p = l.highest THEN HighestBelow(heads, p) ELSE l.highest]
     ELSE [l EXCEPT !.heads[p] = IF @ = t THEN n ELSE @,
                    !.next = [@ EXCEPT ![t] = NoThread, ![b] = n],
                    !.prev = [@ EXCEPT ![t] = NoThread, ![n] = b]]

\* Faulty variant: the head of the queue stays.
YieldThreadKept(l, t, p) == l

YieldThread(l, t, p) ==
  IF l.heads[p] = t THEN [l EXCEPT !.heads[p] = l.next[t]] ELSE l

-----------------------------------------------------------------------------
Init ==
  /\ queue_heads = [p \in Priority |-> IF p = 0 THEN IdleThread ELSE NoThread]
  /\ next = [t \in Thread |-> IF t = IdleThread THEN t ELSE NoThread]
  /\ prev = [t \in Thread |-> IF t = IdleThread THEN t ELSE NoThread]
  /\ highest_ready_priority = 0
  /\ ready = {IdleThread}
  /\ priority = [t \in Thread |-> IF t = IdleThread THEN 0 ELSE AppDefault]
  /\ running = IdleThread

\* set_thread_state(t, Ready): a thread is woken by a system call or an
\* interrupt.
SetReady(t) ==
  /\ t \notin ready
  /\ ready' = ready \cup {t}
  /\ SetLists(ReadyThread(Lists, t, priority[t]))
  /\ UNCHANGED <<priority, running>>

\* set_thread_state(t, s) with s # Ready: a system call suspends or frees t.
\* The idle thread makes no system call that does.
SetNotReady(t) ==
  /\ t \in ready \ {IdleThread}
  /\ ready' = ready \ {t}
  /\ SetLists(ParkThread(Lists, t, priority[t]))
  /\ UNCHANGED <<priority, running>>

\* set_thread_priority of a Ready thread.
ChangePriority(l, t, p, q) ==
  IF p = q THEN l ELSE ReadyThread(ParkThread(l, t, p), t, q)

\* Process::new gives every thread the default priority; the first one is
\* made Ready.
NewProcess(t) ==
  /\ t \notin ready
  /\ ready' = ready \cup {t}
  /\ priority' = [priority EXCEPT ![t] = AppDefault]
  /\ SetLists(ReadyThread(Lists, t, AppDefault))
  /\ UNCHANGED running

\* create_thread: the new thread is queued at the priority its slot was left
\* with, then moved to that of its parent, the current thread.
CreateThread(t) ==
  LET l == ReadyThread(Lists, t, priority[t])
  IN /\ t \notin ready
     /\ running \in ready \ {IdleThread}
     /\ ready' = ready \cup {t}
     /\ priority' = [priority EXCEPT ![t] = priority[running]]
     /\ SetLists(ChangePriority(l, t, priority[t], priority[running]))
     /\ UNCHANGED running

\* SetThreadPriority, by the current thread for itself.  Idle is refused.
SetThreadPriority(p) ==
  LET l == ChangePriority(Lists, running, priority[running], p)
  IN /\ running \in ready \ {IdleThread}
     /\ p # 0
     /\ priority' = [priority EXCEPT ![running] = p]
     /\ SetLists(l)
     /\ running' = l.heads[l.highest]
     /\ UNCHANGED ready

\* activate_current, at the end of a system call.
ActivateCurrent ==
  /\ running' = queue_heads[highest_ready_priority]
  /\ UNCHANGED <<lists, ready, priority>>

\* The Yield system call, or the timer interrupting the current thread.
Yield ==
  LET l == YieldThread(Lists, running, priority[running])
  IN /\ SetLists(l)
     /\ running' = l.heads[l.highest]
     /\ UNCHANGED <<ready, priority>>

Next ==
  \/ \E t \in Thread : SetReady(t)
  \/ \E t \in Thread : SetNotReady(t)
  \/ \E t \in Thread : NewProcess(t)
  \/ \E t \in Thread : CreateThread(t)
  \/ \E p \in Priority : SetThreadPriority(p)
  \/ ActivateCurrent
  \/ Yield

Spec == Init /\ [][Next]_vars

\* The timer keeps interrupting whoever runs.
FairSpec == Spec /\ WF_vars(Yield)

-----------------------------------------------------------------------------
(* Properties *)

\* Type correctness; in particular activate_current always finds a thread.
TypeOK ==
  /\ queue_heads \in [Priority -> Thread \cup {NoThread}]
  /\ next \in [Thread -> Thread \cup {NoThread}]
  /\ prev \in [Thread -> Thread \cup {NoThread}]
  /\ highest_ready_priority \in Priority
  /\ ready \in SUBSET Thread
  /\ priority \in [Thread -> Priority]
  /\ running \in Thread

\* The "expect"s and the "Thread linked twice" assert of ready_thread,
\* park_thread and yield_thread: a thread has links iff it is Ready, the links
\* of a Ready thread lead to Ready threads of its own priority and back, and
\* a queue has a head, of that priority, iff some thread of it is Ready.
LinksSound ==
  /\ \A t \in Thread \ ready : next[t] = NoThread /\ prev[t] = NoThread
  /\ \A t \in ready :
       /\ next[t] \in ready /\ prev[next[t]] = t
       /\ prev[t] \in ready /\ next[prev[t]] = t
       /\ priority[next[t]] = priority[t]
       /\ priority[prev[t]] = priority[t]
  /\ \A p \in Priority :
       IF queue_heads[p] = NoThread
       THEN \A t \in ready : priority[t] # p
       ELSE queue_heads[p] \in ready /\ priority[queue_heads[p]] = p

\* highest_ready_priority, kept up to date by ready_thread and park_thread
\* and never recomputed, is the highest priority with a Ready thread.
HighestExact ==
  /\ \E t \in ready : priority[t] = highest_ready_priority
  /\ \A t \in ready : priority[t] <= highest_ready_priority

ReadyAt(p) == {t \in ready : priority[t] = p}

\* "Ready threads are arranged into a circular linked list": the walk along
\* the next links from the head of a queue meets every Ready thread of that
\* priority, so none is linked in a circle that is never scheduled.
OneCircle ==
  \A p \in Priority : \A S \in SUBSET ReadyAt(p) :
    /\ queue_heads[p] \in S
    /\ \A t \in S : next[t] \in S
    => S = ReadyAt(p)

\* Round robin: a Ready thread of the highest priority gets the processor
\* unless it stops being one, however the other threads come and go.
Contends(t) == t \in ready /\ priority[t] = highest_ready_priority

RoundRobin == \A t \in Thread : Contends(t) ~> (running = t \/ ~Contends(t))

-----------------------------------------------------------------------------
(* Refinement: the circle of a priority, read from its head, is its queue. *)

\* The n-th thread of queue p, counted from its head along the next links.
Nth(p) ==
  LET walk[n \in 0 .. Cardinality(Thread)] ==
        IF n = 0 THEN queue_heads[p] ELSE next[walk[n - 1]]
  IN walk

QueueOf(p) ==
  IF queue_heads[p] = NoThread THEN << >>
  ELSE [n \in 1 .. Cardinality(ReadyAt(p)) |-> Nth(p)[n - 1]]

RQ == INSTANCE RunQueue WITH queue <- [p \in Priority |-> QueueOf(p)]

\* The circular lists implement first-come first-served queues.
ImplementsRunQueue == RQ!Spec
=============================================================================
