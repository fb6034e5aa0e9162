------------------------------- MODULE Threads -------------------------------
(***************************************************************************)
(* Threads of user processes as the kernel sees them: their ThreadState,   *)
(* the KernelFuture of a suspended system call, the mailbox its waker      *)
(* leaves a result in, the registers the result ends up in, and            *)
(* activate_current, which polls futures and picks who runs.  All of it    *)
(* is a record ss, after the SystemServices argument the code passes       *)
(* around, so that a system call is a composition of operators on it.      *)
(*                                                                         *)
(* All threads have one priority: queue is the run queue of module         *)
(* RunQueue for it, and the idle thread runs when it is empty.             *)
(***************************************************************************)
EXTENDS Server, Sequences, SequencesExt

CONSTANTS
  Sidx,     \* indices of the server table
  Bits,     \* notification bits, EVENT_SERVER_MSG and EVENT_KERNEL included
  Idle      \* the idle thread of PID 1

\* A thread is a number that stands for its process and its number there, in
\* the order in which the kernel walks its tables.
Thread == Client
PidOf == OwnerOf

EVENT_SERVER_MSG == 1
EVENT_KERNEL == 2

ASSUME BitsAssumption == {EVENT_SERVER_MSG, EVENT_KERNEL} \subseteq Bits
ASSUME ThreadAssumption == Thread \subseteq Nat \ {0}
ASSUME IdleAssumption == Idle \notin Client

-----------------------------------------------------------------------------
(* ThreadState, KernelFuture, results and servers                          *)

Free == <<"Free">>
Ready == <<"Ready">>
RetryQueueFull(i) == <<"RetryQueueFull", i>>
WaitEvent(mask) == <<"WaitEvent", mask>>

NoFuture == <<"None">>
ReceiveMessage(i) == <<"ReceiveMessage", i>>
WaitBlocking == <<"WaitBlocking">>
WaitProcessExit(pid) == <<"WaitProcessExit", pid>>
WaitFutex(addr) == <<"WaitFutex", addr>>

NoServer == [pid |-> Nobody]
NoResult == "-"

ThreadsOf(pid) == {t \in Thread : PidOf[t] = pid}

Exists(ss, i) == ss.servers[i] # NoServer

-----------------------------------------------------------------------------
(* Process::set_thread_state, wake_threads_with_state,                     *)
(* wake_thread_with_result, suspend_with_future                            *)

\* The threads of S in the order the kernel visits them.
ByTid(S) ==
  SetToSortSeq(S, LAMBDA t, u : t < u)

\* Faulty variant: a thread that becomes Ready is not linked into the queue.
SetThreadStateUnlinked(ss, t, state) ==
  [ss EXCEPT !.threads[t] = state,
             !.queue = IF state # Ready THEN SelectSeq(@, LAMBDA u : u # t) ELSE @]

SetThreadState(ss, t, state) ==
  [ss EXCEPT !.threads[t] = state,
             !.queue = CASE ss.threads[t] = Ready /\ state # Ready ->
                              SelectSeq(@, LAMBDA u : u # t)
                         [] ss.threads[t] # Ready /\ state = Ready ->
                              Append(@, t)
                         [] OTHER -> @]

\* Make every thread of a sequence Ready, in its order.
WakeAll(ss, order) ==
  LET woken == {order[n] : n \in DOMAIN order}
  IN [ss EXCEPT !.threads = [t \in Thread |-> IF t \in woken THEN Ready ELSE @[t]],
                !.queue = @ \o SelectSeq(order, LAMBDA t : ss.threads[t] # Ready)]

WakeRetryers(ss, i) ==
  WakeAll(ss, ByTid({t \in Thread : ss.threads[t] = RetryQueueFull(i)}))

\* Faulty variant: the result is left in the mailbox of a thread that sleeps on.
LeaveResult(ss, t, result) ==
  IF ss.futures[t] # NoFuture
  THEN [ss EXCEPT !.mailbox[t] = result]
  ELSE [SetThreadState(ss, t, Ready) EXCEPT !.regs[t] = result]

WakeThreadWithResult(ss, t, result) ==
  LET awake == SetThreadState(ss, t, Ready)
  IN IF ss.futures[t] # NoFuture
     THEN [awake EXCEPT !.mailbox[t] = result]
     ELSE [awake EXCEPT !.regs[t] = result]

SuspendWithFuture(ss, t, future, mask) ==
  SetThreadState([ss EXCEPT !.futures[t] = future], t, WaitEvent(mask))

-----------------------------------------------------------------------------
(* Process::post_notification_bits, with the result its callers set        *)

PostNotificationBits(ss, pid, bits) ==
  LET pending == ss.bits[pid] \cup bits
      Fired(t) == pending \cap ss.threads[t][2]
      hit == {t \in ThreadsOf(pid) :
                ss.threads[t][1] = "WaitEvent" /\ Fired(t) # {}}
      t == ByTid(hit)[1]
      awake == SetThreadState(ss, t, Ready)
  IN IF hit = {} THEN [ss EXCEPT !.bits[pid] = pending]
     ELSE [awake EXCEPT !.bits[pid] = pending \ Fired(t),
                        !.regs[t] = "Bits"]

-----------------------------------------------------------------------------
(* KernelFuture::poll and Scheduler::activate_current                      *)

SuspensionMask(future) ==
  IF future[1] = "ReceiveMessage" THEN {EVENT_SERVER_MSG} ELSE {EVENT_KERNEL}

\* poll_receive_message finds no such server of this process.
ServerGone(ss, t) ==
  ss.futures[t][1] = "ReceiveMessage" /\ ss.servers[ss.futures[t][2]].pid # PidOf[t]

Pending(ss, t) ==
  CASE ss.futures[t] = NoFuture -> FALSE
    [] ss.futures[t][1] = "ReceiveMessage" ->
         ~ServerGone(ss, t) /\ ~HasNextMessage(ss.servers[ss.futures[t][2]].q)
    [] OTHER -> ss.mailbox[t] = NoResult

\* What is left of the loop once it meets a thread t that is not Pending.
\* A failed poll is returned to the system call that is ending, whoever made
\* it; the future is gone by then.
Resume(ss, t) ==
  LET f == ss.futures[t]
      taken == [ss EXCEPT !.futures[t] = NoFuture]
      i == f[2]
      q == ss.servers[i].q
      read == [taken EXCEPT !.servers[i].q = TakeNextMessage(q),
                            !.regs[t] = "Envelope", !.current = t]
  IN CASE f = NoFuture ->
            [ss |-> [ss EXCEPT !.current = t], result |-> "ResumeProcess"]
       [] ServerGone(ss, t) ->
            [ss |-> taken, result |-> "ServerNotFound"]
       [] f[1] = "ReceiveMessage" /\ ~ServerGone(ss, t) ->
            [ss |-> IF IsQueueFull(q) /\ ~IsQueueFull(TakeNextMessage(q))
                    THEN WakeRetryers(read, i) ELSE read,
             result |-> "ResumeProcess"]
       [] OTHER ->
            [ss |-> [taken EXCEPT !.regs[t] = ss.mailbox[t],
                                  !.mailbox[t] = NoResult, !.current = t],
             result |-> "ResumeProcess"]

\* Threads at the head of the queue whose future is Pending are parked again,
\* up to the first that is not.
ActivateCurrent(ss) ==
  LET able == {n \in DOMAIN ss.queue : ~Pending(ss, ss.queue[n])}
      n == IF able = {} THEN Len(ss.queue) + 1
           ELSE CHOOSE m \in able : \A j \in able : m <= j
      drop == {ss.queue[j] : j \in 1 .. n - 1}
      parked == [ss EXCEPT
        !.queue = SubSeq(@, n, Len(@)),
        !.threads = [t \in Thread |->
          IF t \in drop THEN WaitEvent(SuspensionMask(ss.futures[t])) ELSE @[t]]]
  IN IF able = {}
     THEN [ss |-> [parked EXCEPT !.current = Idle], result |-> "ResumeProcess"]
     ELSE Resume(parked, ss.queue[n])

\* _handle_svc: a result other than ResumeProcess goes to the caller.
Return(out, t) ==
  IF out.result = "ResumeProcess" THEN out.ss
  ELSE [out.ss EXCEPT !.regs[t] = out.result]

\* Scheduler::yield_thread
YieldThread(ss, t) ==
  [ss EXCEPT !.queue = IF @ # << >> /\ Head(@) = t
                       THEN Append(Tail(@), t) ELSE @]
=============================================================================
