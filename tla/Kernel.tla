-------------------------------- MODULE Kernel --------------------------------
(***************************************************************************)
(* Message passing, notification bits, futexes and process exit, as the    *)
(* system calls of the running thread (xous/kernel/src/syscall.rs) and     *)
(* the timer interrupt.  A call runs to its end with interrupts masked on  *)
(* one core, so it is one step.  The queue of a server is module Server,   *)
(* suspension and scheduling are module Threads.                           *)
(*                                                                         *)
(* What the threads run is chosen at the start: a program is given by the  *)
(* calls it makes, in any order and any number.                            *)
(***************************************************************************)
EXTENDS Threads

CONSTANTS
  Sid,       \* server identifiers
  Addr,      \* futex addresses
  Programs,  \* choices of programs: each gives every thread a set of call names
  Boot,      \* the processes the kernel starts, children of PID 1
  PID1

ASSUME BootAssumption == Boot \subseteq Pid /\ PID1 \notin Pid \cup {Nobody}
ASSUME ProgramAssumption == \A f \in Programs : DOMAIN f = Thread

VARIABLES
  ss,        \* SystemServices, as module Threads describes it
  call,      \* the call each thread made last
  program    \* the calls each thread makes

vars == <<ss, call, program>>

NoSid == "none"
NoCall == "-"

\* The system events sent when a server or a child disappears.
Event == {"Disconnected", "ChildTerminated"}
NoHandlers == [e \in Event |-> NoSid]

ScalarKinds == {"Scalar", "BlockingScalar"}

MainThread(pid) == CHOOSE t \in ThreadsOf(pid) : \A u \in ThreadsOf(pid) : t <= u

Alive(s, pid) == pid \in s.alive

Init ==
  /\ ss = [servers  |-> [i \in Sidx |-> NoServer],
           connected |-> [p \in Pid |-> {}],
           handler  |-> [p \in Pid |-> NoHandlers],
           alive    |-> Boot,
           ppid     |-> [p \in Pid |-> IF p \in Boot THEN PID1 ELSE Nobody],
           threads  |-> [t \in Thread |->
                           IF PidOf[t] \in Boot /\ t = MainThread(PidOf[t])
                           THEN Ready ELSE Free],
           queue    |-> ByTid({MainThread(p) : p \in Boot}),
           futures  |-> [t \in Thread |-> NoFuture],
           mailbox  |-> [t \in Thread |-> NoResult],
           regs     |-> [t \in Thread |-> NoResult],
           bits     |-> [p \in Pid |-> {}],
           current  |-> Idle]
  /\ call = [t \in Thread |-> NoCall]
  /\ program \in Programs

-----------------------------------------------------------------------------
(* Frames of a system call                                                 *)

\* Thread t runs and makes the call named c.
Calls(t, c) == ss.current = t /\ c \in program[t]

\* A new thread has made no call yet.
Record(t, c) ==
  /\ call' = [u \in Thread |-> CASE u = t -> c
                                [] ss.threads[u] = Free -> NoCall
                                [] OTHER -> call[u]]
  /\ UNCHANGED program

SetResult(s, t, r) == [s EXCEPT !.regs[t] = r]

\* The call ends at once with result r, which the caller has before any other
\* step; it is not kept.
Answer(s, t, r) == ss' = SetResult(s, t, NoResult) /\ Record(t, NoCall)

\* The call c ends in activate_current; when t runs again is up to it.
Reschedule(s, t, c) == ss' = Return(ActivateCurrent(s), t) /\ Record(t, c)

-----------------------------------------------------------------------------
(* create_server_with_address, connect_to_server, sidx_from_sid            *)

FreeSidx(s) == {i \in Sidx : ~Exists(s, i)}

First(S) == CHOOSE i \in S : \A j \in S : i <= j

CreateServer(t, sid) ==
  /\ Calls(t, "CreateServer")
  /\ IF FreeSidx(ss) = {} THEN Answer(ss, t, "ServerNotFound")
     ELSE Answer([ss EXCEPT !.servers[First(FreeSidx(ss))] =
                    [pid |-> PidOf[t], sid |-> sid, q |-> ServerInit]], t, "Ok")

WithSid(s, sid) == {i \in Sidx : Exists(s, i) /\ s.servers[i].sid = sid}

OwnWithSid(s, sid, pid) == {i \in WithSid(s, sid) : s.servers[i].pid = pid}

Connect(t, sid) ==
  LET found == WithSid(ss, sid)
  IN /\ Calls(t, "Connect")
     /\ IF found = {} THEN Answer(ss, t, "ServerNotFound")
        ELSE Answer([ss EXCEPT !.connected[PidOf[t]] = @ \cup {First(found)}], t, "Ok")

-----------------------------------------------------------------------------
(* send_message_inner                                                      *)

\* The queue of server i once a parked thread is taken for the message, with
\* the token of remember_server_message for a blocking one.
Remember(q, kind, t) ==
  LET left == TakeAvailableThread(q)
  IN IF kind \in Blocking THEN QueueResponse(left, kind, t, NoPayload) ELSE left

\* Faulty variant: the receiver gets no result.
HandOverWithoutResult(s, i, kind, t) ==
  LET u == AvailableThread(s.servers[i].q)
  IN SetThreadState([s EXCEPT !.servers[i].q = Remember(@, kind, t),
                              !.futures[u] = NoFuture], u, Ready)

\* A thread parked on server i gets the message at once.
HandOver(s, i, kind, t) ==
  LET u == AvailableThread(s.servers[i].q)
      free == [s EXCEPT !.servers[i].q = Remember(@, kind, t), !.futures[u] = NoFuture]
  IN SetResult(SetThreadState(free, u, Ready), u, "Envelope")

\* Faulty variant: a queued message is not announced.
EnqueueUnannounced(s, i, kind, t) ==
  [s EXCEPT !.servers[i].q = QueueMessage(@, kind, t, CHOOSE m \in Payload : TRUE)]

\* The message is queued and the notification posted.
Enqueue(s, i, kind, t) ==
  PostNotificationBits(
    [s EXCEPT !.servers[i].q = QueueMessage(@, kind, t, CHOOSE m \in Payload : TRUE)],
    s.servers[i].pid, {EVENT_SERVER_MSG})

SendMessageInner(s, i, kind, t) ==
  IF s.servers[i].q.ready_threads # {} THEN HandOver(s, i, kind, t)
  ELSE Enqueue(s, i, kind, t)

\* SystemServices::send_event; its callers drop the error of a full queue.
SendEvent(s, pid, event) ==
  LET found == OwnWithSid(s, s.handler[pid][event], pid)
  IN IF found = {} \/ IsQueueFull(s.servers[First(found)].q) THEN s
     ELSE SendMessageInner(s, First(found), "Scalar", Nobody)

RegisterEventHandler(t, event, sid) ==
  /\ Calls(t, "RegisterEventHandler")
  /\ IF ss.handler[PidOf[t]][event] # NoSid THEN Answer(ss, t, "AccessDenied")
     ELSE Answer([ss EXCEPT !.handler[PidOf[t]][event] = sid], t, "Ok")

-----------------------------------------------------------------------------
(* SendMessage and TrySendMessage                                          *)

Accepts(t, i) == i \in ss.connected[PidOf[t]] /\ ~IsQueueFull(ss.servers[i].q)

\* The part of send_message after send_message_inner.
Sent(s, t, kind) ==
  IF kind \in Blocking
  THEN SuspendWithFuture(s, t, WaitBlocking, {EVENT_KERNEL})
  ELSE SetResult(s, t, "Ok")

SendMessage(t, i, kind) ==
  /\ Calls(t, kind)
  /\ CASE Accepts(t, i) ->
            Reschedule(Sent(SendMessageInner(ss, i, kind, t), t, kind), t, kind)
       [] i \notin ss.connected[PidOf[t]] -> Answer(ss, t, "ServerNotFound")
       [] OTHER ->
            Reschedule(SetThreadState(SetResult(ss, t, "RetryCall"), t,
                                      RetryQueueFull(i)), t, kind)

TryName(kind) == IF kind = "Scalar" THEN "TryScalar" ELSE "TryBlockingScalar"

TrySendMessage(t, i, kind) ==
  /\ Calls(t, TryName(kind))
  /\ CASE Accepts(t, i) ->
            Reschedule(Sent(SendMessageInner(ss, i, kind, t), t, kind), t, kind)
       [] i \notin ss.connected[PidOf[t]] -> Answer(ss, t, "ServerNotFound")
       [] OTHER -> Answer(ss, t, "ServerQueueFull")

-----------------------------------------------------------------------------
(* receive_message and return_result                                       *)

\* Read the next message of server i and wake the senders a full queue held up.
ReadNext(s, i) ==
  LET q == s.servers[i].q
      read == [s EXCEPT !.servers[i].q = TakeNextMessage(q)]
  IN IF IsQueueFull(q) /\ ~IsQueueFull(TakeNextMessage(q))
     THEN WakeRetryers(read, i) ELSE read

\* ReceiveMessage and TryReceiveMessage; "Serve" is ReceiveMessage in a loop
\* that answers what it has read before it reads on.
Receive(t, sid, name) ==
  LET found == OwnWithSid(ss, sid, PidOf[t])
      i == First(found)
  IN /\ Calls(t, name)
     /\ name = "Serve" /\ found # {} =>
          \A slot \in Slots : ~IsWaiting(ss.servers[i].q.queue[slot])
     /\ CASE found = {} -> Answer(ss, t, "ServerNotFound")
          [] found # {} /\ HasNextMessage(ss.servers[i].q) ->
               Answer(ReadNext(ss, i), t, "Envelope")
          [] OTHER ->
               IF name = "TryReceive" THEN Answer(ss, t, "None")
               ELSE Reschedule(
                      SuspendWithFuture(
                        [ss EXCEPT !.servers[i].q = ParkThread(@, t)],
                        t, ReceiveMessage(i), {EVENT_SERVER_MSG}), t, "Receive")

\* A server answers a blocking scalar it has read: slot holds its token.
ReturnScalar(t, i, slot) ==
  LET q == ss.servers[i].q
      e == q.queue[slot]
      freed == [ss EXCEPT !.servers[i].q = TakeWaitingMessage(q, slot)]
      woken == IF IsQueueFull(q) THEN WakeRetryers(freed, i) ELSE freed
  IN /\ Exists(ss, i) /\ ss.servers[i].pid = PidOf[t]
     /\ IsWaiting(e)
     /\ Calls(t, "ReturnScalar")
     /\ Reschedule(SetResult(
          IF e.kind = "WaitingReturnScalar"
          THEN WakeThreadWithResult(woken, e.client, "Reply") ELSE woken, t, "Ok"), t, "ReturnScalar")

-----------------------------------------------------------------------------
(* WaitEvent, PollEvent, PostEvent                                         *)

WaitForEvent(t, mask) ==
  LET p == PidOf[t]
      fired == ss.bits[p] \cap mask
  IN /\ Calls(t, "WaitEvent")
     /\ IF fired # {}
        THEN Answer([ss EXCEPT !.bits[p] = @ \ mask], t, "Bits")
        ELSE Reschedule(SetThreadState(SetResult(ss, t, "Ok"), t, WaitEvent(mask)), t,
                        "WaitEvent")

PollEvent(t) ==
  /\ Calls(t, "PollEvent")
  /\ Answer([ss EXCEPT !.bits[PidOf[t]] = {}], t, "Bits")

PostEvent(t, bits) ==
  /\ Calls(t, "PostEvent")
  /\ Answer(PostNotificationBits(ss, PidOf[t], bits), t, "Ok")

-----------------------------------------------------------------------------
(* FutexWait and FutexWake                                                 *)

\* The word at addr may have changed since the caller looked at it.
FutexWait(t, addr) ==
  /\ Calls(t, "FutexWait")
  /\ \/ Answer(ss, t, "Again")
     \/ Reschedule(SuspendWithFuture(SetResult(ss, t, "Ok"), t,
                                     WaitFutex(addr), {EVENT_KERNEL}), t, "FutexWait")

FutexWaiters(s, pid, addr) == {u \in ThreadsOf(pid) : s.futures[u] = WaitFutex(addr)}

\* The first n of them, woken in thread order.
FutexWake(t, addr, n) ==
  LET all == ByTid(FutexWaiters(ss, PidOf[t], addr))
      chosen == {all[j] : j \in {j \in DOMAIN all : j <= n}}
  IN /\ Calls(t, "FutexWake")
     /\ Answer(WakeAll([ss EXCEPT !.mailbox = [u \in Thread |->
                                   IF u \in chosen THEN "Ok" ELSE @[u]]],
                       ByTid(chosen)), t, "Ok")

-----------------------------------------------------------------------------
(* Server::destroy and destroy_sidx                                        *)

\* The clients named by the slots of a queue, in the order of the slots.
NamedClients(q) ==
  LET named == SelectSeq([n \in 1 .. QueueLen |-> q.queue[n - 1]], NamesClient)
  IN [n \in DOMAIN named |-> named[n].client]

\* Blocked clients and parked threads become Ready with ServerNotFound in
\* their registers; their kernel futures stay.
DestroyQueue(s, q) ==
  LET order == NamedClients(q) \o ByTid(q.ready_threads)
      told == {order[n] : n \in DOMAIN order}
      woken == WakeAll(s, order)
  IN [woken EXCEPT !.regs = [u \in Thread |->
                               IF u \in told THEN "ServerNotFound" ELSE @[u]]]

\* Faulty variant: the connection outlives the server.
TombstoneNone(s, p, i) == s

\* One process loses its connection to server i and is told so.
Tombstone(s, p, i) ==
  IF i \notin s.connected[p] THEN s
  ELSE SendEvent([s EXCEPT !.connected[p] = @ \ {i}], p, "Disconnected")

DestroySidx(s, i) ==
  FoldLeft(LAMBDA acc, p : Tombstone(acc, p, i),
           [DestroyQueue(s, s.servers[i].q) EXCEPT !.servers[i] = NoServer],
           ByTid(Pid))

DestroyServer(t, sid) ==
  LET found == OwnWithSid(ss, sid, PidOf[t])
  IN /\ Calls(t, "DestroyServer")
     /\ IF found = {} THEN Answer(ss, t, "ServerNotFound")
        ELSE Answer(DestroySidx(ss, First(found)), t, "Ok")

-----------------------------------------------------------------------------
(* terminate_current_process, WaitProcess, process and thread creation     *)

\* The loop over the server table when process p dies.
LeaveServer(s, i, p) ==
  CASE ~Exists(s, i) -> s
    [] Exists(s, i) /\ s.servers[i].pid = p -> DestroySidx(s, i)
    [] OTHER -> [s EXCEPT !.servers[i].q = DiscardMessagesForPid(@, p)]

\* Faulty variant: the waiters are not looked for.
WakeNoWaiters(s, p) == s

\* Threads in WaitProcess(p) find the exit code in their mailbox.
WakeWaiters(s, p) ==
  FoldLeft(LAMBDA acc, u : WakeThreadWithResult(acc, u, "ExitCode"), s,
           ByTid({u \in Thread : s.futures[u] = WaitProcessExit(p)}))

\* Process::terminate, free_process and the children left without a parent.
FreeProcess(s, p) ==
  [s EXCEPT !.threads = [u \in Thread |-> IF PidOf[u] = p THEN Free ELSE @[u]],
            !.queue = SelectSeq(@, LAMBDA u : PidOf[u] # p),
            !.futures = [u \in Thread |-> IF PidOf[u] = p THEN NoFuture ELSE @[u]],
            !.mailbox = [u \in Thread |-> IF PidOf[u] = p THEN NoResult ELSE @[u]],
            !.connected[p] = {}, !.handler[p] = NoHandlers, !.bits[p] = {},
            !.alive = @ \ {p},
            !.ppid = [c \in Pid |-> IF p \in {c, @[c]} THEN Nobody ELSE @[c]],
            !.current = Idle]

TerminateCurrentProcess(s, p) ==
  LET left == FoldLeft(LAMBDA acc, i : LeaveServer(acc, i, p), s, ByTid(Sidx))
      told == IF s.ppid[p] \in Pid
              THEN SendEvent(left, s.ppid[p], "ChildTerminated") ELSE left
  IN FreeProcess(WakeWaiters(told, p), p)

\* TerminateProcess, and the abort handler for a process that is not of Boot.
TerminateProcess(t) ==
  /\ Calls(t, "TerminateProcess")
  /\ Reschedule(TerminateCurrentProcess(ss, PidOf[t]), t, "TerminateProcess")

TerminatePid(t, p) ==
  /\ Calls(t, "TerminatePid")
  /\ CASE p = PidOf[t] -> Answer(ss, t, "InvalidArguments")
       [] p # PidOf[t] /\ ~Alive(ss, p) -> Answer(ss, t, "ProcessNotFound")
       [] p # PidOf[t] /\ ss.ppid[p] = PID1 -> Answer(ss, t, "AccessDenied")
       [] OTHER -> Reschedule(TerminateCurrentProcess(SetResult(ss, t, "Ok"), p), t,
                                 "TerminatePid")

WaitProcess(t, p) ==
  /\ Calls(t, "WaitProcess")
  /\ IF ~Alive(ss, p) THEN Answer(ss, t, "ExitCode")
     ELSE Reschedule(SuspendWithFuture(ss, t, WaitProcessExit(p), {EVENT_KERNEL}), t,
                     "WaitProcess")

\* SpawnByName: the first free entry of the process table.
Spawn(t) ==
  LET free == {p \in Pid : ~Alive(ss, p)}
      p == First(free)
  IN /\ Calls(t, "Spawn")
     /\ IF free = {} THEN Answer(ss, t, "OutOfMemory")
        ELSE Answer(SetThreadState(SetResult([ss EXCEPT !.alive = @ \cup {p},
                                                        !.ppid[p] = PidOf[t]],
                                             MainThread(p), NoResult),
                                   MainThread(p), Ready), t, "Ok")

CreateThread(t) ==
  LET free == {u \in ThreadsOf(PidOf[t]) : ss.threads[u] = Free}
  IN /\ Calls(t, "CreateThread")
     /\ IF free = {} THEN Answer(ss, t, "ThreadNotAvailable")
        ELSE Answer(SetThreadState(SetResult(ss, First(free), NoResult),
                                   First(free), Ready), t, "Ok")

Yield(t) ==
  /\ Calls(t, "Yield")
  /\ Reschedule(YieldThread(SetResult(ss, t, "Ok"), t), t, "Yield")

-----------------------------------------------------------------------------
(* The timer interrupt, from user mode and from the idle wait              *)

Timer ==
  /\ ss.current # Idle
  /\ ss' = ActivateCurrent(YieldThread(ss, ss.current)).ss
  /\ UNCHANGED <<call, program>>

IdleWait ==
  /\ ss.current = Idle
  /\ ss' = ActivateCurrent(ss).ss
  /\ UNCHANGED <<call, program>>

-----------------------------------------------------------------------------
Syscall(t) ==
  \/ \E sid \in Sid : \/ CreateServer(t, sid)
                      \/ Connect(t, sid)
                      \/ DestroyServer(t, sid)
                      \/ \E name \in {"Receive", "TryReceive", "Serve"} : Receive(t, sid, name)
                      \/ \E e \in Event : RegisterEventHandler(t, e, sid)
  \/ \E i \in Sidx : \/ \E kind \in ScalarKinds : \/ SendMessage(t, i, kind)
                                                 \/ TrySendMessage(t, i, kind)
                     \/ \E slot \in Slots : ReturnScalar(t, i, slot)
  \/ \E b \in SUBSET Bits \ {{}} : WaitForEvent(t, b) \/ PostEvent(t, b)
  \/ \E addr \in Addr : FutexWait(t, addr) \/ \E n \in 1 .. 2 : FutexWake(t, addr, n)
  \/ \E p \in Pid : TerminatePid(t, p) \/ WaitProcess(t, p)
  \/ PollEvent(t) \/ TerminateProcess(t) \/ Spawn(t) \/ CreateThread(t) \/ Yield(t)

Next == Timer \/ IdleWait \/ \E t \in Thread : Syscall(t)

Spec == Init /\ [][Next]_vars

\* The timer keeps firing, and a server thread that gets to run again and
\* again goes on reading and answering.
FairSpec ==
  /\ Spec
  /\ WF_vars(Timer) /\ WF_vars(IdleWait)
  /\ \A t \in Thread :
       /\ SF_vars(\E sid \in Sid : Receive(t, sid, "Serve"))
       /\ SF_vars(\E i \in Sidx, slot \in Slots : ReturnScalar(t, i, slot))

-----------------------------------------------------------------------------
(* Properties                                                              *)

\* The types of the fields of SystemServices.
TypeOK ==
  /\ \A i \in Sidx : Exists(ss, i) =>
        /\ ss.servers[i].pid \in Pid /\ ss.servers[i].sid \in Sid
        /\ ss.servers[i].q.ready_threads \subseteq ThreadsOf(ss.servers[i].pid)
        /\ ss.servers[i].q.empty_count = Cardinality(EmptySlots(ss.servers[i].q))
  /\ ss.connected \in [Pid -> SUBSET Sidx]
  /\ ss.bits \in [Pid -> SUBSET Bits]
  /\ ss.current \in Thread \cup {Idle}
  /\ \A t \in Thread : ss.threads[t] \in
        {Free, Ready} \cup {RetryQueueFull(i) : i \in Sidx}
                      \cup {WaitEvent(m) : m \in SUBSET Bits \ {{}}}

\* The thread on the CPU is Ready and its call is over: no future is left on
\* it ("Either running or ready to run immediately", process.rs).
RunningIsReady ==
  ss.current # Idle =>
    /\ ss.threads[ss.current] = Ready
    /\ ss.futures[ss.current] = NoFuture

\* The run queue holds the Ready threads, each once, and the running thread
\* is its head: a wake-up never lets anyone overtake the thread on the CPU.
QueueIsReadyThreads ==
  /\ \A t \in Thread : ss.threads[t] = Ready <=> \E n \in DOMAIN ss.queue : ss.queue[n] = t
  /\ \A m, n \in DOMAIN ss.queue : ss.queue[m] = ss.queue[n] => m = n
  /\ ss.current # Idle => ss.queue # << >> /\ Head(ss.queue) = ss.current

\* The scheduler and the thread states agree.
ReadyMeansQueued == RunningIsReady /\ QueueIsReadyThreads

\* A result left in a mailbox is never slept over: its thread is Ready, and
\* it still has the future that will pick the result up.
MailboxIsPickedUp ==
  \A t \in Thread : ss.mailbox[t] # NoResult =>
    /\ ss.threads[t] = Ready
    /\ ss.futures[t] # NoFuture /\ ss.futures[t][1] # "ReceiveMessage"

\* A thread suspended in ReceiveMessage is known to its server and has no
\* mail waiting, so the next sender will find it.
ReceiverIsKnown ==
  \A t \in Thread : ss.futures[t][1] = "ReceiveMessage" =>
    LET srv == ss.servers[ss.futures[t][2]]
    IN srv.pid = PidOf[t] => t \in srv.q.ready_threads /\ ~HasNextMessage(srv.q)

\* A thread parked on a server is suspended in ReceiveMessage on that server,
\* so a message handed to it is the result of the call it made.
ParkedIsReceiving ==
  \A i \in Sidx : Exists(ss, i) =>
    \A t \in ss.servers[i].q.ready_threads :
       /\ ss.futures[t] = ReceiveMessage(i)
       /\ ss.servers[i].pid = PidOf[t]

\* Receivers and servers know of each other.
ReceiversAgree == ReceiverIsKnown /\ ParkedIsReceiving

NamingSlots(t) ==
  {w \in Sidx \X Slots : /\ Exists(ss, w[1])
                         /\ NamesClient(ss.servers[w[1]].q.queue[w[2]])
                         /\ ss.servers[w[1]].q.queue[w[2]].client = t}

\* A client asleep in a blocking call is named by exactly one slot of a live
\* server: someone still owes it the answer.
SleeperIsNamed ==
  \A t \in Thread :
    ss.futures[t] = WaitBlocking /\ ss.threads[t] # Ready /\ ss.mailbox[t] = NoResult
      => Cardinality(NamingSlots(t)) = 1

\* A slot names only threads that are still waiting for its answer: an answer
\* never lands on a thread that went on to something else.
NamedIsWaiting ==
  \A t \in Thread : NamingSlots(t) # {} =>
    ss.futures[t] = WaitBlocking /\ ss.mailbox[t] = NoResult

\* Sleeping callers and the slots that owe them an answer are in one-to-one
\* correspondence.
CallersAgree == SleeperIsNamed /\ NamedIsWaiting

\* A thread waiting to retry a send waits for a live server with a full queue.
RetryerHasFullServer ==
  \A i \in Sidx : (\E t \in Thread : ss.threads[t] = RetryQueueFull(i)) =>
    Exists(ss, i) /\ IsQueueFull(ss.servers[i].q)

\* A thread waiting for the exit of a process waits for one that exists.
WaiterHasTarget ==
  \A t \in Thread, p \in Pid :
    ss.futures[t] = WaitProcessExit(p) /\ ss.mailbox[t] = NoResult => Alive(ss, p)

\* Nobody waits for something that cannot come any more.
WaitersHaveReason == RetryerHasFullServer /\ WaiterHasTarget

\* A connection that is not a tombstone leads to a server: the unwrap of
\* server_from_sidx in send_message does not panic.
ConnectedIsLive ==
  \A p \in Pid : \A i \in ss.connected[p] : Exists(ss, i)

\* A server belongs to a live process: the unwrap of the server's process in
\* terminate_current_process and in send_message_inner does not panic.
ServerHasOwner ==
  \A i \in Sidx : Exists(ss, i) => ss.servers[i].pid \in ss.alive

\* The tables the kernel indexes without looking are sound.
TablesSound == TypeOK /\ ConnectedIsLive /\ ServerHasOwner

\* The results a call that went through the scheduler may come back with.
Results(c) ==
  CASE c = "BlockingScalar" -> {"Reply", "ServerNotFound", "RetryCall"}
    [] c = "Scalar" -> {"Ok", "RetryCall"}
    [] c = "Receive" -> {"Envelope", "ServerNotFound"}
    [] c = "WaitEvent" -> {"Bits"}
    [] c = "WaitProcess" -> {"ExitCode"}
    [] OTHER -> {"Ok"}

\* A thread that runs after a call finds in its registers a result of that
\* call, never one meant for another call or another thread.
ResultFitsCall ==
  LET t == ss.current
  IN t # Idle /\ call[t] # NoCall => ss.regs[t] \in Results(call[t])

Unread(s, i) == IF s.servers[i] = NoServer THEN {} ELSE UnreadSlots(s.servers[i].q)

InEventWait(s, p) ==
  {t \in ThreadsOf(p) : /\ s.threads[t][1] = "WaitEvent" /\ s.futures[t] = NoFuture
                        /\ EVENT_SERVER_MSG \in s.threads[t][2]}

\* "Post a notification to the server process so that any thread blocked in
\* WaitEvent (e.g. the async-rt reactor) is woken up" (syscall.rs): when mail
\* is queued for a process with threads waiting for it, one is woken.
QueuedMailWakesWaiter ==
  [][\A i \in Sidx :
       /\ Exists(ss, i)
       /\ ~(Unread(ss', i) \subseteq Unread(ss, i))
       /\ InEventWait(ss, ss.servers[i].pid) # {}
       => \E t \in InEventWait(ss, ss.servers[i].pid) : ss'.threads[t] = Ready]_vars

\* A blocking call comes to an end.
CallsEnd ==
  \A t \in Thread :
    (ss.futures[t] = WaitBlocking) ~> (ss.current = t \/ ss.threads[t] = Free)
=============================================================================
