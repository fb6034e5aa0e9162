----------------------------- MODULE ServerQueue -----------------------------
(***************************************************************************)
(* One server, the threads of the process that owns it and the client      *)
(* threads that send to it: the message system calls of the kernel         *)
(* (xous/kernel/src/syscall.rs) acting on the queue of module Server.      *)
(*                                                                         *)
(* A system call runs with interrupts masked on the only core, so each     *)
(* action is one whole call.  Clients and server threads are interleaved   *)
(* in every order; any server thread may answer any slot, with either of   *)
(* the two answering calls, whatever it was handed before.                 *)
(***************************************************************************)
EXTENDS Server

CONSTANTS
  Thread,          \* thread numbers of the server's process
  Sent,            \* the kinds of messages clients send
  TidOf,           \* the thread number of each client
  MaxThreadCount   \* MAX_THREAD_COUNT

ASSUME ThreadAssumption == Thread \subseteq Nat
ASSUME SentAssumption == Sent \subseteq MessageKinds
ASSUME TidAssumption == /\ MaxThreadCount \in Nat
                        /\ TidOf \in [Client -> 1 .. MaxThreadCount - 1]

VARIABLES
  server,     \* the record of module Server
  blocked,    \* clients suspended on KernelFuture::WaitBlocking
  retrying,   \* clients in ThreadState::RetryQueueFull
  abandoned   \* history: blocked clients whose slot was emptied by the wrong
              \* answering call (the DoubleFree error paths)

vars == <<server, blocked, retrying, abandoned>>

ClientsOf(pid) == {c \in Client : OwnerOf[c] = pid}

\* Faulty variant: the main thread of a process is not looked at.
WakeThreadsButMain(waiting) ==
  {c \in waiting : TidOf[c] \notin 2 .. MaxThreadCount - 2}

\* Process::wake_threads_with_state visits 1..MAX_THREAD_COUNT - 1, a Rust
\* range that leaves its upper end out.
WakeThreadsWithState(waiting) ==
  {c \in waiting : TidOf[c] \notin 1 .. MaxThreadCount - 2}

\* Every call that empties a slot wakes the senders that found the queue
\* full, if the queue is no longer full.
WakeIfNoLongerFull(old, new) ==
  retrying' = IF IsQueueFull(old) /\ ~IsQueueFull(new)
              THEN WakeThreadsWithState(retrying) ELSE retrying

\* Memory arrives at an address of the server's process that is not in use.
BuffersInUse ==
  {e.msg : e \in {server.queue[i] : i \in Slots}} \ {NoPayload}

FreshBuffer(kind, msg) ==
  kind \in {"Move", "Borrow", "MutableBorrow"} => msg \notin BuffersInUse

-----------------------------------------------------------------------------
Init ==
  /\ server = ServerInit
  /\ blocked = {}
  /\ retrying = {}
  /\ abandoned = {}

CanCall(c) == c \notin blocked \cup retrying

\* SendMessage on a full queue: retry_syscall parks the sender.
SendQueueFull(c) ==
  /\ CanCall(c)
  /\ IsQueueFull(server)
  /\ retrying' = retrying \cup {c}
  /\ UNCHANGED <<server, blocked, abandoned>>

Suspend(c, kind) ==
  blocked' = IF kind \in Blocking THEN blocked \cup {c} ELSE blocked

\* send_message_inner, when a thread of the server is parked: the message
\* goes straight into its registers.  Only a blocking message takes a slot.
SendDirect(c, kind, msg) ==
  /\ CanCall(c)
  /\ ~IsQueueFull(server)
  /\ server.ready_threads # {}
  /\ FreshBuffer(kind, msg)
  /\ LET taken == TakeAvailableThread(server)
     IN server' = IF kind \in Blocking
                  THEN QueueResponse(taken, kind, c, msg) ELSE taken
  /\ Suspend(c, kind)
  /\ UNCHANGED <<retrying, abandoned>>

\* Faulty variant: the message is queued without looking for a parked thread.
SendQueuedAlways(c, kind, msg) ==
  /\ CanCall(c)
  /\ ~IsQueueFull(server)
  /\ FreshBuffer(kind, msg)
  /\ server' = QueueMessage(server, kind, c, msg)
  /\ Suspend(c, kind)
  /\ UNCHANGED <<retrying, abandoned>>

\* send_message_inner, when every server thread is busy.
SendQueued(c, kind, msg) ==
  /\ CanCall(c)
  /\ ~IsQueueFull(server)
  /\ server.ready_threads = {}
  /\ FreshBuffer(kind, msg)
  /\ server' = QueueMessage(server, kind, c, msg)
  /\ Suspend(c, kind)
  /\ UNCHANGED <<retrying, abandoned>>

\* receive_message, when a message is waiting.
ReceiveNext(t) ==
  /\ t \notin server.ready_threads
  /\ HasNextMessage(server)
  /\ server' = TakeNextMessage(server)
  /\ WakeIfNoLongerFull(server, server')
  /\ UNCHANGED <<blocked, abandoned>>

\* receive_message, when none is and the call is a blocking one.
ReceivePark(t) ==
  /\ t \notin server.ready_threads
  /\ ~HasNextMessage(server)
  /\ server' = ParkThread(server, t)
  /\ UNCHANGED <<blocked, retrying, abandoned>>

\* return_result: ReturnScalar1, ReturnScalar2 and ReturnScalar5.  The slot
\* is emptied before its kind is looked at.
ReturnResult(i) ==
  LET e == server.queue[i]
  IN /\ IsWaiting(e)
     /\ server' = TakeWaitingMessage(server, i)
     /\ WakeIfNoLongerFull(server, server')
     /\ IF e.kind = "WaitingReturnMemory"
        THEN /\ abandoned' = abandoned \cup {e.client}
             /\ UNCHANGED blocked
        ELSE /\ blocked' = blocked \ {e.client}
             /\ UNCHANGED abandoned

\* return_memory.  A slot that lent another buffer is left alone.
ReturnMemory(i, buf) ==
  LET e == server.queue[i]
  IN /\ IsWaiting(e)
     /\ BufferMatches(e, buf)
     /\ server' = TakeWaitingMessage(server, i)
     /\ WakeIfNoLongerFull(server, server')
     /\ IF e.kind = "WaitingReturnScalar"
        THEN /\ abandoned' = abandoned \cup {e.client}
             /\ UNCHANGED blocked
        ELSE /\ blocked' = blocked \ {e.client}
             /\ UNCHANGED abandoned

\* terminate_current_process for a client's process, as far as this server is
\* concerned.  The same pid and thread numbers may be handed out again at
\* once.
ClientTerminates(pid) ==
  /\ server' = DiscardMessagesForPid(server, pid)
  /\ blocked' = blocked \ ClientsOf(pid)
  /\ retrying' = retrying \ ClientsOf(pid)
  /\ abandoned' = abandoned \ ClientsOf(pid)

Next ==
  \/ \E c \in Client : SendQueueFull(c)
  \/ \E c \in Client, kind \in Sent, msg \in Payload :
        SendDirect(c, kind, msg)
  \/ \E c \in Client, kind \in Sent, msg \in Payload :
        SendQueued(c, kind, msg)
  \/ \E t \in Thread : ReceiveNext(t)
  \/ \E t \in Thread : ReceivePark(t)
  \/ \E i \in Slots : ReturnResult(i)
  \/ \E i \in Slots, buf \in Payload : ReturnMemory(i, buf)
  \/ \E pid \in Pid : ClientTerminates(pid)

Spec == Init /\ [][Next]_vars

-----------------------------------------------------------------------------
(* Liveness: some server thread keeps calling ReceiveMessage, and every     *)
(* message that was read is answered by the call that fits it, unless a     *)
(* wrong one comes first.                                                   *)

\* What a correct server does with slot i.
Answer(i) ==
  IF server.queue[i].kind \in {"WaitingReturnMemory", "WaitingForget"}
  THEN ReturnMemory(i, server.queue[i].msg)
  ELSE ReturnResult(i)

FairSpec ==
  /\ Spec
  /\ WF_vars(\E t \in Thread : ReceiveNext(t))
  /\ \A i \in Slots : WF_vars(Answer(i))

-----------------------------------------------------------------------------
(* Properties                                                              *)

\* Type correctness of the queue and of the threads around it.
TypeOK ==
  /\ server \in ServerState(Thread)
  /\ blocked \in SUBSET Client
  /\ retrying \in SUBSET Client
  /\ abandoned \in SUBSET Client

\* The generations between head and tail are in the queue, each exactly once:
\* the scan of take_next_message always finds the oldest unread message, so
\* none is skipped, read twice or read early, through every wrap-around of
\* the slots and of the u8 generations.
UnreadInOrder == Ordered(server)

\* empty_count, which is_queue_full relies on, always equals the number of
\* Empty slots: queue_message and queue_response never fail to find one.
EmptyCountExact == server.empty_count = Cardinality(EmptySlots(server))

\* The assert_ne! at the end of queue_message cannot fire.
GenerationsNeverMeet == ~IsQueueFull(server) => QueueMessageAssert(server)

\* No server thread sleeps in ReceiveMessage while a message is unread: polling
\* its future (poll_receive_message) can only find the queue without mail,
\* and a sender only queues when every server thread is busy.
NoSleepWithMail ==
  server.ready_threads # {} =>
    /\ server.tail_generation = server.head_generation
    /\ UnreadSlots(server) = {}

\* A sender is parked in RetryQueueFull only while the queue is full; the
\* call that frees a slot wakes it.
RetryOnlyWhenFull == retrying # {} => IsQueueFull(server)

\* Every thread blocked in SendMessage is named by exactly one slot, which is
\* the one whose answer wakes it, unless the server spent that slot on the
\* wrong answering call; no slot names a thread that is not blocked, so an
\* answer never reaches a thread that did not ask, also after its pid was
\* reused.
BlockedIffNamed ==
  /\ abandoned \subseteq blocked
  /\ \A c \in Client :
        c \in blocked \ abandoned <=>
          \E i \in Slots : NamesClient(server.queue[i]) /\ server.queue[i].client = c
  /\ \A i, j \in Slots :
        /\ NamesClient(server.queue[i])
        /\ NamesClient(server.queue[j])
        /\ server.queue[i].client = server.queue[j].client
        => i = j

\* A blocked sender is abandoned only by a wrong answering call, and stays so.
\* A fair server that answers what it reads unblocks every other sender.
EveryCallAnswered ==
  \A c \in Client : c \in blocked ~> (c \notin blocked \/ c \in abandoned)

\* A sender parked on a full queue is eventually woken.
RetryersWoken == \A c \in Client : c \in retrying ~> c \notin retrying

\* No sender waits for ever, for an answer or for room in the queue.
NobodyWaitsForever == EveryCallAnswered /\ RetryersWoken

-----------------------------------------------------------------------------
(* The queue implements the Mailbox: what is unread, in generation order,  *)
(* is its inbox; the slots waiting for an answer are its tickets.          *)

MessageOf(e) ==
  [kind |-> CASE e.kind = "BlockingScalarT" -> "BlockingScalar"
              [] e.kind = "BorrowT" -> "Borrow"
              [] e.kind = "MutableBorrowT" -> "MutableBorrow"
              [] OTHER -> e.kind,
   client |-> e.client, msg |-> e.msg]

inbox ==
  [n \in 1 .. PendingCount(server) |->
     MessageOf(server.queue[CHOOSE i \in UnreadSlots(server) :
                              Age(server, server.queue[i].idx) = n - 1])]

owed ==
  [i \in {j \in Slots : IsWaiting(server.queue[j])} |->
     [memory |-> server.queue[i].kind \in {"WaitingReturnMemory", "WaitingForget"},
      client |-> server.queue[i].client, msg |-> server.queue[i].msg]]

M == INSTANCE Mailbox WITH Capacity <- QueueLen, Ticket <- Slots,
                           ready <- server.ready_threads

\* Every step of the queue is a step of the Mailbox: FIFO order, one answer
\* per ticket, the answer to the right sender.
ImplementsMailbox == M!Spec
=============================================================================
