------------------------------- MODULE Server -------------------------------
(***************************************************************************)
(* The message queue of one kernel server, as pure operators on a record   *)
(* (xous/kernel/src/server.rs).  A slot is addressed by its index; the     *)
(* order in which unread messages are read is carried by the generation    *)
(* number stored in each of them, a u8 in the code and a number modulo     *)
(* GenMod here.                                                            *)
(***************************************************************************)
EXTENDS Integers, FiniteSets

CONSTANTS
  QueueLen,    \* slots in a queue: PAGE_SIZE / size_of::<QueuedMessage>()
  GenMod,      \* number of distinct generations: 256 for the u8 of the code
  Client,      \* the threads that send messages
  Pid,         \* the processes they belong to
  OwnerOf,     \* the process of each client
  Payload,     \* what a message carries (ids, arguments, buffer), opaque
  Nobody,      \* stands for the sender of an entry whose process is gone
  NoPayload    \* stands for the contents of an entry that has none

ASSUME QueueLenAssumption == QueueLen \in Nat \ {0}
ASSUME GenModAssumption == GenMod \in Nat \ {0}
ASSUME OwnerAssumption == OwnerOf \in [Client -> Pid]
ASSUME NobodyAssumption == Nobody \notin Client /\ NoPayload \notin Payload

Slots == 0 .. QueueLen - 1
Generations == 0 .. GenMod - 1

-----------------------------------------------------------------------------
(* The messages of xous::Message and the states of a queue slot.           *)

Blocking == {"BlockingScalar", "Borrow", "MutableBorrow"}
MessageKinds == Blocking \cup {"Scalar", "Move"}

\* The variants of QueuedMessage the server has not read yet; the ones
\* ending in T are those whose sender terminated in the meantime.
UnreadKinds == MessageKinds \cup {"BlockingScalarT", "BorrowT", "MutableBorrowT"}

\* The variants that stand for a message the server has read and must still
\* answer.
WaitingKinds == {"WaitingReturnMemory", "WaitingForget",
                 "WaitingReturnScalar", "WaitingReturnScalarTerminated"}

\* The variants with a sender waiting for the answer, and those with nothing
\* but the sender or not even that.
NamingKinds == Blocking \cup {"WaitingReturnMemory", "WaitingReturnScalar"}
BareKinds == {"Empty", "WaitingReturnScalar", "WaitingReturnScalarTerminated"}

QueuedMessage ==
  {e \in [kind : UnreadKinds \cup WaitingKinds \cup {"Empty"},
          client : Client \cup {Nobody},
          idx : Generations,
          msg : Payload \cup {NoPayload}] :
     /\ e.client = Nobody <=> e.kind \notin NamingKinds
     /\ e.msg = NoPayload <=> e.kind \in BareKinds}

Entry(kind, client, idx, msg) ==
  [kind |-> kind, client |-> client, idx |-> idx, msg |-> msg]

Empty == Entry("Empty", Nobody, 0, NoPayload)

IsUnread(e) == e.kind \in UnreadKinds

IsWaiting(e) == e.kind \in WaitingKinds

\* A slot that keeps a client blocked until the server answers.
NamesClient(e) == e.kind \in NamingKinds

-----------------------------------------------------------------------------
(* Walking the ring.                                                       *)

NextSlot(i) == IF i + 1 >= QueueLen THEN 0 ELSE i + 1

NextGen(g) == (g + 1) % GenMod

\* How far the ring is walked from slot p before slot i is met.
Distance(p, i) == IF i >= p THEN i - p ELSE i - p + QueueLen

FirstFrom(p, S) ==
  CHOOSE i \in S : \A j \in S : Distance(p, i) <= Distance(p, j)

-----------------------------------------------------------------------------
(* Server::init, is_queue_full                                             *)

\* The states of a Server whose process has the threads T.
ServerState(T) ==
  [queue : [Slots -> QueuedMessage], queue_head : Slots, queue_tail : Slots,
   head_generation : Generations, tail_generation : Generations,
   empty_count : 0 .. QueueLen, ready_threads : SUBSET T]

ServerInit ==
  [queue |-> [i \in Slots |-> Empty], queue_head |-> 0, queue_tail |-> 0,
   head_generation |-> 0, tail_generation |-> 0, empty_count |-> QueueLen,
   ready_threads |-> {}]

IsQueueFull(s) == s.empty_count = 0

EmptySlots(s) == {i \in Slots : s.queue[i].kind = "Empty"}

-----------------------------------------------------------------------------
(* find_empty_slot, queue_message and queue_response                       *)

FindEmptySlot(s) == FirstFrom(s.queue_head, EmptySlots(s))

QueuedForm(kind, client, idx, msg) ==
  Entry(kind, IF kind \in Blocking THEN client ELSE Nobody, idx, msg)

QueueMessage(s, kind, client, msg) ==
  LET i == FindEmptySlot(s)
  IN [s EXCEPT !.queue[i] = QueuedForm(kind, client, s.tail_generation, msg),
               !.queue_head = NextSlot(i),
               !.empty_count = @ - 1,
               !.tail_generation = NextGen(@)]

\* assert_ne!(self.tail_generation, self.head_generation), the last step of
\* queue_message, evaluated on the state it leaves.
QueueMessageAssert(s) == NextGen(s.tail_generation) # s.head_generation

\* The token left behind for a message that is handed straight to a thread.
ResponseForm(kind, client, msg) ==
  IF kind = "BlockingScalar"
  THEN Entry("WaitingReturnScalar", client, 0, NoPayload)
  ELSE Entry("WaitingReturnMemory", client, 0, msg)

\* Faulty variant: the slot taken is not counted.
QueueResponseUncounted(s, kind, client, msg) ==
  LET i == FindEmptySlot(s)
  IN [s EXCEPT !.queue[i] = ResponseForm(kind, client, msg),
               !.queue_head = NextSlot(i)]

QueueResponse(s, kind, client, msg) ==
  LET i == FindEmptySlot(s)
  IN [s EXCEPT !.queue[i] = ResponseForm(kind, client, msg),
               !.queue_head = NextSlot(i),
               !.empty_count = @ - 1]

-----------------------------------------------------------------------------
(* take_next_message                                                       *)

\* The slots the scan of take_next_message stops at.
HeadSlots(s) ==
  {i \in Slots : IsUnread(s.queue[i]) /\ s.queue[i].idx = s.head_generation}

HasNextMessage(s) ==
  s.tail_generation # s.head_generation /\ HeadSlots(s) # {}

NextMessageSlot(s) == FirstFrom(s.queue_tail, HeadSlots(s))

\* Faulty variant: no token is kept for a blocking scalar.
ReadFormForgetful(e) ==
  CASE e.kind \in {"Scalar", "Move", "BlockingScalar"} -> Empty
    [] e.kind = "BlockingScalarT" ->
         Entry("WaitingReturnScalarTerminated", Nobody, 0, NoPayload)
    [] e.kind \in {"Borrow", "MutableBorrow"} ->
         Entry("WaitingReturnMemory", e.client, 0, e.msg)
    [] e.kind \in {"BorrowT", "MutableBorrowT"} ->
         Entry("WaitingForget", Nobody, 0, e.msg)

\* Faulty variant: a read borrow is kept as if only a scalar were owed.
ReadFormNoMemory(e) ==
  CASE e.kind \in {"Scalar", "Move"} -> Empty
    [] e.kind \in Blocking ->
         Entry("WaitingReturnScalar", e.client, 0, NoPayload)
    [] OTHER ->
         Entry("WaitingReturnScalarTerminated", Nobody, 0, NoPayload)

\* What a read message leaves in its slot.
ReadForm(e) ==
  CASE e.kind \in {"Scalar", "Move"} -> Empty
    [] e.kind = "BlockingScalar" ->
         Entry("WaitingReturnScalar", e.client, 0, NoPayload)
    [] e.kind = "BlockingScalarT" ->
         Entry("WaitingReturnScalarTerminated", Nobody, 0, NoPayload)
    [] e.kind \in {"Borrow", "MutableBorrow"} ->
         Entry("WaitingReturnMemory", e.client, 0, e.msg)
    [] e.kind \in {"BorrowT", "MutableBorrowT"} ->
         Entry("WaitingForget", Nobody, 0, e.msg)

TakeNextMessage(s) ==
  LET i == NextMessageSlot(s)
      response == ReadForm(s.queue[i])
  IN [s EXCEPT !.queue[i] = response,
               !.queue_tail = NextSlot(i),
               !.empty_count = IF response.kind = "Empty" THEN @ + 1 ELSE @,
               !.head_generation = NextGen(@)]

-----------------------------------------------------------------------------
(* take_waiting_message                                                    *)

\* Returning memory checks that the buffer is the one that was lent.
BufferMatches(e, buf) ==
  e.kind \in {"WaitingReturnMemory", "WaitingForget"} => e.msg = buf

TakeWaitingMessage(s, i) ==
  [s EXCEPT !.queue[i] = Empty,
            !.empty_count = @ + 1,
            !.queue_tail = NextSlot(i)]

-----------------------------------------------------------------------------
(* discard_messages_for_pid                                                *)

\* Faulty variant: the entry loses its place in the order.
DiscardedFormUnordered(e) ==
  CASE e.kind \in Blocking ->
         Entry(CASE e.kind = "BlockingScalar" -> "BlockingScalarT"
                 [] e.kind = "Borrow" -> "BorrowT"
                 [] e.kind = "MutableBorrow" -> "MutableBorrowT",
               Nobody, 0, e.msg)
    [] e.kind = "WaitingReturnMemory" ->
         Entry("WaitingForget", Nobody, 0, e.msg)
    [] e.kind = "WaitingReturnScalar" ->
         Entry("WaitingReturnScalarTerminated", Nobody, 0, NoPayload)

DiscardedForm(e) ==
  CASE e.kind \in Blocking ->
         Entry(CASE e.kind = "BlockingScalar" -> "BlockingScalarT"
                 [] e.kind = "Borrow" -> "BorrowT"
                 [] e.kind = "MutableBorrow" -> "MutableBorrowT",
               Nobody, e.idx, e.msg)
    [] e.kind = "WaitingReturnMemory" ->
         Entry("WaitingForget", Nobody, 0, e.msg)
    [] e.kind = "WaitingReturnScalar" ->
         Entry("WaitingReturnScalarTerminated", Nobody, 0, NoPayload)

\* Faulty variant: only the unread messages of the process are looked at.
DiscardUnreadForPid(s, pid) ==
  [s EXCEPT !.queue =
     [i \in Slots |-> IF @[i].kind \in Blocking /\ OwnerOf[@[i].client] = pid
                      THEN DiscardedForm(@[i]) ELSE @[i]]]

DiscardMessagesForPid(s, pid) ==
  [s EXCEPT !.queue =
     [i \in Slots |-> IF NamesClient(@[i]) /\ OwnerOf[@[i].client] = pid
                      THEN DiscardedForm(@[i]) ELSE @[i]]]

-----------------------------------------------------------------------------
(* ready_threads: take_available_thread, park_thread                       *)

\* Bits are tested from bit 0 up, so the lowest thread number is taken.
AvailableThread(s) ==
  CHOOSE t \in s.ready_threads : \A u \in s.ready_threads : t <= u

\* Faulty variant: the thread stays on offer.
TakeAvailableThreadKept(s) == s

TakeAvailableThread(s) ==
  [s EXCEPT !.ready_threads = @ \ {AvailableThread(s)}]

ParkThread(s, t) == [s EXCEPT !.ready_threads = @ \cup {t}]

-----------------------------------------------------------------------------
(* Vocabulary for the order of unread messages                             *)

UnreadSlots(s) == {i \in Slots : IsUnread(s.queue[i])}

\* How many messages sent before the one of generation g are still unread.
Age(s, g) == IF g >= s.head_generation
             THEN g - s.head_generation
             ELSE g - s.head_generation + GenMod

PendingCount(s) == Age(s, s.tail_generation)

\* The generations from head to tail are in the queue, each exactly once.
Ordered(s) ==
  /\ \A i \in UnreadSlots(s) : Age(s, s.queue[i].idx) < PendingCount(s)
  /\ \A i, j \in UnreadSlots(s) : s.queue[i].idx = s.queue[j].idx => i = j
  /\ \A n \in 0 .. PendingCount(s) - 1 :
        \E i \in UnreadSlots(s) : Age(s, s.queue[i].idx) = n
=============================================================================
