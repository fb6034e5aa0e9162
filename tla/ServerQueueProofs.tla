-------------------------- MODULE ServerQueueProofs --------------------------
(***************************************************************************)
(* Proofs about ServerQueue, for every queue length, number of             *)
(* generations, clients and server threads.                                *)
(***************************************************************************)
EXTENDS ServerQueue, FiniteSetTheorems, WellFoundedInduction, TLAPS

-----------------------------------------------------------------------------
(* The ring                                                                *)

\* wrapping_add(1) on a generation.
LEMMA NextGenCases ==
  ASSUME NEW g \in Generations
  PROVE  NextGen(g) = IF g + 1 = GenMod THEN 0 ELSE g + 1
<1>1. CASE g + 1 = GenMod
  BY <1>1, GenModAssumption DEF NextGen, Generations
<1>2. CASE g + 1 # GenMod
  BY <1>2, GenModAssumption DEF NextGen, Generations
<1> QED BY <1>1, <1>2

\* The u8 generations wrap and stay in range.
LEMMA NextGenType ==
  ASSUME NEW g \in Generations
  PROVE  NextGen(g) \in Generations
BY NextGenCases, GenModAssumption DEF Generations

\* queue_head and queue_tail wrap and stay inside the array.
LEMMA NextSlotType ==
  ASSUME NEW i \in Slots
  PROVE  NextSlot(i) \in Slots
BY QueueLenAssumption DEF NextSlot, Slots

\* Every non-empty set of naturals has a least element.
LEMMA LeastNatural ==
  ASSUME NEW S \in SUBSET Nat, S # {}
  PROVE  \E n \in S : \A m \in S : n <= m
<1>1. PICK n \in S : \A m \in S : ~ (<<m, n>> \in OpToRel(<, Nat))
  BY WFMin, NatLessThanWellFounded, Zenon
<1>2. \A m \in S : ~ (m < n)
  BY <1>1, Zenon DEF OpToRel
<1> QED BY <1>2

\* A cyclic scan that has something to find finds it.
LEMMA FirstFromMember ==
  ASSUME NEW p \in Slots, NEW S \in SUBSET Slots, S # {}
  PROVE  FirstFrom(p, S) \in S
<1> DEFINE D == {Distance(p, i) : i \in S}
<1>1. \A i \in S : Distance(p, i) \in Nat
  BY QueueLenAssumption DEF Distance, Slots
<1>2. \E n \in D : \A m \in D : n <= m
  <2>1. D \in SUBSET Nat /\ D # {}
    BY <1>1
  <2> HIDE DEF D
  <2> QED BY <2>1, LeastNatural
<1>3. \E i \in S : \A j \in S : Distance(p, i) <= Distance(p, j)
  BY <1>2
<1> QED BY <1>3 DEF FirstFrom

\* The queue is an array of QueueLen slots.
LEMMA SlotsFinite == IsFiniteSet(Slots) /\ Cardinality(Slots) = QueueLen
BY FS_Interval, QueueLenAssumption DEF Slots

-----------------------------------------------------------------------------
(* Entries                                                                 *)

\* QueuedMessage::Empty is a slot value.
LEMMA EmptyType == Empty \in QueuedMessage
BY GenModAssumption
   DEF Empty, Entry, QueuedMessage, Generations, NamingKinds, BareKinds,
       Blocking

\* What queue_message stores is a slot value that keeps kind and generation.
LEMMA QueuedFormType ==
  ASSUME NEW kind \in MessageKinds, NEW client \in Client,
         NEW idx \in Generations, NEW msg \in Payload
  PROVE  /\ QueuedForm(kind, client, idx, msg) \in QueuedMessage
         /\ QueuedForm(kind, client, idx, msg).kind = kind
         /\ QueuedForm(kind, client, idx, msg).idx = idx
BY NobodyAssumption
   DEF QueuedForm, Entry, QueuedMessage, UnreadKinds, MessageKinds, Blocking,
       NamingKinds, BareKinds

\* What queue_response stores is a slot waiting for an answer.
LEMMA ResponseFormType ==
  ASSUME NEW kind \in Blocking, NEW client \in Client, NEW msg \in Payload
  PROVE  /\ ResponseForm(kind, client, msg) \in QueuedMessage
         /\ IsWaiting(ResponseForm(kind, client, msg))
BY GenModAssumption, NobodyAssumption
   DEF ResponseForm, Entry, QueuedMessage, WaitingKinds, Generations, IsWaiting,
       NamingKinds, BareKinds, Blocking

\* take_next_message leaves a slot empty or waiting for an answer.
LEMMA ReadFormType ==
  ASSUME NEW e \in QueuedMessage, IsUnread(e)
  PROVE  /\ ReadForm(e) \in QueuedMessage
         /\ ReadForm(e).kind = "Empty" \/ IsWaiting(ReadForm(e))
BY GenModAssumption, NobodyAssumption
   DEF ReadForm, Empty, Entry, QueuedMessage, UnreadKinds, MessageKinds,
       Blocking, WaitingKinds, IsUnread, IsWaiting, Generations, NamingKinds,
       BareKinds

\* discard_messages_for_pid keeps a slot unread or waiting, at its generation,
\* and makes it name nobody.
LEMMA DiscardedFormType ==
  ASSUME NEW e \in QueuedMessage, NamesClient(e)
  PROVE  /\ DiscardedForm(e) \in QueuedMessage
         /\ IsUnread(e) => /\ IsUnread(DiscardedForm(e))
                           /\ DiscardedForm(e).idx = e.idx
         /\ IsWaiting(e) => IsWaiting(DiscardedForm(e))
         /\ DiscardedForm(e).kind # "Empty"
         /\ ~NamesClient(DiscardedForm(e))
BY GenModAssumption, NobodyAssumption
   DEF DiscardedForm, NamesClient, Entry, QueuedMessage, UnreadKinds,
       MessageKinds, Blocking, WaitingKinds, IsUnread, IsWaiting, Generations,
       NamingKinds, BareKinds

\* An entry is exactly one of empty, unread and waiting.
LEMMA KindsDisjoint ==
  ASSUME NEW e \in QueuedMessage
  PROVE  /\ e.kind # "Empty" <=> (IsUnread(e) \/ IsWaiting(e))
         /\ ~(IsUnread(e) /\ IsWaiting(e))
BY DEF QueuedMessage, UnreadKinds, MessageKinds, Blocking, WaitingKinds,
       IsUnread, IsWaiting

\* A slot waiting to answer a live sender names it.
LEMMA WaitingClient ==
  ASSUME NEW s \in ServerState(Thread), NEW i \in Slots,
         NamesClient(s.queue[i])
  PROVE  s.queue[i].client \in Client
BY DEF ServerState, QueuedMessage, NamesClient

-----------------------------------------------------------------------------
(* Counting empty slots                                                    *)

\* The Empty slots can be counted; the count fits empty_count.
LEMMA EmptySlotsFinite ==
  ASSUME NEW s
  PROVE  /\ IsFiniteSet(EmptySlots(s))
         /\ Cardinality(EmptySlots(s)) \in 0 .. QueueLen
         /\ Cardinality(EmptySlots(s)) = 0 <=> EmptySlots(s) = {}
<1>1. EmptySlots(s) \in SUBSET Slots
  BY DEF EmptySlots
<1>2. /\ IsFiniteSet(EmptySlots(s))
      /\ Cardinality(EmptySlots(s)) <= QueueLen
  BY <1>1, SlotsFinite, FS_Subset
<1> QED BY <1>2, FS_CardinalityType, FS_EmptySet, QueueLenAssumption

\* Filling an empty slot takes it out of the set, emptying one puts it in.
LEMMA FillCounts ==
  ASSUME NEW s, NEW r, NEW i \in EmptySlots(s),
         EmptySlots(r) = EmptySlots(s) \ {i}
  PROVE  Cardinality(EmptySlots(r)) = Cardinality(EmptySlots(s)) - 1
BY FS_RemoveElement, EmptySlotsFinite

\* Emptying a slot adds one to the number of Empty slots.
LEMMA DrainCounts ==
  ASSUME NEW s, NEW r, NEW i \in Slots, i \notin EmptySlots(s),
         EmptySlots(r) = EmptySlots(s) \cup {i}
  PROVE  Cardinality(EmptySlots(r)) = Cardinality(EmptySlots(s)) + 1
BY FS_AddElement, EmptySlotsFinite

-----------------------------------------------------------------------------
(* The operations on the record, for a queue whose count is right          *)

Counted(s) == s.empty_count = Cardinality(EmptySlots(s))

\* The search of queue_message and queue_response finds an Empty slot whenever
\* is_queue_full says there is one.
LEMMA FindEmptySlotFinds ==
  ASSUME NEW s \in ServerState(Thread), Counted(s), ~IsQueueFull(s)
  PROVE  /\ FindEmptySlot(s) \in EmptySlots(s)
         /\ FindEmptySlot(s) \in Slots
<1>1. EmptySlots(s) # {}
  BY EmptySlotsFinite DEF Counted, IsQueueFull
<1>2. EmptySlots(s) \in SUBSET Slots
  BY DEF EmptySlots
<1> QED BY <1>1, <1>2, FirstFromMember DEF FindEmptySlot, ServerState

\* Storing a non-empty entry e in the slot found, as queue_message and
\* queue_response do.
LEMMA FillKeepsState ==
  ASSUME NEW s \in ServerState(Thread), Counted(s), ~IsQueueFull(s),
         NEW e \in QueuedMessage, e.kind # "Empty",
         NEW g \in Generations
  PROVE  LET i == FindEmptySlot(s)
             r == [s EXCEPT !.queue[i] = e, !.queue_head = NextSlot(i),
                            !.empty_count = @ - 1, !.tail_generation = g]
         IN r \in ServerState(Thread) /\ Counted(r)
<1> DEFINE i == FindEmptySlot(s)
           r == [s EXCEPT !.queue[i] = e, !.queue_head = NextSlot(i),
                          !.empty_count = @ - 1, !.tail_generation = g]
<1>1. i \in EmptySlots(s) /\ i \in Slots
  BY FindEmptySlotFinds
<1>2. NextSlot(i) \in Slots
  BY <1>1, NextSlotType
<1> HIDE DEF i
<1>3. r.queue = [s.queue EXCEPT ![i] = e] /\ r.empty_count = s.empty_count - 1
  BY DEF ServerState
<1>4. EmptySlots(r) = EmptySlots(s) \ {i}
  BY <1>1, <1>3 DEF EmptySlots, ServerState
<1>5. Counted(r)
  BY <1>1, <1>3, <1>4, FillCounts DEF Counted
<1>6. r.empty_count \in 0 .. QueueLen
  BY <1>5, EmptySlotsFinite DEF Counted
<1>7. s.queue \in [Slots -> QueuedMessage]
  BY DEF ServerState
<1>8. r.queue \in [Slots -> QueuedMessage]
  BY <1>3, <1>7, ZenonT(30)
<1>9. r \in ServerState(Thread)
  BY <1>2, <1>6, <1>8 DEF ServerState
<1> QED BY <1>5, <1>9 DEF i

\* queue_message keeps the server well formed and empty_count exact.
LEMMA QueueMessageState ==
  ASSUME NEW s \in ServerState(Thread), Counted(s), ~IsQueueFull(s),
         NEW kind \in MessageKinds, NEW c \in Client, NEW msg \in Payload
  PROVE  LET r == QueueMessage(s, kind, c, msg)
         IN r \in ServerState(Thread) /\ Counted(r)
<1> DEFINE e == QueuedForm(kind, c, s.tail_generation, msg)
           g == NextGen(s.tail_generation)
<1>1. s.tail_generation \in Generations
  BY DEF ServerState
<1>2. e \in QueuedMessage /\ e.kind # "Empty"
  BY <1>1, QueuedFormType DEF MessageKinds, Blocking
<1>3. g \in Generations
  BY <1>1, NextGenType
<1> QED BY <1>2, <1>3, FillKeepsState DEF QueueMessage

\* queue_response keeps the server well formed and empty_count exact.
LEMMA QueueResponseState ==
  ASSUME NEW s \in ServerState(Thread), Counted(s), ~IsQueueFull(s),
         NEW kind \in Blocking, NEW c \in Client, NEW msg \in Payload
  PROVE  LET r == QueueResponse(s, kind, c, msg)
         IN r \in ServerState(Thread) /\ Counted(r)
<1> DEFINE e == ResponseForm(kind, c, msg)
           i == FindEmptySlot(s)
           r == [s EXCEPT !.queue[i] = e, !.queue_head = NextSlot(i),
                          !.empty_count = @ - 1,
                          !.tail_generation = s.tail_generation]
<1>1. s.tail_generation \in Generations
  BY DEF ServerState
<1>2. e \in QueuedMessage /\ e.kind # "Empty"
  BY ResponseFormType, KindsDisjoint, SMTT(30)
<1>3. r \in ServerState(Thread) /\ Counted(r)
  BY <1>1, <1>2, FillKeepsState
<1>4. QueueResponse(s, kind, c, msg) = r
  BY DEF QueueResponse, ServerState
<1> QED BY <1>3, <1>4

\* take_available_thread only takes a bit out of ready_threads.
LEMMA TakeAvailableThreadState ==
  ASSUME NEW s \in ServerState(Thread)
  PROVE  LET r == TakeAvailableThread(s)
         IN /\ r \in ServerState(Thread)
            /\ r.queue = s.queue /\ r.empty_count = s.empty_count
            /\ r.head_generation = s.head_generation
            /\ r.tail_generation = s.tail_generation
            /\ r.ready_threads \subseteq s.ready_threads
BY DEF TakeAvailableThread, ServerState

\* park_thread only adds a bit to ready_threads.
LEMMA ParkThreadState ==
  ASSUME NEW s \in ServerState(Thread), NEW t \in Thread
  PROVE  LET r == ParkThread(s, t)
         IN /\ r \in ServerState(Thread)
            /\ r.queue = s.queue /\ r.empty_count = s.empty_count
            /\ r.head_generation = s.head_generation
            /\ r.tail_generation = s.tail_generation
BY DEF ParkThread, ServerState

\* Replacing the entry of an occupied slot, as take_next_message and
\* take_waiting_message do.
LEMMA ReplaceKeepsState ==
  ASSUME NEW s \in ServerState(Thread), Counted(s),
         NEW i \in Slots, i \notin EmptySlots(s),
         NEW e \in QueuedMessage, NEW g \in Generations
  PROVE  LET r == [s EXCEPT !.queue[i] = e, !.queue_tail = NextSlot(i),
                            !.empty_count = IF e.kind = "Empty" THEN @ + 1 ELSE @,
                            !.head_generation = g]
         IN r \in ServerState(Thread) /\ Counted(r)
<1> DEFINE r == [s EXCEPT !.queue[i] = e, !.queue_tail = NextSlot(i),
                          !.empty_count = IF e.kind = "Empty" THEN @ + 1 ELSE @,
                          !.head_generation = g]
<1>1. NextSlot(i) \in Slots
  BY NextSlotType
<1>2. /\ r.queue = [s.queue EXCEPT ![i] = e]
      /\ r.empty_count = IF e.kind = "Empty" THEN s.empty_count + 1
                                             ELSE s.empty_count
  BY DEF ServerState
<1>3. ASSUME e.kind = "Empty" PROVE Counted(r)
  <2>1. EmptySlots(r) = EmptySlots(s) \cup {i}
    BY <1>2, <1>3 DEF EmptySlots, ServerState
  <2> QED BY <1>2, <1>3, <2>1, DrainCounts DEF Counted
<1>4. ASSUME e.kind # "Empty" PROVE Counted(r)
  <2>1. EmptySlots(r) = EmptySlots(s)
    BY <1>2, <1>4 DEF EmptySlots, ServerState
  <2> QED BY <1>2, <1>4, <2>1 DEF Counted
<1>5. Counted(r)
  BY <1>3, <1>4
<1>6. r.empty_count \in 0 .. QueueLen
  BY <1>5, EmptySlotsFinite DEF Counted
<1>7. s.queue \in [Slots -> QueuedMessage]
  BY DEF ServerState
<1>8. r.queue \in [Slots -> QueuedMessage]
  BY <1>2, <1>7
<1>9. r \in ServerState(Thread)
  BY <1>1, <1>6, <1>8 DEF ServerState
<1> QED BY <1>5, <1>9

\* The scan of take_next_message stops at an unread slot of the head generation.
LEMMA NextMessageSlotFinds ==
  ASSUME NEW s \in ServerState(Thread), HasNextMessage(s)
  PROVE  /\ NextMessageSlot(s) \in Slots
         /\ IsUnread(s.queue[NextMessageSlot(s)])
         /\ s.queue[NextMessageSlot(s)].idx = s.head_generation
<1>1. HeadSlots(s) # {} /\ HeadSlots(s) \in SUBSET Slots
  BY DEF HasNextMessage, HeadSlots
<1>2. NextMessageSlot(s) \in HeadSlots(s)
  BY <1>1, FirstFromMember DEF NextMessageSlot, ServerState
<1> QED BY <1>2 DEF HeadSlots

\* take_next_message keeps the server well formed and empty_count exact.
LEMMA TakeNextMessageState ==
  ASSUME NEW s \in ServerState(Thread), Counted(s), HasNextMessage(s)
  PROVE  LET r == TakeNextMessage(s)
         IN r \in ServerState(Thread) /\ Counted(r)
<1> DEFINE i == NextMessageSlot(s)
           e == ReadForm(s.queue[i])
           g == NextGen(s.head_generation)
<1>1. i \in Slots /\ IsUnread(s.queue[i]) /\ s.queue[i] \in QueuedMessage
  BY NextMessageSlotFinds DEF ServerState
<1>2. i \notin EmptySlots(s)
  BY <1>1, KindsDisjoint DEF EmptySlots
<1>3. e \in QueuedMessage
  BY <1>1, ReadFormType
<1>4. g \in Generations
  BY NextGenType DEF ServerState
<1> QED BY <1>1, <1>2, <1>3, <1>4, ReplaceKeepsState DEF TakeNextMessage

\* take_waiting_message keeps the server well formed and empty_count exact.
LEMMA TakeWaitingMessageState ==
  ASSUME NEW s \in ServerState(Thread), Counted(s),
         NEW i \in Slots, IsWaiting(s.queue[i])
  PROVE  LET r == TakeWaitingMessage(s, i)
         IN r \in ServerState(Thread) /\ Counted(r)
<1> DEFINE r == [s EXCEPT !.queue[i] = Empty, !.queue_tail = NextSlot(i),
                          !.empty_count = IF Empty.kind = "Empty" THEN @ + 1 ELSE @,
                          !.head_generation = s.head_generation]
<1>1. i \notin EmptySlots(s)
  BY KindsDisjoint DEF EmptySlots, ServerState
<1>2. s.head_generation \in Generations
  BY SMTT(30) DEF ServerState
<1>3. r \in ServerState(Thread) /\ Counted(r)
  BY <1>1, <1>2, EmptyType, ReplaceKeepsState
<1>4. Empty.kind = "Empty"
  BY DEF Empty, Entry
<1>5. TakeWaitingMessage(s, i) = r
  BY <1>4 DEF TakeWaitingMessage, ServerState
<1> QED BY <1>3, <1>5

\* discard_messages_for_pid empties no slot and touches nothing but the queue.
LEMMA DiscardState ==
  ASSUME NEW s \in ServerState(Thread), NEW pid
  PROVE  LET r == DiscardMessagesForPid(s, pid)
         IN /\ r \in ServerState(Thread)
            /\ EmptySlots(r) = EmptySlots(s)
            /\ r.empty_count = s.empty_count
            /\ r.head_generation = s.head_generation
            /\ r.tail_generation = s.tail_generation
            /\ r.ready_threads = s.ready_threads
            /\ r.queue = [i \in Slots |->
                 IF NamesClient(s.queue[i]) /\ OwnerOf[s.queue[i].client] = pid
                 THEN DiscardedForm(s.queue[i]) ELSE s.queue[i]]
<1> DEFINE q == [i \in Slots |->
                   IF NamesClient(s.queue[i]) /\ OwnerOf[s.queue[i].client] = pid
                   THEN DiscardedForm(s.queue[i]) ELSE s.queue[i]]
           r == [s EXCEPT !.queue = q]
<1>1. \A i \in Slots : s.queue[i] \in QueuedMessage
  BY DEF ServerState
<1>2. q \in [Slots -> QueuedMessage]
  BY <1>1, DiscardedFormType
<1>3. \A i \in Slots : q[i].kind = "Empty" <=> s.queue[i].kind = "Empty"
  <2> SUFFICES ASSUME NEW i \in Slots
               PROVE  q[i].kind = "Empty" <=> s.queue[i].kind = "Empty"
    OBVIOUS
  <2>1. CASE NamesClient(s.queue[i]) /\ OwnerOf[s.queue[i].client] = pid
    <3>1. q[i].kind # "Empty"
      BY <1>1, <2>1, DiscardedFormType
    <3>2. s.queue[i].kind # "Empty"
      BY <2>1 DEF NamesClient, NamingKinds, Blocking
    <3> QED BY <3>1, <3>2
  <2>2. CASE ~(NamesClient(s.queue[i]) /\ OwnerOf[s.queue[i].client] = pid)
    BY <2>2
  <2> QED BY <2>1, <2>2
<1>4. DiscardMessagesForPid(s, pid) = r
  BY DEF DiscardMessagesForPid, ServerState
<1> HIDE DEF q
<1>5. r.queue = q
  BY DEF ServerState
<1>6. EmptySlots(r) = EmptySlots(s)
  BY <1>3, <1>5 DEF EmptySlots
<1>7. r \in ServerState(Thread)
  BY <1>2 DEF ServerState
<1>8. /\ r.empty_count = s.empty_count
      /\ r.head_generation = s.head_generation
      /\ r.tail_generation = s.tail_generation
      /\ r.ready_threads = s.ready_threads
  BY DEF ServerState
<1> QED BY <1>4, <1>5, <1>6, <1>7, <1>8 DEF q

-----------------------------------------------------------------------------
(* Types and the count of empty slots                                      *)

CountInv == TypeOK /\ EmptyCountExact

\* A new server has every slot Empty and counted.
LEMMA InitCount == Init => CountInv
<1> SUFFICES ASSUME Init PROVE CountInv
  OBVIOUS
<1>1. ServerInit \in ServerState(Thread)
  BY EmptyType, QueueLenAssumption, GenModAssumption
     DEF ServerInit, ServerState, Slots, Generations
<1>2. EmptySlots(ServerInit) = Slots
  BY DEF EmptySlots, ServerInit, Empty, Entry
<1>3. ServerInit.empty_count = QueueLen
  BY DEF ServerInit
<1> QED BY <1>1, <1>2, <1>3, SlotsFinite
        DEF Init, CountInv, TypeOK, EmptyCountExact

\* Every message call keeps the type and empty_count exact.
LEMMA NextCount == CountInv /\ [Next]_vars => CountInv'
<1> SUFFICES ASSUME CountInv, [Next]_vars PROVE CountInv'
  OBVIOUS
<1> USE DEF CountInv, TypeOK, EmptyCountExact
<1>c. Counted(server)
  BY DEF Counted
<1>g. ASSUME server' \in ServerState(Thread), Counted(server'),
             blocked' \in SUBSET Client, retrying' \in SUBSET Client,
             abandoned' \in SUBSET Client
      PROVE  CountInv'
  BY <1>g DEF Counted
<1>1. ASSUME NEW c \in Client, SendQueueFull(c) PROVE CountInv'
  BY <1>1, <1>c, <1>g DEF SendQueueFull
<1>2. ASSUME NEW c \in Client, NEW kind \in Sent, NEW msg \in Payload,
             SendDirect(c, kind, msg)
      PROVE  CountInv'
  <2> DEFINE taken == TakeAvailableThread(server)
  <2>1. /\ taken \in ServerState(Thread)
        /\ taken.queue = server.queue
        /\ taken.empty_count = server.empty_count
    BY TakeAvailableThreadState
  <2> HIDE DEF taken
  <2>2. EmptySlots(taken) = EmptySlots(server)
    BY <2>1 DEF EmptySlots
  <2>3. Counted(taken) /\ ~IsQueueFull(taken)
    BY <1>2, <1>c, <2>1, <2>2 DEF SendDirect, Counted, IsQueueFull
  <2>4. server' \in ServerState(Thread) /\ Counted(server')
    <3>1. CASE kind \in Blocking
      BY <1>2, <2>1, <2>3, <3>1, QueueResponseState DEF SendDirect, taken
    <3>2. CASE kind \notin Blocking
      BY <1>2, <2>1, <2>3, <3>2 DEF SendDirect, taken
    <3> QED BY <3>1, <3>2
  <2> QED BY <1>2, <1>g, <2>4 DEF SendDirect, Suspend
<1>3. ASSUME NEW c \in Client, NEW kind \in Sent, NEW msg \in Payload,
             SendQueued(c, kind, msg)
      PROVE  CountInv'
  <2>1. server' \in ServerState(Thread) /\ Counted(server')
    BY <1>3, <1>c, QueueMessageState, SentAssumption DEF SendQueued
  <2> QED BY <1>3, <1>g, <2>1 DEF SendQueued, Suspend
<1>4. ASSUME NEW t \in Thread, ReceiveNext(t) PROVE CountInv'
  <2>1. server' \in ServerState(Thread) /\ Counted(server')
    BY <1>4, <1>c, TakeNextMessageState DEF ReceiveNext
  <2> QED BY <1>4, <1>g, <2>1
          DEF ReceiveNext, WakeIfNoLongerFull, WakeThreadsWithState
<1>5. ASSUME NEW t \in Thread, ReceivePark(t) PROVE CountInv'
  <2>1. /\ server' \in ServerState(Thread)
        /\ server'.queue = server.queue
        /\ server'.empty_count = server.empty_count
    BY <1>5, ParkThreadState DEF ReceivePark
  <2>2. Counted(server')
    BY <1>c, <2>1 DEF Counted, EmptySlots
  <2> QED BY <1>5, <1>g, <2>1, <2>2 DEF ReceivePark
<1>6. ASSUME NEW i \in Slots, ReturnResult(i) PROVE CountInv'
  <2>1. server' \in ServerState(Thread) /\ Counted(server')
    BY <1>6, <1>c, TakeWaitingMessageState DEF ReturnResult
  <2>2. abandoned' \in SUBSET Client
    BY <1>6, WaitingClient DEF ReturnResult, NamesClient, NamingKinds
  <2> QED BY <1>6, <1>g, <2>1, <2>2
          DEF ReturnResult, WakeIfNoLongerFull, WakeThreadsWithState
<1>7. ASSUME NEW i \in Slots, NEW buf \in Payload, ReturnMemory(i, buf)
      PROVE  CountInv'
  <2>1. server' \in ServerState(Thread) /\ Counted(server')
    BY <1>7, <1>c, TakeWaitingMessageState DEF ReturnMemory
  <2>2. abandoned' \in SUBSET Client
    BY <1>7, WaitingClient DEF ReturnMemory, NamesClient, NamingKinds
  <2> QED BY <1>7, <1>g, <2>1, <2>2
          DEF ReturnMemory, WakeIfNoLongerFull, WakeThreadsWithState
<1>8. ASSUME NEW pid \in Pid, ClientTerminates(pid) PROVE CountInv'
  <2>1. /\ server' \in ServerState(Thread)
        /\ EmptySlots(server') = EmptySlots(server)
        /\ server'.empty_count = server.empty_count
    BY <1>8, DiscardState DEF ClientTerminates
  <2>2. Counted(server')
    BY <1>c, <2>1 DEF Counted
  <2> QED BY <1>8, <1>g, <2>1, <2>2 DEF ClientTerminates
<1>9. CASE UNCHANGED vars
  BY <1>9, <1>c, <1>g DEF vars
<1> QED BY <1>1, <1>2, <1>3, <1>4, <1>5, <1>6, <1>7, <1>8, <1>9 DEF Next

\* Every message system call keeps the queue well typed, and empty_count is the
\* number of Empty slots, for every queue length and any number of clients
\* and server threads: find_empty_slot succeeds whenever is_queue_full says
\* there is room.
THEOREM CountCorrect == Spec => [](TypeOK /\ EmptyCountExact)
<1>1. Init => CountInv
  BY InitCount
<1>2. CountInv /\ [Next]_vars => CountInv'
  BY NextCount
<1>3. CountInv => TypeOK /\ EmptyCountExact
  BY DEF CountInv
<1> QED BY <1>1, <1>2, <1>3, PTL DEF Spec

-----------------------------------------------------------------------------
(* The order of unread messages                                            *)

\* The distance from head_generation is below the modulus.
LEMMA AgeType ==
  ASSUME NEW s \in ServerState(Thread), NEW g \in Generations
  PROVE  Age(s, g) \in 0 .. GenMod - 1
BY GenModAssumption DEF Age, ServerState, Generations

\* An unread slot carries a generation.
LEMMA UnreadIdx ==
  ASSUME NEW s \in ServerState(Thread), NEW i \in UnreadSlots(s)
  PROVE  i \in Slots /\ s.queue[i].idx \in Generations
BY DEF UnreadSlots, ServerState, QueuedMessage

\* The pigeonhole: as long as a slot is empty, fewer messages are pending
\* than the queue has slots.
LEMMA RoomBoundsPending ==
  ASSUME NEW s \in ServerState(Thread), Ordered(s), EmptySlots(s) # {}
  PROVE  PendingCount(s) < QueueLen
<1> DEFINE P == PendingCount(s)
           U == UnreadSlots(s)
           f == [i \in U |-> Age(s, s.queue[i].idx)]
<1>1. P \in Nat
  BY AgeType, GenModAssumption DEF PendingCount, ServerState
<1>2. f \in Surjection(U, 0 .. P - 1)
  <2>1. \A i \in U : f[i] \in 0 .. P - 1
    BY <1>1, UnreadIdx, AgeType, GenModAssumption DEF Ordered
  <2>2. f \in [U -> 0 .. P - 1]
    BY <2>1
  <2>3. \A n \in 0 .. P - 1 : \E i \in U : f[i] = n
    BY DEF Ordered
  <2> HIDE DEF f
  <2> QED BY <2>2, <2>3 DEF Surjection
<1>3. PICK k \in EmptySlots(s) : TRUE
  OBVIOUS
<1>4. k \in Slots /\ k \notin U
  BY <1>3, KindsDisjoint DEF EmptySlots, UnreadSlots, ServerState
<1>5. U \subseteq Slots \ {k}
  BY <1>4 DEF UnreadSlots
<1>6. IsFiniteSet(Slots \ {k}) /\ Cardinality(Slots \ {k}) = QueueLen - 1
  BY <1>4, SlotsFinite, FS_RemoveElement
<1>7. IsFiniteSet(U) /\ Cardinality(U) <= QueueLen - 1
  BY <1>5, <1>6, FS_Subset
<1>8. Cardinality(0 .. P - 1) <= Cardinality(U)
  BY <1>2, <1>7, FS_Surjection
<1>9. Cardinality(0 .. P - 1) = P
  BY <1>1, FS_Interval
<1>10. Cardinality(U) \in Nat
  BY <1>7, FS_CardinalityType
<1> HIDE DEF P, U
<1>11. P < QueueLen
  BY <1>1, <1>7, <1>8, <1>9, <1>10, QueueLenAssumption
<1> QED BY <1>11 DEF P

\* A record whose unread entries and generations are those of s.
SameMail(r, s) ==
  /\ r.head_generation = s.head_generation
  /\ r.tail_generation = s.tail_generation
  /\ UnreadSlots(r) = UnreadSlots(s)
  /\ \A i \in UnreadSlots(s) : r.queue[i].idx = s.queue[i].idx

\* A step that leaves unread slots and generations alone keeps the order.
LEMMA SameMailOrdered ==
  ASSUME NEW r, NEW s, SameMail(r, s), Ordered(s)
  PROVE  Ordered(r)
<1>1. \A g : Age(r, g) = Age(s, g)
  BY DEF SameMail, Age
<1>2. PendingCount(r) = PendingCount(s)
  BY <1>1 DEF SameMail, PendingCount
<1> QED BY <1>1, <1>2 DEF SameMail, Ordered

\* queue_message gives the new message the generation after the last.
LEMMA QueueMessageOrdered ==
  ASSUME NEW s \in ServerState(Thread), Counted(s), ~IsQueueFull(s),
         Ordered(s), QueueLen < GenMod,
         NEW kind \in MessageKinds, NEW c \in Client, NEW msg \in Payload
  PROVE  /\ Ordered(QueueMessage(s, kind, c, msg))
         /\ NextGen(s.tail_generation) # s.head_generation
<1> DEFINE i == FindEmptySlot(s)
           e == QueuedForm(kind, c, s.tail_generation, msg)
           r == QueueMessage(s, kind, c, msg)
           P == PendingCount(s)
<1>1. /\ s.head_generation \in Generations /\ s.tail_generation \in Generations
      /\ s.queue \in [Slots -> QueuedMessage]
  BY DEF ServerState
<1>2. i \in EmptySlots(s) /\ i \in Slots
  BY FindEmptySlotFinds
<1>3. P < QueueLen
  BY <1>2, RoomBoundsPending
<1>4. /\ e.kind = kind /\ e.idx = s.tail_generation
      /\ IsUnread(e)
  BY <1>1, QueuedFormType DEF IsUnread, UnreadKinds
<1> HIDE DEF i, e
<1>5. /\ r.queue = [s.queue EXCEPT ![i] = e]
      /\ r.head_generation = s.head_generation
      /\ r.tail_generation = NextGen(s.tail_generation)
  BY DEF QueueMessage, ServerState, i, e
<1> HIDE DEF r
<1>6. UnreadSlots(r) = UnreadSlots(s) \cup {i}
  BY <1>1, <1>2, <1>4, <1>5 DEF UnreadSlots
<1>7. i \notin UnreadSlots(s)
  BY <1>1, <1>2, KindsDisjoint DEF EmptySlots, UnreadSlots
<1>8. \A j \in UnreadSlots(s) : r.queue[j] = s.queue[j]
  BY <1>1, <1>5, <1>7 DEF UnreadSlots
<1>9. r.queue[i].idx = s.tail_generation
  BY <1>1, <1>2, <1>4, <1>5
<1>10. \A g : Age(r, g) = Age(s, g)
  BY <1>5 DEF Age
<1>11. /\ Age(s, NextGen(s.tail_generation)) = P + 1
       /\ NextGen(s.tail_generation) # s.head_generation
  BY <1>1, <1>3, NextGenCases, GenModAssumption, QueueLenAssumption
     DEF Age, PendingCount, Generations
<1>12. PendingCount(r) = P + 1
  BY <1>5, <1>10, <1>11 DEF PendingCount
<1>13. P \in Nat /\ Age(s, s.tail_generation) = P
  BY <1>1, AgeType, GenModAssumption DEF PendingCount
<1>14. \A j \in UnreadSlots(s) : Age(s, s.queue[j].idx) \in Nat
  BY UnreadIdx, AgeType
<1>15. \A j \in UnreadSlots(r) : Age(r, r.queue[j].idx) < P + 1
  BY <1>6, <1>8, <1>9, <1>10, <1>13, <1>14 DEF Ordered
<1>16. \A j \in UnreadSlots(s) : s.queue[j].idx # s.tail_generation
  BY <1>13, <1>14 DEF Ordered
<1>17. \A j, k \in UnreadSlots(r) :
          r.queue[j].idx = r.queue[k].idx => j = k
  BY <1>6, <1>8, <1>9, <1>16 DEF Ordered
<1>18. \A n \in 0 .. P : \E j \in UnreadSlots(r) : Age(r, r.queue[j].idx) = n
  <2> SUFFICES ASSUME NEW n \in 0 .. P
               PROVE  \E j \in UnreadSlots(r) : Age(r, r.queue[j].idx) = n
    OBVIOUS
  <2>1. CASE n = P
    BY <2>1, <1>6, <1>9, <1>10, <1>13
  <2>2. CASE n # P
    <3>1. n \in 0 .. P - 1
      BY <2>2, <1>13
    <3>2. PICK j \in UnreadSlots(s) : Age(s, s.queue[j].idx) = n
      BY <3>1 DEF Ordered
    <3> QED BY <3>2, <1>6, <1>8, <1>10
  <2> QED BY <2>1, <2>2
<1>19. Ordered(r)
  BY <1>12, <1>13, <1>15, <1>17, <1>18 DEF Ordered
<1> QED BY <1>11, <1>19 DEF r

\* With mail pending, the scan of take_next_message has something to find.
LEMMA PendingMeansNext ==
  ASSUME NEW s \in ServerState(Thread), Ordered(s),
         s.tail_generation # s.head_generation
  PROVE  HasNextMessage(s)
<1>1. s.head_generation \in Generations /\ s.tail_generation \in Generations
  BY DEF ServerState
<1>2. PendingCount(s) \in Nat /\ PendingCount(s) > 0
  BY <1>1, GenModAssumption DEF PendingCount, Age, Generations
<1>3. 0 \in 0 .. PendingCount(s) - 1
  BY <1>2
<1>4. PICK i \in UnreadSlots(s) : Age(s, s.queue[i].idx) = 0
  BY <1>3 DEF Ordered
<1>5. s.queue[i].idx = s.head_generation
  BY <1>1, <1>4, UnreadIdx, GenModAssumption DEF Age, Generations
<1> QED BY <1>4, <1>5 DEF HasNextMessage, HeadSlots, UnreadSlots

\* take_next_message removes the oldest message and nothing else.
LEMMA TakeNextMessageOrdered ==
  ASSUME NEW s \in ServerState(Thread), Ordered(s), HasNextMessage(s)
  PROVE  Ordered(TakeNextMessage(s))
<1> DEFINE i == NextMessageSlot(s)
           e == ReadForm(s.queue[i])
           r == TakeNextMessage(s)
           P == PendingCount(s)
<1>1. /\ s.head_generation \in Generations /\ s.tail_generation \in Generations
      /\ s.queue \in [Slots -> QueuedMessage]
  BY DEF ServerState
<1>2. i \in Slots /\ IsUnread(s.queue[i]) /\ s.queue[i].idx = s.head_generation
  BY NextMessageSlotFinds
<1>3. ~IsUnread(e)
  BY <1>1, <1>2, ReadFormType, KindsDisjoint
<1> HIDE DEF i, e
<1>4. /\ r.queue = [s.queue EXCEPT ![i] = e]
      /\ r.head_generation = NextGen(s.head_generation)
      /\ r.tail_generation = s.tail_generation
  BY DEF TakeNextMessage, ServerState, i, e
<1> HIDE DEF r
<1>5. UnreadSlots(r) = UnreadSlots(s) \ {i}
  BY <1>1, <1>2, <1>3, <1>4 DEF UnreadSlots
<1>6. \A j \in UnreadSlots(r) : r.queue[j] = s.queue[j]
  BY <1>1, <1>4, <1>5 DEF UnreadSlots
<1>7. i \in UnreadSlots(s)
  BY <1>2 DEF UnreadSlots
<1>8. \A j \in UnreadSlots(r) : s.queue[j].idx # s.head_generation
  BY <1>2, <1>5, <1>7 DEF Ordered
<1>9. \A g \in Generations : g # s.head_generation => Age(r, g) = Age(s, g) - 1
  BY <1>1, <1>4, NextGenCases, GenModAssumption DEF Age, Generations
<1>10. s.tail_generation # s.head_generation
  BY DEF HasNextMessage
<1>11. PendingCount(r) = P - 1 /\ P \in Nat \ {0}
  <2>1. P \in Nat \ {0}
    BY <1>1, <1>10, GenModAssumption DEF PendingCount, Age, Generations
  <2>2. PendingCount(r) = Age(r, s.tail_generation)
    BY <1>4 DEF PendingCount
  <2>3. Age(r, s.tail_generation) = P - 1
    BY <1>1, <1>9, <1>10 DEF PendingCount
  <2> QED BY <2>1, <2>2, <2>3
<1>12. \A j \in UnreadSlots(r) : /\ j \in UnreadSlots(s)
                                 /\ Age(r, r.queue[j].idx) = Age(s, s.queue[j].idx) - 1
  BY <1>5, <1>6, <1>8, <1>9, UnreadIdx
<1>13. \A j \in UnreadSlots(s) : Age(s, s.queue[j].idx) \in Nat
  BY UnreadIdx, AgeType
<1>14. \A j \in UnreadSlots(r) : Age(r, r.queue[j].idx) < P - 1
  BY <1>11, <1>12, <1>13 DEF Ordered
<1>15. \A j, k \in UnreadSlots(r) :
          r.queue[j].idx = r.queue[k].idx => j = k
  BY <1>6, <1>12 DEF Ordered
<1>16. \A n \in 0 .. P - 2 : \E j \in UnreadSlots(r) : Age(r, r.queue[j].idx) = n
  <2> SUFFICES ASSUME NEW n \in 0 .. P - 2
               PROVE  \E j \in UnreadSlots(r) : Age(r, r.queue[j].idx) = n
    OBVIOUS
  <2>1. n + 1 \in 0 .. P - 1
    BY <1>11
  <2>2. PICK j \in UnreadSlots(s) : Age(s, s.queue[j].idx) = n + 1
    BY <2>1 DEF Ordered
  <2>3. j # i
    BY <2>2, <1>1, <1>2 DEF Age, Generations
  <2> QED BY <2>2, <2>3, <1>5, <1>12
<1>17. Ordered(r)
  BY <1>11, <1>14, <1>15, <1>16 DEF Ordered
<1> QED BY <1>17 DEF r

\* The calls that leave the unread messages alone.
LEMMA QueueResponseMail ==
  ASSUME NEW s \in ServerState(Thread), Counted(s), ~IsQueueFull(s),
         NEW kind \in Blocking, NEW c \in Client, NEW msg \in Payload
  PROVE  SameMail(QueueResponse(s, kind, c, msg), s)
<1> DEFINE e == ResponseForm(kind, c, msg)
           i == FindEmptySlot(s)
           r == QueueResponse(s, kind, c, msg)
<1>1. i \in EmptySlots(s) /\ i \in Slots
  BY FindEmptySlotFinds
<1>2. ~IsUnread(e)
  BY ResponseFormType, KindsDisjoint
<1>3. s.queue \in [Slots -> QueuedMessage]
  BY DEF ServerState
<1>4. i \notin UnreadSlots(s)
  BY <1>1, <1>3, KindsDisjoint DEF EmptySlots, UnreadSlots
<1> HIDE DEF e, i
<1>5. /\ r.queue = [s.queue EXCEPT ![i] = e]
      /\ r.head_generation = s.head_generation
      /\ r.tail_generation = s.tail_generation
  BY DEF QueueResponse, ServerState, e, i
<1> HIDE DEF r
<1>6. SameMail(r, s)
  BY <1>1, <1>2, <1>3, <1>4, <1>5 DEF SameMail, UnreadSlots
<1> QED BY <1>6 DEF r

\* An answer touches no unread message.
LEMMA TakeWaitingMessageMail ==
  ASSUME NEW s \in ServerState(Thread), NEW i \in Slots, IsWaiting(s.queue[i])
  PROVE  SameMail(TakeWaitingMessage(s, i), s)
<1> DEFINE r == TakeWaitingMessage(s, i)
<1>1. s.queue \in [Slots -> QueuedMessage]
  BY DEF ServerState
<1>2. ~IsUnread(Empty) /\ i \notin UnreadSlots(s)
  BY <1>1, EmptyType, KindsDisjoint DEF Empty, Entry, UnreadSlots
<1>3. /\ r.queue = [s.queue EXCEPT ![i] = Empty]
      /\ r.head_generation = s.head_generation
      /\ r.tail_generation = s.tail_generation
  BY DEF TakeWaitingMessage, ServerState
<1> HIDE DEF r
<1>4. SameMail(r, s)
  BY <1>1, <1>2, <1>3 DEF SameMail, UnreadSlots
<1> QED BY <1>4 DEF r

\* Discarding a dead process's messages leaves them in the order of the queue.
LEMMA DiscardMail ==
  ASSUME NEW s \in ServerState(Thread), NEW pid
  PROVE  SameMail(DiscardMessagesForPid(s, pid), s)
<1> DEFINE r == DiscardMessagesForPid(s, pid)
<1>1. /\ r.head_generation = s.head_generation
      /\ r.tail_generation = s.tail_generation
      /\ r.queue = [i \in Slots |->
                 IF NamesClient(s.queue[i]) /\ OwnerOf[s.queue[i].client] = pid
                 THEN DiscardedForm(s.queue[i]) ELSE s.queue[i]]
  BY DiscardState
<1> HIDE DEF r
<1>2. \A i \in Slots : s.queue[i] \in QueuedMessage
  BY DEF ServerState
<1>3. \A i \in Slots : /\ IsUnread(r.queue[i]) <=> IsUnread(s.queue[i])
                       /\ IsUnread(s.queue[i]) => r.queue[i].idx = s.queue[i].idx
  <2> SUFFICES ASSUME NEW i \in Slots
               PROVE  /\ IsUnread(r.queue[i]) <=> IsUnread(s.queue[i])
                      /\ IsUnread(s.queue[i]) => r.queue[i].idx = s.queue[i].idx
    OBVIOUS
  <2>1. CASE NamesClient(s.queue[i]) /\ OwnerOf[s.queue[i].client] = pid
    <3>1. r.queue[i] = DiscardedForm(s.queue[i])
      BY <1>1, <2>1
    <3>2. s.queue[i] \in QueuedMessage /\ s.queue[i].kind # "Empty"
      BY <1>2, <2>1 DEF NamesClient, NamingKinds, Blocking
    <3> QED BY <2>1, <3>1, <3>2, DiscardedFormType, KindsDisjoint
  <2>2. CASE ~(NamesClient(s.queue[i]) /\ OwnerOf[s.queue[i].client] = pid)
    BY <1>1, <2>2
  <2> QED BY <2>1, <2>2
<1>4. SameMail(r, s)
  BY <1>1, <1>3 DEF SameMail, UnreadSlots
<1> QED BY <1>4 DEF r

-----------------------------------------------------------------------------
(* First in, first out                                                     *)

OrderInv == UnreadInOrder /\ NoSleepWithMail

\* With no generation pending nothing is unread.
LEMMA NoPendingNoUnread ==
  ASSUME NEW s \in ServerState(Thread), Ordered(s),
         s.tail_generation = s.head_generation
  PROVE  UnreadSlots(s) = {}
<1>1. PendingCount(s) = 0
  BY DEF PendingCount, Age, ServerState, Generations
<1>2. \A i \in UnreadSlots(s) : Age(s, s.queue[i].idx) \in Nat
  BY UnreadIdx, AgeType
<1> QED BY <1>1, <1>2 DEF Ordered

\* A new server has no unread message and no parked thread.
LEMMA InitOrder == Init => OrderInv
<1> SUFFICES ASSUME Init PROVE OrderInv
  OBVIOUS
<1>1. UnreadSlots(server) = {}
  BY DEF Init, ServerInit, UnreadSlots, IsUnread, UnreadKinds, MessageKinds,
         Blocking, Empty, Entry
<1>2. PendingCount(server) = 0
  BY DEF Init, ServerInit, PendingCount, Age
<1>3. server.ready_threads = {}
  BY DEF Init, ServerInit
<1> QED BY <1>1, <1>2, <1>3 DEF OrderInv, UnreadInOrder, Ordered, NoSleepWithMail

\* Every message call keeps the unread messages in generation order, and parks
\* a thread only when there are none, if generations outnumber the slots.
LEMMA NextOrder ==
  ASSUME QueueLen < GenMod, CountInv, CountInv', OrderInv, [Next]_vars
  PROVE  OrderInv'
<1>t. server \in ServerState(Thread) /\ server' \in ServerState(Thread)
  BY DEF CountInv, TypeOK
<1>c. Counted(server)
  BY DEF CountInv, EmptyCountExact, Counted
<1>o. Ordered(server)
  BY DEF OrderInv, UnreadInOrder
<1>s. server.ready_threads # {} => server.tail_generation = server.head_generation
  BY DEF OrderInv, NoSleepWithMail
<1>g. ASSUME Ordered(server'),
             server'.ready_threads # {} =>
               server'.tail_generation = server'.head_generation
      PROVE  OrderInv'
  <2>1. server'.ready_threads # {} => UnreadSlots(server') = {}
    BY <1>t, <1>g, NoPendingNoUnread
  <2> QED BY <1>g, <2>1 DEF OrderInv, UnreadInOrder, NoSleepWithMail
<1>m. ASSUME SameMail(server', server),
             server'.ready_threads \subseteq server.ready_threads
      PROVE  OrderInv'
  <2>1. Ordered(server')
    BY <1>m, <1>o, SameMailOrdered
  <2>2. server'.ready_threads # {} =>
          server'.tail_generation = server'.head_generation
    BY <1>m, <1>s DEF SameMail
  <2> QED BY <1>g, <2>1, <2>2
<1>1. ASSUME NEW c \in Client, SendQueueFull(c) PROVE OrderInv'
  BY <1>1, <1>m DEF SendQueueFull, SameMail
<1>2. ASSUME NEW c \in Client, NEW kind \in Sent, NEW msg \in Payload,
             SendDirect(c, kind, msg)
      PROVE  OrderInv'
  <2> DEFINE taken == TakeAvailableThread(server)
  <2>1. /\ taken \in ServerState(Thread)
        /\ taken.queue = server.queue
        /\ taken.empty_count = server.empty_count
        /\ taken.head_generation = server.head_generation
        /\ taken.tail_generation = server.tail_generation
        /\ taken.ready_threads \subseteq server.ready_threads
    BY <1>t, TakeAvailableThreadState
  <2>2. /\ kind \in Blocking => server' = QueueResponse(taken, kind, c, msg)
        /\ kind \notin Blocking => server' = taken
    BY <1>2 DEF SendDirect
  <2> HIDE DEF taken
  <2>3. EmptySlots(taken) = EmptySlots(server) /\ SameMail(taken, server)
    BY <2>1, SMTT(30) DEF EmptySlots, SameMail, UnreadSlots
  <2>4. Counted(taken) /\ ~IsQueueFull(taken)
    BY <1>2, <1>c, <2>1, <2>3, SMTT(30) DEF SendDirect, Counted, IsQueueFull
  <2>5. CASE kind \in Blocking
    <3>1. SameMail(server', taken)
      BY <2>1, <2>2, <2>4, <2>5, QueueResponseMail
    <3>2. server'.ready_threads = taken.ready_threads
      BY <2>1, <2>2, <2>5 DEF QueueResponse, ServerState
    <3>3. SameMail(server', server)
      BY <3>1, <2>3 DEF SameMail
    <3> QED BY <3>2, <3>3, <2>1, <1>m
  <2>6. CASE kind \notin Blocking
    BY <2>1, <2>2, <2>3, <2>6, <1>m
  <2> QED BY <2>5, <2>6
<1>3. ASSUME NEW c \in Client, NEW kind \in Sent, NEW msg \in Payload,
             SendQueued(c, kind, msg)
      PROVE  OrderInv'
  <2>1. server' = QueueMessage(server, kind, c, msg)
    BY <1>3 DEF SendQueued
  <2>2. Ordered(server')
    BY <1>3, <1>t, <1>c, <1>o, <2>1, QueueMessageOrdered, SentAssumption
       DEF SendQueued
  <2>3. server'.ready_threads = {}
    BY <1>3, <1>t, <2>1 DEF SendQueued, QueueMessage, ServerState
  <2> QED BY <1>g, <2>2, <2>3
<1>4. ASSUME NEW t \in Thread, ReceiveNext(t) PROVE OrderInv'
  <2>1. HasNextMessage(server) /\ server' = TakeNextMessage(server)
    BY <1>4 DEF ReceiveNext
  <2>2. Ordered(server')
    BY <1>t, <1>o, <2>1, TakeNextMessageOrdered
  <2>3. server.ready_threads = {}
    BY <1>s, <2>1 DEF HasNextMessage
  <2>4. server'.ready_threads = {}
    BY <1>t, <2>1, <2>3 DEF TakeNextMessage, ServerState
  <2> QED BY <1>g, <2>2, <2>4
<1>5. ASSUME NEW t \in Thread, ReceivePark(t) PROVE OrderInv'
  <2>1. ~HasNextMessage(server) /\ server' = ParkThread(server, t)
    BY <1>5 DEF ReceivePark
  <2>2. server.tail_generation = server.head_generation
    BY <1>t, <1>o, <2>1, PendingMeansNext
  <2>3. /\ server'.queue = server.queue
        /\ server'.head_generation = server.head_generation
        /\ server'.tail_generation = server.tail_generation
    BY <1>t, <2>1, ParkThreadState
  <2>4. SameMail(server', server)
    BY <2>3 DEF SameMail, UnreadSlots
  <2>5. Ordered(server')
    BY <1>o, <2>4, SameMailOrdered
  <2> QED BY <1>g, <2>2, <2>3, <2>5
<1>6. ASSUME NEW i \in Slots, IsWaiting(server.queue[i]),
             server' = TakeWaitingMessage(server, i)
      PROVE  OrderInv'
  <2>1. SameMail(server', server)
    BY <1>6, <1>t, TakeWaitingMessageMail
  <2>2. server'.ready_threads = server.ready_threads
    BY <1>6, <1>t DEF TakeWaitingMessage, ServerState
  <2> QED BY <1>m, <2>1, <2>2
<1>7. ASSUME NEW i \in Slots, ReturnResult(i) PROVE OrderInv'
  BY <1>6, <1>7 DEF ReturnResult
<1>8. ASSUME NEW i \in Slots, NEW buf \in Payload, ReturnMemory(i, buf)
      PROVE  OrderInv'
  BY <1>6, <1>8 DEF ReturnMemory
<1>9. ASSUME NEW pid \in Pid, ClientTerminates(pid) PROVE OrderInv'
  <2>1. server' = DiscardMessagesForPid(server, pid)
    BY <1>9 DEF ClientTerminates
  <2>2. SameMail(server', server) /\ server'.ready_threads = server.ready_threads
    BY <1>t, <2>1, DiscardMail, DiscardState
  <2> QED BY <1>m, <2>2
<1>10. CASE UNCHANGED vars
  BY <1>10, <1>m DEF vars, SameMail
<1> QED BY <1>1, <1>2, <1>3, <1>4, <1>5, <1>7, <1>8, <1>9, <1>10 DEF Next

\* Messages are read in the order they were sent, and no server thread sleeps
\* on unread mail, for every queue shorter than the generation counter: the
\* scan of take_next_message relies on this and checks nothing.
THEOREM FirstInFirstOut ==
  ASSUME QueueLen < GenMod
  PROVE  Spec => [](UnreadInOrder /\ NoSleepWithMail)
<1>1. Init => CountInv /\ OrderInv
  BY InitCount, InitOrder
<1>2. CountInv /\ OrderInv /\ [Next]_vars => CountInv' /\ OrderInv'
  BY NextCount, NextOrder
<1>3. OrderInv => UnreadInOrder /\ NoSleepWithMail
  BY DEF OrderInv
<1> QED BY <1>1, <1>2, <1>3, PTL DEF Spec

\* The assertion that ends queue_message holds in every reachable state of a
\* queue with fewer slots than there are generations.
THEOREM AssertNeverFires ==
  ASSUME QueueLen < GenMod
  PROVE  Spec => []GenerationsNeverMeet
<1>1. Init => CountInv /\ OrderInv
  BY InitCount, InitOrder
<1>2. CountInv /\ OrderInv /\ [Next]_vars => CountInv' /\ OrderInv'
  BY NextCount, NextOrder
<1>3. CountInv /\ OrderInv => GenerationsNeverMeet
  <2> SUFFICES ASSUME CountInv, OrderInv, ~IsQueueFull(server)
               PROVE  QueueMessageAssert(server)
    BY DEF GenerationsNeverMeet
  <2>1. server \in ServerState(Thread) /\ Counted(server) /\ Ordered(server)
    BY DEF CountInv, OrderInv, TypeOK, EmptyCountExact, Counted, UnreadInOrder
  <2>2. EmptySlots(server) # {}
    BY <2>1, FindEmptySlotFinds
  <2>3. PendingCount(server) < QueueLen
    BY <2>1, <2>2, RoomBoundsPending
  <2>4. /\ server.head_generation \in Generations
        /\ server.tail_generation \in Generations
    BY <2>1 DEF ServerState
  <2> QED BY <2>3, <2>4, NextGenCases, GenModAssumption, QueueLenAssumption
          DEF QueueMessageAssert, PendingCount, Age, Generations
<1> QED BY <1>1, <1>2, <1>3, PTL DEF Spec

-----------------------------------------------------------------------------
(* Senders parked on a full queue                                          *)

\* A sender waits in RetryQueueFull only while the queue is full, as long as no
\* sender has the last thread number, which wake_threads_with_state skips.
THEOREM RetryersAreWoken ==
  ASSUME \A c \in Client : TidOf[c] < MaxThreadCount - 1
  PROVE  Spec => []RetryOnlyWhenFull
<1> DEFINE I == CountInv /\ RetryOnlyWhenFull
<1>1. Init => I
  BY InitCount DEF Init, RetryOnlyWhenFull
<1>2. I /\ [Next]_vars => I'
  <2> SUFFICES ASSUME CountInv, RetryOnlyWhenFull, [Next]_vars
               PROVE  RetryOnlyWhenFull'
    BY NextCount
  <2>t. server \in ServerState(Thread) /\ retrying \in SUBSET Client
    BY DEF CountInv, TypeOK
  <2>w. WakeThreadsWithState(retrying) = {}
    BY <2>t, TidAssumption DEF WakeThreadsWithState
  <2>u. ASSUME WakeIfNoLongerFull(server, server') PROVE RetryOnlyWhenFull'
    BY <2>u, <2>w DEF WakeIfNoLongerFull, RetryOnlyWhenFull
  <2>1. ASSUME NEW c \in Client, SendQueueFull(c) PROVE RetryOnlyWhenFull'
    BY <2>1 DEF SendQueueFull, RetryOnlyWhenFull
  <2>2. ASSUME NEW c \in Client, NEW kind \in Sent, NEW msg \in Payload,
               SendDirect(c, kind, msg) \/ SendQueued(c, kind, msg)
        PROVE  RetryOnlyWhenFull'
    BY <2>2 DEF SendDirect, SendQueued, RetryOnlyWhenFull
  <2>3. ASSUME NEW t \in Thread, ReceiveNext(t) PROVE RetryOnlyWhenFull'
    BY <2>3, <2>u DEF ReceiveNext
  <2>4. ASSUME NEW t \in Thread, ReceivePark(t) PROVE RetryOnlyWhenFull'
    <3>1. server'.empty_count = server.empty_count
      BY <2>4, <2>t, ParkThreadState DEF ReceivePark
    <3> QED BY <2>4, <3>1 DEF ReceivePark, RetryOnlyWhenFull, IsQueueFull
  <2>5. ASSUME NEW i \in Slots, ReturnResult(i) PROVE RetryOnlyWhenFull'
    BY <2>5, <2>u DEF ReturnResult
  <2>6. ASSUME NEW i \in Slots, NEW buf \in Payload, ReturnMemory(i, buf)
        PROVE  RetryOnlyWhenFull'
    BY <2>6, <2>u DEF ReturnMemory
  <2>7. ASSUME NEW pid \in Pid, ClientTerminates(pid) PROVE RetryOnlyWhenFull'
    <3>1. server'.empty_count = server.empty_count
      BY <2>7, <2>t, DiscardState DEF ClientTerminates
    <3> QED BY <2>7, <3>1 DEF ClientTerminates, RetryOnlyWhenFull, IsQueueFull
  <2>8. CASE UNCHANGED vars
    BY <2>8 DEF vars, RetryOnlyWhenFull, IsQueueFull
  <2> QED BY <2>1, <2>2, <2>3, <2>4, <2>5, <2>6, <2>7, <2>8 DEF Next
<1> QED BY <1>1, <1>2, PTL DEF Spec

-----------------------------------------------------------------------------
(* Who is waiting for which slot                                           *)

\* The sender a slot keeps waiting; Nobody for the other slots.
LEMMA NamesOrNobody ==
  ASSUME NEW e \in QueuedMessage
  PROVE  /\ NamesClient(e) <=> e.client \in Client
         /\ ~NamesClient(e) <=> e.client = Nobody
BY NobodyAssumption DEF QueuedMessage, NamesClient

\* BlockedIffNamed in terms of who, the sender each slot keeps waiting.
Waits(who, B) ==
  /\ \A c \in Client : c \in B <=> \E i \in Slots : who[i] = c
  /\ \A i, j \in Slots : who[i] \in Client /\ who[i] = who[j] => i = j

Who(s) == [i \in Slots |-> s.queue[i].client]

\* A slot that kept nobody waiting starts to keep c waiting.
LEMMA WaitsMore ==
  ASSUME NEW who, NEW B, Waits(who, B), NEW c \in Client, c \notin B,
         NEW i \in Slots, who[i] \notin Client,
         NEW new, new \in [Slots -> Client \cup {Nobody}], new[i] = c,
         \A j \in Slots : j # i => new[j] = who[j]
  PROVE  Waits(new, B \cup {c})
BY DEF Waits

\* A slot stops keeping its sender waiting.
LEMMA WaitsLess ==
  ASSUME NEW who, NEW B, Waits(who, B), NEW i \in Slots,
         NEW new, new \in [Slots -> Client \cup {Nobody}], new[i] = Nobody,
         \A j \in Slots : j # i => new[j] = who[j]
  PROVE  Waits(new, B \ {who[i]})
BY NobodyAssumption DEF Waits

\* Every message call keeps senders and the slots that name them in step.
LEMMA NextBlocked ==
  ASSUME CountInv, CountInv', BlockedIffNamed, [Next]_vars
  PROVE  BlockedIffNamed'
<1> DEFINE who == Who(server)
           new == Who(server')
           B == blocked \ abandoned
<1>t. /\ server \in ServerState(Thread) /\ server' \in ServerState(Thread)
      /\ blocked \in SUBSET Client
  BY DEF CountInv, TypeOK
<1>q. /\ server.queue \in [Slots -> QueuedMessage]
      /\ server'.queue \in [Slots -> QueuedMessage]
  BY <1>t DEF ServerState
<1>n. \A i \in Slots :
        /\ NamesClient(server.queue[i]) <=> who[i] \in Client
        /\ NamesClient(server'.queue[i]) <=> new[i] \in Client
        /\ who[i] = server.queue[i].client /\ new[i] = server'.queue[i].client
        /\ who[i] \in Client \cup {Nobody} /\ new[i] \in Client \cup {Nobody}
  BY <1>q, NamesOrNobody DEF Who
<1>f. new \in [Slots -> Client \cup {Nobody}]
  BY <1>n DEF Who
<1>w. abandoned \subseteq blocked /\ Waits(who, B)
  BY <1>n, SMTT(30) DEF BlockedIffNamed, Waits
<1>g. ASSUME abandoned' \subseteq blocked', Waits(new, blocked' \ abandoned')
      PROVE  BlockedIffNamed'
  BY <1>g, <1>n, SMTT(30) DEF BlockedIffNamed, Waits
<1>k. ASSUME server'.queue = server.queue, UNCHANGED <<blocked, abandoned>>
      PROVE  BlockedIffNamed'
  BY <1>k, <1>g, <1>w DEF Who
<1> HIDE DEF who, new
<1>m. ASSUME NEW c \in Client, c \notin blocked, NEW i \in Slots,
             server.queue[i].kind = "Empty", NEW e, e.client = c,
             server'.queue = [server.queue EXCEPT ![i] = e],
             blocked' = blocked \cup {c}, abandoned' = abandoned
      PROVE  BlockedIffNamed'
  <2>1. who[i] \notin Client
    BY <1>m, <1>n DEF NamesClient, NamingKinds, Blocking
  <2>2. new[i] = c /\ \A j \in Slots : j # i => new[j] = who[j]
    BY <1>m, <1>n, <1>q
  <2>3. Waits(new, B \cup {c})
    BY <1>m, <1>f, <1>w, <2>1, <2>2, WaitsMore, SMTT(30)
  <2>4. blocked' \ abandoned' = B \cup {c}
    BY <1>m, <1>w
  <2> QED BY <1>g, <1>m, <1>w, <2>3, <2>4, SMTT(30)
<1>1. ASSUME NEW c \in Client, SendQueueFull(c) PROVE BlockedIffNamed'
  BY <1>1, <1>k DEF SendQueueFull
<1>2. ASSUME NEW c \in Client, NEW kind \in Sent, NEW msg \in Payload,
             SendDirect(c, kind, msg)
      PROVE  BlockedIffNamed'
  <2> DEFINE taken == TakeAvailableThread(server)
             i == FindEmptySlot(taken)
  <2>1. /\ taken \in ServerState(Thread)
        /\ taken.queue = server.queue
        /\ taken.empty_count = server.empty_count
    BY <1>t, TakeAvailableThreadState
  <2>2. /\ kind \in Blocking => server' = QueueResponse(taken, kind, c, msg)
        /\ kind \notin Blocking => server' = taken
    BY <1>2 DEF SendDirect
  <2>3. /\ c \notin blocked /\ abandoned' = abandoned
        /\ kind \in Blocking => blocked' = blocked \cup {c}
        /\ kind \notin Blocking => blocked' = blocked
    BY <1>2 DEF SendDirect, CanCall, Suspend
  <2> HIDE DEF taken
  <2>4. EmptySlots(taken) = EmptySlots(server)
    BY <2>1 DEF EmptySlots
  <2>5. Counted(taken) /\ ~IsQueueFull(taken)
    BY <1>2, <2>1, <2>4, SMTT(30) DEF SendDirect, Counted, IsQueueFull, CountInv, EmptyCountExact
  <2>6. i \in Slots /\ server.queue[i].kind = "Empty"
    BY <2>1, <2>4, <2>5, FindEmptySlotFinds DEF EmptySlots
  <2> HIDE DEF i
  <2>7. CASE kind \in Blocking
    <3>1. server'.queue = [server.queue EXCEPT ![i] = ResponseForm(kind, c, msg)]
      BY <2>1, <2>2, <2>7 DEF QueueResponse, ServerState, i
    <3>2. ResponseForm(kind, c, msg).client = c
      BY DEF ResponseForm, Entry
    <3> QED BY <1>m, <2>3, <2>6, <2>7, <3>1, <3>2
  <2>8. CASE kind \notin Blocking
    BY <1>k, <2>1, <2>2, <2>3, <2>8
  <2> QED BY <2>7, <2>8
<1>3. ASSUME NEW c \in Client, NEW kind \in Sent, NEW msg \in Payload,
             SendQueued(c, kind, msg)
      PROVE  BlockedIffNamed'
  <2> DEFINE i == FindEmptySlot(server)
             e == QueuedForm(kind, c, server.tail_generation, msg)
  <2>1. i \in Slots /\ server.queue[i].kind = "Empty"
    BY <1>3, <1>t, FindEmptySlotFinds, SMTT(30)
       DEF SendQueued, Counted, CountInv, EmptyCountExact, EmptySlots
  <2>2. /\ c \notin blocked /\ abandoned' = abandoned
        /\ kind \in Blocking => blocked' = blocked \cup {c}
        /\ kind \notin Blocking => blocked' = blocked
        /\ server' = QueueMessage(server, kind, c, msg)
    BY <1>3 DEF SendQueued, CanCall, Suspend
  <2>3. e.client = IF kind \in Blocking THEN c ELSE Nobody
    BY DEF QueuedForm, Entry
  <2> HIDE DEF i, e
  <2>4. server'.queue = [server.queue EXCEPT ![i] = e]
    BY <1>t, <2>2, SMTT(30) DEF QueueMessage, ServerState, i, e
  <2>5. CASE kind \in Blocking
    BY <1>m, <2>1, <2>2, <2>3, <2>4, <2>5
  <2>6. CASE kind \notin Blocking
    <3>1. who[i] = Nobody
      BY <2>1, <1>n, <1>q, SMTT(30) DEF NamesClient, NamingKinds, Blocking
    <3>2. new[i] = Nobody /\ \A j \in Slots : j # i => new[j] = who[j]
      BY <2>1, <2>3, <2>4, <2>6, <1>n, <1>q, SMTT(30)
    <3>3. Waits(new, B \ {Nobody})
      BY <1>f, <1>w, <2>1, <3>1, <3>2, WaitsLess
    <3>4. B \ {Nobody} = B
      BY <1>t, NobodyAssumption
    <3> QED BY <1>g, <1>w, <2>2, <2>6, <3>3, <3>4, SMTT(30)
  <2> QED BY <2>5, <2>6
<1>4. ASSUME NEW t \in Thread, ReceiveNext(t) PROVE BlockedIffNamed'
  <2> DEFINE i == NextMessageSlot(server)
             e == ReadForm(server.queue[i])
  <2>1. /\ HasNextMessage(server) /\ server' = TakeNextMessage(server)
        /\ blocked' = blocked /\ abandoned' = abandoned
    BY <1>4 DEF ReceiveNext
  <2>2. i \in Slots /\ IsUnread(server.queue[i]) /\ server.queue[i] \in QueuedMessage
    BY <1>t, <1>q, <2>1, NextMessageSlotFinds
  <2>3. e.client = server.queue[i].client
    BY <2>2 DEF ReadForm, Empty, Entry, QueuedMessage, IsUnread, UnreadKinds,
                MessageKinds, Blocking, NamingKinds
  <2> HIDE DEF i, e
  <2>4. server'.queue = [server.queue EXCEPT ![i] = e]
    BY <1>t, <2>1 DEF TakeNextMessage, ServerState, i, e
  <2>5. new = who
    BY <1>q, <2>2, <2>3, <2>4 DEF new, who, Who
  <2> QED BY <1>g, <1>w, <2>1, <2>5, SMTT(30)
<1>5. ASSUME NEW t \in Thread, ReceivePark(t) PROVE BlockedIffNamed'
  BY <1>5, <1>k, <1>t, ParkThreadState DEF ReceivePark
<1>6. ASSUME NEW i \in Slots, server' = TakeWaitingMessage(server, i),
             \/ /\ blocked' = blocked \ {server.queue[i].client}
                /\ abandoned' = abandoned
             \/ /\ abandoned' = abandoned \cup {server.queue[i].client}
                /\ blocked' = blocked /\ server.queue[i].client \in Client
      PROVE  BlockedIffNamed'
  <2>1. server'.queue = [server.queue EXCEPT ![i] = Empty]
    BY <1>t, <1>6, SMTT(30) DEF TakeWaitingMessage, ServerState
  <2>2. new[i] = Nobody /\ \A j \in Slots : j # i => new[j] = who[j]
    BY <2>1, <1>n, <1>q DEF Empty, Entry
  <2>3. Waits(new, B \ {who[i]})
    BY <1>f, <1>w, <2>2, WaitsLess
  <2>4. who[i] \in Client => who[i] \in B
    BY <1>w DEF Waits
  <2>5. blocked' \ abandoned' = B \ {who[i]}
    BY <1>6, <1>n, SMTT(30)
  <2>6. abandoned' \subseteq blocked'
    BY <1>6, <1>n, <1>w, <2>4, <1>t, NobodyAssumption, SMTT(30)
  <2> QED BY <1>g, <2>3, <2>5, <2>6
<1>7. ASSUME NEW i \in Slots, ReturnResult(i) PROVE BlockedIffNamed'
  BY <1>6, <1>7, <1>n, <1>q, SMTT(30) DEF ReturnResult, NamesClient, NamingKinds
<1>8. ASSUME NEW i \in Slots, NEW buf \in Payload, ReturnMemory(i, buf)
      PROVE  BlockedIffNamed'
  BY <1>6, <1>8, <1>n, <1>q DEF ReturnMemory, NamesClient, NamingKinds
<1>9. ASSUME NEW pid \in Pid, ClientTerminates(pid) PROVE BlockedIffNamed'
  <2>1. /\ server'.queue = [i \in Slots |->
              IF NamesClient(server.queue[i]) /\ OwnerOf[server.queue[i].client] = pid
              THEN DiscardedForm(server.queue[i]) ELSE server.queue[i]]
    BY <1>9, <1>t, DiscardState, SMTT(30) DEF ClientTerminates
  <2>2. \A i \in Slots : new[i] = IF who[i] \in ClientsOf(pid) THEN Nobody ELSE who[i]
    <3> SUFFICES ASSUME NEW i \in Slots
                 PROVE  new[i] = IF who[i] \in ClientsOf(pid) THEN Nobody ELSE who[i]
      OBVIOUS
    <3>1. CASE NamesClient(server.queue[i]) /\ OwnerOf[server.queue[i].client] = pid
      <4>1. who[i] \in ClientsOf(pid)
        BY <1>n, <1>q, <3>1, NamesOrNobody, SMTT(30) DEF ClientsOf
      <4>2. new[i] = Nobody
        BY <1>n, <1>q, <2>1, <3>1, DiscardedFormType, NamesOrNobody
      <4> QED BY <4>1, <4>2
    <3>2. CASE ~(NamesClient(server.queue[i]) /\ OwnerOf[server.queue[i].client] = pid)
      <4>1. new[i] = who[i]
        BY <1>n, <2>1, <3>2
      <4>2. who[i] \notin ClientsOf(pid)
        BY <1>n, <1>q, <3>2, NamesOrNobody DEF ClientsOf
      <4> QED BY <4>1, <4>2, SMTT(30)
    <3> QED BY <3>1, <3>2
  <2>3. Waits(new, B \ ClientsOf(pid))
    BY <1>w, <2>2, NobodyAssumption DEF Waits, ClientsOf
  <2>4. /\ blocked' \ abandoned' = B \ ClientsOf(pid)
        /\ abandoned' \subseteq blocked'
    BY <1>9, <1>w DEF ClientTerminates
  <2> QED BY <1>g, <2>3, <2>4, SMTT(30)
<1>10. CASE UNCHANGED vars
  BY <1>10, <1>k DEF vars
<1> QED BY <1>1, <1>2, <1>3, <1>4, <1>5, <1>7, <1>8, <1>9, <1>10 DEF Next

\* Every answer wakes the thread that asked and no other: each blocked sender is
\* named by exactly one slot until it is answered, through reads, process
\* exits and pid reuse.
THEOREM AnswersReachTheirSender == Spec => []BlockedIffNamed
<1>1. Init => CountInv /\ BlockedIffNamed
  BY InitCount DEF Init, ServerInit, BlockedIffNamed, Empty, Entry, NamesClient,
                   NamingKinds, Blocking
<1>2. CountInv /\ BlockedIffNamed /\ [Next]_vars => CountInv' /\ BlockedIffNamed'
  BY NextCount, NextBlocked
<1> QED BY <1>1, <1>2, PTL DEF Spec
=============================================================================
