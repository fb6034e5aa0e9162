------------------------------- MODULE Mailbox -------------------------------
(***************************************************************************)
(* What the kernel promises about one server: messages are read in the     *)
(* order they were sent, a reader is handed a ticket for each message that *)
(* must be answered, a ticket is good for one answer and the answer wakes  *)
(* the thread that sent the message.  No slots, no generations, no         *)
(* counters, and no choice made about which reader or which ticket.        *)
(***************************************************************************)
EXTENDS Integers, Sequences, FiniteSets, Functions

CONSTANTS Capacity, Ticket, Client, OwnerOf, Pid, Payload, Nobody, NoPayload,
          Thread, Sent, Blocking

VARIABLES
  inbox,      \* messages sent and not yet read, oldest first
  owed,       \* the answers outstanding: a function on the tickets in use
  ready,      \* reader threads waiting for a message
  blocked, retrying, abandoned

vars == <<inbox, owed, ready, blocked, retrying, abandoned>>

Full == Len(inbox) + Cardinality(DOMAIN owed) = Capacity

MayCall(c) == c \notin blocked \cup retrying

Item(c, kind, msg) ==
  [kind |-> kind, client |-> IF kind \in Blocking THEN c ELSE Nobody, msg |-> msg]

\* The answer an item calls for.
Debt(item) ==
  [memory |-> item.kind # "BlockingScalar", client |-> item.client,
   msg |-> IF item.kind = "BlockingScalar" THEN NoPayload ELSE item.msg]

Orphaned(x, pid) ==
  IF x.client \in Client /\ OwnerOf[x.client] = pid
  THEN [x EXCEPT !.client = Nobody] ELSE x

\* Nobody stays parked on a full mailbox that is no longer full.
WakeRetrying == retrying' = IF Full' THEN retrying ELSE {}

Owe(item) ==
  IF item.kind \in Blocking
  THEN \E k \in Ticket \ DOMAIN owed :
          owed' = [j \in DOMAIN owed \cup {k} |->
                     IF j = k THEN Debt(item) ELSE owed[j]]
  ELSE owed' = owed

-----------------------------------------------------------------------------
Init ==
  /\ inbox = << >>
  /\ owed = [k \in {} |-> NoPayload]
  /\ ready = {}
  /\ blocked = {} /\ retrying = {} /\ abandoned = {}

TryLater(c) ==
  /\ MayCall(c)
  /\ Full
  /\ retrying' = retrying \cup {c}
  /\ UNCHANGED <<inbox, owed, ready, blocked, abandoned>>

Send(c, kind, msg) ==
  /\ MayCall(c)
  /\ ~Full
  /\ IF ready = {}
     THEN /\ inbox' = Append(inbox, Item(c, kind, msg))
          /\ UNCHANGED <<owed, ready>>
     ELSE /\ \E t \in ready : ready' = ready \ {t}
          /\ Owe(Item(c, kind, msg))
          /\ UNCHANGED inbox
  /\ blocked' = IF kind \in Blocking THEN blocked \cup {c} ELSE blocked
  /\ UNCHANGED <<retrying, abandoned>>

Read ==
  /\ inbox # << >>
  /\ inbox' = Tail(inbox)
  /\ Owe(Head(inbox))
  /\ WakeRetrying
  /\ UNCHANGED <<ready, blocked, abandoned>>

Wait(t) ==
  /\ inbox = << >>
  /\ t \notin ready
  /\ ready' = ready \cup {t}
  /\ UNCHANGED <<inbox, owed, blocked, retrying, abandoned>>

Settle(k) ==
  /\ k \in DOMAIN owed
  /\ owed' = Restrict(owed, DOMAIN owed \ {k})
  /\ WakeRetrying
  /\ UNCHANGED <<inbox, ready>>

Answer(k) ==
  /\ Settle(k)
  /\ blocked' = blocked \ {owed[k].client}
  /\ UNCHANGED abandoned

\* The wrong answering call: the ticket is spent, the sender stays blocked.
\* It says so only when there is still a sender.
Spoil(k) ==
  /\ Settle(k)
  /\ abandoned' = abandoned \cup ({owed[k].client} \cap Client)
  /\ UNCHANGED blocked

Die(pid) ==
  LET dead == {c \in Client : OwnerOf[c] = pid}
  IN /\ inbox' = [n \in DOMAIN inbox |-> Orphaned(inbox[n], pid)]
     /\ owed' = [k \in DOMAIN owed |-> Orphaned(owed[k], pid)]
     /\ blocked' = blocked \ dead
     /\ retrying' = retrying \ dead
     /\ abandoned' = abandoned \ dead
     /\ UNCHANGED ready

Next ==
  \/ \E c \in Client : TryLater(c)
  \/ \E c \in Client, kind \in Sent, msg \in Payload : Send(c, kind, msg)
  \/ Read
  \/ \E t \in Thread : Wait(t)
  \/ \E k \in Ticket : Answer(k)
  \/ \E k \in Ticket : Spoil(k)
  \/ \E pid \in Pid : Die(pid)

Spec == Init /\ [][Next]_vars
=============================================================================
