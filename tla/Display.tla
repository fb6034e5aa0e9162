------------------------------- MODULE Display -------------------------------
(***************************************************************************)
(* The display and keyboard ownership of the kernel: DisplayState in       *)
(* xous/kernel/src/services.rs, the four system calls on it, and the       *)
(* characters that interrupts deliver (arch/aarch64/irq.rs).               *)
(*                                                                         *)
(* The waiting threads and the characters nobody asked for yet are kept in *)
(* rings of fixed size.  A thread that waits has the kernel future         *)
(* WaitDisplay; it learns that it owns the display when it runs again and  *)
(* finds the cursor position in its mailbox.                               *)
(***************************************************************************)
EXTENDS Integers, Sequences, FiniteSetsExt

CONSTANTS
  Thread,               \* the threads, as pairs of a process and a thread number
  DISPLAY_WAITER_MAX,
  INPUT_BUF_CAP,
  QueueLen,             \* messages the console server of a process can hold
  StartCursor,          \* the cursor position (0, 0)
  Boots,                \* the systems to look at: records of the processes alive,
                        \* those that may exit, the cursor positions used and a
                        \* bound on the characters typed
  EarlyReuse,           \* is a pid handed out again while the ring still holds it?
  NoOne

ASSUME RingAssumption ==
  DISPLAY_WAITER_MAX \in Nat \ {0} /\ INPUT_BUF_CAP \in Nat \ {0}

PidOf(t) == t[1]
Pid == {PidOf(t) : t \in Thread}
ThreadsOf(p) == {t \in Thread : PidOf(t) = p}

VARIABLES
  boot,                                   \* the system of this behaviour
  owner,                                  \* thread that has the display, or NoOne
  cursor,                                 \* position left by the last owner
  waiters, waiter_head, waiter_count,     \* ring of the waiting threads
  input_sid,                              \* process whose server gets the characters
  input_buf, input_head, input_count,     \* ring of unclaimed characters
  alive,                                  \* processes in the process table
  state,                                  \* "Free", "Ready" or "WaitDisplay"
  mailbox,                                \* cursor position handed to a waiter
  mapped,                                 \* processes that map the framebuffer
  inbox,                                  \* unread characters at a console server
  told,                                   \* threads that know they own the display
  typed,                                  \* characters typed so far (history)
  unclaimed                               \* those typed since the last drain (history)

lockVars == <<owner, cursor, waiters, waiter_head, waiter_count, mapped>>
keyVars == <<input_sid, input_buf, input_head, input_count, inbox, typed, unclaimed>>
threadVars == <<boot, alive, state, mailbox, told>>
displayVars == <<lockVars, keyVars, threadVars>>

DisplayInit ==
  /\ boot \in Boots
  /\ owner = NoOne /\ cursor = StartCursor
  /\ waiters = [k \in 0 .. DISPLAY_WAITER_MAX - 1 |-> NoOne]
  /\ waiter_head = 0 /\ waiter_count = 0
  /\ input_sid = NoOne
  /\ input_buf = [k \in 0 .. INPUT_BUF_CAP - 1 |-> 0]
  /\ input_head = 0 /\ input_count = 0
  /\ alive = boot.alive
  /\ state = [t \in Thread |-> IF PidOf(t) \in alive THEN "Ready" ELSE "Free"]
  /\ mailbox = [t \in Thread |-> NoOne]
  /\ mapped = {} /\ told = {}
  /\ inbox = [p \in Pid |-> <<>>]
  /\ typed = 0 /\ unclaimed = <<>>

\* A thread makes a system call when it runs and its last call has returned.
Calls(t) == state[t] = "Ready" /\ mailbox[t] = NoOne

Holds(p) == owner # NoOne /\ PidOf(owner) = p

-----------------------------------------------------------------------------
(* AcquireDisplay and ReleaseDisplay                                       *)

\* push_waiter; its refusal when the ring is full is not looked at.
PushWaiter(t) ==
  IF waiter_count >= DISPLAY_WAITER_MAX THEN UNCHANGED <<waiters, waiter_count>>
  ELSE /\ waiters' = [waiters EXCEPT
                        ![(waiter_head + waiter_count) % DISPLAY_WAITER_MAX] = t]
       /\ waiter_count' = waiter_count + 1

\* A program does not ask for a display that it holds.
AcquireDisplay(t) ==
  /\ Calls(t) /\ t \notin told
  /\ IF owner # NoOne
     THEN /\ PushWaiter(t)
          /\ state' = [state EXCEPT ![t] = "WaitDisplay"]
          /\ UNCHANGED <<owner, mapped, told>>
     ELSE /\ owner' = t
          /\ mapped' = mapped \cup {PidOf(t)}
          /\ told' = told \cup {t}
          /\ UNCHANGED <<waiters, waiter_count, state>>
  /\ UNCHANGED <<cursor, waiter_head, boot, alive, mailbox, keyVars>>

\* The k-th waiter of the ring.
Waiter(k) == waiters[(waiter_head + k) % DISPLAY_WAITER_MAX]

\* Faulty variant: processes that exited are not passed over.
LiveWaitersAll == 0 .. waiter_count - 1

\* The waiters whose process is in the process table.
LiveWaiters == {k \in 0 .. waiter_count - 1 : PidOf(Waiter(k)) \in alive}

\* Faulty variant: the new owner is woken with nothing in its mailbox.
MailSilent(t, left) == mailbox

\* wake_thread_with_result: a thread with a future finds the result in its
\* mailbox.  The registers of one without, the first thread of a process that
\* inherited the number of a waiter, are overwritten.
Mail(t, left) ==
  IF t # NoOne /\ state[t] = "WaitDisplay" THEN [mailbox EXCEPT ![t] = left]
  ELSE mailbox

\* Faulty variant: the last of the live waiters is taken.
SuccessorLast == IF LiveWaiters = {} THEN NoOne ELSE Waiter(Max(LiveWaiters))

\* The loop of release_display and release_display_on_exit: waiters are popped
\* up to the first whose process is alive.
Successor == IF LiveWaiters = {} THEN NoOne ELSE Waiter(Min(LiveWaiters))

PopWaiters ==
  LET popped == IF LiveWaiters = {} THEN waiter_count ELSE Min(LiveWaiters) + 1
  IN /\ waiter_head' = (waiter_head + popped) % DISPLAY_WAITER_MAX
     /\ waiter_count' = waiter_count - popped
     /\ UNCHANGED waiters

Woken == [t \in Thread |-> IF t = Successor THEN "Ready" ELSE state[t]]

MapFb(procs) == procs \cup {PidOf(t) : t \in {Successor} \ {NoOne}}

UnmapFb(p) == mapped \ {p}

\* Any thread of the owning process may release; a program does it with the
\* thread that acquired.  The call of another process is ignored.
ReleaseDisplay(t, left) ==
  /\ Calls(t)
  /\ t \in told
  /\ Holds(PidOf(t))
  /\ cursor' = left
  /\ PopWaiters
  /\ owner' = Successor
  /\ mapped' = MapFb(UnmapFb(PidOf(t)))
  /\ state' = Woken
  /\ mailbox' = Mail(Successor, left)
  /\ told' = told \ {t}
  /\ UNCHANGED <<boot, alive, keyVars>>

\* activate_current polls the future of a woken thread: AcquireDisplay returns.
Resume(t) ==
  /\ state[t] = "Ready" /\ mailbox[t] # NoOne
  /\ mailbox' = [mailbox EXCEPT ![t] = NoOne]
  /\ told' = told \cup {t}
  /\ UNCHANGED <<lockVars, keyVars, boot, alive, state>>

-----------------------------------------------------------------------------
(* Keyboard input                                                          *)

\* The characters of the ring, oldest first.
Buffered == [k \in 1 .. input_count |-> input_buf[(input_head + k - 1) % INPUT_BUF_CAP]]

\* Faulty variant: the byte that drops out of a full ring is the newest one.
PushInputCharStuck(c) ==
  IF input_count < INPUT_BUF_CAP
  THEN /\ input_buf' = [input_buf EXCEPT ![(input_head + input_count) % INPUT_BUF_CAP] = c]
       /\ input_count' = input_count + 1
       /\ UNCHANGED input_head
  ELSE /\ input_buf' = [input_buf EXCEPT ![input_head] = c]
       /\ UNCHANGED <<input_head, input_count>>

\* push_input_char: a full ring loses its oldest byte.
PushInputChar(c) ==
  IF input_count < INPUT_BUF_CAP
  THEN /\ input_buf' = [input_buf EXCEPT ![(input_head + input_count) % INPUT_BUF_CAP] = c]
       /\ input_count' = input_count + 1
       /\ UNCHANGED input_head
  ELSE /\ input_buf' = [input_buf EXCEPT ![input_head] = c]
       /\ input_head' = (input_head + 1) % INPUT_BUF_CAP
       /\ UNCHANGED input_count

\* deliver_char_to_sid for each character of s: a full queue refuses it, and
\* the refusal is not looked at.
Delivered(q, s) == SubSeq(q \o s, 1, IF Len(q \o s) < QueueLen THEN Len(q \o s) ELSE QueueLen)

\* A character arrives by interrupt.  The server of a dead process is not
\* found and the character is dropped.
DispatchInputChar ==
  /\ typed < boot.chars
  /\ typed' = typed + 1
  /\ IF input_sid = NoOne
     THEN PushInputChar(typed + 1) /\ unclaimed' = Append(unclaimed, typed + 1)
                                   /\ UNCHANGED inbox
     ELSE /\ inbox' = IF input_sid \in alive
                      THEN [inbox EXCEPT ![input_sid] = Delivered(@, <<typed + 1>>)]
                      ELSE inbox
          /\ UNCHANGED <<input_buf, input_head, input_count, unclaimed>>
  /\ UNCHANGED <<lockVars, threadVars, input_sid>>

\* AcquireInputFocus: refused unless the process owns the display.
AcquireInputFocus(t) ==
  /\ Calls(t)
  /\ Holds(PidOf(t))
  /\ input_sid' = PidOf(t)
  /\ inbox' = [inbox EXCEPT ![PidOf(t)] = Delivered(@, Buffered)]
  /\ input_head' = 0 /\ input_count' = 0
  /\ unclaimed' = <<>>
  /\ UNCHANGED <<lockVars, threadVars, input_buf, typed>>

ReleaseInputFocus(t) ==
  /\ Calls(t)
  /\ input_sid' = NoOne
  /\ UNCHANGED <<lockVars, threadVars, input_buf, input_head, input_count, inbox, typed,
                 unclaimed>>

\* The console server of p reads a character.
ReadChar(p) ==
  /\ p \in alive /\ inbox[p] # <<>>
  /\ inbox' = [inbox EXCEPT ![p] = Tail(@)]
  /\ UNCHANGED <<lockVars, threadVars, input_sid, input_buf, input_head, input_count, typed,
                 unclaimed>>

-----------------------------------------------------------------------------
(* Processes come and go                                                   *)

\* Process::terminate: the threads of p become Free.
Freed(p, f, x) == [t \in Thread |-> IF PidOf(t) = p THEN x ELSE f[t]]

\* terminate_current_process, with release_display_on_exit before the process
\* leaves the table: its own waiting threads still count as alive.  The page
\* tables of p, the framebuffer in them, and its server go with it.
Exit(p) ==
  /\ p \in alive \cap boot.mortal
  /\ IF Holds(p)
     THEN /\ PopWaiters
          /\ owner' = Successor
          /\ input_sid' = NoOne
          /\ mapped' = MapFb(mapped) \ {p}
          /\ state' = Freed(p, Woken, "Free")
          /\ mailbox' = Freed(p, Mail(Successor, cursor), NoOne)
     ELSE /\ UNCHANGED <<owner, waiters, waiter_head, waiter_count, input_sid>>
          /\ mapped' = mapped \ {p}
          /\ state' = Freed(p, state, "Free")
          /\ mailbox' = Freed(p, mailbox, NoOne)
  /\ alive' = alive \ {p}
  /\ told' = told \ ThreadsOf(p)
  /\ inbox' = [inbox EXCEPT ![p] = <<>>]
  /\ UNCHANGED <<boot, cursor, input_buf, input_head, input_count, typed, unclaimed>>

\* The entries of the ring.
InRing(t) == \E k \in 0 .. waiter_count - 1 : Waiter(k) = t

\* create_process hands out the number of a dead process.
Respawn(p) ==
  /\ p \in boot.mortal \ alive
  /\ EarlyReuse \/ \A t \in ThreadsOf(p) : ~InRing(t)
  /\ alive' = alive \cup {p}
  /\ state' = Freed(p, state, "Ready")
  /\ UNCHANGED <<boot, lockVars, keyVars, mailbox, told>>

DisplayNext ==
  \/ \E t \in Thread : \/ AcquireDisplay(t)
                       \/ \E left \in boot.cursors : ReleaseDisplay(t, left)
                       \/ Resume(t)
                       \/ AcquireInputFocus(t)
                       \/ ReleaseInputFocus(t)
  \/ \E p \in Pid : ReadChar(p) \/ Exit(p) \/ Respawn(p)
  \/ DispatchInputChar

DisplaySpec == DisplayInit /\ [][DisplayNext]_displayVars

\* A woken thread runs again, and an owner does not keep the display for ever.
DisplayFairness ==
  \A t \in Thread : /\ WF_displayVars(Resume(t))
                   /\ WF_displayVars(\E left \in boot.cursors : ReleaseDisplay(t, left))

-----------------------------------------------------------------------------
(* Properties                                                              *)

\* The display is free, or it belongs to a thread of a live process that asked
\* for it: one that knows it, or that will find the cursor the last owner left
\* in its mailbox when it runs.  Nobody else believes to own it, and no other
\* process maps the framebuffer.
OwnerAsked ==
  /\ owner # NoOne =>
       /\ PidOf(owner) \in alive
       /\ owner \in told \/ mailbox[owner] = cursor
  /\ \A t \in Thread : t \in told \/ mailbox[t] # NoOne => t = owner
  /\ mapped = {PidOf(t) : t \in {owner} \ {NoOne}}

\* The ring keeps the newest of the characters that nobody claimed, in order,
\* and a console server reads characters in the order they were typed, also
\* when typing goes on while the ring is drained.
InputInOrder ==
  /\ \E k \in 0 .. Len(unclaimed) :
        /\ Buffered = SubSeq(unclaimed, k + 1, Len(unclaimed))
        /\ k > 0 => input_count = INPUT_BUF_CAP
  /\ \A p \in Pid : \A i, j \in 1 .. Len(inbox[p]) :
        i < j => inbox[p][i] < inbox[p][j]

\* Characters are never routed to the server of a process that is gone.
FocusIsAlive == input_sid # NoOne => input_sid \in alive

\* Whoever waits for the display gets it, if owners give it back.
WaiterServed ==
  \A t \in Thread : state[t] = "WaitDisplay" ~> state[t] # "WaitDisplay"

-----------------------------------------------------------------------------
(* The ring, without the threads of dead processes, is the line of the lock. *)

line == SelectSeq([k \in 1 .. waiter_count |-> Waiter(k - 1)],
                  LAMBDA t : PidOf(t) \in alive)

Lock == INSTANCE DisplayLock WITH holder <- owner

\* The display changes hands in the order in which threads asked for it.
ImplementsDisplayLock == Lock!Spec
=============================================================================
