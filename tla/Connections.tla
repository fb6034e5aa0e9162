----------------------------- MODULE Connections -----------------------------
(***************************************************************************)
(* The server table and the connection tables of the processes             *)
(* (xous/kernel/src/services.rs, process.rs).  A connection stores the     *)
(* index of its server, and both the index and the connection number are   *)
(* taken again by others; reference counts and tombstones are what keeps   *)
(* an old number from reaching a new server.                               *)
(*                                                                         *)
(* Every server gets a birth number, so that two servers that had the same *)
(* index can be told apart; held and bound record what the programs of a   *)
(* process know: how many times connection c was handed out and not given  *)
(* back, and to which server it was opened.                                *)
(***************************************************************************)
EXTENDS Integers

CONSTANTS
  Pid,          \* processes
  Sidx,         \* indices of the server table, integers
  Cid,          \* indices of a connection table, integers
  MaxBirth,     \* bound on the servers created
  MaxHeld       \* bound on the handles to one connection

ASSUME IndexAssumption == Cid \subseteq Nat /\ Sidx \subseteq Nat
ASSUME BoundAssumption == MaxBirth \in Nat /\ MaxHeld \in Nat

VARIABLES
  servers,      \* the owner and birth number of each server, or NoServer
  conn,         \* the ConnectionSlot of each process and index
  births,       \* number of servers created so far
  held,         \* handles the programs of a process hold (history)
  bound         \* the birth number of the server a slot was opened to (history)

vars == <<servers, conn, births, held, bound>>

NoServer == [kind |-> "None"]
Server(p, b) == [kind |-> "Some", pid |-> p, birth |-> b]

Free == [kind |-> "Free"]
Tombstone(n) == [kind |-> "Tombstone", refcount |-> n]
Connected(i, n) == [kind |-> "Connected", sidx |-> i, refcount |-> n]

ServerEntry == {NoServer} \cup [kind : {"Some"}, pid : Pid, birth : Nat]
ConnectionSlot ==
  {Free} \cup [kind : {"Tombstone"}, refcount : Nat \ {0}]
         \cup [kind : {"Connected"}, sidx : Sidx, refcount : Nat \ {0}]

Exists(i) == servers[i].kind = "Some"

Init ==
  /\ servers = [i \in Sidx |-> NoServer]
  /\ conn = [p \in Pid |-> [c \in Cid |-> Free]]
  /\ births = 0
  /\ held = [p \in Pid |-> [c \in Cid |-> 0]]
  /\ bound = [p \in Pid |-> [c \in Cid |-> 0]]

-----------------------------------------------------------------------------
(* Process::add_connection, disconnect_from_server,                        *)
(* tombstone_connection_by_sidx                                            *)

ConnectedTo(p, i) == {c \in Cid : conn[p][c].kind = "Connected" /\ conn[p][c].sidx = i}

FreeSlots(p) == {c \in Cid : conn[p][c].kind = "Free"}

First(S) == CHOOSE c \in S : \A d \in S : c <= d

\* A process that is connected to the server shares the slot it has.
ConnectAgain(p, i) ==
  LET c == First(ConnectedTo(p, i))
  IN /\ Exists(i)
     /\ ConnectedTo(p, i) # {}
     /\ held[p][c] < MaxHeld
     /\ conn' = [conn EXCEPT ![p][c] = Connected(i, conn[p][c].refcount + 1)]
     /\ held' = [held EXCEPT ![p][c] = @ + 1]
     /\ UNCHANGED <<servers, births, bound>>

\* Otherwise the first free slot is taken; without one the call fails and
\* changes nothing.
ConnectAnew(p, i) ==
  LET c == First(FreeSlots(p))
  IN /\ Exists(i)
     /\ ConnectedTo(p, i) = {}
     /\ FreeSlots(p) # {}
     /\ conn' = [conn EXCEPT ![p][c] = Connected(i, 1)]
     /\ held' = [held EXCEPT ![p][c] = 1]
     /\ bound' = [bound EXCEPT ![p][c] = servers[i].birth]
     /\ UNCHANGED <<servers, births>>

\* Faulty variant: a tombstone is freed by the first of its holders.
ReleasedEarly(slot) ==
  IF slot.kind = "Connected" /\ slot.refcount > 1
  THEN Connected(slot.sidx, slot.refcount - 1) ELSE Free

\* A slot after one disconnect.
Released(slot) ==
  CASE slot.refcount > 1 /\ slot.kind = "Tombstone" -> Tombstone(slot.refcount - 1)
    [] slot.refcount > 1 /\ slot.kind = "Connected" ->
         Connected(slot.sidx, slot.refcount - 1)
    [] OTHER -> Free

\* A program gives back a handle it holds.
Disconnect(p, c) ==
  /\ held[p][c] > 0
  /\ conn[p][c].kind # "Free"
  /\ conn' = [conn EXCEPT ![p][c] = Released(@)]
  /\ held' = [held EXCEPT ![p][c] = @ - 1]
  /\ UNCHANGED <<servers, births, bound>>

\* Faulty variant: the connection stays as it is.
TombstoneNone(row, dead) == row

\* The row of a process after the servers of dead are gone: the first slot
\* connected to each of them becomes a tombstone.
TombstoneBySidx(row, dead) ==
  LET Hit(i) == {c \in Cid : row[c].kind = "Connected" /\ row[c].sidx = i}
  IN [c \in Cid |->
        IF row[c].kind = "Connected" /\ row[c].sidx \in dead /\ c = First(Hit(row[c].sidx))
        THEN Tombstone(row[c].refcount) ELSE row[c]]

-----------------------------------------------------------------------------
(* create_server_with_address, destroy_sidx, terminate_current_process     *)

FreeServers == {i \in Sidx : ~Exists(i)}

CreateServer(p) ==
  /\ FreeServers # {}
  /\ births < MaxBirth
  /\ servers' = [servers EXCEPT ![First(FreeServers)] = Server(p, births + 1)]
  /\ births' = births + 1
  /\ UNCHANGED <<conn, held, bound>>

DestroyServer(i) ==
  /\ Exists(i)
  /\ servers' = [servers EXCEPT ![i] = NoServer]
  /\ conn' = [p \in Pid |-> TombstoneBySidx(conn[p], {i})]
  /\ UNCHANGED <<births, held, bound>>

ServersOf(p) == {i \in Sidx : Exists(i) /\ servers[i].pid = p}

\* A process goes with its servers and its connections; the next process of
\* that number starts with an empty table.
TerminateProcess(p) ==
  /\ servers' = [i \in Sidx |-> IF i \in ServersOf(p) THEN NoServer ELSE servers[i]]
  /\ conn' = [q \in Pid |-> IF q = p THEN [c \in Cid |-> Free]
                            ELSE TombstoneBySidx(conn[q], ServersOf(p))]
  /\ held' = [held EXCEPT ![p] = [c \in Cid |-> 0]]
  /\ UNCHANGED <<births, bound>>

Next ==
  \/ \E p \in Pid, i \in Sidx : ConnectAgain(p, i) \/ ConnectAnew(p, i)
  \/ \E p \in Pid, c \in Cid : Disconnect(p, c)
  \/ \E i \in Sidx : DestroyServer(i)
  \/ \E p \in Pid : CreateServer(p) \/ TerminateProcess(p)

Spec == Init /\ [][Next]_vars

-----------------------------------------------------------------------------
(* Properties                                                              *)

\* The types of the two tables; a slot in use has at least one reference.
TypeOK ==
  /\ servers \in [Sidx -> ServerEntry]
  /\ births \in Nat
  /\ held \in [Pid -> [Cid -> Nat]]
  /\ bound \in [Pid -> [Cid -> Nat]]
  /\ conn \in [Pid -> [Cid -> ConnectionSlot]]

\* The reference count of a slot is the number of handles its programs hold,
\* and a slot nobody holds is free: tombstones do not leak, and a number still
\* held is never handed out for another server.
RefcountExact ==
  \A p \in Pid, c \in Cid :
    IF conn[p][c].kind = "Free" THEN held[p][c] = 0
    ELSE held[p][c] = conn[p][c].refcount /\ held[p][c] > 0

\* A connection reaches the very server it was opened to, or none: the index
\* in the slot is never that of a later server (send_message unwraps the
\* server it finds there).
ReachesItsServer ==
  \A p \in Pid, c \in Cid :
    conn[p][c].kind = "Connected" =>
      /\ Exists(conn[p][c].sidx)
      /\ servers[conn[p][c].sidx].birth = bound[p][c]

\* A process has at most one slot per server, which is why tombstoning the
\* first match is enough.
OneSlotPerServer ==
  \A p \in Pid : \A c, d \in Cid :
    conn[p][c].kind = "Connected" /\ conn[p][d].kind = "Connected"
      /\ conn[p][c].sidx = conn[p][d].sidx => c = d

\* While a program holds a connection number it stays bound to one server.
HeldStaysBound ==
  [][\A p \in Pid, c \in Cid :
       held[p][c] > 0 /\ held'[p][c] > 0 => bound'[p][c] = bound[p][c]]_vars
=============================================================================
