-------------------------- MODULE ConnectionsProofs --------------------------
(***************************************************************************)
(* A connection number never reaches a server it was not opened to, for    *)
(* any number of processes, servers and slots.                             *)
(***************************************************************************)
EXTENDS Connections, TLAPS, NaturalsInduction, WellFoundedInduction

\* The three invariants support one another: tombstoning the first match is
\* enough because there is only one, and a dead index is in no slot.
Inv == TypeOK /\ RefcountExact /\ ReachesItsServer /\ OneSlotPerServer

\* A set of table indices has a first one, and First finds it.
LEMMA FirstIn ==
  ASSUME NEW S \in SUBSET Nat, S # {}
  PROVE  First(S) \in S
<1>1. PICK n \in S : \A k \in S : ~ (<<k, n>> \in OpToRel(<, Nat))
  BY WFMin, NatLessThanWellFounded, Zenon
<1>2. \A k \in S : ~ (k < n)
  BY <1>1, Zenon DEF OpToRel
<1>3. \E k \in S : \A d \in S : k <= d
  BY <1>2
<1> QED BY <1>3 DEF First

\* The rows OneSlotPerServer allows.
OneSlot(row) ==
  \A c, d \in Cid : row[c].kind = "Connected" /\ row[d].kind = "Connected"
                      /\ row[c].sidx = row[d].sidx => c = d

\* In such a row every connection to a dead server is tombstoned.
LEMMA AllTombstoned ==
  ASSUME NEW row \in [Cid -> ConnectionSlot], OneSlot(row), NEW dead \in SUBSET Sidx
  PROVE  /\ TombstoneBySidx(row, dead) \in [Cid -> ConnectionSlot]
         /\ \A c \in Cid : TombstoneBySidx(row, dead)[c] =
              IF row[c].kind = "Connected" /\ row[c].sidx \in dead
              THEN Tombstone(row[c].refcount) ELSE row[c]
<1> DEFINE Hit(i) == {c \in Cid : row[c].kind = "Connected" /\ row[c].sidx = i}
           new == TombstoneBySidx(row, dead)
<1>1. ASSUME NEW c \in Cid, row[c].kind = "Connected"
      PROVE  c = First(Hit(row[c].sidx))
  <2>1. c \in Hit(row[c].sidx) /\ Hit(row[c].sidx) \in SUBSET Nat
    BY <1>1, IndexAssumption
  <2> DEFINE S == Hit(row[c].sidx)
  <2>2. First(S) \in S
    <3> HIDE DEF S
    <3> QED BY <2>1, FirstIn DEF S
  <2> QED BY <1>1, <2>2 DEF OneSlot
<1>2. \A c \in Cid : new[c] =
        IF row[c].kind = "Connected" /\ row[c].sidx \in dead
        THEN Tombstone(row[c].refcount) ELSE row[c]
  BY <1>1 DEF TombstoneBySidx
<1>3. \A c \in Cid : row[c].kind = "Connected" => row[c].refcount \in Nat \ {0}
  BY DEF ConnectionSlot, Free
<1>4. \A n \in Nat \ {0} : Tombstone(n) \in ConnectionSlot
  BY DEF Tombstone, ConnectionSlot
<1>5. \A c \in Cid : new[c] \in ConnectionSlot
  <2> HIDE DEF new
  <2> QED BY <1>2, <1>3, <1>4
<1>6. new = [c \in Cid |-> new[c]]
  BY DEF TombstoneBySidx
<1>7. new \in [Cid -> ConnectionSlot]
  <2> HIDE DEF new
  <2> QED BY <1>5, <1>6
<1> QED BY <1>2, <1>7

\* The tables start empty.
LEMMA InitInv == Init => Inv
BY DEF Init, Inv, TypeOK, RefcountExact, ReachesItsServer, OneSlotPerServer, Exists,
       ServerEntry, ConnectionSlot, Free, NoServer

\* Slots of each kind have the fields of that kind.
LEMMA SlotFields ==
  /\ Free \in ConnectionSlot /\ Free.kind = "Free"
  /\ \A n \in Nat \ {0} : /\ Tombstone(n) \in ConnectionSlot
                    /\ Tombstone(n).kind = "Tombstone" /\ Tombstone(n).refcount = n
  /\ \A n \in Nat \ {0}, i \in Sidx :
       /\ Connected(i, n) \in ConnectionSlot
       /\ Connected(i, n).kind = "Connected"
       /\ Connected(i, n).sidx = i /\ Connected(i, n).refcount = n
  /\ \A x \in ConnectionSlot :
       /\ x.kind \in {"Free", "Tombstone", "Connected"}
       /\ x.kind # "Free" => x.refcount \in Nat \ {0}
       /\ x.kind = "Connected" => x.sidx \in Sidx
BY DEF Free, Tombstone, Connected, ConnectionSlot

\* add_connection on a server the process is connected to.
LEMMA ConnectAgainInv ==
  ASSUME Inv, NEW p \in Pid, NEW i \in Sidx, ConnectAgain(p, i) PROVE Inv'
<1> DEFINE S == ConnectedTo(p, i)
           c == First(S)
<1>1. S \in SUBSET Nat /\ S # {}
  BY IndexAssumption DEF ConnectedTo, ConnectAgain
<1>2. c \in S
  <2> HIDE DEF S
  <2> QED BY <1>1, FirstIn
<1>3. c \in Cid /\ conn[p][c].kind = "Connected" /\ conn[p][c].sidx = i
  BY <1>2 DEF ConnectedTo
<1> DEFINE new == Connected(i, conn[p][c].refcount + 1)
<1>4. /\ conn' = [conn EXCEPT ![p][c] = new]
      /\ held' = [held EXCEPT ![p][c] = held[p][c] + 1]
      /\ servers' = servers /\ births' = births /\ bound' = bound
  BY DEF ConnectAgain
<1> HIDE DEF c
<1>5. conn[p][c] \in ConnectionSlot /\ held[p][c] \in Nat
  BY <1>3 DEF Inv, TypeOK
<1>6. /\ new \in ConnectionSlot /\ new.kind = "Connected" /\ new.sidx = i
      /\ new.refcount = conn[p][c].refcount + 1
  BY <1>3, <1>5, SlotFields
<1> HIDE DEF new
<1>7. TypeOK'
  BY <1>3, <1>4, <1>5, <1>6 DEF Inv, TypeOK
<1>8. \A q \in Pid, d \in Cid :
        /\ conn'[q][d] = IF q = p /\ d = c THEN new ELSE conn[q][d]
        /\ held'[q][d] = IF q = p /\ d = c THEN held[p][c] + 1 ELSE held[q][d]
  BY <1>3, <1>4 DEF Inv, TypeOK
<1>9. RefcountExact'
  BY <1>3, <1>5, <1>6, <1>8 DEF Inv, RefcountExact
<1>10. ReachesItsServer'
  BY <1>3, <1>4, <1>6, <1>8 DEF Inv, ReachesItsServer, Exists
<1>11. OneSlotPerServer'
  BY <1>3, <1>6, <1>8 DEF Inv, OneSlotPerServer
<1> QED BY <1>7, <1>9, <1>10, <1>11 DEF Inv

\* add_connection on a server that is new to the process.
LEMMA ConnectAnewInv ==
  ASSUME Inv, NEW p \in Pid, NEW i \in Sidx, ConnectAnew(p, i) PROVE Inv'
<1> DEFINE S == FreeSlots(p)
           c == First(S)
<1>1. S \in SUBSET Nat /\ S # {}
  BY IndexAssumption DEF FreeSlots, ConnectAnew
<1>2. c \in S
  <2> HIDE DEF S
  <2> QED BY <1>1, FirstIn
<1>3. c \in Cid /\ conn[p][c].kind = "Free"
  BY <1>2 DEF FreeSlots
<1> DEFINE new == Connected(i, 1)
<1>4. /\ conn' = [conn EXCEPT ![p][c] = new]
      /\ held' = [held EXCEPT ![p][c] = 1]
      /\ bound' = [bound EXCEPT ![p][c] = servers[i].birth]
      /\ servers' = servers /\ births' = births
      /\ Exists(i)
      /\ \A d \in Cid : ~(conn[p][d].kind = "Connected" /\ conn[p][d].sidx = i)
  BY DEF ConnectAnew, ConnectedTo
<1> HIDE DEF c
<1>5. servers[i].birth \in Nat
  BY <1>4 DEF Inv, TypeOK, ServerEntry, NoServer, Exists
<1>6. /\ new \in ConnectionSlot /\ new.kind = "Connected" /\ new.sidx = i
      /\ new.refcount = 1
  BY SlotFields
<1> HIDE DEF new
<1>7. TypeOK'
  BY <1>3, <1>4, <1>5, <1>6 DEF Inv, TypeOK
<1>8. \A q \in Pid, d \in Cid :
        /\ conn'[q][d] = IF q = p /\ d = c THEN new ELSE conn[q][d]
        /\ held'[q][d] = IF q = p /\ d = c THEN 1 ELSE held[q][d]
        /\ bound'[q][d] = IF q = p /\ d = c THEN servers[i].birth ELSE bound[q][d]
  BY <1>3, <1>4 DEF Inv, TypeOK
<1>9. RefcountExact'
  BY <1>6, <1>8 DEF Inv, RefcountExact
<1>10. ReachesItsServer'
  BY <1>4, <1>6, <1>8 DEF Inv, ReachesItsServer, Exists
<1>11. OneSlotPerServer'
  BY <1>4, <1>6, <1>8 DEF Inv, OneSlotPerServer
<1> QED BY <1>7, <1>9, <1>10, <1>11 DEF Inv

\* disconnect_from_server: a slot loses one reference, and is freed with the last.
LEMMA DisconnectInv ==
  ASSUME Inv, NEW p \in Pid, NEW c \in Cid, Disconnect(p, c) PROVE Inv'
<1> DEFINE old == conn[p][c]
           new == Released(old)
<1>1. old \in ConnectionSlot /\ held[p][c] \in Nat
  BY DEF Inv, TypeOK
<1>2. /\ conn' = [conn EXCEPT ![p][c] = new]
      /\ held' = [held EXCEPT ![p][c] = held[p][c] - 1]
      /\ servers' = servers /\ births' = births /\ bound' = bound
      /\ held[p][c] > 0 /\ old.kind # "Free"
  BY DEF Disconnect
<1>3. held[p][c] = old.refcount
  BY <1>2 DEF Inv, RefcountExact
<1>4. /\ new \in ConnectionSlot
      /\ new.kind = "Free" => held[p][c] = 1
      /\ new.kind # "Free" => new.refcount = held[p][c] - 1 /\ held[p][c] > 1
      /\ new.kind = "Connected" => old.kind = "Connected" /\ new.sidx = old.sidx
  <2> HIDE DEF old
  <2>1. old.refcount \in Nat \ {0} /\ (old.kind = "Connected" => old.sidx \in Sidx)
    BY <1>1, <1>2, SlotFields
  <2>2. CASE old.refcount > 1 /\ old.kind = "Tombstone"
    <3>1. new = Tombstone(old.refcount - 1)
      BY <2>2 DEF Released
    <3> QED BY <1>3, <2>1, <2>2, <3>1, SlotFields
  <2>3. CASE old.refcount > 1 /\ old.kind = "Connected"
    <3>1. new = Connected(old.sidx, old.refcount - 1)
      BY <2>3 DEF Released
    <3> QED BY <1>3, <2>1, <2>3, <3>1, SlotFields
  <2>4. CASE ~(old.refcount > 1)
    <3>1. new = Free
      BY <2>4 DEF Released
    <3> QED BY <1>1, <1>2, <1>3, <2>1, <2>4, <3>1, SlotFields
  <2> QED BY <1>1, <1>2, <2>2, <2>3, <2>4, SlotFields
<1> HIDE DEF new, old
<1>5. TypeOK'
  BY <1>1, <1>2, <1>4 DEF Inv, TypeOK
<1>6. \A q \in Pid, d \in Cid :
        /\ conn'[q][d] = IF q = p /\ d = c THEN new ELSE conn[q][d]
        /\ held'[q][d] = IF q = p /\ d = c THEN held[p][c] - 1 ELSE held[q][d]
  BY <1>2 DEF Inv, TypeOK
<1>7. RefcountExact'
  BY <1>1, <1>4, <1>6 DEF Inv, RefcountExact
<1>8. ReachesItsServer'
  BY <1>2, <1>4, <1>6 DEF Inv, ReachesItsServer, Exists, old
<1>9. OneSlotPerServer'
  BY <1>4, <1>6 DEF Inv, OneSlotPerServer, old
<1> QED BY <1>5, <1>7, <1>8, <1>9 DEF Inv

\* A server takes an index that no connection has.
LEMMA CreateServerInv ==
  ASSUME Inv, NEW p \in Pid, CreateServer(p) PROVE Inv'
<1> DEFINE S == FreeServers
           i == First(S)
<1>1. S \in SUBSET Nat /\ S # {}
  BY IndexAssumption DEF FreeServers, CreateServer
<1>2. i \in S
  <2> HIDE DEF S
  <2> QED BY <1>1, FirstIn
<1>3. i \in Sidx /\ ~Exists(i)
  BY <1>2 DEF FreeServers
<1>4. /\ servers' = [servers EXCEPT ![i] = Server(p, births + 1)]
      /\ births' = births + 1 /\ conn' = conn /\ held' = held /\ bound' = bound
  BY DEF CreateServer
<1> HIDE DEF i
<1>5. TypeOK'
  <2>1. Server(p, births + 1) \in ServerEntry
    BY DEF Server, ServerEntry, Inv, TypeOK
  <2> QED BY <1>3, <1>4, <2>1 DEF Inv, TypeOK
<1>6. RefcountExact' /\ OneSlotPerServer'
  BY <1>4 DEF Inv, RefcountExact, OneSlotPerServer
<1>7. ReachesItsServer'
  <2>1. \A q \in Pid, d \in Cid : conn[q][d].kind = "Connected" =>
          /\ conn[q][d].sidx \in Sidx /\ conn[q][d].sidx # i
          /\ servers'[conn[q][d].sidx] = servers[conn[q][d].sidx]
    BY <1>3, <1>4, SlotFields DEF Inv, TypeOK, ReachesItsServer
  <2> QED BY <1>4, <2>1 DEF Inv, ReachesItsServer, Exists
<1> QED BY <1>5, <1>6, <1>7 DEF Inv

\* Servers disappear and the connections to them become tombstones; the rows of
\* the processes of gone are emptied.
LEMMA ServersGone ==
  ASSUME Inv, NEW dead \in SUBSET Sidx, NEW gone \in SUBSET Pid,
         servers' = [i \in Sidx |-> IF i \in dead THEN NoServer ELSE servers[i]],
         conn' = [p \in Pid |-> IF p \in gone THEN [c \in Cid |-> Free]
                               ELSE TombstoneBySidx(conn[p], dead)],
         held' = [p \in Pid |-> IF p \in gone THEN [c \in Cid |-> 0] ELSE held[p]],
         births' = births, bound' = bound
  PROVE  Inv'
<1>1. \A p \in Pid : conn[p] \in [Cid -> ConnectionSlot] /\ OneSlot(conn[p])
  BY DEF Inv, TypeOK, OneSlotPerServer, OneSlot
<1>2. \A p \in Pid :
        /\ TombstoneBySidx(conn[p], dead) \in [Cid -> ConnectionSlot]
        /\ \A c \in Cid : TombstoneBySidx(conn[p], dead)[c] =
             IF conn[p][c].kind = "Connected" /\ conn[p][c].sidx \in dead
             THEN Tombstone(conn[p][c].refcount) ELSE conn[p][c]
  BY <1>1, AllTombstoned
<1>3. TypeOK'
  <2>1. servers' \in [Sidx -> ServerEntry]
    BY DEF Inv, TypeOK, ServerEntry
  <2>2. conn' \in [Pid -> [Cid -> ConnectionSlot]]
    BY <1>2, SlotFields
  <2>3. held' \in [Pid -> [Cid -> Nat]]
    BY DEF Inv, TypeOK
  <2> QED BY <2>1, <2>2, <2>3 DEF Inv, TypeOK
<1>4. \A p \in Pid, c \in Cid :
        /\ p \in gone => conn'[p][c] = Free /\ held'[p][c] = 0
        /\ p \notin gone =>
             /\ held'[p][c] = held[p][c]
             /\ conn'[p][c] =
                  IF conn[p][c].kind = "Connected" /\ conn[p][c].sidx \in dead
                  THEN Tombstone(conn[p][c].refcount) ELSE conn[p][c]
  BY <1>2
<1>5. \A p \in Pid, c \in Cid : conn[p][c] \in ConnectionSlot
  BY <1>1
<1>6. RefcountExact'
  BY <1>4, <1>5, SlotFields DEF Inv, RefcountExact
<1>7. \A p \in Pid, c \in Cid : conn'[p][c].kind = "Connected" =>
        conn'[p][c] = conn[p][c] /\ conn[p][c].sidx \in Sidx \ dead
  BY <1>4, <1>5, SlotFields
<1>8. ReachesItsServer'
  BY <1>7 DEF Inv, ReachesItsServer, Exists
<1>9. OneSlotPerServer'
  BY <1>7 DEF Inv, OneSlotPerServer
<1> QED BY <1>3, <1>6, <1>8, <1>9 DEF Inv

\* Every operation on the tables keeps the invariant.
LEMMA NextInv == Inv /\ [Next]_vars => Inv'
<1> SUFFICES ASSUME Inv, [Next]_vars PROVE Inv'
  OBVIOUS
<1>1. ASSUME NEW i \in Sidx, DestroyServer(i) PROVE Inv'
  <2>1. servers' = [j \in Sidx |-> IF j \in {i} THEN NoServer ELSE servers[j]]
    BY <1>1 DEF DestroyServer, Inv, TypeOK
  <2>2. conn' = [p \in Pid |-> IF p \in {} THEN [c \in Cid |-> Free]
                              ELSE TombstoneBySidx(conn[p], {i})]
    BY <1>1 DEF DestroyServer
  <2>3. held' = [p \in Pid |-> IF p \in {} THEN [c \in Cid |-> 0] ELSE held[p]]
    BY <1>1 DEF DestroyServer, Inv, TypeOK
  <2>4. births' = births /\ bound' = bound /\ {i} \in SUBSET Sidx /\ {} \in SUBSET Pid
    BY <1>1 DEF DestroyServer
  <2> QED BY <2>1, <2>2, <2>3, <2>4, ServersGone
<1>2. ASSUME NEW p \in Pid, TerminateProcess(p) PROVE Inv'
  <2> DEFINE dead == ServersOf(p)
  <2>1. servers' = [j \in Sidx |-> IF j \in dead THEN NoServer ELSE servers[j]]
    BY <1>2 DEF TerminateProcess
  <2>2. conn' = [q \in Pid |-> IF q \in {p} THEN [c \in Cid |-> Free]
                              ELSE TombstoneBySidx(conn[q], dead)]
    BY <1>2 DEF TerminateProcess
  <2>3. held' = [q \in Pid |-> IF q \in {p} THEN [c \in Cid |-> 0] ELSE held[q]]
    BY <1>2 DEF TerminateProcess, Inv, TypeOK
  <2>4. /\ births' = births /\ bound' = bound
        /\ dead \in SUBSET Sidx /\ {p} \in SUBSET Pid
    BY <1>2 DEF TerminateProcess, ServersOf
  <2> HIDE DEF dead
  <2> QED BY <2>1, <2>2, <2>3, <2>4, ServersGone
<1>3. CASE UNCHANGED vars
  BY <1>3 DEF vars, Inv, TypeOK, RefcountExact, ReachesItsServer, OneSlotPerServer, Exists
<1> QED BY <1>1, <1>2, <1>3, ConnectAgainInv, ConnectAnewInv, DisconnectInv,
           CreateServerInv DEF Next

\* A connection reaches the server it was opened to or none, however servers and
\* connections come and go and indices are reused.
THEOREM ConnectionsReachTheirServer == Spec => []ReachesItsServer
<1>1. Inv => ReachesItsServer
  BY DEF Inv
<1> QED BY InitInv, NextInv, <1>1, PTL DEF Spec

\* The reference count of a slot is exactly the number of handles to it.
THEOREM RefcountsExact == Spec => []RefcountExact
<1>1. Inv => RefcountExact
  BY DEF Inv
<1> QED BY InitInv, NextInv, <1>1, PTL DEF Spec

\* A number a program still holds is never bound to another server.
THEOREM HeldNumbersStayBound == Spec => HeldStaysBound
<1>1. ASSUME Inv, [Next]_vars
      PROVE  [\A p \in Pid, c \in Cid :
                held[p][c] > 0 /\ held'[p][c] > 0 => bound'[p][c] = bound[p][c]]_vars
  <2>1. ASSUME NEW p \in Pid, NEW i \in Sidx, ConnectAnew(p, i),
               NEW q \in Pid, NEW d \in Cid, held[q][d] > 0
        PROVE  bound'[q][d] = bound[q][d]
    <3> DEFINE S == FreeSlots(p)
               c == First(S)
    <3>1. S \in SUBSET Nat /\ S # {}
      BY <2>1, IndexAssumption DEF FreeSlots, ConnectAnew
    <3>2. c \in S
      <4> HIDE DEF S
      <4> QED BY <3>1, FirstIn
    <3>3. c \in Cid /\ conn[p][c].kind = "Free"
      BY <3>2 DEF FreeSlots
    <3>4. held[p][c] = 0
      BY <1>1, <3>3 DEF Inv, RefcountExact
    <3>5. bound' = [bound EXCEPT ![p][c] = servers[i].birth]
      BY <2>1 DEF ConnectAnew
    <3> HIDE DEF c
    <3> QED BY <1>1, <2>1, <3>3, <3>4, <3>5 DEF Inv, TypeOK
  <2>2. CASE bound' = bound
    BY <2>2
  <2>3. bound' = bound \/ \E p \in Pid, i \in Sidx : ConnectAnew(p, i)
    BY <1>1 DEF Next, ConnectAgain, Disconnect, CreateServer, DestroyServer,
                TerminateProcess, vars
  <2> QED BY <2>1, <2>2, <2>3
<1> QED BY InitInv, NextInv, <1>1, PTL DEF Spec, HeldStaysBound
=============================================================================
