--------------------------- MODULE SchedulerProofs ---------------------------
(***************************************************************************)
(* The circular lists of the scheduler stay sound for any number of        *)
(* threads and priorities.  The invariant is stated for a value l of the   *)
(* lists, a set R of Ready threads and their priorities pr, so that        *)
(* set_thread_priority, which parks a thread and queues it again, is the   *)
(* composition of two lemmas.                                              *)
(***************************************************************************)
EXTENDS Scheduler, WellFoundedInduction, TLAPS

ListType ==
  [heads : [Priority -> Thread \cup {NoThread}],
   next : [Thread -> Thread \cup {NoThread}],
   prev : [Thread -> Thread \cup {NoThread}],
   highest : Priority]

Members(R, pr, p) == {t \in R : pr[t] = p}

LinksOK(l, R, pr) ==
  /\ \A t \in Thread \ R : l.next[t] = NoThread /\ l.prev[t] = NoThread
  /\ \A t \in R :
       /\ l.next[t] \in R /\ l.prev[l.next[t]] = t
       /\ l.prev[t] \in R /\ l.next[l.prev[t]] = t
       /\ pr[l.next[t]] = pr[t]
       /\ pr[l.prev[t]] = pr[t]

HeadsOK(l, R, pr) ==
  \A p \in Priority :
    IF l.heads[p] = NoThread
    THEN \A t \in R : pr[t] # p
    ELSE l.heads[p] \in R /\ pr[l.heads[p]] = p

HighestOK(l, R, pr) ==
  /\ \E t \in R : pr[t] = l.highest
  /\ \A t \in R : pr[t] <= l.highest

CircleOK(l, R, pr) ==
  \A p \in Priority : \A S \in SUBSET Members(R, pr, p) :
    l.heads[p] \in S /\ (\A t \in S : l.next[t] \in S) => S = Members(R, pr, p)

Typed(l, R, pr) ==
  /\ l \in ListType
  /\ R \in SUBSET Thread
  /\ pr \in [Thread -> Priority]
  /\ IdleThread \in R
  /\ pr[IdleThread] = 0

Good(l, R, pr) ==
  /\ Typed(l, R, pr)
  /\ LinksOK(l, R, pr)
  /\ HeadsOK(l, R, pr)
  /\ HighestOK(l, R, pr)
  /\ CircleOK(l, R, pr)

-----------------------------------------------------------------------------
\* ready_thread links a thread that is not Ready into its queue.
LEMMA ReadyKeepsGood ==
  ASSUME NEW l, NEW R, NEW pr, Good(l, R, pr), NEW t \in Thread \ R
  PROVE  Good(ReadyThread(l, t, pr[t]), R \cup {t}, pr)
<1> DEFINE p == pr[t]
           h == l.heads[p]
           b == l.prev[h]
           m == ReadyThread(l, t, p)
           Q == R \cup {t}
<1>1. /\ p \in Priority /\ t \in Thread /\ t \notin R /\ NoThread \notin Thread
      /\ t # NoThread /\ R \subseteq Thread
      /\ l.heads \in [Priority -> Thread \cup {NoThread}]
      /\ l.next \in [Thread -> Thread \cup {NoThread}]
      /\ l.prev \in [Thread -> Thread \cup {NoThread}]
      /\ l.highest \in Priority
  BY IdleAssumption DEF Good, Typed, ListType
<1>2. ASSUME h = NoThread PROVE Good(m, Q, pr)
  <2>1. m = [heads |-> [l.heads EXCEPT ![p] = t],
             next |-> [l.next EXCEPT ![t] = t],
             prev |-> [l.prev EXCEPT ![t] = t],
             highest |-> IF l.highest < p THEN p ELSE l.highest]
    BY <1>2 DEF ReadyThread
  <2>2. \A u \in R : pr[u] # p
    BY <1>1, <1>2 DEF Good, HeadsOK
  <2> HIDE DEF m
  <2>3. Typed(m, Q, pr)
    BY <2>1, <1>1 DEF Good, Typed, ListType
  <2>4. LinksOK(m, Q, pr)
    BY <2>1, <1>1 DEF Good, LinksOK
  <2>5. HeadsOK(m, Q, pr)
    BY <2>1, <2>2, <1>1 DEF Good, HeadsOK
  <2>6. HighestOK(m, Q, pr)
    <3>1. l.highest \in Int /\ p \in Int /\ \A u \in R : pr[u] \in Int
      BY <1>1 DEF Good, Typed, Priority
    <3> QED BY <3>1, <2>1, <1>1 DEF Good, HighestOK
  <2>7. CircleOK(m, Q, pr)
    <3> SUFFICES ASSUME NEW q \in Priority, NEW S \in SUBSET Members(Q, pr, q),
                        m.heads[q] \in S, \A u \in S : m.next[u] \in S
                 PROVE  S = Members(Q, pr, q)
      BY DEF CircleOK
    <3>1. CASE q = p
      <4>1. Members(Q, pr, q) = {t}
        BY <3>1, <2>2, <1>1 DEF Members
      <4>2. t \in S
        BY <3>1, <2>1, <1>1
      <4> QED BY <4>1, <4>2
    <3>2. CASE q # p
      <4>1. Members(Q, pr, q) = Members(R, pr, q) /\ t \notin Members(Q, pr, q)
        BY <3>2 DEF Members
      <4>2. S \in SUBSET Members(R, pr, q) /\ S \subseteq Thread /\ t \notin S
        BY <4>1, <1>1 DEF Members
      <4>3. l.heads[q] \in S /\ \A u \in S : l.next[u] \in S
        BY <4>2, <3>2, <2>1, <1>1
      <4> QED BY <4>1, <4>2, <4>3 DEF Good, CircleOK
    <3> QED BY <3>1, <3>2
  <2> QED BY <2>3, <2>4, <2>5, <2>6, <2>7 DEF Good
<1>3. ASSUME h # NoThread PROVE Good(m, Q, pr)
  <2>1. /\ m.heads = l.heads
        /\ m.highest = l.highest
        /\ m.prev = [l.prev EXCEPT ![h] = t, ![t] = b]
        /\ m.next = [l.next EXCEPT ![b] = t, ![t] = h]
        /\ m = [heads |-> m.heads, next |-> m.next, prev |-> m.prev, highest |-> m.highest]
    BY <1>3 DEF ReadyThread, Good, Typed, ListType
  <2>2. /\ h \in R /\ pr[h] = p
        /\ b \in R /\ pr[b] = p /\ l.next[b] = h
        /\ h # t /\ b # t
    BY <1>1, <1>3 DEF Good, HeadsOK, LinksOK
  <2> HIDE DEF m, h, b
  <2>3. Typed(m, Q, pr)
    <3>1. m.next \in [Thread -> Thread \cup {NoThread}]
      BY <2>1, <2>2, <1>1
    <3>2. m.prev \in [Thread -> Thread \cup {NoThread}]
      BY <2>1, <2>2, <1>1
    <3> QED BY <3>1, <3>2, <2>1, <1>1 DEF Good, Typed, ListType
  <2>4. LinksOK(m, Q, pr)
    <3>1. \A u \in Thread \ Q : m.next[u] = NoThread /\ m.prev[u] = NoThread
      BY <2>1, <2>2, <1>1 DEF Good, LinksOK
    <3>2. m.next[t] = h /\ m.prev[h] = t /\ m.prev[t] = b /\ m.next[b] = t
      BY <2>1, <2>2, <1>1
    <3>3. ASSUME NEW u \in R
          PROVE /\ m.next[u] \in Q /\ m.prev[m.next[u]] = u
                /\ pr[m.next[u]] = pr[u]
      <4>1. CASE u = b
        BY <4>1, <3>2, <2>2
      <4>2. CASE u # b
        <5>1. m.next[u] = l.next[u] /\ l.next[u] \in R /\ l.prev[l.next[u]] = u
              /\ pr[l.next[u]] = pr[u]
          BY <4>2, <2>1, <2>2, <1>1 DEF Good, LinksOK
        <5>2. l.next[u] # h
          BY <5>1, <4>2 DEF b
        <5> QED BY <5>1, <5>2, <2>1, <2>2, <1>1
      <4> QED BY <4>1, <4>2
    <3>4. ASSUME NEW u \in R
          PROVE /\ m.prev[u] \in Q /\ m.next[m.prev[u]] = u
                /\ pr[m.prev[u]] = pr[u]
      <4>1. CASE u = h
        BY <4>1, <3>2, <2>2
      <4>2. CASE u # h
        <5>1. m.prev[u] = l.prev[u] /\ l.prev[u] \in R /\ l.next[l.prev[u]] = u
              /\ pr[l.prev[u]] = pr[u]
          BY <4>2, <2>1, <2>2, <1>1 DEF Good, LinksOK
        <5>2. l.prev[u] # b
          BY <5>1, <4>2, <2>2
        <5> QED BY <5>1, <5>2, <2>1, <2>2, <1>1
      <4> QED BY <4>1, <4>2
    <3> QED BY <3>1, <3>2, <3>3, <3>4, <2>2 DEF LinksOK
  <2>5. HeadsOK(m, Q, pr)
    BY <2>1, <2>2, <1>1 DEF Good, HeadsOK, h
  <2>6. HighestOK(m, Q, pr)
    BY <2>1, <2>2 DEF Good, HighestOK
  <2>7. CircleOK(m, Q, pr)
    <3> SUFFICES ASSUME NEW q \in Priority, NEW S \in SUBSET Members(Q, pr, q),
                        m.heads[q] \in S, \A u \in S : m.next[u] \in S
                 PROVE  S = Members(Q, pr, q)
      BY DEF CircleOK
    <3>1. S \ {t} \in SUBSET Members(R, pr, q)
      BY DEF Members
    <3>2. l.heads[q] \in S \ {t}
      BY <2>1, <1>1 DEF Good, HeadsOK
    <3>3. ASSUME NEW u \in S \ {t} PROVE l.next[u] \in S \ {t}
      <4>1. u \in R /\ pr[u] = q
        BY <3>1 DEF Members
      <4>2. l.next[u] \in R
        BY <4>1 DEF Good, LinksOK
      <4>3. CASE u = b
        <5>1. q = p /\ l.next[u] = h
          BY <4>1, <4>3, <2>2
        <5> QED BY <5>1, <3>2 DEF h
      <4>4. CASE u # b
        BY <4>1, <4>2, <4>4, <2>1, <1>1
      <4> QED BY <4>3, <4>4
    <3>4. S \ {t} = Members(R, pr, q)
      BY <3>1, <3>2, <3>3 DEF Good, CircleOK
    <3>5. CASE q = p
      <4>1. b \in S
        BY <3>4, <3>5, <2>2 DEF Members
      <4>2. t \in S
        BY <4>1, <2>1, <2>2, <1>1
      <4> QED BY <4>2, <3>4, <3>5 DEF Members
    <3>6. CASE q # p
      BY <3>4, <3>6 DEF Members
    <3> QED BY <3>5, <3>6
  <2> QED BY <2>3, <2>4, <2>5, <2>6, <2>7 DEF Good
<1> QED BY <1>2, <1>3

-----------------------------------------------------------------------------
\* Every non-empty set of naturals has a least element.
LEMMA LeastNatural ==
  ASSUME NEW S \in SUBSET Nat, S # {}
  PROVE  \E n \in S : \A m \in S : n <= m
<1>1. PICK n \in S : \A m \in S : ~ (<<m, n>> \in OpToRel(<, Nat))
  BY WFMin, NatLessThanWellFounded, Zenon
<1>2. \A m \in S : ~ (m < n)
  BY <1>1, Zenon DEF OpToRel
<1> QED BY <1>2

\* The fallback of highest_ready_priority is the next non-empty queue down.
LEMMA HighestBelowFound ==
  ASSUME NEW heads, NEW p \in Priority, p # 0, heads[0] # NoThread
  PROVE  /\ HighestBelow(heads, p) \in 0 .. p - 1
         /\ heads[HighestBelow(heads, p)] # NoThread
         /\ \A r \in 0 .. p - 1 : heads[r] # NoThread => r <= HighestBelow(heads, p)
<1> DEFINE below == {r \in 0 .. p - 1 : heads[r] # NoThread}
           D == {n \in Nat : p - n \in below}
<1>1. p \in Nat /\ p > 0
  BY PriorityAssumption DEF Priority
<1>2. 0 \in below /\ \A r \in below : r \in Nat /\ r < p
  BY <1>1
<1>3. p \in D
  BY <1>1, <1>2
<1>4. PICK n \in D : \A m \in D : n <= m
  <2>1. D \in SUBSET Nat /\ D # {}
    BY <1>3
  <2> HIDE DEF D
  <2> QED BY <2>1, LeastNatural
<1>5. p - n \in below /\ \A q \in below : q <= p - n
  <2>1. ASSUME NEW q \in below PROVE q <= p - n
    <3>1. p - q \in D
      BY <1>1, <1>2, <2>1
    <3>2. n <= p - q
      BY <1>4, <3>1
    <3> QED BY <3>2, <1>1, <1>2, <2>1
  <2> QED BY <2>1, <1>4
<1>6. HighestBelow(heads, p) = CHOOSE r \in below : \A q \in below : q <= r
  BY <1>2 DEF HighestBelow
<1> HIDE DEF below
<1>7. HighestBelow(heads, p) \in below /\ \A q \in below : q <= HighestBelow(heads, p)
  BY <1>5, <1>6
<1> QED BY <1>7 DEF below

\* A thread whose link leads to itself is the only one of its queue.
LEMMA SelfLinkAlone ==
  ASSUME NEW l, NEW R, NEW pr, Good(l, R, pr), NEW t \in R, l.next[t] = t
  PROVE  Members(R, pr, pr[t]) = {t} /\ l.heads[pr[t]] = t
<1> DEFINE p == pr[t]
           h == l.heads[p]
           Q == Members(R, pr, p)
<1>1. p \in Priority /\ h \in R /\ pr[h] = p /\ t \in Q /\ h \in Q
  BY IdleAssumption DEF Good, Typed, HeadsOK, ListType, Members
<1>2. \A u \in Q : l.next[u] \in Q
  BY DEF Good, LinksOK, Members
<1>3. \A u \in Q \ {t} : l.next[u] # t
  BY DEF Good, LinksOK, Members
<1>4. h = t
  <2> SUFFICES ASSUME h # t PROVE FALSE
    OBVIOUS
  <2>1. h \in Q \ {t} /\ \A u \in Q \ {t} : l.next[u] \in Q \ {t}
    BY <1>1, <1>2, <1>3
  <2>2. Q \ {t} = Q
    BY <2>1, <1>1 DEF Good, CircleOK
  <2> QED BY <2>2, <1>1
<1>5. {t} = Q
  <2>1. {t} \in SUBSET Q
    BY <1>1
  <2> QED BY <2>1, <1>1, <1>4 DEF Good, CircleOK
<1> QED BY <1>4, <1>5

\* park_thread takes a Ready thread other than the idle one out of its queue.
LEMMA ParkKeepsGood ==
  ASSUME NEW l, NEW R, NEW pr, Good(l, R, pr), NEW t \in R \ {IdleThread}
  PROVE  Good(ParkThread(l, t, pr[t]), R \ {t}, pr)
<1> DEFINE p == pr[t]
           h == l.heads[p]
           n == l.next[t]
           b == l.prev[t]
           m == ParkThread(l, t, p)
           Q == R \ {t}
<1>1. /\ p \in Priority /\ t \in Thread /\ NoThread \notin Thread
      /\ t # NoThread /\ R \subseteq Thread
      /\ l.heads \in [Priority -> Thread \cup {NoThread}]
      /\ l.next \in [Thread -> Thread \cup {NoThread}]
      /\ l.prev \in [Thread -> Thread \cup {NoThread}]
      /\ l.highest \in Priority
      /\ 0 \in Priority /\ Priority \subseteq Nat
  BY IdleAssumption, PriorityAssumption DEF Good, Typed, ListType, Priority
<1>2. /\ n \in R /\ pr[n] = p /\ l.prev[n] = t
      /\ b \in R /\ pr[b] = p /\ l.next[b] = t
      /\ h \in R /\ pr[h] = p
  BY <1>1 DEF Good, LinksOK, HeadsOK
<1>3. IdleThread \in Q /\ pr[IdleThread] = 0
  BY DEF Good, Typed
<1>4. ASSUME n = t PROVE Good(m, Q, pr)
  <2>1. Members(R, pr, p) = {t} /\ h = t
    BY <1>4, SelfLinkAlone
  <2>2. \A u \in Q : pr[u] # p
    BY <2>1 DEF Members
  <2> DEFINE heads == [l.heads EXCEPT ![p] = NoThread]
  <2>3. m = [heads |-> heads,
             next |-> [l.next EXCEPT ![t] = NoThread],
             prev |-> [l.prev EXCEPT ![t] = NoThread],
             highest |-> IF p = l.highest THEN HighestBelow(heads, p) ELSE l.highest]
    BY <1>4 DEF ParkThread
  <2>4. p # 0 /\ l.heads[0] # NoThread /\ heads[0] # NoThread
    BY <2>2, <1>1, <1>3 DEF Good, HeadsOK
  <2>5. /\ HighestBelow(heads, p) \in 0 .. p - 1
        /\ heads[HighestBelow(heads, p)] # NoThread
        /\ \A r \in 0 .. p - 1 : heads[r] # NoThread => r <= HighestBelow(heads, p)
    <3> HIDE DEF heads
    <3> QED BY <2>4, <1>1, HighestBelowFound
  <2>6. HighestBelow(heads, p) \in Priority
    BY <2>5, <1>1, PriorityAssumption DEF Priority
  <2> HIDE DEF m
  <2>7. Typed(m, Q, pr)
    BY <2>3, <2>6, <1>1, <1>3 DEF Good, Typed, ListType
  <2>8. LinksOK(m, Q, pr)
    <3>1. \A u \in Q : l.next[u] # t /\ l.prev[u] # t
      BY <1>1, <1>2, <1>4 DEF Good, LinksOK
    <3> QED BY <3>1, <2>3, <1>1 DEF Good, LinksOK
  <2>9. HeadsOK(m, Q, pr)
    BY <2>1, <2>2, <2>3, <1>1 DEF Good, HeadsOK
  <2>10. HighestOK(m, Q, pr)
    <3>1. CASE p # l.highest
      BY <3>1, <2>3 DEF Good, HighestOK
    <3>2. ASSUME p = l.highest PROVE HighestOK(m, Q, pr)
      <4> DEFINE g == HighestBelow(heads, p)
      <4>1. m.highest = g
        BY <3>2, <2>3
      <4>2. g \in Priority /\ g # p /\ heads[g] # NoThread /\ heads[g] = l.heads[g]
        BY <2>5, <2>6, <1>1
      <4>3. l.heads[g] \in Q /\ pr[l.heads[g]] = g
        BY <4>2, <1>1 DEF Good, HeadsOK
      <4>4. ASSUME NEW u \in Q PROVE pr[u] <= g
        <5>1. pr[u] \in Priority /\ pr[u] <= p /\ pr[u] # p
          BY <3>2, <2>2, <1>1 DEF Good, HighestOK, Typed
        <5>2. l.heads[pr[u]] # NoThread
          BY <5>1 DEF Good, HeadsOK
        <5>3. heads[pr[u]] # NoThread
          BY <5>1, <5>2, <1>1
        <5>4. pr[u] \in 0 .. p - 1
          <6>1. p \in Nat /\ pr[u] \in Nat
            BY <5>1, <1>1
          <6> HIDE DEF p
          <6> QED BY <6>1, <5>1
        <5> QED BY <5>3, <5>4, <2>5
      <4> QED BY <4>1, <4>3, <4>4 DEF HighestOK
    <3> QED BY <3>1, <3>2
  <2>11. CircleOK(m, Q, pr)
    <3> SUFFICES ASSUME NEW q \in Priority, NEW S \in SUBSET Members(Q, pr, q),
                        m.heads[q] \in S, \A u \in S : m.next[u] \in S
                 PROVE  S = Members(Q, pr, q)
      BY DEF CircleOK
    <3>1. S \subseteq Q /\ NoThread \notin S
      BY <1>1 DEF Members
    <3>2. q # p
      BY <3>1, <2>3, <1>1
    <3>3. Members(Q, pr, q) = Members(R, pr, q)
      BY <3>2 DEF Members
    <3>4. l.heads[q] \in S /\ \A u \in S : l.next[u] \in S
      BY <3>1, <3>2, <2>3, <1>1
    <3> QED BY <3>3, <3>4 DEF Good, CircleOK
  <2> QED BY <2>7, <2>8, <2>9, <2>10, <2>11 DEF Good
<1>5. ASSUME n # t PROVE Good(m, Q, pr)
  <2>1. /\ m.heads = [l.heads EXCEPT ![p] = IF h = t THEN n ELSE h]
        /\ m.highest = l.highest
        /\ m.next = [l.next EXCEPT ![t] = NoThread, ![b] = n]
        /\ m.prev = [l.prev EXCEPT ![t] = NoThread, ![n] = b]
        /\ m = [heads |-> m.heads, next |-> m.next, prev |-> m.prev, highest |-> m.highest]
    BY <1>1, <1>5 DEF ParkThread, Good, Typed, ListType
  <2>2. b # t /\ n \in Q /\ b \in Q
    BY <1>2, <1>5
  <2> HIDE DEF m, n, b, h
  <2>3. Typed(m, Q, pr)
    <3>1. m.next \in [Thread -> Thread \cup {NoThread}]
      BY <2>1, <2>2, <1>1
    <3>2. m.prev \in [Thread -> Thread \cup {NoThread}]
      BY <2>1, <2>2, <1>1
    <3>3. m.heads \in [Priority -> Thread \cup {NoThread}]
      BY <2>1, <2>2, <1>1, <1>2
    <3> QED BY <3>1, <3>2, <3>3, <2>1, <1>1, <1>3 DEF Good, Typed, ListType
  <2>4. LinksOK(m, Q, pr)
    <3>1. \A u \in Thread \ Q : m.next[u] = NoThread /\ m.prev[u] = NoThread
      BY <2>1, <2>2, <1>1 DEF Good, LinksOK
    <3>2. m.next[b] = n /\ m.prev[n] = b
      BY <2>1, <2>2, <1>1
    <3>3. ASSUME NEW u \in Q
          PROVE /\ m.next[u] \in Q /\ m.prev[m.next[u]] = u
                /\ pr[m.next[u]] = pr[u]
      <4>1. CASE u = b
        BY <4>1, <3>2, <2>2, <1>2
      <4>2. CASE u # b
        <5>1. m.next[u] = l.next[u] /\ l.next[u] \in R /\ l.prev[l.next[u]] = u
              /\ pr[l.next[u]] = pr[u]
          BY <4>2, <2>1, <2>2, <1>1 DEF Good, LinksOK
        <5>2. l.next[u] # t /\ l.next[u] # n
          BY <5>1, <4>2, <1>2 DEF b
        <5> QED BY <5>1, <5>2, <2>1, <2>2, <1>1
      <4> QED BY <4>1, <4>2
    <3>4. ASSUME NEW u \in Q
          PROVE /\ m.prev[u] \in Q /\ m.next[m.prev[u]] = u
                /\ pr[m.prev[u]] = pr[u]
      <4>1. CASE u = n
        BY <4>1, <3>2, <2>2, <1>2
      <4>2. CASE u # n
        <5>1. m.prev[u] = l.prev[u] /\ l.prev[u] \in R /\ l.next[l.prev[u]] = u
              /\ pr[l.prev[u]] = pr[u]
          BY <4>2, <2>1, <2>2, <1>1 DEF Good, LinksOK
        <5>2. l.prev[u] # t /\ l.prev[u] # b
          BY <5>1, <4>2, <1>2 DEF n
        <5> QED BY <5>1, <5>2, <2>1, <2>2, <1>1
      <4> QED BY <4>1, <4>2
    <3> QED BY <3>1, <3>3, <3>4 DEF LinksOK
  <2>5. HeadsOK(m, Q, pr)
    BY <2>1, <2>2, <1>1, <1>2 DEF Good, HeadsOK
  <2>6. HighestOK(m, Q, pr)
    BY <2>1, <2>2, <1>2 DEF Good, HighestOK
  <2>7. CircleOK(m, Q, pr)
    <3> SUFFICES ASSUME NEW q \in Priority, NEW S \in SUBSET Members(Q, pr, q),
                        m.heads[q] \in S, \A u \in S : m.next[u] \in S
                 PROVE  S = Members(Q, pr, q)
      BY DEF CircleOK
    <3>0. S \subseteq Q /\ S \subseteq Members(R, pr, q) /\ t \notin S
      BY DEF Members
    <3>1. CASE q # p
      <4>1. Members(Q, pr, q) = Members(R, pr, q) /\ b \notin S
        BY <3>0, <3>1, <1>2 DEF Members
      <4>2. l.heads[q] \in S /\ \A u \in S : l.next[u] \in S
        BY <4>1, <3>0, <3>1, <2>1, <1>1
      <4> QED BY <4>1, <4>2, <3>0 DEF Good, CircleOK
    <3>2. CASE q = p
      <4>1. \A u \in S \ {b} : l.next[u] \in S
        BY <3>0, <2>1, <1>1
      <4>2. n \in S
        <5>1. CASE h = t
          BY <5>1, <3>2, <2>1, <1>1
        <5>2. CASE b \in S
          BY <5>2, <2>1, <2>2, <1>1
        <5>3. CASE h # t /\ b \notin S
          <6>1. l.heads[q] \in S
            BY <5>3, <3>2, <2>1, <1>1 DEF h
          <6>2. S = Members(R, pr, q)
            BY <6>1, <5>3, <4>1, <3>0 DEF Good, CircleOK
          <6> QED BY <6>2, <3>0, <3>2 DEF Members
        <5> QED BY <5>1, <5>2, <5>3
      <4>3. S \cup {t} \in SUBSET Members(R, pr, q)
        BY <3>0, <3>2 DEF Members
      <4>4. l.heads[q] \in S \cup {t}
        BY <3>2, <2>1, <1>1 DEF h
      <4>5. \A u \in S \cup {t} : l.next[u] \in S \cup {t}
        BY <4>1, <4>2, <1>2 DEF n
      <4>6. S \cup {t} = Members(R, pr, q)
        BY <4>3, <4>4, <4>5 DEF Good, CircleOK
      <4> QED BY <4>6, <3>0 DEF Members
    <3> QED BY <3>1, <3>2
  <2> QED BY <2>3, <2>4, <2>5, <2>6, <2>7 DEF Good
<1> QED BY <1>4, <1>5

-----------------------------------------------------------------------------
\* yield_thread turns a circle by one thread.
LEMMA YieldKeepsGood ==
  ASSUME NEW l, NEW R, NEW pr, Good(l, R, pr), NEW t \in Thread
  PROVE  Good(YieldThread(l, t, pr[t]), R, pr)
<1> DEFINE p == pr[t]
           m == YieldThread(l, t, p)
<1>1. CASE l.heads[p] # t
  BY <1>1 DEF YieldThread
<1>2. ASSUME l.heads[p] = t PROVE Good(m, R, pr)
  <2>1. /\ p \in Priority /\ t # NoThread
        /\ l.heads \in [Priority -> Thread \cup {NoThread}]
    BY IdleAssumption DEF Good, Typed, ListType
  <2>2. t \in R /\ l.next[t] \in R /\ pr[l.next[t]] = p /\ l.prev[t] \in R
        /\ l.next[l.prev[t]] = t /\ pr[l.prev[t]] = p
    BY <1>2, <2>1 DEF Good, HeadsOK, LinksOK
  <2>3. /\ m.heads = [l.heads EXCEPT ![p] = l.next[t]]
        /\ m.next = l.next /\ m.prev = l.prev /\ m.highest = l.highest
        /\ m = [heads |-> m.heads, next |-> m.next, prev |-> m.prev, highest |-> m.highest]
    BY <1>2, <2>1 DEF YieldThread, Good, Typed, ListType
  <2> HIDE DEF m
  <2>4. Typed(m, R, pr)
    BY <2>1, <2>2, <2>3 DEF Good, Typed, ListType
  <2>5. LinksOK(m, R, pr) /\ HighestOK(m, R, pr)
    BY <2>3 DEF Good, LinksOK, HighestOK
  <2>6. HeadsOK(m, R, pr)
    <3>1. l.next[t] # NoThread
      BY <2>2, IdleAssumption DEF Good, Typed
    <3> QED BY <3>1, <2>1, <2>2, <2>3 DEF Good, HeadsOK
  <2>7. CircleOK(m, R, pr)
    <3> SUFFICES ASSUME NEW q \in Priority, NEW S \in SUBSET Members(R, pr, q),
                        m.heads[q] \in S, \A u \in S : m.next[u] \in S
                 PROVE  S = Members(R, pr, q)
      BY DEF CircleOK
    <3>1. CASE q # p
      BY <3>1, <2>1, <2>3 DEF Good, CircleOK
    <3>2. CASE q = p
      <4>1. l.next[t] \in S /\ \A u \in S : l.next[u] \in S
        BY <3>2, <2>1, <2>3
      <4>2. S \cup {t} \in SUBSET Members(R, pr, q)
        BY <3>2, <2>2 DEF Members
      <4>3. S \cup {t} = Members(R, pr, q)
        <5>1. l.heads[q] \in S \cup {t} /\ \A u \in S \cup {t} : l.next[u] \in S \cup {t}
          BY <4>1, <3>2, <1>2
        <5> QED BY <5>1, <4>2 DEF Good, CircleOK
      <4>4. l.prev[t] \in S \cup {t}
        BY <4>3, <3>2, <2>2 DEF Members
      <4>5. t \in S
        BY <4>1, <4>4, <2>2
      <4> QED BY <4>3, <4>5
    <3> QED BY <3>1, <3>2
  <2> QED BY <2>4, <2>5, <2>6, <2>7 DEF Good
<1> QED BY <1>1, <1>2

\* The priority of a thread that is not Ready does not matter to the lists.
LEMMA ReprioritizeKeepsGood ==
  ASSUME NEW l, NEW R, NEW pr, Good(l, R, pr),
         NEW t \in Thread \ R, NEW p \in Priority
  PROVE  Good(l, R, [pr EXCEPT ![t] = p])
<1> DEFINE pq == [pr EXCEPT ![t] = p]
<1>1. pq \in [Thread -> Priority] /\ \A u \in R : pq[u] = pr[u]
  BY DEF Good, Typed
<1> HIDE DEF pq
<1>2. \A q \in Priority : Members(R, pq, q) = Members(R, pr, q)
  BY <1>1 DEF Members
<1>3. Typed(l, R, pq) /\ LinksOK(l, R, pq) /\ HighestOK(l, R, pq)
  BY <1>1 DEF Good, Typed, LinksOK, HighestOK
<1>4. HeadsOK(l, R, pq)
  BY <1>1 DEF Good, HeadsOK
<1>5. CircleOK(l, R, pq)
  BY <1>2 DEF Good, CircleOK
<1> QED BY <1>3, <1>4, <1>5 DEF Good, pq

\* set_thread_priority on a Ready thread.
LEMMA ChangeKeepsGood ==
  ASSUME NEW l, NEW R, NEW pr, Good(l, R, pr),
         NEW t \in R \ {IdleThread}, NEW p \in Priority
  PROVE  Good(ChangePriority(l, t, pr[t], p), R, [pr EXCEPT ![t] = p])
<1> DEFINE pq == [pr EXCEPT ![t] = p]
           k == ParkThread(l, t, pr[t])
<1>1. t \in Thread /\ pr \in [Thread -> Priority] /\ pq[t] = p
  BY DEF Good, Typed
<1>2. CASE pr[t] = p
  <2>1. pq = pr
    BY <1>1, <1>2
  <2> QED BY <2>1, <1>2 DEF ChangePriority
<1>3. CASE pr[t] # p
  <2>1. Good(k, R \ {t}, pr)
    BY ParkKeepsGood
  <2> HIDE DEF k
  <2>2. Good(k, R \ {t}, pq)
    BY <2>1, <1>1, ReprioritizeKeepsGood
  <2>3. t \in Thread \ (R \ {t})
    BY <1>1
  <2> HIDE DEF pq
  <2>4. Good(ReadyThread(k, t, pq[t]), (R \ {t}) \cup {t}, pq)
    BY <2>2, <2>3, ReadyKeepsGood
  <2>5. (R \ {t}) \cup {t} = R
    OBVIOUS
  <2> QED BY <2>4, <2>5, <1>1, <1>3 DEF ChangePriority, k, pq
<1> QED BY <1>2, <1>3

\* The head of the highest queue is a Ready thread.
LEMMA ChoiceIsThread ==
  ASSUME NEW l, NEW R, NEW pr, Good(l, R, pr)
  PROVE  l.heads[l.highest] \in Thread
BY DEF Good, Typed, ListType, HeadsOK, HighestOK

-----------------------------------------------------------------------------
IInv == Good(Lists, ready, priority) /\ running \in Thread

\* SchedulerState::new: every list is empty and no thread is linked.
LEMMA InitIInv ==
  ASSUME Init
  PROVE  IInv
<1> DEFINE l == Lists
<1>0. 0 \in Priority /\ AppDefault \in Priority /\ AppDefault # 0
  BY PriorityAssumption DEF Priority
<1>1. /\ l.heads = [p \in Priority |-> IF p = 0 THEN IdleThread ELSE NoThread]
      /\ l.next = [t \in Thread |-> IF t = IdleThread THEN t ELSE NoThread]
      /\ l.prev = [t \in Thread |-> IF t = IdleThread THEN t ELSE NoThread]
      /\ l.highest = 0
      /\ l = [heads |-> l.heads, next |-> l.next, prev |-> l.prev, highest |-> l.highest]
  BY DEF Init, Lists
<1>2. /\ ready = {IdleThread}
      /\ priority = [t \in Thread |-> IF t = IdleThread THEN 0 ELSE AppDefault]
      /\ running = IdleThread
  BY DEF Init
<1> HIDE DEF l
<1>3. Typed(l, ready, priority)
  BY <1>0, <1>1, <1>2, IdleAssumption DEF Typed, ListType
<1>4. LinksOK(l, ready, priority) /\ HeadsOK(l, ready, priority)
  BY <1>0, <1>1, <1>2, IdleAssumption DEF LinksOK, HeadsOK
<1>5. HighestOK(l, ready, priority)
  BY <1>0, <1>1, <1>2, IdleAssumption DEF HighestOK
<1>6. CircleOK(l, ready, priority)
  BY <1>0, <1>1, <1>2, IdleAssumption DEF CircleOK, Members
<1> QED BY <1>2, <1>3, <1>4, <1>5, <1>6, IdleAssumption DEF IInv, Good, l

\* After SetLists(l) the lists are l.
LEMMA ListsAfter ==
  ASSUME NEW l \in ListType, SetLists(l)
  PROVE  Lists' = l
BY DEF SetLists, Lists, ListType

\* Every ready_thread and unready_thread keeps the circles apart and whole.
LEMMA NextIInv ==
  ASSUME IInv, [Next]_vars
  PROVE  IInv'
<1>0. Good(Lists, ready, priority) /\ running \in Thread /\ ready \subseteq Thread
      /\ priority \in [Thread -> Priority] /\ AppDefault \in Priority
  BY PriorityAssumption DEF IInv, Good, Typed, Priority
<1>g. ASSUME NEW l, SetLists(l), Good(l, ready', priority'), running' \in Thread
      PROVE  IInv'
  <2>1. Lists' = l
    BY <1>g, ListsAfter DEF Good, Typed
  <2> QED BY <2>1, <1>g DEF IInv
<1>h. ASSUME UNCHANGED lists, Good(Lists, ready', priority'), running' \in Thread
      PROVE  IInv'
  <2>1. SetLists(Lists)
    BY <1>h DEF SetLists, Lists, lists
  <2> QED BY <2>1, <1>h, <1>g
<1>1. ASSUME NEW t \in Thread, SetReady(t) PROVE IInv'
  BY <1>0, <1>1, <1>g, ReadyKeepsGood DEF SetReady
<1>2. ASSUME NEW t \in Thread, SetNotReady(t) PROVE IInv'
  BY <1>0, <1>2, <1>g, ParkKeepsGood DEF SetNotReady
<1>3. ASSUME NEW t \in Thread, NewProcess(t) PROVE IInv'
  <2>1. Good(Lists, ready, priority') /\ priority'[t] = AppDefault
    BY <1>0, <1>3, ReprioritizeKeepsGood DEF NewProcess
  <2>2. Good(ReadyThread(Lists, t, priority'[t]), ready \cup {t}, priority')
    BY <2>1, <1>3, ReadyKeepsGood DEF NewProcess
  <2> QED BY <1>0, <2>1, <2>2, <1>3, <1>g DEF NewProcess
<1>4. ASSUME NEW t \in Thread, CreateThread(t) PROVE IInv'
  <2> DEFINE l == ReadyThread(Lists, t, priority[t])
  <2>1. Good(l, ready \cup {t}, priority) /\ priority[running] \in Priority
    BY <1>0, <1>4, ReadyKeepsGood DEF CreateThread
  <2>2. t \in (ready \cup {t}) \ {IdleThread}
    BY <1>0, <1>4 DEF CreateThread, Good, Typed
  <2>3. /\ SetLists(ChangePriority(l, t, priority[t], priority[running]))
        /\ ready' = ready \cup {t} /\ running' = running
        /\ priority' = [priority EXCEPT ![t] = priority[running]]
    BY <1>4 DEF CreateThread
  <2> HIDE DEF l
  <2>4. Good(ChangePriority(l, t, priority[t], priority[running]),
             ready \cup {t}, [priority EXCEPT ![t] = priority[running]])
    BY <2>1, <2>2, ChangeKeepsGood
  <2> QED BY <1>0, <2>3, <2>4, <1>g
<1>5. ASSUME NEW p \in Priority, SetThreadPriority(p) PROVE IInv'
  <2> DEFINE l == ChangePriority(Lists, running, priority[running], p)
  <2>1. Good(l, ready, [priority EXCEPT ![running] = p])
    BY <1>0, <1>5, ChangeKeepsGood DEF SetThreadPriority
  <2>2. /\ SetLists(l) /\ running' = l.heads[l.highest] /\ ready' = ready
        /\ priority' = [priority EXCEPT ![running] = p]
    BY <1>5 DEF SetThreadPriority
  <2> HIDE DEF l
  <2> QED BY <2>1, <2>2, <1>g, ChoiceIsThread
<1>6. ASSUME ActivateCurrent PROVE IInv'
  <2>1. queue_heads[highest_ready_priority] \in Thread
    BY <1>0, ChoiceIsThread DEF Lists
  <2> QED BY <1>0, <2>1, <1>6, <1>h DEF ActivateCurrent
<1>7. ASSUME Yield PROVE IInv'
  <2> DEFINE l == YieldThread(Lists, running, priority[running])
  <2>1. Good(l, ready, priority)
    BY <1>0, YieldKeepsGood
  <2>2. /\ SetLists(l) /\ running' = l.heads[l.highest] /\ UNCHANGED <<ready, priority>>
    BY <1>7 DEF Yield
  <2> HIDE DEF l
  <2> QED BY <2>1, <2>2, <1>g, ChoiceIsThread
<1>8. CASE UNCHANGED vars
  BY <1>0, <1>8, <1>h DEF vars, lists
<1> QED BY <1>1, <1>2, <1>3, <1>4, <1>5, <1>6, <1>7, <1>8 DEF Next

\* What the invariant says in terms of the variables.
LEMMA IInvImplies ==
  ASSUME IInv
  PROVE  TypeOK /\ LinksSound /\ HighestExact /\ OneCircle
<1> DEFINE l == Lists
<1>1. /\ l.heads = queue_heads /\ l.next = next /\ l.prev = prev
      /\ l.highest = highest_ready_priority
  BY DEF Lists
<1> HIDE DEF l
<1>2. Good(l, ready, priority) /\ running \in Thread
  BY DEF IInv, l
<1>3. TypeOK
  BY <1>1, <1>2 DEF TypeOK, Good, Typed, ListType
<1>4. LinksSound
  BY <1>1, <1>2 DEF LinksSound, Good, LinksOK, HeadsOK
<1>5. HighestExact
  BY <1>1, <1>2 DEF HighestExact, Good, HighestOK
<1>6. OneCircle
  BY <1>1, <1>2 DEF OneCircle, ReadyAt, Good, CircleOK, Members
<1> QED BY <1>3, <1>4, <1>5, <1>6

-----------------------------------------------------------------------------
\* For any number of threads and priorities: none of the expects of the list
\* surgery in scheduler.rs panics, and activate_current always has a thread.
THEOREM QueuesSound == Spec => [](TypeOK /\ LinksSound)
<1>1. Init => IInv
  BY InitIInv
<1>2. IInv /\ [Next]_vars => IInv'
  BY NextIInv
<1>3. IInv => TypeOK /\ LinksSound
  BY IInvImplies
<1> QED BY <1>1, <1>2, <1>3, PTL DEF Spec

\* highest_ready_priority never lags behind the queues.
THEOREM HighestIsExact == Spec => []HighestExact
<1>1. Init => IInv
  BY InitIInv
<1>2. IInv /\ [Next]_vars => IInv'
  BY NextIInv
<1>3. IInv => HighestExact
  BY IInvImplies
<1> QED BY <1>1, <1>2, <1>3, PTL DEF Spec

\* No Ready thread is linked where the walk from its queue's head cannot meet
\* it.
THEOREM EveryReadyThreadQueued == Spec => []OneCircle
<1>1. Init => IInv
  BY InitIInv
<1>2. IInv /\ [Next]_vars => IInv'
  BY NextIInv
<1>3. IInv => OneCircle
  BY IInvImplies
<1> QED BY <1>1, <1>2, <1>3, PTL DEF Spec
=============================================================================
