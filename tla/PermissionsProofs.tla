-------------------------- MODULE PermissionsProofs --------------------------
(***************************************************************************)
(* is_permitted is exact for every size of the mask and of the list.       *)
(***************************************************************************)
EXTENDS Permissions, TLAPS

\* What the representation grants, whatever allow_all says.
Represented(id) ==
  IF id < MaskBits THEN id \in mask
  ELSE \E k \in 1 .. ListLen : id \in Members(list[k])

\* The strengthening: the representation is exact from the start, and no range
\* runs backwards.
PermInv ==
  /\ PermTypeOK
  /\ \A k \in 1 .. ListLen : list[k].start <= list[k].end
  /\ \A id \in Ids : Represented(id) <=> id \in granted

\* A slot that can take a range covers, afterwards, what it covered and the range.
LEMMA MergeIsUnion ==
  ASSUME NEW slot \in Range, NEW r \in Range,
         slot.start <= slot.end, ~IsEmpty(r),
         Contiguous(slot, r) \/ IsEmpty(slot)
  PROVE  /\ Merge(slot, r) \in Range
         /\ Merge(slot, r).start <= Merge(slot, r).end
         /\ Members(Merge(slot, r)) = Members(slot) \cup Members(r)
<1> USE MaxAssumption
<1>1. CASE Contiguous(slot, r)
  BY <1>1 DEF Merge, Contiguous, IsEmpty, Members, MinOf, MaxOf, Range, Ids
<1>2. CASE ~Contiguous(slot, r)
  <2>1. Members(slot) = {}
    BY <1>2 DEF IsEmpty, Members, Range, Ids
  <2>2. Merge(slot, r) = r
    BY <1>2 DEF Merge
  <2> QED BY <2>1, <2>2 DEF IsEmpty, Range
<1> QED BY <1>1, <1>2

\* Nothing is granted at first, and nothing is represented.
LEMMA PermInitInv == PermInit => PermInv
<1> USE MaxAssumption, ListAssumption, MaskAssumption
<1> QED BY DEF PermInit, PermInv, PermTypeOK, Represented, Range, Members, Ids

\* Each outcome of add keeps the representation exact.
LEMMA PermNextInv == PermInv /\ [PermNext]_permVars => PermInv'
<1> USE MaxAssumption, ListAssumption, MaskAssumption
<1> SUFFICES ASSUME PermInv, [PermNext]_permVars PROVE PermInv'
  OBVIOUS
<1>0. \A r \in Range : Low(r) \subseteq Ids /\ Members(r) \subseteq Ids
  BY DEF Low, Members
<1>1. ASSUME NEW r \in Range, AddToMask(r) PROVE PermInv'
  <2>1. PermTypeOK'
    BY <1>0, <1>1 DEF AddToMask, PermInv, PermTypeOK
  <2>2. ASSUME NEW id \in Ids PROVE Represented(id)' <=> id \in granted'
    <3>1. Represented(id) <=> id \in granted
      BY DEF PermInv
    <3>2. CASE id < MaskBits
      BY <1>1, <3>1, <3>2 DEF AddToMask, Represented, Low
    <3>3. CASE ~(id < MaskBits)
      <4>1. id \notin Members(r)
        BY <1>1, <3>3 DEF AddToMask, Members, Range, Ids
      <4> QED BY <1>1, <3>1, <3>3, <4>1 DEF AddToMask, Represented
    <3> QED BY <3>2, <3>3
  <2> QED BY <1>1, <2>1, <2>2 DEF AddToMask, PermInv
<1>2. ASSUME NEW r \in Range, AddToList(r) PROVE PermInv'
  <2>1. PICK k \in 1 .. ListLen : /\ IsFirst(k, Usable(r))
                                  /\ list' = [list EXCEPT ![k] = Merge(@, r)]
    BY <1>2 DEF AddToList
  <2>2. Contiguous(list[k], r) \/ IsEmpty(list[k])
    BY <2>1 DEF IsFirst, Usable
  <2>3. list[k] \in Range /\ list[k].start <= list[k].end
    BY DEF PermInv, PermTypeOK
  <2> DEFINE new == Merge(list[k], r)
  <2>4. /\ new \in Range /\ new.start <= new.end
        /\ Members(new) = Members(list[k]) \cup Members(r)
    BY <1>2, <2>2, <2>3, MergeIsUnion DEF AddToList
  <2>5. list' = [list EXCEPT ![k] = new]
    BY <2>1
  <2> HIDE DEF new
  <2>6. list' \in [1 .. ListLen -> Range]
    BY <2>4, <2>5 DEF PermInv, PermTypeOK
  <2>7. PermTypeOK'
    BY <1>0, <1>2, <2>6 DEF AddToList, PermInv, PermTypeOK
  <2>8. \A j \in 1 .. ListLen : list'[j] = IF j = k THEN new ELSE list[j]
    BY <2>5 DEF PermInv, PermTypeOK
  <2>9. \A j \in 1 .. ListLen : list'[j].start <= list'[j].end
    BY <2>4, <2>8 DEF PermInv
  <2>10. ASSUME NEW id \in Ids PROVE Represented(id)' <=> id \in granted'
    <3>1. Represented(id) <=> id \in granted
      BY DEF PermInv
    <3>2. CASE id < MaskBits
      BY <1>2, <3>1, <3>2 DEF AddToList, Represented, Low
    <3>3. CASE ~(id < MaskBits)
      <4>1. Represented(id) <=> \E j \in 1 .. ListLen : id \in Members(list[j])
        BY <3>3 DEF Represented
      <4>2. Represented(id)' <=> \E j \in 1 .. ListLen : id \in Members(list'[j])
        BY <3>3 DEF Represented, Members
      <4>3. (\E j \in 1 .. ListLen : id \in Members(list'[j]))
              <=> id \in Members(r) \/ \E j \in 1 .. ListLen : id \in Members(list[j])
        <5> HIDE DEF PermInv
        <5> QED BY <2>4, <2>8
      <4> QED BY <1>2, <3>1, <4>1, <4>2, <4>3 DEF AddToList
    <3> QED BY <3>2, <3>3
  <2> QED BY <2>7, <2>9, <2>10 DEF PermInv
<1>3. ASSUME NEW r \in Range, AddRefused(r) PROVE PermInv'
  <2>1. PermTypeOK'
    BY <1>0, <1>3 DEF AddRefused, PermInv, PermTypeOK
  <2>2. ASSUME NEW id \in Ids PROVE Represented(id)' <=> id \in granted'
    <3>1. Represented(id) <=> id \in granted
      BY DEF PermInv
    <3>2. CASE id < MaskBits
      BY <1>3, <3>1, <3>2 DEF AddRefused, Represented
    <3>3. CASE ~(id < MaskBits)
      BY <1>3, <3>1, <3>3 DEF AddRefused, Represented, Low
    <3> QED BY <3>2, <3>3
  <2> QED BY <1>3, <2>1, <2>2 DEF AddRefused, PermInv
<1>4. CASE UNCHANGED permVars
  BY <1>4 DEF permVars, PermInv, PermTypeOK, Represented, Members
<1> QED BY <1>1, <1>2, <1>3, <1>4 DEF PermNext

\* MessagePermissions::is_permitted agrees with the calls of add that came
\* before it, for any number of mask bits and list slots.
THEOREM PermissionsExact == PermSpec => []PermittedIsGranted
<1>1. PermInv => PermittedIsGranted
  BY DEF PermInv, PermittedIsGranted, IsPermitted, Represented
<1> QED BY PermInitInv, PermNextInv, <1>1, PTL DEF PermSpec
=============================================================================
