----------------------------- MODULE Permissions -----------------------------
(***************************************************************************)
(* The messages a connection may carry (MessagePermissions in              *)
(* xous/kernel/src/server.rs): a bit mask for the small message numbers    *)
(* and a short list of ranges for the others, into which add merges.       *)
(***************************************************************************)
EXTENDS Integers

CONSTANTS
  MaskBits,    \* message numbers kept in the mask: 64 in the code
  ListLen,     \* ranges in the list: MESSAGE_PERMISSION_COUNT
  MaxId        \* message numbers are 0 .. MaxId

ASSUME MaskAssumption == MaskBits \in Nat
ASSUME ListAssumption == ListLen \in Nat
ASSUME MaxAssumption == MaxId \in Nat

VARIABLES
  allow_all,   \* nothing was configured yet: every message is allowed
  mask,        \* the set bits of the mask
  list,        \* the ranges, [start, end)
  granted      \* every number some call of add granted (history)

permVars == <<allow_all, mask, list, granted>>

Ids == 0 .. MaxId
Range == [start : 0 .. MaxId + 1, end : 0 .. MaxId + 1]

Members(r) == {id \in Ids : r.start <= id /\ id < r.end}
IsEmpty(r) == r.start >= r.end

PermInit ==
  /\ allow_all = TRUE
  /\ mask = {}
  /\ list = [k \in 1 .. ListLen |-> [start |-> 0, end |-> 0]]
  /\ granted = {}

\* The numbers of r that have a bit in the mask.
Low(r) == {id \in Members(r) : id < MaskBits}

\* Faulty variant: ranges with a gap of one between them count as contiguous.
NearTouch(slot, r) == slot.start <= r.end + 1 /\ r.start <= slot.end + 1

Contiguous(slot, r) == slot.start <= r.end /\ r.start <= slot.end

MinOf(a, b) == IF a <= b THEN a ELSE b
MaxOf(a, b) == IF a >= b THEN a ELSE b

Merge(slot, r) ==
  IF Contiguous(slot, r)
  THEN [start |-> MinOf(slot.start, r.start), end |-> MaxOf(slot.end, r.end)]
  ELSE r

\* The slots of the list that can take r; the first of them does.
Usable(r) == {k \in 1 .. ListLen : Contiguous(list[k], r) \/ IsEmpty(list[k])}

IsFirst(k, S) == k \in S /\ \A j \in S : k <= j

\* add, for a range that fits the mask.
AddToMask(r) ==
  /\ ~IsEmpty(r) /\ r.end <= MaskBits
  /\ allow_all' = FALSE
  /\ mask' = mask \cup Low(r)
  /\ granted' = granted \cup Members(r)
  /\ UNCHANGED list

\* add, for a range that reaches beyond it.
AddToList(r) ==
  /\ ~IsEmpty(r) /\ r.end > MaskBits
  /\ allow_all' = FALSE
  /\ mask' = mask \cup Low(r)
  /\ \E k \in 1 .. ListLen :
       /\ IsFirst(k, Usable(r))
       /\ list' = [list EXCEPT ![k] = Merge(@, r)]
  /\ granted' = granted \cup Members(r)

\* add returns OutOfMemory, with the mask already changed.
AddRefused(r) ==
  /\ ~IsEmpty(r) /\ r.end > MaskBits
  /\ Usable(r) = {}
  /\ allow_all' = FALSE
  /\ mask' = mask \cup Low(r)
  /\ granted' = granted \cup Low(r)
  /\ UNCHANGED list

PermNext == \E r \in Range : AddToMask(r) \/ AddToList(r) \/ AddRefused(r)

PermSpec == PermInit /\ [][PermNext]_permVars

-----------------------------------------------------------------------------
IsPermitted(id) ==
  \/ allow_all
  \/ IF id < MaskBits THEN id \in mask
     ELSE \E k \in 1 .. ListLen : id \in Members(list[k])

\* The types of the fields of MessagePermissions.
PermTypeOK ==
  /\ allow_all \in BOOLEAN
  /\ mask \subseteq Ids
  /\ list \in [1 .. ListLen -> Range]
  /\ granted \subseteq Ids

\* Once permissions are configured, is_permitted lets through exactly the
\* messages that add granted: merging ranges never lets in a stranger, nor
\* loses a number granted before.
PermittedIsGranted ==
  ~allow_all => \A id \in Ids : IsPermitted(id) <=> id \in granted
=============================================================================
