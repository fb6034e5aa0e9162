---------------------------- MODULE MCServerQueue ----------------------------
(***************************************************************************)
(* Small instances of ServerQueue: c1 and c2 are threads 1 and 2 of one    *)
(* process, c3 is thread 1 of another.                                     *)
(***************************************************************************)
EXTENDS ServerQueue, TLC

CONSTANTS c1, c2, c3, p1, p2, b1, b2

MCOwnerOf == [c \in Client |-> IF c = c3 THEN p2 ELSE p1]
MCTidOf == [c \in Client |-> IF c = c2 THEN 2 ELSE 1]

BufferSymmetry == Permutations(Payload)
=============================================================================
