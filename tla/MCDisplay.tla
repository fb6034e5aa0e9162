------------------------------ MODULE MCDisplay ------------------------------
(***************************************************************************)
(* Small instances of Display.  Process p1 has two threads that use the    *)
(* display, p2 and p3 have one each.                                       *)
(***************************************************************************)
EXTENDS Display

CONSTANTS p1, p2, p3

MCThread == {<<p1, 1>>, <<p1, 2>>, <<p2, 1>>, <<p3, 1>>}

\* Four threads queue for the display; those of p2 and p3 come and go.
Queue == [alive |-> {p1, p2, p3}, mortal |-> {p2, p3}, cursors |-> {0, 1}, chars |-> 0]

\* Two processes pass display and keyboard to each other while somebody types.
Typing == [alive |-> {p2, p3}, mortal |-> {}, cursors |-> {0}, chars |-> 3]

MCBoots == {Queue, Typing}

\* A process with two threads that use the display exits.
ExitBoots == {[alive |-> {p1, p2}, mortal |-> {p1}, cursors |-> {0}, chars |-> 0]}

\* A process exits that took the keyboard and gave the display back.
FocusBoots == {[alive |-> {p2}, mortal |-> {p2}, cursors |-> {0}, chars |-> 1]}

DisplayFairSpec == DisplaySpec /\ DisplayFairness
=============================================================================
