----------------------------- MODULE HeapLists -----------------------------
(* Linked lists in a heap: nx is the next field of every cell, and a pointer *)
(* that is no cell, such as NULL, ends a list.                               *)

\* S has the successor of each of its cells.
ClosedUnder(nx, S) == \A c \in S : nx[c] \in DOMAIN nx => nx[c] \in S

\* The cells a walk from h visits: the smallest set with h and all successors.
Reachable(nx, h) ==
    LET closed == {S \in SUBSET DOMAIN nx : (h \in DOMAIN nx => h \in S) /\ ClosedUnder(nx, S)}
    IN  {c \in DOMAIN nx : \A S \in closed : c \in S}

\* No walk from h visits a cell twice.
Acyclic(nx, h) == \A c \in Reachable(nx, h) : c \notin Reachable(nx, nx[c])
=============================================================================
