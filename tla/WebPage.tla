------------------------------ MODULE WebPage ------------------------------
(* What the components of the project page have in common. *)
EXTENDS Integers, Sequences, FiniteSets, SequencesExt

CONSTANT Panes        \* the chat windows of the workspace

\* list.filter((x) => keep.has(x)).  (SelectSeq is recursive; this is the same list
\* by the places of its elements.)
Filtered(list, keep) ==
    LET places == {i \in DOMAIN list : list[i] \in keep}
        Place(n) == CHOOSE i \in places : Cardinality({j \in places : j <= i}) = n
    IN  [n \in 1..Cardinality(places) |-> list[Place(n)]]

\* A list of the recently used: x first, once, the oldest beyond max dropped.
UsedLast(list, x, max) ==
    LET all == <<x>> \o Filtered(list, ToSet(list) \ {x})
    IN  SubSeq(all, 1, IF Len(all) < max THEN Len(all) ELSE max)
=============================================================================
