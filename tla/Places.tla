------------------------------- MODULE Places ------------------------------
(* The k-th of a set of places in a sequence, and the entries at them. *)
EXTENDS Integers, Sequences, FiniteSets

UpTo(places, i) == {j \in places : j <= i}

Place(places, k) == CHOOSE i \in places : Cardinality(UpTo(places, i)) = k

\* filter(): the entries of a sequence at some of its places, in their order.
Entries(seq, places) ==
  [k \in 1..Cardinality(places) |-> seq[Place(places, k)]]
=============================================================================
