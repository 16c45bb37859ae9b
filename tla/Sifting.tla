------------------------------ MODULE Sifting ------------------------------
(***************************************************************************)
(* [x for x in seq if ...] of a sequence, as the code filters the events of *)
(* a log and the edges of a graph: what stands at some of its places, in    *)
(* their order.                                                            *)
(***************************************************************************)
EXTENDS Naturals, Sequences, FiniteSets

(* How many of the places have been passed at place i.                      *)
Passed(places, i) == Cardinality({j \in places : j <= i})

Sift(seq, places) ==
  [k \in 1 .. Cardinality(places) |-> seq[CHOOSE i \in places : Passed(places, i) = k]]
=============================================================================
