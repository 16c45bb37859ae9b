---------------------- MODULE MCFunctionGraphCache ----------------------
(* A small instance of FunctionGraphCache: two functions call each other and
   themselves, in either order, and a request keeps one edge or the resolved
   calls among the first two. *)
EXTENDS FunctionGraphCache, TLC

CONSTANTS f1, f2

EitherOrder == {[calls |-> <<f1, f2>>, others |-> 1], [calls |-> <<f2, f1>>, others |-> 1]}

OneOrResolved == {[external |-> TRUE, limit |-> 1], [external |-> FALSE, limit |-> 2]}

AnyNames == Permutations(Places) \cup Permutations({f1, f2})
=============================================================================
