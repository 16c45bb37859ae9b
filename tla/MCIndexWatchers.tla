--------------------------- MODULE MCIndexWatchers ---------------------------
(* Watchers of the server, requests and files are interchangeable.          *)
EXTENDS IndexWatchers, TLC

Alike == Permutations(ServerWatchers) \union Permutations(Managers) \union Permutations(Files)

(* What is remembered of a watcher that is over no step reads.              *)
Over == {w \in Watchers : At(w, "over")}

WithoutTheDead ==
  <<sources, indexed, lock, watcher, stopEvent \ Over, registered, manager, failures,
    [w \in Watchers |-> IF w \in Over THEN NoSnapshot ELSE first[w]], unknown, hasty \ Over>>
=============================================================================
