----------------------- MODULE MCProjectIndexUpdate -----------------------
(* Small instances of ProjectIndexUpdate. The modules treat paths and
   contents alike, so instances may be permuted. *)
EXTENDS ProjectIndexUpdate, TLC

Alike == Permutations(Files) \cup Permutations(Shapes) \cup Permutations(Texts)
=============================================================================
