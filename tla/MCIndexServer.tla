--------------------------- MODULE MCIndexServer ---------------------------
(* The server with management requests that differ in name only.           *)
EXTENDS IndexServer, TLC

Alike == Permutations(Commands)

(* What follows a lost callback satisfies every property of the liveness
   run, so it need not be explored. *)
NotOvertaken == ~overtaken
=============================================================================
