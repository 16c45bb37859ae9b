--------------------------- MODULE ExclusiveLock ---------------------------
(***************************************************************************)
(* What a lock file of the index root promises to the programs that use    *)
(* it: at any moment at most one process owns it, and ownership goes from  *)
(* one process to another only through a moment at which nobody owns it.   *)
(***************************************************************************)
CONSTANTS Procs,  (* the processes that contend for the lock *)
          Nobody  (* the owner of a free lock                *)

VARIABLE owner

Init == owner = Nobody

Take(p) ==
  /\ owner = Nobody
  /\ owner' = p

Give(p) ==
  /\ owner = p
  /\ owner' = Nobody

Next == \E p \in Procs : Take(p) \/ Give(p)

Spec == Init /\ [][Next]_owner
=============================================================================
