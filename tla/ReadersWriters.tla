-------------------------- MODULE ReadersWriters --------------------------
(* What the index gate promises: a request is not served while the index
   database is rewritten, nor rewritten while a request is served, and one
   writer works at a time. *)
CONSTANTS Readers, Writers

VARIABLES reading, writing
vars == <<reading, writing>>

Init == reading = {} /\ writing = {}

Enter(r) == writing = {} /\ reading' = reading \cup {r} /\ UNCHANGED writing
Leave(r) == reading' = reading \ {r} /\ UNCHANGED writing
Begin(w) == reading = {} /\ writing = {} /\ writing' = {w} /\ UNCHANGED reading
End(w)   == writing' = writing \ {w} /\ UNCHANGED reading

Next ==
  \/ \E r \in Readers : Enter(r) \/ Leave(r)
  \/ \E w \in Writers : Begin(w) \/ End(w)

Spec == Init /\ [][Next]_vars
=============================================================================
