----------------------------- MODULE IndexGate -----------------------------
(***************************************************************************)
(* The gate of CodeIndexTools between tool calls, which read the index,    *)
(* and the commands that rewrite index.sqlite: locked_index_read(),        *)
(* begin_index_write(), end_index_write() over one RLock, a condition and  *)
(* a flag.                                                                 *)
(*                                                                         *)
(* A tool call keeps the lock while its handler runs. A writer keeps only  *)
(* the flag, since its writing is done by another process and the end of   *)
(* it is reported on another thread. A thread is here one read or write    *)
(* from request to end; it may come again.                                 *)
(***************************************************************************)
CONSTANTS
  Readers,    (* threads that serve a tool call                            *)
  Writers,    (* users of begin_index_write: commands and the watcher      *)
  NoThread

ASSUME GateAssumption == NoThread \notin Readers \cup Writers /\ Readers \cap Writers = {}

Threads == Readers \cup Writers

VARIABLES
  index_lock,          (* the thread that keeps the RLock                   *)
  index_write_active,
  sleeping,            (* threads in index_condition.wait(), not notified   *)
  at                   (* "out", "waiting", "reading", "writing"            *)

gateVars == <<index_lock, index_write_active, sleeping, at>>

GateInit ==
  /\ index_lock = NoThread
  /\ index_write_active = FALSE
  /\ sleeping = {}
  /\ at = [t \in Threads |-> "out"]

(* t wants in: for the first time, or notified. *)
Knocks(t) == at[t] = "out" \/ (at[t] = "waiting" /\ t \notin sleeping)

(* index_condition.wait() releases the lock and sleeps in one step.        *)
Sleep(t) ==
  /\ index_write_active
  /\ at' = [at EXCEPT ![t] = "waiting"]
  /\ sleeping' = sleeping \cup {t}
  /\ UNCHANGED <<index_lock, index_write_active>>

(* Wrong variants, to show that the properties notice them: a read and a
   write that do not look at the flag, ...                                 *)
EnterReadUnchecked(r) ==
  /\ Knocks(r) /\ index_lock = NoThread
  /\ index_lock' = r
  /\ at' = [at EXCEPT ![r] = "reading"]
  /\ UNCHANGED <<index_write_active, sleeping>>

EnterRead(r) ==
  /\ Knocks(r) /\ index_lock = NoThread
  /\ \/ Sleep(r)
     \/ /\ ~index_write_active
        /\ index_lock' = r
        /\ at' = [at EXCEPT ![r] = "reading"]
        /\ UNCHANGED <<index_write_active, sleeping>>

LeaveRead(r) ==
  /\ at[r] = "reading"
  /\ index_lock' = NoThread
  /\ at' = [at EXCEPT ![r] = "out"]
  /\ UNCHANGED <<index_write_active, sleeping>>

BeginWriteUnchecked(w) ==
  /\ Knocks(w) /\ index_lock = NoThread
  /\ index_write_active' = TRUE
  /\ at' = [at EXCEPT ![w] = "writing"]
  /\ UNCHANGED <<index_lock, sleeping>>

BeginWrite(w) ==
  /\ Knocks(w) /\ index_lock = NoThread
  /\ \/ Sleep(w)
     \/ /\ ~index_write_active
        /\ index_write_active' = TRUE
        /\ at' = [at EXCEPT ![w] = "writing"]
        /\ UNCHANGED <<index_lock, sleeping>>

(* ... and an end without notify_all().                                    *)
OpenGateSilently(w) ==
  /\ index_lock = NoThread
  /\ index_write_active' = FALSE
  /\ at' = [at EXCEPT ![w] = "out"]
  /\ UNCHANGED <<index_lock, sleeping>>

(* end_index_write() does not ask whose flag it lowers.                    *)
OpenGate(w) ==
  /\ index_lock = NoThread
  /\ index_write_active' = FALSE
  /\ sleeping' = {}
  /\ at' = [at EXCEPT ![w] = "out"]
  /\ UNCHANGED index_lock

EndWrite(w) == at[w] = "writing" /\ OpenGate(w)

GateNext ==
  \/ \E r \in Readers : EnterRead(r) \/ LeaveRead(r)
  \/ \E w \in Writers : BeginWrite(w) \/ EndWrite(w)

GateSpec == GateInit /\ [][GateNext]_gateVars

(***************************************************************************)
(* Properties                                                              *)
(***************************************************************************)
GateTypeOK ==
  /\ index_lock \in Threads \cup {NoThread}
  /\ index_write_active \in BOOLEAN
  /\ sleeping \subseteq Threads
  /\ at \in [Threads -> {"out", "waiting", "reading", "writing"}]

(* While a tool handler runs no writer is inside, and one writer at most is
   inside at any time. *)
GateExclusion ==
  /\ \A r \in Readers, w \in Writers : ~(at[r] = "reading" /\ at[w] = "writing")
  /\ \A v, w \in Writers : at[v] = "writing" /\ at[w] = "writing" => v = w

(* No wakeup is lost: whoever sleeps has a writer ahead of it that will
   notify it (begin_index_write and locked_index_read wait without a
   timeout). *)
SleepersHaveWaker == sleeping # {} => \E w \in Writers : at[w] = "writing"

Abstract == INSTANCE ReadersWriters WITH
  reading <- {r \in Readers : at[r] = "reading"},
  writing <- {w \in Writers : at[w] = "writing"}

(* The lock, the flag and the condition implement ReadersWriters. *)
ImplementsReadersWriters == Abstract!Spec
=============================================================================
