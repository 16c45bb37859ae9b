------------------------- MODULE IndexServerProofs -------------------------
(***************************************************************************)
(* The safety of the server for any number of tool calls, commands and     *)
(* saves and for any failures: who owns the runner owns the gate's flag,   *)
(* until its callback has opened the gate again.                           *)
(*                                                                         *)
(* What a command that overtook another does to this is the run            *)
(* IndexServer_overtaken; everything that depends on the runner is stated  *)
(* here as long as nothing was overtaken.                                  *)
(*                                                                         *)
(* First the gate by itself (IndexGate), which the server extends.         *)
(***************************************************************************)
EXTENDS IndexServer, TLAPS

(* A reader is inside exactly while it keeps the lock; a writer is inside
   exactly while the flag is up, and never together with a reader. *)
GateInv ==
  /\ GateTypeOK
  /\ \A t \in Threads : at[t] = "reading" <=> index_lock = t
  /\ \A t \in Threads : at[t] = "reading" => t \in Readers /\ ~index_write_active
  /\ \A t \in Threads : at[t] = "writing" => t \in Writers /\ index_write_active
  /\ index_write_active => \E w \in Writers : at[w] = "writing"
  /\ \A v, w \in Writers : at[v] = "writing" /\ at[w] = "writing" => v = w
  /\ sleeping # {} => index_write_active

LEMMA GateInit_Inv == GateInit => GateInv
  BY GateAssumption DEF GateInit, GateInv, GateTypeOK, Threads

(* Each action keeps GateInv. *)
LEMMA GateNext_Inv == GateInv /\ [GateNext]_gateVars => GateInv'
<1> SUFFICES ASSUME GateInv, [GateNext]_gateVars PROVE GateInv'
    OBVIOUS
<1> USE GateAssumption DEF GateInv, GateTypeOK, Threads
<1>1. ASSUME NEW r \in Readers, EnterRead(r) PROVE GateInv'
  <2>1. CASE Sleep(r)
    BY <1>1, <2>1 DEF EnterRead, Knocks, Sleep
  <2>2. CASE ~Sleep(r)
    BY <1>1, <2>2 DEF EnterRead, Knocks
  <2> QED BY <2>1, <2>2
<1>2. ASSUME NEW r \in Readers, LeaveRead(r) PROVE GateInv'
    BY <1>2 DEF LeaveRead
<1>3. ASSUME NEW w \in Writers, BeginWrite(w) PROVE GateInv'
  <2>1. CASE Sleep(w)
    BY <1>3, <2>1 DEF BeginWrite, Knocks, Sleep
  <2>2. CASE ~Sleep(w)
    <3>1. /\ ~index_write_active /\ index_write_active' = TRUE
          /\ index_lock = NoThread /\ UNCHANGED <<index_lock, sleeping>>
          /\ at' = [at EXCEPT ![w] = "writing"]
      BY <1>3, <2>2 DEF BeginWrite
    <3>2. at'[w] = "writing" /\ \A t \in Threads \ {w} : at'[t] = at[t]
      BY <3>1
    <3>3. \A t \in Threads : at[t] # "writing" /\ at[t] # "reading"
      BY <3>1
    <3> QED BY <3>1, <3>2, <3>3
  <2> QED BY <2>1, <2>2
<1>4. ASSUME NEW w \in Writers, EndWrite(w) PROVE GateInv'
    BY <1>4 DEF EndWrite, OpenGate
<1>5. CASE UNCHANGED gateVars
    BY <1>5 DEF gateVars
<1> QED BY <1>1, <1>2, <1>3, <1>4, <1>5 DEF GateNext

(* The lock, the flag and where the threads are stay consistent through
   reads, writes and waits. *)
THEOREM GateInvariance == GateSpec => []GateInv
  BY GateInit_Inv, GateNext_Inv, PTL DEF GateSpec

(* Tool calls and database writers exclude each other, and no thread is
   left asleep with nobody to notify it. *)
THEOREM GateSafe == GateSpec => [](GateExclusion /\ SleepersHaveWaker)
<1>1. GateInv => GateExclusion /\ SleepersHaveWaker
    BY GateAssumption DEF GateInv, GateExclusion, SleepersHaveWaker, Threads
<1> QED BY <1>1, GateInvariance, PTL

(* Every step of the gate is a step of ReadersWriters or changes nothing it
   can see. *)
LEMMA GateNext_Refines ==
  GateInv /\ [GateNext]_gateVars => [Abstract!Next]_Abstract!vars
<1> SUFFICES ASSUME GateInv, [GateNext]_gateVars
             PROVE  [Abstract!Next]_Abstract!vars
    OBVIOUS
<1> DEFINE readers == {r \in Readers : at[r] = "reading"}
           writing == {w \in Writers : at[w] = "writing"}
<1> USE GateAssumption DEF GateInv, GateTypeOK, Threads
<1>1. ASSUME NEW r \in Readers, EnterRead(r) PROVE [Abstract!Next]_Abstract!vars
  <2>1. CASE Sleep(r)
    <3>1. UNCHANGED <<readers, writing>>
      BY <1>1, <2>1 DEF EnterRead, Knocks, Sleep
    <3> QED BY <3>1 DEF Abstract!vars
  <2>2. CASE ~Sleep(r)
    <3>1. writing = {} /\ readers' = readers \cup {r} /\ UNCHANGED writing
      BY <1>1, <2>2 DEF EnterRead, Knocks
    <3> QED BY <3>1 DEF Abstract!Next, Abstract!Enter
  <2> QED BY <2>1, <2>2
<1>2. ASSUME NEW r \in Readers, LeaveRead(r) PROVE [Abstract!Next]_Abstract!vars
  <2>1. readers' = readers \ {r} /\ UNCHANGED writing
    BY <1>2 DEF LeaveRead
  <2> QED BY <2>1 DEF Abstract!Next, Abstract!Leave
<1>3. ASSUME NEW w \in Writers, BeginWrite(w) PROVE [Abstract!Next]_Abstract!vars
  <2>1. CASE Sleep(w)
    <3>1. UNCHANGED <<readers, writing>>
      BY <1>3, <2>1 DEF BeginWrite, Knocks, Sleep
    <3> QED BY <3>1 DEF Abstract!vars
  <2>2. CASE ~Sleep(w)
    <3>1. /\ ~index_write_active /\ index_lock = NoThread
          /\ at' = [at EXCEPT ![w] = "writing"]
      BY <1>3, <2>2 DEF BeginWrite
    <3>2. readers = {} /\ writing = {}
      BY <3>1
    <3>3. writing' = {w} /\ UNCHANGED readers
      BY <3>1, <3>2
    <3> QED BY <3>2, <3>3 DEF Abstract!Next, Abstract!Begin
  <2> QED BY <2>1, <2>2
<1>4. ASSUME NEW w \in Writers, EndWrite(w) PROVE [Abstract!Next]_Abstract!vars
  <2>1. writing' = writing \ {w} /\ UNCHANGED readers
    BY <1>4 DEF EndWrite, OpenGate
  <2> QED BY <2>1 DEF Abstract!Next, Abstract!End
<1>5. CASE UNCHANGED gateVars
    BY <1>5 DEF gateVars, Abstract!vars
<1> QED BY <1>1, <1>2, <1>3, <1>4, <1>5 DEF GateNext

(* The gate implements ReadersWriters. *)
THEOREM GateRefinement == GateSpec => ImplementsReadersWriters
<1>1. GateInit => Abstract!Init
    BY DEF GateInit, Abstract!Init, Threads
<1> QED BY <1>1, GateInvariance, GateNext_Refines, PTL
        DEF GateSpec, ImplementsReadersWriters, Abstract!Spec

-----------------------------------------------------------------------------
(* The server. *)
MaybeCommand == Commands \cup {NoCommand}

(* Where the reader thread of a command is before it clears the runner, and
   before it has opened the gate.                                          *)
BeforeExit  == {"begin", "output"}
BeforeClear == BeforeExit \cup {"exited", "taken"}
BeforeOpen  == BeforeClear \cup {"cleared", "loading", "loaded"}

ServerTypeOK ==
  /\ at \in [Threads -> {"out", "waiting", "reading", "writing"}]
  /\ kind \in [Commands -> Kinds \cup {"none"}]
  /\ request \in [Commands -> {"unsent", "asked", "begun", "refused", "loading", "answered"}]
  /\ reader \in [Commands -> BeforeOpen \cup {"none", "done"}]
  /\ mine \in [Commands -> [process : MaybeCommand, success : MaybeCommand,
                            finish : MaybeCommand]]
  /\ os \in [Writers -> {"none", "launched", "writing", "ok", "failed"}]
  /\ {process, on_success, on_finish} \subseteq MaybeCommand
  /\ step \in {"polling", "knocking", "updating", "mapping", "updated", "loading", "leaving",
              "failing", "over"}
  /\ {changed, behind, overtaken} \subseteq BOOLEAN

(* The gate, whatever happened to the runner.                              *)
ClosedGate ==
  /\ \A r \in Readers : at[r] = "reading" => index_lock = r
  /\ \A r \in Readers : at[r] # "writing"
  /\ index_write_active => \E w \in Writers : at[w] = "writing"
  /\ sleeping # {} => index_write_active

(* Whoever loads the index keeps the lock meanwhile.                       *)
LoadersKeepTheLock ==
  /\ step = "loading" => index_lock = watcher
  /\ \A c \in Commands : reader[c] = "loading" => index_lock = c

(* A command has a process and a reader thread only once it was answered.  *)
Requested ==
  \A c \in Commands :
    /\ request[c] # "answered" => reader[c] = "none"
    /\ request[c] \in {"begun", "refused"} => kind[c] = "update"
    /\ reader[c] = "none" => os[c] = "none"

FinishOf(c) == IF kind[c] = "update" THEN c ELSE NoCommand

(* The runner belongs to the one command whose reader thread has yet to    *)
(* clear it, and what that thread has read of the runner is its own.       *)
RunnerOwned ==
  /\ process # NoCommand => /\ reader[process] \in BeforeClear
                            /\ on_success = process /\ on_finish = FinishOf(process)
  /\ \A c \in Commands :
       /\ reader[c] \in BeforeClear => process = c
       /\ reader[c] \in BeforeOpen \ {"begin"} => mine[c].process = c
       /\ reader[c] \in BeforeOpen \ BeforeExit => mine[c].success = c
       /\ reader[c] \in BeforeOpen \ (BeforeExit \cup {"exited"}) => mine[c].finish = FinishOf(c)
       /\ reader[c] \in (BeforeOpen \ BeforeExit) \cup {"done"} => Exited(c)

OwnsGate(c) ==
  /\ kind[c] = "update"
  /\ request[c] \in {"begun", "refused"} \/ reader[c] \in BeforeOpen

(* Whoever closed the gate is inside until it opens it.                    *)
GateOwned ==
  /\ \A w \in Writers : at[w] = "writing" => index_write_active
  /\ \A r \in Readers : at[r] = "reading" => ~index_write_active
  /\ \A v, w \in Writers : at[v] = "writing" /\ at[w] = "writing" => v = w
  /\ \A c \in Commands : OwnsGate(c) => at[c] = "writing"
  /\ step \notin {"polling", "knocking", "over"} => at[watcher] = "writing"

(* A successful update whose structure the cache does not show yet.        *)
ReloadDue(c) ==
  kind[c] = "update" /\ os[c] = "ok" /\ reader[c] \in BeforeClear \cup {"cleared", "loading"}
WatcherReloadDue ==
  \/ step = "updating" /\ os[watcher] = "ok" /\ changed
  \/ step = "mapping" /\ os[watcher] # "failed"
  \/ step \in {"updated", "loading"}

Accounted == behind \/ WatcherReloadDue \/ \E c \in Commands : ReloadDue(c)

GatedLoad == step = "loading" \/ \E c \in Commands : reader[c] = "loading" /\ kind[c] = "update"

(* The cache shows the files, or is known not to; so does what a load has
   begun to read, and within the gate that is what is there.               *)
CacheFollows ==
  /\ loaded = disk \/ Accounted
  /\ index_lock \in Writers => reading = disk \/ Accounted
  /\ GatedLoad => reading = disk

ServerInv ==
  /\ ServerTypeOK /\ ClosedGate /\ LoadersKeepTheLock /\ Requested
  /\ ~overtaken => RunnerOwned /\ GateOwned /\ CacheFollows

LEMMA Names ==
  /\ Commands \subseteq Writers /\ watcher \in Writers \ Commands
  /\ NoCommand \notin Writers
  /\ \A r \in Readers, w \in Writers : r # w
  /\ \A t \in Threads : t # NoThread
  /\ Threads = Readers \cup Writers
BY GateAssumption, ServerAssumption DEF Commands, Threads

LEMMA FailIsTyped ==
  ASSUME NEW w \in Writers, behind \in BOOLEAN, Fail(w) PROVE behind' \in BOOLEAN
BY Zenon DEF Fail

LEMMA TypeIsKept == ServerTypeOK /\ [Next]_vars => ServerTypeOK'
<1> SUFFICES ASSUME ServerTypeOK, [Next]_vars PROVE ServerTypeOK'
  OBVIOUS
<1> USE Names DEF ServerTypeOK, MaybeCommand, BeforeOpen, BeforeClear, BeforeExit
<1> USE DEF gateVars, worldVars, runnerVars, commandVars, watcherVars
<1>1. CASE Save
  BY <1>1 DEF Save
<1>2. ASSUME NEW w \in Writers, ProcessFails(w) \/ Process(w) PROVE ServerTypeOK'
  <2>1. CASE ProcessFails(w)
    <3>1. behind' \in BOOLEAN
      BY <2>1, FailIsTyped DEF ProcessFails
    <3> QED
      BY <2>1, <3>1 DEF ProcessFails, Fail
  <2>2. CASE ProcessLocks(w)
    <3>1. behind' \in BOOLEAN
      BY <2>2, FailIsTyped DEF ProcessLocks
    <3> QED
      BY <2>2, <3>1 DEF ProcessLocks, Fail
  <2>3. CASE ProcessSucceeds(w)
    <3>1. changed' \in BOOLEAN
      BY Zenon, <2>3 DEF ProcessSucceeds
    <3> QED
      BY <2>3, <3>1 DEF ProcessSucceeds
  <2> QED
    BY <1>2, <2>1, <2>2, <2>3 DEF Process
<1>12. CASE StopProcess
  <2>1. process \in Writers /\ Fail(process)
    BY <1>12 DEF StopProcess, running
  <2>2. behind' \in BOOLEAN
    BY <2>1, FailIsTyped
  <2> QED
    BY <1>12, <2>1, <2>2 DEF StopProcess, Fail
<1>13. CASE WorkersEnd
  BY <1>13 DEF WorkersEnd
<1>3. ASSUME NEW c \in Commands, Ask(c) PROVE ServerTypeOK'
  BY <1>3 DEF Ask
<1>4. ASSUME NEW c \in Commands, CommandBegins(c) PROVE ServerTypeOK'
  BY <1>4 DEF CommandBegins, BeginWrite, Sleep
<1>5. ASSUME NEW c \in Commands, StartProcess(c) PROVE ServerTypeOK'
  <2>1. overtaken' \in BOOLEAN
    BY Zenon, <1>5 DEF StartProcess
  <2> QED
    BY <1>5, <2>1 DEF StartProcess
<1>6. ASSUME NEW c \in Commands, RefusedReopens(c) PROVE ServerTypeOK'
  BY <1>6 DEF RefusedReopens, OpenGate
<1>7. ASSUME NEW c \in Commands, ReloadCommand(c) PROVE ServerTypeOK'
  BY <1>7 DEF ReloadCommand, cacheVars, unloadedVars, StartLoad, EndsLoad, EndLoad, LoadFails
<1>8. ASSUME NEW c \in Commands, OutputReader(c) PROVE ServerTypeOK'
  <2>1. CASE ReaderBegins(c)
    BY <2>1 DEF ReaderBegins, ReaderGoes
  <2>2. CASE ReaderSeesExit(c)
    BY <2>2 DEF ReaderSeesExit, ReaderGoes
  <2>3. CASE ReaderTakesFinish(c)
    BY <2>3 DEF ReaderTakesFinish, ReaderGoes
  <2>4. CASE ReaderClears(c)
    BY <2>4 DEF ReaderClears, ReaderGoes
  <2>5. CASE ReaderReloads(c)
    <3>1. behind' \in BOOLEAN
      BY Zenon, <2>5 DEF ReaderReloads, StartLoad, EndLoad, LoadFails
    <3>2. at' = at /\ reader' \in [Commands -> BeforeOpen \cup {"none", "done"}]
      BY <2>5 DEF ReaderReloads, ReaderGoes, StartLoad, EndLoad, LoadFails, EndsLoad
    <3> QED
      BY <2>5, <3>1, <3>2 DEF ReaderReloads, unloadedVars
  <2>6. CASE ReaderFinishes(c)
    BY <2>6 DEF ReaderFinishes, ReaderGoes, OpenGate, Nothing
  <2> QED
    BY <1>8, <2>1, <2>2, <2>3, <2>4, <2>5, <2>6 DEF OutputReader
<1>9. CASE Watcher
  <2>1. CASE WatcherSees
    BY <2>1 DEF WatcherSees, WatcherGoes
  <2>2. CASE WatcherBegins
    BY <2>2 DEF WatcherBegins, BeginWrite, Sleep, Launch
  <2>3. CASE WatcherUpdated
    BY <2>3 DEF WatcherUpdated, WatcherGoes, Launch
  <2>4. CASE WatcherMapped
    BY <2>4 DEF WatcherMapped, WatcherGoes
  <2>5. CASE WatcherReloads
    BY <2>5 DEF WatcherReloads, WatcherGoes, cacheVars, unloadedVars, StartLoad, EndsLoad,
       EndLoad, LoadFails
  <2>6. CASE WatcherLeaves
    BY <2>6 DEF WatcherLeaves, WatcherGoes, OpenGate
  <2> QED
    BY <1>9, <2>1, <2>2, <2>3, <2>4, <2>5, <2>6 DEF Watcher
<1>10. ASSUME NEW r \in Readers, ToolCall(r) PROVE ServerTypeOK'
  BY <1>10 DEF ToolCall, EnterRead, LeaveRead, Sleep
<1>11. CASE UNCHANGED vars
  BY <1>11 DEF vars
<1> QED
  BY <1>1, <1>2, <1>3, <1>4, <1>5, <1>6, <1>7, <1>8, <1>9, <1>10, <1>11, <1>12, <1>13
     DEF Next, ServerStep, Request

LEMMA GateIsKept == ServerTypeOK /\ ClosedGate /\ [Next]_vars => ClosedGate'
<1> SUFFICES ASSUME ServerTypeOK, ClosedGate, [Next]_vars PROVE ClosedGate'
  OBVIOUS
<1> USE Names DEF ClosedGate, gateVars
<1>0. at \in [Threads -> {"out", "waiting", "reading", "writing"}]
  BY DEF ServerTypeOK
<1>1. ASSUME UNCHANGED gateVars PROVE ClosedGate'
  BY <1>1
<1>2. ASSUME NEW r \in Readers, EnterRead(r) PROVE ClosedGate'
  <2>1. CASE Sleep(r)
    BY <1>0, <1>2, <2>1 DEF EnterRead, Knocks, Sleep
  <2>2. CASE ~Sleep(r)
    BY <1>0, <1>2, <2>2 DEF EnterRead, Knocks
  <2> QED
    BY <2>1, <2>2
<1>3. ASSUME NEW r \in Readers, LeaveRead(r) PROVE ClosedGate'
  BY <1>0, <1>3 DEF LeaveRead
<1>4. ASSUME NEW w \in Writers, BeginWrite(w) PROVE ClosedGate'
  <2>1. CASE Sleep(w)
    BY <1>0, <1>4, <2>1 DEF BeginWrite, Knocks, Sleep
  <2>2. CASE ~Sleep(w)
    BY <1>0, <1>4, <2>2 DEF BeginWrite, Knocks
  <2> QED
    BY <2>1, <2>2
<1>5. ASSUME NEW w, OpenGate(w) PROVE ClosedGate'
  BY <1>0, <1>5 DEF OpenGate
<1>6. ASSUME NEW w \in Writers, StartLoad(w) \/ EndLoad(w) \/ LoadFails(w) PROVE ClosedGate'
  BY <1>0, <1>6 DEF StartLoad, EndsLoad, EndLoad, LoadFails
<1>7. CASE Save
  BY <1>1, <1>7 DEF Save
<1>8. ASSUME NEW w \in Writers, ProcessFails(w) \/ Process(w) PROVE ClosedGate'
  BY <1>1, <1>8 DEF ProcessFails, Process, ProcessLocks, ProcessSucceeds
<1>14. CASE StopProcess \/ WorkersEnd
  BY <1>1, <1>14 DEF StopProcess, WorkersEnd
<1>9. ASSUME NEW c \in Commands, Ask(c) \/ Request(c) PROVE ClosedGate'
  BY <1>1, <1>4, <1>5, <1>6, <1>9
     DEF Ask, Request, CommandBegins, StartProcess, RefusedReopens, ReloadCommand
<1>10. ASSUME NEW c \in Commands, OutputReader(c) PROVE ClosedGate'
  BY <1>1, <1>5, <1>6, <1>10
     DEF OutputReader, ReaderBegins, ReaderSeesExit, ReaderTakesFinish, ReaderClears,
         ReaderReloads, ReaderFinishes
<1>11. CASE Watcher
  BY <1>1, <1>4, <1>5, <1>6, <1>11
     DEF Watcher, WatcherSees, WatcherBegins, WatcherUpdated, WatcherMapped, WatcherReloads,
         WatcherLeaves
<1>12. ASSUME NEW r \in Readers, ToolCall(r) PROVE ClosedGate'
  BY <1>2, <1>3, <1>12 DEF ToolCall
<1>13. CASE UNCHANGED vars
  BY <1>1, <1>13 DEF vars
<1> QED
  BY <1>7, <1>8, <1>9, <1>10, <1>11, <1>12, <1>13, <1>14 DEF Next, ServerStep

LEMMA LockIsKept ==
  ServerTypeOK /\ ClosedGate /\ Requested /\ LoadersKeepTheLock /\ [Next]_vars
    => LoadersKeepTheLock'
<1> SUFFICES ASSUME ServerTypeOK, ClosedGate, Requested, LoadersKeepTheLock, [Next]_vars
             PROVE  LoadersKeepTheLock'
  OBVIOUS
<1> USE Names DEF LoadersKeepTheLock
<1>0. reader \in [Commands -> BeforeOpen \cup {"none", "done"}]
  BY DEF ServerTypeOK
<1>1. ASSUME UNCHANGED <<step, reader>>,
             index_lock' = index_lock \/ index_lock \notin Writers
      PROVE  LoadersKeepTheLock'
  BY <1>1
<1>2. ASSUME NEW c \in Commands, NEW from, NEW to, ReaderGoes(c, from, to), to # "loading",
             step' = step, index_lock' = index_lock \/ index_lock \in {c, NoThread}
      PROVE  LoadersKeepTheLock'
  BY <1>0, <1>2 DEF ReaderGoes
<1>3. CASE Save
  BY <1>1, <1>3 DEF Save, gateVars, commandVars, watcherVars
<1>4. ASSUME NEW w \in Writers, ProcessFails(w) \/ Process(w) PROVE LoadersKeepTheLock'
  BY <1>1, <1>4
     DEF ProcessFails, Process, ProcessLocks, ProcessSucceeds, gateVars, commandVars
<1>5. CASE StopProcess \/ WorkersEnd
  BY <1>1, <1>5 DEF StopProcess, WorkersEnd, gateVars, commandVars, watcherVars
<1>6. ASSUME NEW c \in Commands, Ask(c) PROVE LoadersKeepTheLock'
  BY <1>1, <1>6 DEF Ask, gateVars, watcherVars
<1>7. ASSUME NEW c \in Commands, CommandBegins(c) PROVE LoadersKeepTheLock'
  BY <1>1, <1>7 DEF CommandBegins, BeginWrite, Sleep, watcherVars
<1>8. ASSUME NEW c \in Commands, StartProcess(c) PROVE LoadersKeepTheLock'
  BY <1>0, <1>8 DEF StartProcess, gateVars, watcherVars
<1>9. ASSUME NEW c \in Commands, RefusedReopens(c) PROVE LoadersKeepTheLock'
  BY <1>1, <1>9 DEF RefusedReopens, OpenGate, watcherVars
<1>10. ASSUME NEW c \in Commands, ReloadCommand(c) PROVE LoadersKeepTheLock'
  BY <1>10 DEF ReloadCommand, StartLoad, EndLoad, LoadFails, EndsLoad, Requested
<1>11. ASSUME NEW c \in Commands, OutputReader(c) PROVE LoadersKeepTheLock'
  <2> USE DEF gateVars, watcherVars
  <2>1. CASE ReaderBegins(c)
    BY <1>2, <2>1 DEF ReaderBegins
  <2>2. CASE ReaderSeesExit(c)
    BY <1>2, <2>2 DEF ReaderSeesExit
  <2>3. CASE ReaderTakesFinish(c)
    BY <1>2, <2>3 DEF ReaderTakesFinish
  <2>4. CASE ReaderClears(c)
    BY <1>2, <2>4 DEF ReaderClears
  <2>5. CASE ReaderReloads(c)
    <3>1. CASE ReaderGoes(c, "cleared", "loading") /\ StartLoad(c)
      BY <1>0, <2>5, <3>1 DEF ReaderReloads, ReaderGoes, StartLoad
    <3>2. CASE ReaderGoes(c, "loading", "loaded") /\ (EndLoad(c) \/ LoadFails(c))
      BY <1>2, <2>5, <3>2 DEF ReaderReloads, EndLoad, LoadFails, EndsLoad
    <3>3. CASE ReaderGoes(c, "cleared", "loaded") /\ UNCHANGED gateVars
      BY <1>2, <2>5, <3>3 DEF ReaderReloads
    <3> QED
      BY <2>5, <3>1, <3>2, <3>3 DEF ReaderReloads
  <2>6. CASE ReaderFinishes(c)
    BY <1>2, <2>6 DEF ReaderFinishes, OpenGate
  <2> QED
    BY <1>11, <2>1, <2>2, <2>3, <2>4, <2>5, <2>6 DEF OutputReader
<1>12. CASE Watcher
  BY <1>12
     DEF Watcher, WatcherSees, WatcherBegins, WatcherUpdated, WatcherMapped, WatcherReloads,
         WatcherLeaves, WatcherGoes, BeginWrite, Sleep, OpenGate, StartLoad, EndLoad, LoadFails,
         EndsLoad, gateVars, commandVars
<1>13. ASSUME NEW r \in Readers, ToolCall(r) PROVE LoadersKeepTheLock'
  BY <1>1, <1>13
     DEF ToolCall, EnterRead, LeaveRead, Sleep, ClosedGate, commandVars, watcherVars
<1>14. CASE UNCHANGED vars
  BY <1>1, <1>14 DEF vars, gateVars, commandVars, watcherVars
<1> QED
  BY <1>3, <1>4, <1>5, <1>6, <1>7, <1>8, <1>9, <1>10, <1>11, <1>12, <1>13, <1>14
     DEF Next, ServerStep, Request

LEMMA RequestIsKept ==
  ServerTypeOK /\ Requested /\ [Next]_vars => Requested'
<1> SUFFICES ASSUME ServerTypeOK, Requested, [Next]_vars PROVE Requested'
  OBVIOUS
<1> USE Names DEF Requested
<1>0. /\ kind \in [Commands -> Kinds \cup {"none"}]
      /\ request \in [Commands -> {"unsent", "asked", "begun", "refused", "loading", "answered"}]
      /\ reader \in [Commands -> BeforeOpen \cup {"none", "done"}]
      /\ os \in [Writers -> {"none", "launched", "writing", "ok", "failed"}]
  BY DEF ServerTypeOK
<1>1. ASSUME UNCHANGED <<kind, request, reader>>, \A c \in Commands : os'[c] = os[c]
      PROVE  Requested'
  BY <1>1
<1>2. ASSUME NEW c \in Commands, NEW from \in BeforeOpen, NEW to \in BeforeOpen \cup {"done"},
             ReaderGoes(c, from, to), UNCHANGED <<kind, request, os>>
      PROVE  Requested'
  BY <1>0, <1>2 DEF ReaderGoes, BeforeOpen, BeforeClear, BeforeExit
<1>3. CASE Save
  BY <1>1, <1>3 DEF Save, commandVars
<1>4. ASSUME NEW w \in Writers, ProcessFails(w) \/ Process(w) PROVE Requested'
  BY <1>0, <1>4
     DEF ProcessFails, Process, ProcessLocks, ProcessSucceeds, Fail, Alive, commandVars
<1>13. CASE StopProcess \/ WorkersEnd
  BY <1>0, <1>1, <1>13 DEF StopProcess, WorkersEnd, running, Fail, Alive, commandVars
<1>5. ASSUME NEW c \in Commands, Ask(c) PROVE Requested'
  BY <1>0, <1>5 DEF Ask
<1>6. ASSUME NEW c \in Commands, CommandBegins(c) PROVE Requested'
  BY <1>0, <1>6 DEF CommandBegins
<1>7. ASSUME NEW c \in Commands, StartProcess(c) PROVE Requested'
  BY <1>0, <1>7 DEF StartProcess
<1>8. ASSUME NEW c \in Commands, RefusedReopens(c) \/ ReloadCommand(c) PROVE Requested'
  BY <1>0, <1>8 DEF RefusedReopens, ReloadCommand, unloadedVars
<1>9. ASSUME NEW c \in Commands, OutputReader(c) PROVE Requested'
  <2> USE DEF BeforeOpen, BeforeClear, BeforeExit
  <2>1. CASE ReaderBegins(c)
    BY <1>2, <2>1 DEF ReaderBegins
  <2>2. CASE ReaderSeesExit(c)
    BY <1>2, <2>2 DEF ReaderSeesExit
  <2>3. CASE ReaderTakesFinish(c)
    BY <1>2, <2>3 DEF ReaderTakesFinish
  <2>4. CASE ReaderClears(c)
    BY <1>2, <2>4 DEF ReaderClears
  <2>5. CASE ReaderReloads(c)
    BY <1>2, <2>5 DEF ReaderReloads, unloadedVars
  <2>6. CASE ReaderFinishes(c)
    BY <1>2, <2>6 DEF ReaderFinishes
  <2> QED
    BY <1>9, <2>1, <2>2, <2>3, <2>4, <2>5, <2>6 DEF OutputReader
<1>10. CASE Watcher
  BY <1>0, <1>1, <1>10
     DEF Watcher, WatcherSees, WatcherBegins, WatcherUpdated, WatcherMapped, WatcherReloads,
         WatcherLeaves, Launch, commandVars, unloadedVars
<1>11. ASSUME NEW r \in Readers, ToolCall(r) PROVE Requested'
  BY <1>1, <1>11 DEF ToolCall, commandVars
<1>12. CASE UNCHANGED vars
  BY <1>1, <1>12 DEF vars, commandVars
<1> QED
  BY <1>3, <1>4, <1>5, <1>6, <1>7, <1>8, <1>9, <1>10, <1>11, <1>12, <1>13
     DEF Next, ServerStep, Request

(* What overtakes is noted: while it is not, the runner is nobody's when a  *)
(* command takes it.                                                       *)
LEMMA OvertakingIsNoted == ServerTypeOK /\ [Next]_vars /\ ~overtaken' => ~overtaken
<1> SUFFICES ASSUME [Next]_vars, overtaken \in BOOLEAN
             PROVE  overtaken' = overtaken \/ (overtaken' = TRUE)
  BY DEF ServerTypeOK
<1>1. ASSUME NEW c \in Commands, StartProcess(c)
      PROVE  overtaken' = overtaken \/ (overtaken' = TRUE)
  BY Zenon, <1>1 DEF StartProcess
<1>2. ASSUME NEW c \in Commands, CommandBegins(c) \/ RefusedReopens(c) \/ ReloadCommand(c)
      PROVE  overtaken' = overtaken
  BY <1>2 DEF CommandBegins, RefusedReopens, ReloadCommand, unloadedVars
<1>3. ASSUME NEW c \in Commands, OutputReader(c) PROVE overtaken' = overtaken
  BY <1>3 DEF OutputReader, ReaderBegins, ReaderSeesExit, ReaderTakesFinish, ReaderClears,
         ReaderReloads, ReaderFinishes, unloadedVars
<1>4. CASE Watcher
  BY <1>4 DEF Watcher, WatcherSees, WatcherBegins, WatcherUpdated, WatcherMapped,
         WatcherReloads, WatcherLeaves, unloadedVars
<1>5. ASSUME NEW w \in Writers, ProcessFails(w) \/ Process(w) PROVE overtaken' = overtaken
  BY <1>5 DEF ProcessFails, Process, ProcessLocks, ProcessSucceeds, Fail
<1>6. CASE StopProcess \/ WorkersEnd
  BY <1>6 DEF StopProcess, WorkersEnd, Fail
<1> QED
  BY <1>1, <1>2, <1>3, <1>4, <1>5, <1>6 DEF Next, ServerStep, Request, Save, Ask, ToolCall, vars

LEMMA RunnerIsKept ==
  ServerTypeOK /\ Requested /\ RunnerOwned /\ [Next]_vars /\ ~overtaken' => RunnerOwned'
<1> SUFFICES ASSUME ServerTypeOK, Requested, RunnerOwned, [Next]_vars, ~overtaken'
             PROVE  RunnerOwned'
  OBVIOUS
<1> USE Names DEF RunnerOwned, FinishOf, BeforeOpen, BeforeClear, BeforeExit, Exited
<1>0. /\ kind \in [Commands -> Kinds \cup {"none"}]
      /\ request \in [Commands -> {"unsent", "asked", "begun", "refused", "loading", "answered"}]
      /\ reader \in [Commands -> BeforeOpen \cup {"none", "done"}]
      /\ mine \in [Commands -> [process : MaybeCommand, success : MaybeCommand,
                                finish : MaybeCommand]]
      /\ os \in [Writers -> {"none", "launched", "writing", "ok", "failed"}]
      /\ process \in MaybeCommand
  BY DEF ServerTypeOK
<1>1. ASSUME UNCHANGED <<runnerVars, kind, reader, mine>>,
             \A c \in Commands : Exited(c) => Exited(c)'
      PROVE  RunnerOwned'
  BY <1>0, <1>1 DEF runnerVars, MaybeCommand
<1>3. CASE Save
  BY <1>1, <1>3 DEF Save, commandVars
<1>4. ASSUME NEW w \in Writers, ProcessFails(w) \/ Process(w) PROVE RunnerOwned'
  <2>1. \A c \in Commands : Exited(c) => Exited(c)'
    BY <1>0, <1>4 DEF ProcessFails, Process, ProcessLocks, ProcessSucceeds, Fail, Alive
  <2> QED
    BY <1>1, <1>4, <2>1 DEF ProcessFails, Process, ProcessLocks, ProcessSucceeds, commandVars
<1>13. CASE StopProcess \/ WorkersEnd
  <2>1. \A c \in Commands : Exited(c) => Exited(c)'
    BY <1>0, <1>13 DEF StopProcess, WorkersEnd, running, Fail, Alive
  <2> QED
    BY <1>1, <1>13, <2>1 DEF StopProcess, WorkersEnd, commandVars
<1>5. ASSUME NEW c \in Commands, Ask(c) PROVE RunnerOwned'
  <2>1. reader[c] = "none" /\ process # c
    BY <1>5 DEF Ask, Requested
  <2>2. \A d \in Commands \ {c} : FinishOf(d)' = FinishOf(d)
    BY <1>0, <1>5 DEF Ask
  <2>3. UNCHANGED <<process, on_success, on_finish, reader, mine, os>>
    BY <1>5 DEF Ask, runnerVars
  <2> QED
    BY <1>0, <2>1, <2>2, <2>3 DEF MaybeCommand
<1>6. ASSUME NEW c \in Commands, CommandBegins(c) \/ RefusedReopens(c) \/ ReloadCommand(c)
      PROVE  RunnerOwned'
  BY <1>1, <1>6 DEF CommandBegins, RefusedReopens, ReloadCommand, unloadedVars
<1>7. ASSUME NEW c \in Commands, StartProcess(c) PROVE RunnerOwned'
  <2>1. CASE running
    BY <1>1, <1>7, <2>1 DEF StartProcess, runnerVars
  <2>2. CASE ~running
    <3>1. process = NoCommand
      BY <1>7, <2>2 DEF StartProcess
    <3>2. reader[c] = "none"
      BY <1>7 DEF StartProcess, Requested
    <3>3. \A d \in Commands : reader[d] \notin BeforeClear
      BY <3>1
    <3>4. /\ process' = c /\ on_success' = c /\ on_finish' = FinishOf(c)
          /\ reader' = [reader EXCEPT ![c] = "begin"]
          /\ os' = [os EXCEPT ![c] = "launched"]
          /\ UNCHANGED <<kind, mine>>
      BY <1>7, <2>2 DEF StartProcess
    <3>5. reader'[c] = "begin" /\ \A d \in Commands \ {c} : reader'[d] = reader[d] /\ os'[d] = os[d]
      BY <1>0, <3>4
    <3> QED
      BY <1>0, <3>1, <3>2, <3>3, <3>4, <3>5
  <2> QED
    BY <2>1, <2>2
<1>9. ASSUME NEW c \in Commands, OutputReader(c) PROVE RunnerOwned'
  <2>1. CASE ReaderBegins(c)
    <3>1. process = c
      BY <2>1 DEF ReaderBegins, ReaderGoes
    <3> QED
      BY <1>0, <2>1, <3>1 DEF ReaderBegins, ReaderGoes, runnerVars
  <2>2. CASE ReaderSeesExit(c)
    BY <1>0, <2>2 DEF ReaderSeesExit, ReaderGoes, runnerVars
  <2>3. CASE ReaderTakesFinish(c)
    BY <1>0, <2>3 DEF ReaderTakesFinish, ReaderGoes, runnerVars
  <2>4. CASE ReaderClears(c)
    BY <1>0, <2>4 DEF ReaderClears, ReaderGoes
  <2>5. CASE ReaderReloads(c)
    <3>1. PICK to \in {"loading", "loaded"} : reader' = [reader EXCEPT ![c] = to]
      BY <2>5 DEF ReaderReloads, ReaderGoes
    <3>2. /\ reader[c] \in {"cleared", "loading"}
          /\ UNCHANGED <<process, on_success, on_finish, kind, mine, os>>
      BY <2>5 DEF ReaderReloads, runnerVars, unloadedVars
    <3> QED
      BY <1>0, <3>1, <3>2
  <2>6. CASE ReaderFinishes(c)
    BY <1>0, <2>6 DEF ReaderFinishes, ReaderGoes, runnerVars
  <2> QED
    BY <1>9, <2>1, <2>2, <2>3, <2>4, <2>5, <2>6 DEF OutputReader
<1>10. CASE Watcher
  BY <1>0, <1>1, <1>10
     DEF Watcher, WatcherSees, WatcherBegins, WatcherUpdated, WatcherMapped, WatcherReloads,
         WatcherLeaves, Launch, commandVars, unloadedVars
<1>11. ASSUME NEW r \in Readers, ToolCall(r) PROVE RunnerOwned'
  BY <1>1, <1>11 DEF ToolCall, commandVars
<1>12. CASE UNCHANGED vars
  BY <1>1, <1>12 DEF vars, commandVars
<1> QED
  BY <1>3, <1>4, <1>5, <1>6, <1>7, <1>9, <1>10, <1>11, <1>12, <1>13
     DEF Next, ServerStep, Request

(* A writer that owns the gate opens it and owns it no more.               *)
LEMMA OpeningEndsOwnership ==
  ASSUME ServerTypeOK, GateOwned, NEW w \in Writers, at[w] = "writing", OpenGate(w),
         \A c \in Commands : OwnsGate(c)' => OwnsGate(c) /\ c # w,
         step' \notin {"polling", "knocking", "over"} => step' = step /\ w # watcher
  PROVE  GateOwned'
<1> USE Names
<1>1. \A v \in Writers : at'[v] # "writing"
  BY DEF ServerTypeOK, GateOwned, OpenGate
<1>2. index_write_active' = FALSE
  BY DEF OpenGate
<1>3. \A c \in Commands : ~OwnsGate(c)'
  BY DEF GateOwned
<1>4. step' \in {"polling", "knocking", "over"}
  BY DEF GateOwned
<1> QED
  BY <1>1, <1>2, <1>3, <1>4 DEF GateOwned

LEMMA OwnershipIsKept ==
  /\ ServerTypeOK /\ ClosedGate /\ Requested /\ RunnerOwned /\ GateOwned
  /\ [Next]_vars /\ ~overtaken'
  => GateOwned'
<1> SUFFICES ASSUME ServerTypeOK, ClosedGate, Requested, RunnerOwned, GateOwned,
                    [Next]_vars, ~overtaken'
             PROVE  GateOwned'
  OBVIOUS
<1> USE Names
<1>0. /\ at \in [Threads -> {"out", "waiting", "reading", "writing"}]
      /\ request \in [Commands -> {"unsent", "asked", "begun", "refused", "loading", "answered"}]
      /\ reader \in [Commands -> BeforeOpen \cup {"none", "done"}]
      /\ kind \in [Commands -> Kinds \cup {"none"}]
  BY DEF ServerTypeOK
<1>1. ASSUME UNCHANGED <<at, index_write_active>>,
             \A c \in Commands : OwnsGate(c)' => OwnsGate(c),
             step' \notin {"polling", "knocking", "over"} => step \notin {"polling", "knocking", "over"}
      PROVE  GateOwned'
  BY <1>1 DEF GateOwned
<1>2. ASSUME UNCHANGED <<kind, request, reader>>
      PROVE  \A c \in Commands : OwnsGate(c)' <=> OwnsGate(c)
  BY <1>2 DEF OwnsGate
<1>3. ASSUME UNCHANGED <<at, index_write_active, kind, request, reader, step>>
      PROVE  GateOwned'
  BY <1>1, <1>2, <1>3
<1>4. ASSUME NEW w \in Writers, BeginWrite(w)
      PROVE  IF at'[w] = "writing"
             THEN /\ \A v \in Writers : at'[v] = "writing" <=> v = w
                  /\ index_write_active' /\ \A r \in Readers : at'[r] # "reading"
                  /\ \A v \in Writers : at[v] # "writing"
             ELSE /\ index_write_active' = index_write_active
                  /\ \A v \in Writers : at'[v] = "writing" <=> at[v] = "writing"
                  /\ \A r \in Readers : at'[r] = at[r]
  <2>1. CASE Sleep(w)
    BY <1>0, <1>4, <2>1 DEF BeginWrite, Knocks, Sleep, GateOwned
  <2>2. CASE ~Sleep(w)
    BY <1>0, <1>4, <2>2 DEF BeginWrite, Knocks, GateOwned, ClosedGate
  <2> QED
    BY <2>1, <2>2
<1>5. CASE Save
  BY <1>3, <1>5 DEF Save, gateVars, commandVars, watcherVars
<1>6. ASSUME NEW w \in Writers, ProcessFails(w) \/ Process(w) PROVE GateOwned'
  BY <1>3, <1>6
     DEF ProcessFails, Process, ProcessLocks, ProcessSucceeds, gateVars, commandVars
<1>16. CASE StopProcess \/ WorkersEnd
  BY <1>3, <1>16 DEF StopProcess, WorkersEnd, gateVars, commandVars, watcherVars
<1>7. ASSUME NEW c \in Commands, Ask(c) PROVE GateOwned'
  <2>1. \A d \in Commands : OwnsGate(d)' => OwnsGate(d)
    BY <1>0, <1>7 DEF Ask, Requested, OwnsGate, BeforeOpen, BeforeClear, BeforeExit
  <2> QED
    BY <1>1, <1>7, <2>1 DEF Ask, gateVars, watcherVars
<1>8. ASSUME NEW c \in Commands, CommandBegins(c) PROVE GateOwned'
  <2>1. step' = step /\ UNCHANGED <<kind, reader>> /\ BeginWrite(c)
    BY <1>8 DEF CommandBegins, watcherVars
  <2>2. CASE at'[c] = "writing"
    <3>1. \A v \in Writers : at[v] # "writing"
      BY <1>4, <2>1, <2>2
    <3>2. \A d \in Commands \ {c} : ~OwnsGate(d)'
      BY <1>0, <1>8, <3>1 DEF CommandBegins, OwnsGate, GateOwned
    <3> QED
      BY <1>4, <2>1, <2>2, <3>1, <3>2 DEF GateOwned
  <2>3. CASE at'[c] # "writing"
    BY <1>2, <1>4, <1>8, <2>1, <2>3 DEF CommandBegins, GateOwned
  <2> QED
    BY <2>2, <2>3
<1>9. ASSUME NEW c \in Commands, StartProcess(c) PROVE GateOwned'
  <2>1. \A d \in Commands : OwnsGate(d)' => OwnsGate(d)
    BY <1>0, <1>9 DEF StartProcess, Requested, OwnsGate
  <2> QED
    BY <1>1, <1>9, <2>1 DEF StartProcess, gateVars, watcherVars
<1>10. ASSUME NEW c \in Commands, RefusedReopens(c) PROVE GateOwned'
  <2>1. OwnsGate(c) /\ reader[c] = "none"
    BY <1>10 DEF RefusedReopens, Requested, OwnsGate
  <2>2. at[c] = "writing"
    BY <2>1 DEF GateOwned
  <2>3. \A d \in Commands : OwnsGate(d)' => OwnsGate(d) /\ d # c
    BY <1>0, <1>10, <2>1 DEF RefusedReopens, OwnsGate, BeforeOpen, BeforeClear, BeforeExit
  <2>4. step' \notin {"polling", "knocking", "over"} => step' = step /\ c # watcher
    BY <1>10 DEF RefusedReopens, watcherVars
  <2> QED
    BY <1>10, <2>2, <2>3, <2>4, OpeningEndsOwnership DEF RefusedReopens
<1>11. ASSUME NEW c \in Commands, ReloadCommand(c) PROVE GateOwned'
  <2>1. \A d \in Commands : OwnsGate(d)' => OwnsGate(d)
    BY <1>0, <1>11 DEF ReloadCommand, OwnsGate, unloadedVars
  <2> QED
    BY <1>1, <1>11, <2>1 DEF ReloadCommand, StartLoad, EndLoad, LoadFails, EndsLoad
<1>12. ASSUME NEW c \in Commands, OutputReader(c) PROVE GateOwned'
  <2> USE DEF BeforeOpen, BeforeClear, BeforeExit
  <2>1. ASSUME NEW from \in BeforeOpen, NEW to, ReaderGoes(c, from, to), UNCHANGED <<kind, request>>
        PROVE  /\ \A d \in Commands : OwnsGate(d)' => OwnsGate(d)
               /\ to = "done" => \A d \in Commands : OwnsGate(d)' /\ kind[c] = "update" => d # c
    <3>1. request[c] = "answered"
      BY <2>1 DEF ReaderGoes, Requested
    <3> QED
      BY <1>0, <2>1, <3>1 DEF ReaderGoes, OwnsGate
  <2>2. CASE ReaderBegins(c)
    BY <1>1, <2>1, <2>2 DEF ReaderBegins, gateVars, watcherVars
  <2>3. CASE ReaderSeesExit(c)
    BY <1>1, <2>1, <2>3 DEF ReaderSeesExit, gateVars, watcherVars
  <2>4. CASE ReaderTakesFinish(c)
    BY <1>1, <2>1, <2>4 DEF ReaderTakesFinish, gateVars, watcherVars
  <2>5. CASE ReaderClears(c)
    BY <1>1, <2>1, <2>5 DEF ReaderClears, gateVars, watcherVars
  <2>6. CASE ReaderReloads(c)
    BY <1>1, <2>1, <2>6
       DEF ReaderReloads, StartLoad, EndLoad, LoadFails, EndsLoad, gateVars, unloadedVars
  <2>7. CASE ReaderFinishes(c)
    <3>1. mine[c].finish = FinishOf(c) /\ reader[c] = "loaded"
      BY <2>7 DEF ReaderFinishes, ReaderGoes, RunnerOwned
    <3>2. CASE kind[c] = "update"
      <4>1. OwnsGate(c)
        BY <3>1, <3>2 DEF OwnsGate
      <4>2. at[c] = "writing" /\ OpenGate(c)
        BY <2>7, <3>1, <3>2, <4>1 DEF GateOwned, ReaderFinishes, FinishOf
      <4>3. \A d \in Commands : OwnsGate(d)' => OwnsGate(d) /\ d # c
        BY <2>1, <2>7, <3>2 DEF ReaderFinishes
      <4>4. step' \notin {"polling", "knocking", "over"} => step' = step /\ c # watcher
        BY <2>7 DEF ReaderFinishes, watcherVars
      <4> QED
        BY <4>2, <4>3, <4>4, OpeningEndsOwnership
    <3>3. CASE kind[c] # "update"
      BY <1>1, <2>1, <2>7, <3>1, <3>3 DEF ReaderFinishes, FinishOf, gateVars, watcherVars
    <3> QED
      BY <3>2, <3>3
  <2> QED
    BY <1>12, <2>2, <2>3, <2>4, <2>5, <2>6, <2>7 DEF OutputReader
<1>13. CASE Watcher
  <2>1. \A d \in Commands : OwnsGate(d)' <=> OwnsGate(d)
    BY <1>2, <1>13
       DEF Watcher, WatcherSees, WatcherBegins, WatcherUpdated, WatcherMapped, WatcherReloads,
           WatcherLeaves, commandVars, unloadedVars
  <2>2. CASE WatcherSees \/ WatcherUpdated \/ WatcherMapped \/ WatcherReloads
    BY <1>1, <2>1, <2>2
       DEF WatcherSees, WatcherUpdated, WatcherMapped, WatcherReloads, WatcherGoes, StartLoad,
           EndLoad, LoadFails, EndsLoad, gateVars
  <2>3. CASE WatcherBegins
    BY <1>4, <2>1, <2>3 DEF WatcherBegins, GateOwned
  <2>4. CASE WatcherLeaves
    <3>1. at[watcher] = "writing" /\ step' \in {"polling", "over"} /\ OpenGate(watcher)
      BY <2>4 DEF WatcherLeaves, WatcherGoes, GateOwned
    <3> QED
      BY <2>1, <3>1, OpeningEndsOwnership
  <2> QED
    BY <1>13, <2>2, <2>3, <2>4 DEF Watcher
<1>14. ASSUME NEW r \in Readers, ToolCall(r) PROVE GateOwned'
  <2>1. UNCHANGED <<kind, request, reader, step>>
    BY <1>14 DEF ToolCall, commandVars, watcherVars
  <2>2. /\ index_write_active' = index_write_active
        /\ \A w \in Writers : at'[w] = at[w]
        /\ \A s \in Readers : at'[s] = "reading" => at[s] = "reading" \/ ~index_write_active
    BY <1>0, <1>14 DEF ToolCall, EnterRead, LeaveRead, Sleep
  <2> QED
    BY <1>2, <2>1, <2>2 DEF GateOwned
<1>15. CASE UNCHANGED vars
  BY <1>3, <1>15 DEF vars, gateVars, commandVars, watcherVars
<1> QED
  BY <1>5, <1>6, <1>7, <1>8, <1>9, <1>10, <1>11, <1>12, <1>13, <1>14, <1>15, <1>16
     DEF Next, ServerStep, Request

(* An alive child process of a command belongs to the runner.              *)
LEMMA AliveIsRunning ==
  ServerTypeOK /\ Requested /\ RunnerOwned
    => \A c \in Commands : Alive(c) => reader[c] \in BeforeExit /\ process = c
BY Names DEF ServerTypeOK, Requested, RunnerOwned, Alive, Exited, BeforeOpen, BeforeClear,
             BeforeExit

(* Whose process rewrites the database has closed the gate.                *)
LEMMA WritersCloseTheGate ==
  ServerTypeOK /\ Requested /\ RunnerOwned /\ GateOwned
    => \A w \in Writers : WritesIndex(w) => at[w] = "writing"
<1> SUFFICES ASSUME ServerTypeOK, Requested, RunnerOwned, GateOwned,
                    NEW w \in Writers, WritesIndex(w)
             PROVE  at[w] = "writing"
  OBVIOUS
<1>1. CASE w = watcher
  BY <1>1 DEF GateOwned, WritesIndex
<1>2. CASE w # watcher
  <2>1. w \in Commands /\ Alive(w) /\ kind[w] = "update"
    BY <1>2 DEF WritesIndex, Commands
  <2> QED
    BY <2>1, AliveIsRunning DEF GateOwned, OwnsGate, BeforeOpen, BeforeClear
<1> QED
  BY <1>1, <1>2

(* A load within the gate finds no other process writing.                  *)
LEMMA GatedLoadsAreAlone ==
  ASSUME ServerTypeOK, Requested, RunnerOwned, GateOwned,
         GatedLoad
  PROVE  \A w \in Writers : ~WritesIndex(w)
<1> SUFFICES ASSUME NEW w \in Writers, WritesIndex(w) PROVE FALSE
  OBVIOUS
<1>1. at[w] = "writing"
  BY WritersCloseTheGate
<1>2. CASE step = "loading"
  <2>1. w = watcher
    BY <1>1, <1>2, Names DEF GateOwned
  <2> QED
    BY <1>2, <2>1 DEF WritesIndex
<1>3. ASSUME NEW c \in Commands, reader[c] = "loading", kind[c] = "update" PROVE FALSE
  <2>1. w = c
    BY <1>1, <1>3, Names DEF GateOwned, OwnsGate, BeforeOpen
  <2> QED
    BY <1>3, <2>1, AliveIsRunning, Names DEF WritesIndex, BeforeExit
<1> QED
  BY <1>2, <1>3 DEF GatedLoad

(* A process that fails leaves a gap only if it is noted.                  *)
LEMMA FailingKeepsCache ==
  ASSUME ServerTypeOK, Requested, RunnerOwned, GateOwned, CacheFollows,
         NEW w \in Writers, Alive(w), Fail(w), gateVars' = gateVars, cacheVars' = cacheVars,
         UNCHANGED <<kind, reader, step>>
  PROVE  CacheFollows'
<1> USE Names
<1>1. UNCHANGED <<index_lock, loaded, reading, kind, reader, step, changed>>
  BY DEF gateVars, cacheVars, Fail
<1>2. /\ os[w] \in {"launched", "writing"} /\ os'[w] = "failed"
      /\ \A v \in Writers \ {w} : os'[v] = os[v]
  BY DEF ServerTypeOK, Fail, Alive
<1>3. PICK wrote \in BOOLEAN :
        /\ disk' \in IF wrote /\ WritesIndex(w) THEN Updated(w) \cup {Mixed} ELSE {disk}
        /\ behind' = (behind \/ wrote \/ (w = watcher /\ step = "mapping"))
  BY DEF Fail
<1>4. GatedLoad => disk' = disk
  BY <1>3, GatedLoadsAreAlone
<1>5. GatedLoad' <=> GatedLoad
  BY <1>1 DEF GatedLoad
<1>6. CASE behind'
  BY <1>1, <1>4, <1>5, <1>6 DEF CacheFollows, Accounted
<1>7. CASE ~behind'
  <2>1. ~wrote /\ ~(w = watcher /\ step = "mapping") /\ ~behind
    BY <1>3, <1>7
  <2>2. disk' = disk
    BY <1>3, <2>1
  <2>3. \A c \in Commands : ReloadDue(c) => ReloadDue(c)'
    BY <1>1, <1>2 DEF ReloadDue
  <2>4. WatcherReloadDue => WatcherReloadDue'
    BY <1>1, <1>2, <2>1 DEF WatcherReloadDue
  <2> QED
    BY <1>1, <1>5, <2>1, <2>2, <2>3, <2>4 DEF CacheFollows, Accounted
<1> QED
  BY <1>6, <1>7

(* A load keeps the lock to its end, so none is under way after it.        *)
LEMMA OneLoadAtATime ==
  ASSUME LoadersKeepTheLock, NEW t \in Writers, EndsLoad(t),
         step' = "loading" => step = "loading" /\ t # watcher,
         \A c \in Commands : reader'[c] = "loading" => reader[c] = "loading" /\ t # c
  PROVE  ~GatedLoad' /\ index_lock' \notin Writers
BY Names DEF LoadersKeepTheLock, GatedLoad, EndsLoad

(* What a load has read is there, or the gap is accounted for.             *)
LEMMA LoadingKeepsCache ==
  ASSUME ServerTypeOK, Requested, RunnerOwned, GateOwned, CacheFollows,
         NEW t \in Writers, EndLoad(t) \/ LoadFails(t), UNCHANGED disk,
         ~GatedLoad' /\ index_lock' \notin Writers,
         GatedLoad \/ ((WatcherReloadDue \/ \E c \in Commands : ReloadDue(c))
                         => (WatcherReloadDue \/ \E c \in Commands : ReloadDue(c))')
  PROVE  CacheFollows'
<1> USE Names
<1>1. CASE LoadFails(t)
  BY <1>1 DEF LoadFails, CacheFollows, Accounted
<1>2. CASE EndLoad(t)
  <2>1. index_lock \in Writers
    BY <1>2 DEF EndLoad, EndsLoad
  <2>2. CASE loaded' = disk
    BY <2>2 DEF CacheFollows
  <2>3. CASE loaded' = Mixed
    BY <1>2, <2>3 DEF EndLoad, CacheFollows, Accounted
  <2>4. CASE loaded' # disk /\ loaded' # Mixed
    <3>1. loaded' = reading /\ ~(reading = disk /\ ~\E w \in Writers : WritesIndex(w))
      BY <1>2, <2>4 DEF EndLoad
    <3>2. ~GatedLoad
      BY <3>1, GatedLoadsAreAlone DEF CacheFollows
    <3>3. Accounted
      BY <2>1, <2>4, <3>1 DEF CacheFollows
    <3>4. behind => behind'
      BY <1>2, <2>4 DEF EndLoad
    <3> QED
      BY <3>2, <3>3, <3>4 DEF CacheFollows, Accounted
  <2> QED
    BY <2>2, <2>3, <2>4
<1> QED
  BY <1>1, <1>2

LEMMA CacheIsKept ==
  /\ ServerTypeOK /\ ClosedGate /\ LoadersKeepTheLock /\ Requested
  /\ RunnerOwned /\ GateOwned /\ CacheFollows /\ [Next]_vars
  => CacheFollows'
<1> SUFFICES ASSUME ServerTypeOK, ClosedGate, LoadersKeepTheLock, Requested,
                    RunnerOwned, GateOwned, CacheFollows, [Next]_vars
             PROVE  CacheFollows'
  OBVIOUS
<1> USE Names
<1>0. /\ kind \in [Commands -> Kinds \cup {"none"}]
      /\ reader \in [Commands -> BeforeOpen \cup {"none", "done"}]
      /\ os \in [Writers -> {"none", "launched", "writing", "ok", "failed"}]
  BY DEF ServerTypeOK
<1>1. ASSUME UNCHANGED <<loaded, disk, reading, behind>>,
             index_lock' = index_lock \/ index_lock' \notin Writers,
             \A c \in Commands : ReloadDue(c) => ReloadDue(c)',
             WatcherReloadDue => WatcherReloadDue',
             GatedLoad' => GatedLoad
      PROVE  CacheFollows'
  BY <1>1 DEF CacheFollows, Accounted
<1>2. ASSUME UNCHANGED <<disk, loaded, behind>>, reading' = disk,
             \A c \in Commands : ReloadDue(c) => ReloadDue(c)',
             WatcherReloadDue => WatcherReloadDue'
      PROVE  CacheFollows'
  BY <1>2 DEF CacheFollows, Accounted
<1>3. ASSUME UNCHANGED <<loaded, disk, reading, behind, kind, reader, os, step, changed>>,
             index_lock' = index_lock \/ index_lock' \notin Writers
      PROVE  CacheFollows'
  BY <1>1, <1>3 DEF ReloadDue, WatcherReloadDue, GatedLoad
<1>4. CASE Save
  BY <1>3, <1>4 DEF Save, gateVars, cacheVars, commandVars, watcherVars
<1>5. ASSUME NEW w \in Writers, ProcessFails(w) \/ ProcessLocks(w) PROVE CacheFollows'
  <2>1. CASE Fail(w)
    <3>1. Alive(w) /\ gateVars' = gateVars /\ cacheVars' = cacheVars /\ UNCHANGED <<kind, reader, step>>
      BY <1>5 DEF ProcessFails, ProcessLocks, Alive, gateVars, cacheVars, commandVars
    <3> QED
      BY <2>1, <3>1, FailingKeepsCache
  <2>2. CASE ~Fail(w)
    <3>1. /\ os[w] = "launched" /\ os'[w] = "writing" /\ \A v \in Writers \ {w} : os'[v] = os[v]
          /\ UNCHANGED <<index_lock, loaded, disk, reading, behind, kind, reader, step, changed>>
      BY <1>0, <1>5, <2>2
         DEF ProcessFails, ProcessLocks, gateVars, cacheVars, commandVars
    <3> QED
      BY <1>1, <3>1 DEF ReloadDue, WatcherReloadDue, GatedLoad
  <2> QED
    BY <2>1, <2>2
<1>6. ASSUME NEW w \in Writers, ProcessSucceeds(w) PROVE CacheFollows'
  <2>1. /\ os[w] = "writing" /\ os'[w] = "ok" /\ \A v \in Writers \ {w} : os'[v] = os[v]
        /\ UNCHANGED <<kind, reader, step, loaded, reading, behind, index_lock>>
    BY <1>0, <1>6 DEF ProcessSucceeds, commandVars, cacheVars, gateVars
  <2>2. \A c \in Commands : ReloadDue(c) => ReloadDue(c)'
    BY <2>1 DEF ReloadDue
  <2>3. GatedLoad' <=> GatedLoad
    BY <2>1 DEF GatedLoad
  <2>4. WritesIndex(w) => ~GatedLoad
    BY GatedLoadsAreAlone
  <2>5. CASE ~WritesIndex(w)
    <3>1. disk' = disk /\ changed' = changed
      BY <1>6, <2>1, <2>5, Zenon DEF ProcessSucceeds, WritesIndex, Alive
    <3> QED
      BY <1>1, <2>1, <2>2, <2>3, <3>1 DEF WatcherReloadDue
  <2>6. CASE w # watcher /\ WritesIndex(w)
    <3>1. w \in Commands /\ kind[w] = "update"
      BY <2>6 DEF WritesIndex, Commands
    <3>2. reader[w] \in BeforeExit
      BY <1>0, <2>1, <3>1 DEF Requested, RunnerOwned, Exited, BeforeOpen, BeforeClear, BeforeExit
    <3>3. ReloadDue(w)'
      BY <2>1, <3>1, <3>2 DEF ReloadDue, BeforeClear
    <3> QED
      BY <2>3, <2>4, <2>6, <3>1, <3>3 DEF CacheFollows, Accounted
  <2>7. CASE w = watcher /\ WritesIndex(w)
    <3>1. step = "updating"
      BY <2>7 DEF WritesIndex
    <3>2. \A c \in Commands : ~OwnsGate(c)
      BY <3>1 DEF GateOwned
    <3>3. \A c \in Commands : ~ReloadDue(c)
      BY <3>2 DEF OwnsGate, ReloadDue, BeforeOpen
    <3>4. Accounted => behind
      BY <2>1, <2>7, <3>1, <3>3 DEF Accounted, WatcherReloadDue
    <3>5. disk' # disk => changed'
      BY <1>6, <2>7, <3>1, Zenon DEF ProcessSucceeds
    <3>6. CASE disk' = disk
      BY <2>1, <2>3, <2>4, <2>7, <3>4, <3>6 DEF CacheFollows, Accounted
    <3>7. CASE disk' # disk
      <4>1. Accounted'
        BY <2>1, <2>7, <3>1, <3>5, <3>7 DEF Accounted, WatcherReloadDue
      <4> QED
        BY <2>3, <2>4, <2>7, <4>1 DEF CacheFollows
    <3> QED
      BY <3>6, <3>7
  <2> QED
    BY <2>5, <2>6, <2>7
<1>15. CASE StopProcess
  <2>1. process \in Writers /\ Alive(process) /\ Fail(process)
    BY <1>15 DEF StopProcess, running, ServerTypeOK, MaybeCommand
  <2>2. gateVars' = gateVars /\ cacheVars' = cacheVars /\ UNCHANGED <<kind, reader, step>>
    BY <1>15 DEF StopProcess, gateVars, cacheVars, commandVars
  <2> QED
    BY <2>1, <2>2, FailingKeepsCache
<1>16. CASE WorkersEnd
  BY <1>3, <1>16 DEF WorkersEnd, gateVars, cacheVars, commandVars, watcherVars
<1>7. ASSUME NEW c \in Commands, Ask(c) PROVE CacheFollows'
  <2>1. \A d \in Commands : ReloadDue(d) => ReloadDue(d)'
    BY <1>0, <1>7 DEF Ask, Requested, ReloadDue, BeforeClear, BeforeExit
  <2>2. GatedLoad' => GatedLoad
    BY <1>0, <1>7 DEF Ask, Requested, GatedLoad, watcherVars
  <2> QED
    BY <1>1, <1>7, <2>1, <2>2
       DEF Ask, gateVars, cacheVars, worldVars, watcherVars, WatcherReloadDue
<1>8. ASSUME NEW c \in Commands, CommandBegins(c) \/ RefusedReopens(c) PROVE CacheFollows'
  BY <1>3, <1>8
     DEF CommandBegins, RefusedReopens, BeginWrite, OpenGate, Sleep, cacheVars, worldVars, watcherVars
<1>9. ASSUME NEW c \in Commands, StartProcess(c) PROVE CacheFollows'
  <2>1. reader[c] = "none" /\ os'[watcher] = os[watcher]
    BY <1>0, <1>9 DEF StartProcess, Requested
  <2>2. \A d \in Commands : ReloadDue(d) => ReloadDue(d)'
    BY <1>0, <1>9, <2>1 DEF StartProcess, ReloadDue, BeforeClear, BeforeExit
  <2>3. GatedLoad' => GatedLoad
    BY <1>0, <1>9 DEF StartProcess, GatedLoad, watcherVars
  <2> QED
    BY <1>1, <1>9, <2>1, <2>2, <2>3
       DEF StartProcess, gateVars, cacheVars, worldVars, watcherVars, WatcherReloadDue
<1>10. ASSUME NEW c \in Commands, ReloadCommand(c) PROVE CacheFollows'
  <2>1. UNCHANGED <<disk, kind, reader, os, step, changed>>
    BY <1>10 DEF ReloadCommand, unloadedVars
  <2>2. /\ \A d \in Commands : ReloadDue(d)' <=> ReloadDue(d)
        /\ WatcherReloadDue' <=> WatcherReloadDue
    BY <2>1 DEF ReloadDue, WatcherReloadDue
  <2>3. CASE StartLoad(c)
    BY <1>2, <2>1, <2>2, <2>3 DEF StartLoad
  <2>4. CASE EndLoad(c) \/ LoadFails(c)
    <3>1. EndsLoad(c)
      BY <2>4 DEF EndLoad, LoadFails
    <3>2. index_lock = c
      BY <3>1 DEF EndsLoad
    <3>3. CASE request[c] = "loading"
      <4>1. reader[c] = "none"
        BY <3>3 DEF Requested
      <4>2. ~GatedLoad' /\ index_lock' \notin Writers
        BY <2>1, <3>1, <3>2, <4>1, OneLoadAtATime DEF LoadersKeepTheLock
      <4> QED
        BY <2>1, <2>2, <2>4, <4>2, LoadingKeepsCache
    <3>4. CASE request[c] # "loading"
      <4>1. StartLoad(c)
        BY <1>10, <3>4 DEF ReloadCommand
      <4> QED
        BY <2>3, <4>1
    <3> QED
      BY <3>3, <3>4
  <2> QED
    BY <1>10, <2>3, <2>4 DEF ReloadCommand
<1>11. ASSUME NEW c \in Commands, OutputReader(c) PROVE CacheFollows'
  <2> USE DEF BeforeOpen, BeforeClear, BeforeExit
  <2>1. ASSUME NEW from, NEW to, ReaderGoes(c, from, to), to # "loading",
               ReloadDue(c) => to \in BeforeClear \cup {"cleared"},
               UNCHANGED <<loaded, disk, reading, behind, kind, os, step, changed, index_lock>>
        PROVE  CacheFollows'
    <3>1. \A d \in Commands : ReloadDue(d) => ReloadDue(d)'
      BY <1>0, <2>1 DEF ReaderGoes, ReloadDue
    <3>2. GatedLoad' => GatedLoad
      BY <1>0, <2>1 DEF ReaderGoes, GatedLoad
    <3> QED
      BY <1>1, <2>1, <3>1, <3>2 DEF WatcherReloadDue
  <2>2. ASSUME UNCHANGED <<gateVars, cacheVars, worldVars, kind, os, watcherVars>>
        PROVE  UNCHANGED <<loaded, disk, reading, behind, kind, os, step, changed, index_lock>>
    BY <2>2 DEF gateVars, cacheVars, worldVars, watcherVars
  <2>3. CASE ReaderBegins(c)
    <3>1. process = c
      BY <2>3 DEF ReaderBegins, ReaderGoes, RunnerOwned
    <3> QED
      BY <2>1, <2>2, <2>3, <3>1 DEF ReaderBegins
  <2>4. CASE ReaderSeesExit(c)
    BY <2>1, <2>2, <2>4 DEF ReaderSeesExit
  <2>5. CASE ReaderTakesFinish(c)
    BY <2>1, <2>2, <2>5 DEF ReaderTakesFinish
  <2>6. CASE ReaderClears(c)
    BY <2>1, <2>2, <2>6 DEF ReaderClears
  <2>7. CASE ReaderReloads(c)
    <3>1. /\ mine[c].process = c /\ mine[c].success = c
          /\ UNCHANGED <<disk, kind, os, step, changed>>
      BY <2>7 DEF ReaderReloads, RunnerOwned, unloadedVars
    <3>2. CASE ReaderGoes(c, "cleared", "loading") /\ StartLoad(c)
      <4>1. \A d \in Commands : ReloadDue(d) => ReloadDue(d)'
        BY <1>0, <3>1, <3>2 DEF ReaderGoes, ReloadDue
      <4> QED
        BY <1>2, <3>1, <3>2, <4>1 DEF StartLoad, WatcherReloadDue
    <3>3. CASE ReaderGoes(c, "loading", "loaded") /\ (EndLoad(c) \/ LoadFails(c))
      <4>1. EndsLoad(c)
        BY <3>3 DEF EndLoad, LoadFails
      <4>2. \A d \in Commands : reader'[d] = "loading" => reader[d] = "loading" /\ c # d
        BY <1>0, <3>3 DEF ReaderGoes
      <4>3. ~GatedLoad' /\ index_lock' \notin Writers
        BY <3>1, <4>1, <4>2, OneLoadAtATime
      <4>4. GatedLoad \/ kind[c] # "update"
        BY <3>3 DEF ReaderGoes, GatedLoad
      <4>5. kind[c] # "update" => \A d \in Commands : ReloadDue(d) => ReloadDue(d)'
        BY <1>0, <3>1, <3>3 DEF ReaderGoes, ReloadDue
      <4>6. WatcherReloadDue => WatcherReloadDue'
        BY <3>1 DEF WatcherReloadDue
      <4> QED
        BY <3>1, <3>3, <4>3, <4>4, <4>5, <4>6, LoadingKeepsCache
    <3>4. CASE os[c] # "ok"
      <4>1. ReaderGoes(c, "cleared", "loaded") /\ UNCHANGED <<gateVars, cacheVars, behind>>
        BY <2>7, <3>1, <3>4 DEF ReaderReloads
      <4> QED
        BY <2>1, <3>1, <3>4, <4>1 DEF ReloadDue, gateVars, cacheVars
    <3> QED
      BY <2>7, <3>1, <3>2, <3>3, <3>4 DEF ReaderReloads
  <2>8. CASE ReaderFinishes(c)
    <3>1. UNCHANGED <<loaded, disk, reading, behind, kind, os, step, changed, index_lock>>
      BY <2>8 DEF ReaderFinishes, OpenGate, gateVars, cacheVars, worldVars, watcherVars
    <3>2. ReaderGoes(c, "loaded", "done") /\ ~ReloadDue(c)
      BY <2>8 DEF ReaderFinishes, ReaderGoes, ReloadDue
    <3> QED
      BY <2>1, <3>1, <3>2
  <2> QED
    BY <1>11, <2>3, <2>4, <2>5, <2>6, <2>7, <2>8 DEF OutputReader
<1>12. CASE Watcher
  <2>1. UNCHANGED <<disk, kind, reader>>
    BY <1>12
       DEF Watcher, WatcherSees, WatcherBegins, WatcherUpdated, WatcherMapped, WatcherReloads,
           WatcherLeaves, worldVars, commandVars, unloadedVars
  <2>2. \A c \in Commands : os'[c] = os[c]
    BY <1>0, <1>12
       DEF Watcher, WatcherSees, WatcherBegins, WatcherUpdated, WatcherMapped, WatcherReloads,
           WatcherLeaves, Launch, unloadedVars
  <2>3. \A c \in Commands : ReloadDue(c) => ReloadDue(c)'
    BY <2>1, <2>2 DEF ReloadDue
  <2>4. ASSUME UNCHANGED <<loaded, reading, behind, index_lock>>, step' # "loading",
               WatcherReloadDue => WatcherReloadDue'
        PROVE  CacheFollows'
    <3>1. GatedLoad' => GatedLoad
      BY <2>1, <2>4 DEF GatedLoad
    <3> QED
      BY <1>1, <2>1, <2>3, <2>4, <3>1
  <2>5. CASE WatcherSees
    BY <2>4, <2>5 DEF WatcherSees, WatcherGoes, WatcherReloadDue, gateVars, worldVars, cacheVars
  <2>6. CASE WatcherBegins
    BY <2>4, <2>6 DEF WatcherBegins, WatcherReloadDue, BeginWrite, Sleep, worldVars, cacheVars
  <2>7. CASE WatcherUpdated
    BY <1>0, <2>4, <2>7
       DEF WatcherUpdated, WatcherGoes, WatcherReloadDue, Launch, gateVars, worldVars, cacheVars
  <2>8. CASE WatcherMapped
    BY <2>4, <2>8 DEF WatcherMapped, WatcherGoes, WatcherReloadDue, gateVars, worldVars, cacheVars
  <2>9. CASE WatcherReloads
    <3>1. CASE WatcherGoes("updated", "loading") /\ StartLoad(watcher)
      BY <1>2, <2>1, <2>3, <3>1 DEF WatcherGoes, StartLoad, WatcherReloadDue
    <3>2. CASE step = "loading" /\ step' # "loading" /\ (EndLoad(watcher) \/ LoadFails(watcher))
      <4>1. EndsLoad(watcher)
        BY <3>2 DEF EndLoad, LoadFails
      <4>2. \A c \in Commands : reader'[c] = "loading" => reader[c] = "loading" /\ watcher # c
        BY <2>1
      <4>3. ~GatedLoad' /\ index_lock' \notin Writers
        BY <3>2, <4>1, <4>2, OneLoadAtATime
      <4>4. GatedLoad
        BY <3>2 DEF GatedLoad
      <4> QED
        BY <2>1, <3>2, <4>3, <4>4, LoadingKeepsCache
    <3> QED
      BY <2>9, <3>1, <3>2 DEF WatcherReloads, WatcherGoes
  <2>10. CASE WatcherLeaves
    BY <2>4, <2>10
       DEF WatcherLeaves, WatcherGoes, WatcherReloadDue, OpenGate, worldVars, cacheVars
  <2> QED
    BY <1>12, <2>5, <2>6, <2>7, <2>8, <2>9, <2>10 DEF Watcher
<1>13. ASSUME NEW r \in Readers, ToolCall(r) PROVE CacheFollows'
  BY <1>3, <1>13
     DEF ToolCall, EnterRead, LeaveRead, Sleep, worldVars, cacheVars, commandVars, watcherVars
<1>14. CASE UNCHANGED vars
  BY <1>3, <1>14 DEF vars, gateVars, worldVars, cacheVars, commandVars, watcherVars
<1> QED
  BY <1>4, <1>5, <1>6, <1>7, <1>8, <1>9, <1>10, <1>11, <1>12, <1>13, <1>14, <1>15, <1>16
     DEF Next, ServerStep, Process, Request

(* Who owns the runner and the gate holds from the start and through every
   step.                                                                   *)
THEOREM ServerInvariance == Spec => []ServerInv
<1>1. Init => ServerInv
  <2> SUFFICES ASSUME Init PROVE ServerInv
    OBVIOUS
  <2> USE Names DEF Init, GateInit
  <2>1. ServerTypeOK
    BY DEF ServerTypeOK, Nothing, MaybeCommand
  <2>2. ClosedGate /\ LoadersKeepTheLock /\ Requested
    BY DEF ClosedGate, LoadersKeepTheLock, Requested
  <2>3. RunnerOwned
    BY DEF RunnerOwned, BeforeOpen, BeforeClear, BeforeExit
  <2>4. GateOwned
    BY DEF GateOwned, OwnsGate, BeforeOpen, BeforeClear, BeforeExit
  <2>5. CacheFollows
    BY GateAssumption DEF CacheFollows, GatedLoad
  <2> QED
    BY <2>1, <2>2, <2>3, <2>4, <2>5 DEF ServerInv
<1>2. ServerInv /\ [Next]_vars => ServerInv'
  BY TypeIsKept, GateIsKept, LockIsKept, RequestIsKept, RunnerIsKept, OwnershipIsKept, CacheIsKept,
     OvertakingIsNoted DEF ServerInv
<1> QED
  BY <1>1, <1>2, PTL DEF Spec

(* The runner runs one command at a time unless one was overtaken, in its
   last moments, by the next (IndexServer.OneCommandUnlessOvertaken).      *)
THEOREM OneCommand == Spec => []OneCommandUnlessOvertaken
<1>1. ServerInv => OneCommandUnlessOvertaken
  BY AliveIsRunning DEF ServerInv, OneCommandUnlessOvertaken, OneAlive
<1> QED
  BY <1>1, ServerInvariance, PTL

(* No tool call reads an index that a process of this server is writing
   (IndexServer.NoCallDuringUpdate).                                       *)
THEOREM CallsAndUpdatesExclude == Spec => []NoCallDuringUpdate
<1>1. ServerInv => NoCallDuringUpdate
  BY WritersCloseTheGate DEF NoCallDuringUpdate, ServerInv, GateOwned
<1> QED
  BY <1>1, ServerInvariance, PTL

(* The reload after an update finds no other process writing
   (IndexServer.LoadsWholeIndex).                                          *)
THEOREM ReloadsReadWholeFiles == Spec => []LoadsWholeIndex
<1>1. ServerInv => LoadsWholeIndex
  BY GatedLoadsAreAlone DEF ServerInv, LoadsWholeIndex, GatedLoad
<1> QED
  BY <1>1, ServerInvariance, PTL

(* No successful update is forgotten: whenever commands and watcher rest,
   the cache shows what is on disk, unless a process that failed had written
   files or a reload failed and none has succeeded since
   (IndexServer.CacheCurrentUnlessMishap).                                 *)
THEOREM CacheIsCurrent == Spec => []CacheCurrentUnlessMishap
<1>1. ServerInv => CacheCurrentUnlessMishap
  BY DEF ServerInv, CacheFollows, Accounted, CacheCurrentUnlessMishap, Idle, ReloadDue, WatcherReloadDue,
         BeforeClear, BeforeExit
<1> QED
  BY <1>1, ServerInvariance, PTL

(* Nobody sleeps at the gate without a writer that will wake it, not even
   when commands overtake each other (IndexGate.SleepersHaveWaker).        *)
THEOREM NoLostWakeup == Spec => []SleepersHaveWaker
<1>1. ServerInv => SleepersHaveWaker
  BY DEF ServerInv, ClosedGate, SleepersHaveWaker
<1> QED
  BY <1>1, ServerInvariance, PTL

=============================================================================
