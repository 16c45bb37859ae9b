---------------------------- MODULE IndexServer ----------------------------
(***************************************************************************)
(* The MCP server around its index: tool calls behind the gate             *)
(* (IndexGate), management commands run as child processes by              *)
(* ManagementCommandRunner, one output-reader thread per command, and the  *)
(* built-in watcher (ServerIndexWatcher) that runs updates of its own.     *)
(*                                                                         *)
(* A version number stands for a structure of the sources, as the cached   *)
(* manifest, modules and module map show it; disk is the version the index *)
(* files are derived from, loaded the one in the server's cache, and Mixed *)
(* stands for files of which some are older than others. How a child       *)
(* process turns one into the other is ProjectIndexUpdate.                 *)
(***************************************************************************)
EXTENDS IndexGate, Naturals

CONSTANTS
  watcher,     (* the thread of the built-in watcher                       *)
  Kinds,       (* management commands in use                               *)
  NoCommand,
  Mixed,       (* index files, or a cache, of no one version               *)
  NoRead,      (* no load is under way                                     *)
  MaxSaves,    (* bound: saves of the sources                              *)
  MaxFailures  (* bound: processes that fail or are stopped, failed loads  *)

(***************************************************************************)
(* update      build, update and fast_update: rewrite index.sqlite         *)
(* module_map  rewrites module_map.json only, so the gate stays open       *)
(* reload      reload_index, no child process                              *)
(***************************************************************************)
ASSUME ServerAssumption ==
  /\ watcher \in Writers /\ NoCommand \notin Writers
  /\ Kinds \subseteq {"update", "module_map", "reload"}
  /\ MaxSaves \in Nat /\ MaxFailures \in Nat
  /\ Mixed \notin Nat /\ NoRead \notin Nat \cup {Mixed}

(* One management request, with the process and reader thread it starts.   *)
Commands == Writers \ {watcher}

VARIABLES
  source, disk, loaded,
  reading,         (* disk as it was when files began to be loaded, or     *)
                   (* NoRead                                               *)
  behind,          (* the cache may be wrong though no reload is due       *)
  kind, request,   (* per command: what was asked, how far the request is  *)
  os,              (* child process of a command, or of the watcher        *)
  held,            (* stopped commands whose pool workers live on          *)
  failures,        (* number of failures so far                            *)
  process,         (* ManagementCommandRunner.process                      *)
  on_success, on_finish,  (* the command the callbacks belong to           *)
  reader,          (* per command, where its output-reader thread is       *)
  mine,            (* what that thread has read of the runner              *)
  step, snapshot, pending, changed,   (* locals of the watcher             *)
  overtaken        (* history: start_process() took the runner over from a *)
                   (* command whose reader thread had not cleared it yet   *)

cacheVars == <<loaded, reading>>
worldVars == <<source, disk, behind, held, failures>>
runnerVars == <<process, on_success, on_finish>>
commandVars == <<kind, request, reader, mine>>
watcherVars == <<step, snapshot, pending, changed>>
vars == <<gateVars, worldVars, cacheVars, runnerVars, commandVars, os, watcherVars, overtaken>>

Nothing == [process |-> NoCommand, success |-> NoCommand, finish |-> NoCommand]

Init ==
  /\ GateInit
  /\ source = 0 /\ disk = 0 /\ loaded = 0 /\ reading = NoRead /\ failures = 0
  /\ behind = FALSE /\ held = {}
  /\ kind = [c \in Commands |-> "none"]
  /\ request = [c \in Commands |-> "unsent"]
  /\ reader = [c \in Commands |-> "none"]
  /\ mine = [c \in Commands |-> Nothing]
  /\ os = [w \in Writers |-> "none"]
  /\ process = NoCommand /\ on_success = NoCommand /\ on_finish = NoCommand
  /\ step = "polling" /\ snapshot = 0 /\ pending = 0 /\ changed = FALSE
  /\ overtaken = FALSE

(***************************************************************************)
(* Child processes                                                         *)
(***************************************************************************)
Alive(w) == os[w] \in {"launched", "writing"}
(* Wrong variants, here and below, show that the properties notice them: a
   reader thread that does not wait for the process, ...                   *)
ExitedOrNot(w) == os[w] # "none"

Exited(w) == os[w] \in {"ok", "failed"}
(* Whether the process of w rewrites the database. *)
WritesIndex(w) ==
  Alive(w) /\ IF w = watcher THEN step = "updating" ELSE kind[w] = "update"

Save ==
  /\ source < MaxSaves
  /\ source' = source + 1
  /\ UNCHANGED <<gateVars, disk, behind, held, failures, cacheVars, runnerVars, commandVars, os,
                 watcherVars, overtaken>>

(* What an update of w can make of the index files. fast_update leaves out
   files that are not indexed; the watcher's update covers what the watcher
   has seen, and later saves as far as they are to the same files. A run
   after a broken one may take the half-written for done. *)
Updated(w) ==
  IF disk = Mixed THEN {source, Mixed}
  ELSE {v \in disk..source : w = watcher => v >= pending}

(* It ends with an error, before it wrote anything or after it wrote some or
   all of its files. Nobody reloads them. *)
Fail(w) ==
  /\ os' = [os EXCEPT ![w] = "failed"]
  /\ \E wrote \in IF os[w] = "writing" THEN BOOLEAN ELSE {FALSE} :
       /\ disk' \in IF wrote /\ WritesIndex(w) THEN Updated(w) \cup {Mixed} ELSE {disk}
       /\ behind' = (behind \/ wrote \/ (w = watcher /\ step = "mapping"))
  /\ UNCHANGED <<source, changed, overtaken>>

(* The update lock is an open file, and the pool workers of a stopped
   process have it open as well. *)
UpdateLockBusy == held # {} \/ \E v \in Writers : os[v] = "writing"

(* It takes the update lock, or exits when the lock is still busy after
   thirty seconds; to wait is to take this step later. *)
ProcessLocks(w) ==
  /\ os[w] = "launched"
  /\ IF UpdateLockBusy
     THEN Fail(w)
     ELSE os' = [os EXCEPT ![w] = "writing"] /\ UNCHANGED <<source, disk, behind, changed, overtaken>>
  /\ UNCHANGED <<gateVars, held, failures, cacheVars, runnerVars, commandVars, step, snapshot,
                 pending>>

(* It succeeds, and tells the watcher whether it had anything to do.       *)
ProcessSucceeds(w) ==
  /\ os[w] = "writing"
  /\ os' = [os EXCEPT ![w] = "ok"]
  /\ disk' \in IF WritesIndex(w) THEN Updated(w) ELSE {disk}
  /\ IF w = watcher /\ step = "updating"
     THEN changed' \in {disk' # disk, disk' # disk \/ disk' = Mixed}
     ELSE UNCHANGED changed
  /\ UNCHANGED <<gateVars, source, behind, held, failures, cacheVars, runnerVars, commandVars,
                 step, snapshot, pending, overtaken>>

(* It exits with an error, and its pool with it.                           *)
ProcessFails(w) ==
  /\ Alive(w) /\ failures < MaxFailures
  /\ failures' = failures + 1
  /\ Fail(w)
  /\ UNCHANGED <<gateVars, held, cacheVars, runnerVars, commandVars, step, snapshot, pending>>

running == process # NoCommand /\ Alive(process)

(* stop_process() terminates the process alone: the workers it has forked
   for a build or an update may wait for work for ever, with its output pipe
   and its lock file open. *)
StopProcess ==
  /\ running /\ failures < MaxFailures
  /\ failures' = failures + 1
  /\ Fail(process)
  /\ held' \in {held} \cup
              (IF os[process] = "writing" /\ kind[process] = "update" THEN {held \cup {process}} ELSE {})
  /\ UNCHANGED <<gateVars, cacheVars, runnerVars, commandVars, step, snapshot, pending>>

(* Somebody ends them.                                                     *)
WorkersEnd ==
  /\ \E c \in held : held' = held \ {c}
  /\ UNCHANGED <<gateVars, source, disk, behind, failures, cacheVars, runnerVars, commandVars, os,
                 watcherVars, overtaken>>

(***************************************************************************)
(* Management requests: handle_management_command()                        *)
(***************************************************************************)
Ask(c) ==
  /\ request[c] = "unsent"
  /\ \E k \in Kinds : kind' = [kind EXCEPT ![c] = k]
  /\ request' = [request EXCEPT ![c] = "asked"]
  /\ UNCHANGED <<gateVars, worldVars, cacheVars, runnerVars, reader, mine, os, watcherVars, overtaken>>

(* A command that writes the database waits at the gate first. *)
CommandBegins(c) ==
  /\ request[c] = "asked" /\ kind[c] = "update"
  /\ BeginWrite(c)
  /\ request' = IF at'[c] = "writing" THEN [request EXCEPT ![c] = "begun"] ELSE request
  /\ UNCHANGED <<worldVars, cacheVars, runnerVars, kind, reader, mine, os, watcherVars, overtaken>>

(* start_process(), under the runner's lock. A refused command that closed
   the gate has to open it again. *)
StartProcess(c) ==
  /\ \/ request[c] = "begun"
     \/ request[c] = "asked" /\ kind[c] = "module_map"
  /\ IF running
     THEN /\ request' = [request EXCEPT ![c] = IF kind[c] = "update" THEN "refused" ELSE "answered"]
          /\ UNCHANGED <<runnerVars, os, reader, overtaken>>
     ELSE /\ request' = [request EXCEPT ![c] = "answered"]
          /\ process' = c
          /\ on_success' = c
          /\ on_finish' = IF kind[c] = "update" THEN c ELSE NoCommand
          /\ os' = [os EXCEPT ![c] = "launched"]
          /\ reader' = [reader EXCEPT ![c] = "begin"]
          /\ overtaken' = (overtaken \/ process # NoCommand)
  /\ UNCHANGED <<gateVars, worldVars, cacheVars, kind, mine, watcherVars>>

(* ... a refusal that leaves the gate shut, ...                            *)
RefusedStays(c) ==
  /\ request[c] = "refused"
  /\ request' = [request EXCEPT ![c] = "answered"]
  /\ UNCHANGED <<gateVars, worldVars, cacheVars, runnerVars, kind, reader, mine, os, watcherVars,
                 overtaken>>

(* The except clause around start_process(). *)
RefusedReopens(c) ==
  /\ request[c] = "refused"
  /\ OpenGate(c)
  /\ request' = [request EXCEPT ![c] = "answered"]
  /\ UNCHANGED <<worldVars, cacheVars, runnerVars, kind, reader, mine, os, watcherVars, overtaken>>

(***************************************************************************)
(* reload_index_cache_from_disk(), from a thread t outside the gate: the   *)
(* lock is kept while the files are read.                                  *)
(***************************************************************************)
StartLoad(t) ==
  /\ index_lock = NoThread
  /\ index_lock' = t
  /\ reading' = disk
  /\ UNCHANGED <<index_write_active, sleeping, at, loaded, behind, failures>>

EndsLoad(t) ==
  /\ index_lock = t
  /\ index_lock' = NoThread
  /\ reading' = NoRead
  /\ UNCHANGED <<index_write_active, sleeping, at>>

(* Files that are written while they are read give some of each.           *)
EndLoad(t) ==
  /\ EndsLoad(t)
  /\ loaded' \in IF reading = disk /\ ~\E w \in Writers : WritesIndex(w)
                 THEN {disk} ELSE {reading, disk, Mixed}
  /\ behind' = (loaded' = Mixed \/ (behind /\ loaded' # disk))
  /\ UNCHANGED failures

(* A file that cannot be read or parsed: the cache stays as it was, or has a
   new index without a module map. *)
LoadFails(t) ==
  /\ EndsLoad(t)
  /\ failures < MaxFailures /\ failures' = failures + 1
  /\ loaded' \in {loaded, Mixed}
  /\ behind' = TRUE

(* What a load leaves alone.                                               *)
unloadedVars ==
  <<source, disk, held, runnerVars, kind, mine, os, snapshot, pending, changed, overtaken>>

ReloadCommand(c) ==
  /\ kind[c] = "reload"
  /\ \/ /\ request[c] = "asked" /\ StartLoad(c)
        /\ request' = [request EXCEPT ![c] = "loading"]
     \/ /\ request[c] = "loading" /\ (EndLoad(c) \/ LoadFails(c))
        /\ request' = [request EXCEPT ![c] = "answered"]
  /\ UNCHANGED <<unloadedVars, reader, step>>

(***************************************************************************)
(* The output reader of a command: _read_process_output()                  *)
(***************************************************************************)
ReaderGoes(c, from, to) == reader[c] = from /\ reader' = [reader EXCEPT ![c] = to]

(* process = self.process, without the lock. *)
ReaderBegins(c) ==
  /\ ReaderGoes(c, "begin", IF process = NoCommand THEN "done" ELSE "output")
  /\ mine' = [mine EXCEPT ![c].process = process]
  /\ UNCHANGED <<gateVars, worldVars, cacheVars, runnerVars, kind, request, os, watcherVars, overtaken>>

(* The output pipe is closed: by the process, and by every worker it has
   forked. Then process.wait(), and on_success = self.on_success, without the
   lock. *)
ReaderSeesExit(c) ==
  /\ ReaderGoes(c, "output", "exited")
  /\ mine[c].process \notin held
  /\ Exited(mine[c].process)
  /\ mine' = [mine EXCEPT ![c].success = on_success]
  /\ UNCHANGED <<gateVars, worldVars, cacheVars, runnerVars, kind, request, os, watcherVars, overtaken>>

(* on_finish = self.on_finish, without the lock. *)
ReaderTakesFinish(c) ==
  /\ ReaderGoes(c, "exited", "taken")
  /\ mine' = [mine EXCEPT ![c].finish = on_finish]
  /\ UNCHANGED <<gateVars, worldVars, cacheVars, runnerVars, kind, request, os, watcherVars, overtaken>>

(* Under the runner's lock. *)
ReaderClears(c) ==
  /\ ReaderGoes(c, "taken", "cleared")
  /\ process' = NoCommand /\ on_success' = NoCommand /\ on_finish' = NoCommand
  /\ UNCHANGED <<gateVars, worldVars, cacheVars, kind, request, mine, os, watcherVars, overtaken>>

(* ... a successful command that does not reload, ...                      *)
ReaderSkipsReload(c) ==
  /\ ReaderGoes(c, "cleared", "loaded")
  /\ UNCHANGED <<gateVars, cacheVars, worldVars, runnerVars, kind, request, mine, os, watcherVars,
                 overtaken>>

(* A reload that fails is reported, and the thread goes on.                *)
ReaderReloads(c) ==
  /\ reader[c] \in {"cleared", "loading"}
  /\ IF os[mine[c].process] = "ok" /\ mine[c].success # NoCommand
     THEN \/ ReaderGoes(c, "cleared", "loading") /\ StartLoad(c)
          \/ ReaderGoes(c, "loading", "loaded") /\ (EndLoad(c) \/ LoadFails(c))
     ELSE /\ ReaderGoes(c, "cleared", "loaded")
          /\ UNCHANGED <<gateVars, cacheVars, behind, failures>>
  /\ UNCHANGED <<unloadedVars, request, step>>

ReaderFinishes(c) ==
  /\ ReaderGoes(c, "loaded", "done")
  /\ IF mine[c].finish = NoCommand THEN UNCHANGED gateVars ELSE OpenGate(mine[c].finish)
  /\ mine' = [mine EXCEPT ![c] = Nothing]
  /\ UNCHANGED <<worldVars, cacheVars, runnerVars, kind, request, os, watcherVars, overtaken>>

(***************************************************************************)
(* The built-in watcher: ServerIndexWatcher._run() and _run_update()       *)
(***************************************************************************)
WatcherGoes(from, to) == step = from /\ step' = to
Launch == os' = [os EXCEPT ![watcher] = "launched"]

(* A change has been seen and the debounce time has passed. *)
WatcherSees ==
  /\ WatcherGoes("polling", "knocking")
  /\ source # snapshot
  /\ pending' = source
  /\ UNCHANGED <<gateVars, worldVars, cacheVars, runnerVars, commandVars, os, snapshot, changed,
                 overtaken>>

WatcherBegins ==
  /\ step = "knocking"
  /\ BeginWrite(watcher)
  /\ IF at'[watcher] = "writing" THEN step' = "updating" /\ Launch ELSE UNCHANGED <<step, os>>
  /\ UNCHANGED <<worldVars, cacheVars, runnerVars, commandVars, snapshot, pending, changed, overtaken>>

(* ... and a watcher that forgets a change whose update failed.            *)
WatcherUpdatedOnce ==
  /\ Exited(watcher)
  /\ \/ WatcherGoes("updating", "leaving") /\ (os[watcher] = "failed" \/ ~changed)
     \/ WatcherGoes("updating", "updated") /\ os[watcher] = "ok" /\ changed
  /\ snapshot' = pending
  /\ UNCHANGED <<gateVars, worldVars, cacheVars, runnerVars, commandVars, os, pending, changed,
                 overtaken>>

(* A failed update is tried again when the next poll sees the same change.
   The module map is rebuilt unless it is switched off or the structure is
   unchanged. *)
WatcherUpdated ==
  /\ Exited(watcher)
  /\ \/ /\ os[watcher] = "failed"
        /\ WatcherGoes("updating", "leaving")
        /\ UNCHANGED <<os, snapshot>>
     \/ /\ os[watcher] = "ok" /\ ~changed
        /\ WatcherGoes("updating", "leaving")
        /\ snapshot' = pending /\ UNCHANGED os
     \/ /\ os[watcher] = "ok" /\ changed
        /\ WatcherGoes("updating", "mapping")
        /\ Launch /\ UNCHANGED snapshot
     \/ /\ os[watcher] = "ok" /\ changed
        /\ WatcherGoes("updating", "updated")
        /\ snapshot' = pending /\ UNCHANGED os
  /\ UNCHANGED <<gateVars, worldVars, cacheVars, runnerVars, commandVars, pending, changed, overtaken>>

WatcherMapped ==
  /\ Exited(watcher)
  /\ \/ /\ os[watcher] = "failed"
        /\ WatcherGoes("mapping", "leaving")
        /\ UNCHANGED snapshot
     \/ /\ os[watcher] = "ok"
        /\ WatcherGoes("mapping", "updated")
        /\ snapshot' = pending
  /\ UNCHANGED <<gateVars, worldVars, cacheVars, runnerVars, commandVars, os, pending, changed,
                 overtaken>>

(* A reload that fails ends the thread.                                    *)
WatcherReloads ==
  /\ \/ WatcherGoes("updated", "loading") /\ StartLoad(watcher)
     \/ WatcherGoes("loading", "leaving") /\ EndLoad(watcher)
     \/ WatcherGoes("loading", "failing") /\ LoadFails(watcher)
  /\ UNCHANGED <<unloadedVars, request, reader>>

WatcherLeaves ==
  /\ WatcherGoes("leaving", "polling") \/ WatcherGoes("failing", "over")
  /\ OpenGate(watcher)
  /\ UNCHANGED <<worldVars, cacheVars, runnerVars, commandVars, os, snapshot, pending, changed,
                 overtaken>>

(***************************************************************************)
(* Tool calls: dispatch()                                                  *)
(***************************************************************************)
ToolCall(r) ==
  /\ EnterRead(r) \/ LeaveRead(r)
  /\ UNCHANGED <<worldVars, cacheVars, runnerVars, commandVars, os, watcherVars, overtaken>>

Process(w) == ProcessLocks(w) \/ ProcessSucceeds(w)

Request(c) ==
  CommandBegins(c) \/ StartProcess(c) \/ RefusedReopens(c) \/ ReloadCommand(c)

OutputReader(c) ==
  \/ ReaderBegins(c) \/ ReaderSeesExit(c) \/ ReaderTakesFinish(c) \/ ReaderClears(c)
  \/ ReaderReloads(c) \/ ReaderFinishes(c)

Watcher ==
  \/ WatcherSees \/ WatcherBegins \/ WatcherUpdated \/ WatcherMapped \/ WatcherReloads
  \/ WatcherLeaves

ServerStep ==
  \/ \E w \in Writers : Process(w)
  \/ \E c \in Commands : Request(c) \/ OutputReader(c)
  \/ Watcher

Next ==
  \/ Save
  \/ \E w \in Writers : ProcessFails(w)
  \/ StopProcess \/ WorkersEnd
  \/ \E c \in Commands : Ask(c)
  \/ ServerStep
  \/ \E r \in Readers : ToolCall(r)

(* Child processes end, handlers return, and the server's threads get on
   together: tool calls do not keep all of them from the lock for ever.
   Nobody has to save, ask or call. *)
Fairness ==
  /\ WF_vars(\E w \in Writers : ProcessSucceeds(w))
  /\ SF_vars(ServerStep)
  /\ \A r \in Readers : WF_vars(ToolCall(r) /\ at[r] = "reading")

Spec == Init /\ [][Next]_vars /\ Fairness

(***************************************************************************)
(* Properties                                                              *)
(***************************************************************************)
OneAlive == \A c, d \in Commands : Alive(c) /\ Alive(d) => c = d

(* "A management command is already running": at most one child process of
   the runner is alive. *)
OneCommandAtATime == OneAlive

(* The same as long as no command was started between the exit of another
   and the moment its reader thread cleared the runner. *)
OneCommandUnlessOvertaken == ~overtaken => OneAlive

(* No tool call is served while a build or an update that the server
   started is alive: its gate opens only after the process has ended. *)
NoCallDuringUpdate ==
  ~overtaken =>
    \A r \in Readers, w \in Writers : ~(at[r] = "reading" /\ WritesIndex(w))

(* Reloads after an update, of a command or of the watcher, read whole
   files: nothing the server started is writing them. Reloads that come
   without the gate (reload_index, and the one after module_map) make no
   such promise. *)
LoadsWholeIndex ==
  ~overtaken /\ (\/ step = "loading"
                \/ \E c \in Commands : reader[c] = "loading" /\ kind[c] = "update")
    => \A w \in Writers : ~WritesIndex(w)

Idle ==
  /\ step \in {"polling", "over"}
  /\ \A c \in Commands : request[c] \in {"unsent", "answered"} /\ reader[c] \in {"none", "done"}

(* Between commands and updates the cache shows what is on disk, except
   after a process that failed or was stopped when it had already written
   files, a module map that the watcher could not rebuild, or a reload that
   failed; and after each of them again once a later reload has read whole
   files. No callback must have been lost. *)
CacheCurrentUnlessMishap == ~overtaken /\ Idle => loaded = disk \/ behind

(* Every writer of the database lets the tool calls in again, however its
   process ended, unless pool workers outlive it and keep its output open. *)
GateReopens == index_write_active ~> (~index_write_active \/ overtaken \/ held # {})

(* When the sources come to rest the cache ends up showing them, although
   updates failed, found the update lock busy or ran next to commands, as
   long as the watcher's thread lives and nothing is left behind by the
   failures that CacheCurrentUnlessMishap names. *)
WatcherCatchesUp == <>[](loaded = source \/ behind \/ overtaken \/ held # {} \/ step = "over")
=============================================================================
