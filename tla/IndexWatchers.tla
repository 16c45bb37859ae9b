---------------------------- MODULE IndexWatchers ----------------------------
(***************************************************************************)
(* The watchers of one index: those that the server starts and stops on     *)
(* request (ServerIndexWatcher, code_index_mcp_server.py) and the one that   *)
(* runs on its own (watch_project_index.py). Each is a thread that polls,    *)
(* waits for changes to settle, and runs an update for what it has seen.    *)
(*                                                                         *)
(* The watcher lock is IndexFileLock's, taken as one step here; what an      *)
(* update does to the index is ProjectIndexUpdate's, taken as one reading    *)
(* of the sources. (A save during that reading is that module's subject.)   *)
(***************************************************************************)
EXTENDS Integers, FiniteSets

CONSTANTS
  ServerWatchers,   \* the ServerIndexWatcher objects that may be made
  Standalone,       \* the watchers that run on their own
  Managers,         \* the threads of the server that handle requests
  Files,            \* source files
  None,
  MaxSaves,         \* bound on saves of files and documents
  MaxFailures       \* bound on updates that fail

ASSUME WatcherAssumption ==
  /\ None \notin ServerWatchers \union Standalone
  /\ MaxSaves \in Nat /\ MaxFailures \in Nat

Watchers == ServerWatchers \union Standalone

VARIABLES
  disk,        \* for each file the time of its last save, negative if it deleted it
  docs,        \* the time of the last save of an orientation document
  clock,       \* the number of saves
  index,       \* what the index shows of each file, as in disk
  indexDocs,   \* and of the documents
  lock,        \* the watcher that holds the watcher lock, or None
  watcher,     \* what each watcher does and has seen
  stopEvent,   \* the watchers whose stop event is set
  registered,  \* CodeIndexTools.watcher
  manager,     \* what each request does
  failures,    \* the number of failed updates
  first,       \* history: the files each watcher found when it began
  unknown,     \* history: files that an update was told of and did not know
  hasty        \* history: watchers stopped between their lock object and their thread

sources == <<disk, docs, clock>>
indexed == <<index, indexDocs>>
history == <<first, unknown, hasty>>
vars == <<sources, indexed, lock, watcher, stopEvent, registered, manager, failures,
          history>>

Working == {"scanning", "refreshing", "polling", "settling", "updating"}

-----------------------------------------------------------------------------
(* Snapshots hold the stamps of the files that exist.                       *)

Exists(time) == time > 0
Entry(time) == IF Exists(time) THEN time ELSE 0
Age(time) == IF time < 0 THEN -time ELSE time

(* diff_snapshots: what the updater is told. Added and deleted files make   *)
(* it discover all files, otherwise it gets the list of the modified ones.  *)
Diff(before, after) ==
  LET differ == {f \in Files : Entry(before[f]) # Entry(after[f])}
  IN [changed  |-> differ # {},
      discover |-> \E f \in differ : Exists(before[f]) # Exists(after[f]),
      modified |-> {f \in differ : Exists(before[f]) /\ Exists(after[f])}]

NoDiff == [changed |-> FALSE, discover |-> FALSE, modified |-> {}]

NoSnapshot == [f \in Files |-> 0]

Unborn == [at |-> "new", seen |-> NoSnapshot, seenDocs |-> 0,
           pending |-> NoSnapshot, pendingDocs |-> 0, diff |-> NoDiff]

Init ==
  /\ disk \in [Files -> {0, 1}] /\ docs = 1 /\ clock = 1
  /\ index = disk /\ indexDocs = docs
  /\ lock = None
  /\ watcher = [w \in Watchers |-> Unborn]
  /\ stopEvent = {} /\ registered = None
  /\ manager = [m \in Managers |-> [at |-> "idle", of |-> None]]
  /\ failures = 0
  /\ first = [w \in Watchers |-> NoSnapshot] /\ unknown = {} /\ hasty = {}

-----------------------------------------------------------------------------
(* The developer, and updates that other commands run.                      *)

Save(f) ==
  /\ clock <= MaxSaves
  /\ \E sign \in {1, -1} :
       /\ sign = -1 => Exists(disk[f])
       /\ disk' = [disk EXCEPT ![f] = sign * (clock + 1)]
  /\ clock' = clock + 1
  /\ UNCHANGED <<docs, indexed, lock, watcher, stopEvent, registered, manager, failures,
                 history>>

SaveDocs ==
  /\ clock <= MaxSaves
  /\ docs' = clock + 1 /\ clock' = clock + 1
  /\ UNCHANGED <<disk, indexed, lock, watcher, stopEvent, registered, manager, failures,
                 history>>

UpdateByCommand ==
  /\ index' = disk /\ indexDocs' = docs
  /\ UNCHANGED <<sources, lock, watcher, stopEvent, registered, manager, failures, history>>

-----------------------------------------------------------------------------
(* The thread of a watcher.                                                 *)

At(w, place) == watcher[w].at = place
Goes(w, place) == watcher' = [watcher EXCEPT ![w].at = place]

(* The first snapshot; the documents are refreshed if the index shows others. *)
DocsMatch == indexDocs = docs

Scan(w) ==
  /\ At(w, "scanning")
  /\ watcher' = [watcher EXCEPT ![w].seen = disk, ![w].seenDocs = docs,
                   ![w].at = IF DocsMatch THEN "polling" ELSE "refreshing"]
  /\ first' = [first EXCEPT ![w] = disk]
  /\ UNCHANGED <<sources, indexed, lock, stopEvent, registered, manager, failures, unknown,
                 hasty>>

(* The lock is released however the thread ends. *)
Forgotten(w) == watcher' = [watcher EXCEPT ![w] = [Unborn EXCEPT !.at = "over"]]

LeaveLocked(w) == Forgotten(w) /\ UNCHANGED lock

End(w) ==
  /\ Forgotten(w)
  /\ lock' = IF lock = w THEN None ELSE lock

Refreshed(w) ==
  /\ At(w, "refreshing")
  /\ indexDocs' = docs
  /\ Goes(w, "polling")
  /\ UNCHANGED <<sources, index, lock, stopEvent, registered, manager, failures, history>>

(* ... and if that fails it ends. *)
RefreshFails(w) ==
  /\ At(w, "refreshing") /\ failures < MaxFailures
  /\ failures' = failures + 1
  /\ End(w)
  /\ UNCHANGED <<sources, indexed, stopEvent, registered, manager, history>>

Stopped(w) == w \in stopEvent

Pending(w, diff) ==
  watcher' = [watcher EXCEPT ![w].at = "settling", ![w].pending = disk,
                ![w].pendingDocs = docs, ![w].diff = diff]

Sees(w) ==
  LET diff == Diff(watcher[w].seen, disk)
  IN /\ At(w, "polling") /\ ~Stopped(w)
     /\ diff.changed \/ docs # watcher[w].seenDocs
     /\ Pending(w, diff)
     /\ UNCHANGED <<sources, indexed, lock, stopEvent, registered, manager, failures,
                    history>>

(* More changes while it waits: it starts to wait again, and what the update *)
(* will be told is found from the last indexed snapshot again.              *)
FirstDiff(w) == watcher[w].diff
WholeDiff(w) == Diff(watcher[w].seen, disk)

SeesMore(w) ==
  /\ At(w, "settling") /\ ~Stopped(w)
  /\ Diff(watcher[w].pending, disk).changed \/ docs # watcher[w].pendingDocs
  /\ Pending(w, WholeDiff(w))
  /\ UNCHANGED <<sources, indexed, lock, stopEvent, registered, manager, failures, history>>

(* A poll without further changes, late enough, ends the wait.              *)
Settled(w) ==
  /\ At(w, "settling") /\ ~Stopped(w)
  /\ ~Diff(watcher[w].pending, disk).changed /\ docs = watcher[w].pendingDocs
  /\ Goes(w, "updating")
  /\ UNCHANGED <<sources, indexed, lock, stopEvent, registered, manager, failures, history>>

(* The update. With a list it looks at the files of the index only: those   *)
(* of the list, and all that no longer exist.                              *)
IndexAfter(diff) ==
  [f \in Files |->
     IF diff.discover \/ (Exists(index[f]) /\ (f \in diff.modified \/ ~Exists(disk[f])))
     THEN disk[f] ELSE index[f]]

Updates(w) ==
  LET diff == watcher[w].diff
  IN /\ index' = IF diff.changed THEN IndexAfter(diff) ELSE index
     /\ indexDocs' = docs
     /\ unknown' = IF diff.changed /\ ~diff.discover
                   THEN unknown \union {f \in diff.modified : ~Exists(index[f])} ELSE unknown

Polls(w, seen, seenDocs) ==
  watcher' = [watcher EXCEPT ![w] =
    [Unborn EXCEPT !.at = "polling", !.seen = seen, !.seenDocs = seenDocs]]

(* The new snapshot. A file that is missing in both has no entry in either,  *)
(* and keeps the time at which it was first missed.                        *)
Indexed(w) ==
  [f \in Files |-> IF Entry(watcher[w].pending[f]) = Entry(watcher[w].seen[f])
                   THEN watcher[w].seen[f] ELSE watcher[w].pending[f]]

Updated(w) ==
  /\ At(w, "updating")
  /\ Updates(w)
  /\ Polls(w, Indexed(w), watcher[w].pendingDocs)
  /\ UNCHANGED <<sources, lock, stopEvent, registered, manager, failures, first, hasty>>

(* The updater fails, or the module map after it: the snapshot is kept, so   *)
(* that the same changes are seen again.                                   *)
UpdateFails(w) ==
  /\ At(w, "updating") /\ failures < MaxFailures
  /\ failures' = failures + 1
  /\ \/ Updates(w)
     \/ UNCHANGED <<indexed, unknown>>
  /\ Polls(w, watcher[w].seen, watcher[w].seenDocs)
  /\ UNCHANGED <<sources, lock, stopEvent, registered, manager, first, hasty>>

(* The update is done but the server cannot load its index: the exception   *)
(* ends the thread.                                                        *)
ReloadFails(w) ==
  /\ At(w, "updating") /\ w \in ServerWatchers /\ failures < MaxFailures
  /\ failures' = failures + 1
  /\ Updates(w)
  /\ End(w)
  /\ UNCHANGED <<sources, stopEvent, registered, manager, first, hasty>>

(* A poll after the stop event was set ends the thread.                     *)
Leave(w) ==
  /\ watcher[w].at \in {"polling", "settling"} /\ Stopped(w)
  /\ End(w)
  /\ UNCHANGED <<sources, indexed, stopEvent, registered, manager, failures, history>>

-----------------------------------------------------------------------------
(* Requests to the server. start_index_watcher does nothing when a watcher  *)
(* is registered, whatever has become of it.                                *)

Asks(m, request) == manager[m].at = request

Turns(m, place, w) == manager' = [manager EXCEPT ![m] = [at |-> place, of |-> w]]

AskStart(m) ==
  /\ Asks(m, "idle") /\ registered = None
  /\ Turns(m, "making", None)
  /\ UNCHANGED <<sources, indexed, lock, watcher, stopEvent, registered, failures, history>>

Register(m, w) ==
  /\ Asks(m, "making") /\ At(w, "new")
  /\ registered' = w
  /\ Goes(w, "made")
  /\ Turns(m, "locking", w)
  /\ UNCHANGED <<sources, indexed, lock, stopEvent, failures, history>>

(* start() keeps the lock object where stop() finds it, ...                 *)
MakeLock(m) ==
  /\ Asks(m, "locking")
  /\ Turns(m, "acquiring", manager[m].of)
  /\ UNCHANGED <<sources, indexed, lock, watcher, stopEvent, registered, failures, history>>

(* ... and then acquires the lock. If a stop has dropped the object in       *)
(* between, that fails, or the lock is gone again with the object and the   *)
(* start goes on without it.                                               *)
TakeLock(m) ==
  LET w == manager[m].of
  IN /\ Asks(m, "acquiring")
     /\ \/ /\ lock = None
           /\ lock' = IF w \in hasty THEN lock ELSE w
           /\ Turns(m, "launching", w)
        \/ /\ lock # None \/ w \in hasty
           /\ Turns(m, "idle", None)
           /\ UNCHANGED lock
     /\ UNCHANGED <<sources, indexed, watcher, stopEvent, registered, failures, history>>

Launch(m) ==
  /\ Asks(m, "launching")
  /\ Goes(manager[m].of, "scanning")
  /\ Turns(m, "idle", None)
  /\ UNCHANGED <<sources, indexed, lock, stopEvent, registered, failures, history>>

(* stop_index_watcher waits five seconds for the thread.                    *)
AskStop(m) ==
  /\ Asks(m, "idle") /\ registered # None
  /\ stopEvent' = stopEvent \union {registered}
  /\ Turns(m, "joining", registered)
  /\ UNCHANGED <<sources, indexed, lock, watcher, registered, failures, history>>

IsAlive(w) == watcher[w].at \in Working

(* Stopping such a watcher releases its lock and forgets the lock object,    *)
(* although a start is about to acquire that lock or to launch the thread.  *)
IsStarting(w) ==
  At(w, "made") /\ \E m \in Managers : manager[m].of = w /\ manager[m].at \in {"acquiring", "launching"}

Anyway(w)     == lock = w
OnlyIfOver(w) == lock = w /\ ~IsAlive(w)

GiveUpJoining(m) ==
  LET w == manager[m].of
  IN /\ Asks(m, "joining")
     /\ lock' = IF OnlyIfOver(w) THEN None ELSE lock
     /\ hasty' = IF IsStarting(w) THEN hasty \union {w} ELSE hasty
     /\ registered' = None
     /\ Turns(m, "idle", None)
     /\ UNCHANGED <<sources, indexed, watcher, stopEvent, failures, first, unknown>>

-----------------------------------------------------------------------------
(* The standalone watcher: without the lock it exits, and Ctrl+C ends it at  *)
(* any time, with the update that it runs.                                 *)

StartStandalone(w) ==
  /\ At(w, "new")
  /\ IF lock = None
     THEN lock' = w /\ Goes(w, "scanning")
     ELSE Goes(w, "over") /\ UNCHANGED lock
  /\ UNCHANGED <<sources, indexed, stopEvent, registered, manager, failures, history>>

Interrupt(w) ==
  /\ IsAlive(w)
  /\ End(w)
  /\ UNCHANGED <<sources, indexed, stopEvent, registered, manager, failures, history>>

-----------------------------------------------------------------------------
ThreadSteps(w) ==
  \/ Scan(w) \/ Refreshed(w) \/ RefreshFails(w)
  \/ Sees(w) \/ SeesMore(w) \/ Settled(w)
  \/ Updated(w) \/ UpdateFails(w) \/ ReloadFails(w)
  \/ Leave(w)

RequestSteps(m) ==
  \/ AskStart(m) \/ AskStop(m)
  \/ \E w \in ServerWatchers : Register(m, w)
  \/ MakeLock(m) \/ TakeLock(m) \/ Launch(m) \/ GiveUpJoining(m)

Next ==
  \/ \E f \in Files : Save(f)
  \/ SaveDocs \/ UpdateByCommand
  \/ \E w \in Watchers : ThreadSteps(w)
  \/ \E m \in Managers : RequestSteps(m)
  \/ \E w \in Standalone : StartStandalone(w) \/ Interrupt(w)

Spec == Init /\ [][Next]_vars

-----------------------------------------------------------------------------
Snapshots == [Files -> Int]
Diffs     == [changed : BOOLEAN, discover : BOOLEAN, modified : SUBSET Files]
Records   == [at : Working \union {"new", "made", "over"},
              seen : Snapshots, seenDocs : Int, pending : Snapshots, pendingDocs : Int,
              diff : Diffs]
Requests  == [at : {"idle", "making"}, of : {None}] \union
             [at : {"locking", "acquiring", "launching", "joining"}, of : ServerWatchers]

TypeOK ==
  /\ disk \in Snapshots /\ index \in Snapshots
  /\ docs \in Int /\ indexDocs \in Int /\ clock \in Int /\ failures \in Int
  /\ lock \in Watchers \union {None} /\ registered \in ServerWatchers \union {None}
  /\ watcher \in [Watchers -> Records]
  /\ manager \in [Managers -> Requests]
  /\ stopEvent \subseteq ServerWatchers /\ hasty \subseteq ServerWatchers
  /\ first \in [Watchers -> Snapshots] /\ unknown \subseteq Files

(* A watcher that looks at the sources or updates the index holds the lock,  *)
(* also one that the server stopped waiting for and forgot. (A stop that     *)
(* comes between the lines of a start that make the lock object and launch  *)
(* the thread drops the lock too early.)                                   *)
WorkingWatcherHoldsLock ==
  \A w \in Watchers \ hasty : IsAlive(w) => lock = w

(* What a watcher takes for done is in the index: a file that it saw change, *)
(* in however many polls and failed updates, is there as it was seen or as   *)
(* it became later, and so are the documents. (A file that changes while the *)
(* index does not know it, since it was made before the watcher began, is   *)
(* told to the updater as modified, and the updater ignores it.)            *)
SeenChangesAreIndexed ==
  \A w \in Watchers :
    watcher[w].at \in {"polling", "settling", "updating"} =>
      /\ indexDocs >= watcher[w].seenDocs
      /\ \A f \in Files \ unknown :
           LET seen == watcher[w].seen[f]
           IN Entry(seen) # Entry(first[w][f]) =>
                Age(index[f]) >= Age(seen) \/ Entry(index[f]) = Entry(seen)

(* The lock is never left behind: whoever holds it runs, or is about to, also *)
(* after the server gave up waiting for it, after its first update failed,  *)
(* and after a Ctrl+C. So one that is told to stop gives it back.           *)
IsLaunching(w) == \E m \in Managers : manager[m] = [at |-> "launching", of |-> w]

LockHolderLives ==
  \A w \in Watchers : lock = w => IsAlive(w) \/ IsLaunching(w)
=============================================================================
