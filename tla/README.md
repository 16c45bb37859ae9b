# A TLA+ model of mcp-cpp-project-indexer

The program indexes a C++ source tree into a directory of JSON files and a
SQLite database, keeps that index up to date, and serves it to MCP clients.
This directory holds TLA+ modules of the parts of it that carry state between
steps, configurations that model-check them with TLC, and proofs that TLAPS
checks. Paths below are relative to the repository; `U` stands for
`src/indexer/update_project_index.py` and `S` for
`src/server/code_index_mcp_server.py`.

## 1. The system

| Part | State | Operations | Modelled |
| --- | --- | --- | --- |
| Index file locks (`cpp_index_lock.py`) | a lock file per purpose, its flock, the owner text in it | acquire with retry and timeout, release, unlink (HTTP lock) | `IndexFileLock` |
| Build and update (`build_project_index.py`, `update_project_index.py`, parts of `cpp_project_index.py`, `cpp_index_sqlite.py`) | `files/<id>.json`, `manifest.json`, `modules.json`, `diagnostics.json`, `orientation.json`, `index.sqlite`, `update_state.json` | build; full, forced, known-files, changed-files and orientation-only update | `ProjectIndexUpdate` |
| Index gate (`CodeIndexTools` in `S`) | an RLock, a condition, the flag `index_write_active` | `locked_index_read`, `begin_index_write`, `end_index_write` | `IndexGate` |
| Management commands (`ManagementCommandRunner`, `handle_management_command` in `S`) | the current process and its two callbacks; one output reader thread per command | start, stop, reload the cache, read output, finish | `IndexServer` |
| Built-in watcher (`ServerIndexWatcher` in `S`) | a snapshot of stamps, pending changes, a stop event, the watcher lock | start, stop, poll, debounce, update, rebuild the module map, reload | `IndexWatchers` (its life and its snapshots), `IndexServer` (gate, processes, reload) |
| Standalone watcher (`watch_project_index.py`) | the same, in a process of its own | the same, without a cache to reload | `IndexWatchers` |
| Module map (`build_module_map.py`) | `module_map.json` | rebuild under the update lock | its process in `IndexServer` |
| Source discovery (`cpp_project_index.py`) | none | walk, inherited directory configuration, git-ignore | its result in `ProjectIndexUpdate` |
| Lexer, structural scan, emitters (`cpp_lexer.py`, `cpp_structural_scan.py`, `cpp_*_emit.py`, `cpp_module_scan.py`, `cpp_comment_context.py`) | none between files; scope stack and conditional stack within one | text to one file index | `CppTokens`, `CppLexer`, `CppDeclarations`, `CppStructuralScan`, `CppEmit`, `CppModuleScan`, `CppCommentContext` |
| Function graph cache and service (`cpp_function_graph_{storage,cache,service}.py`) | extracts, graphs and edges in tables of `index.sqlite`, keyed by fingerprints | lookup, compute, store, prune by version | `FunctionGraphCache` |
| Function graph resolver, visibility (`cpp_function_graph_{resolver,visibility}.py`) | none | decide module visibility, rank candidates | visibility in `FunctionGraphCache`, ranking in `FunctionGraphResolver` |
| Function graph extraction (`..._extract.py`, `..._parser.py`, `..._tree_sitter.py`) | none | text to edges | no |
| Queries (`cpp_project_index.py`) | none; a thread pool per source search | search, rank, page | `SourceSearch` |
| Orientation (`cpp_orientation_index.py`) | the orientation graph | build, refresh, trace paths | its refresh in `ProjectIndexUpdate` and `IndexWatchers` |
| Change tracking (`cpp_change_tracking.py`) | none | git hunks to lines and symbols | `ChangeTracking` |
| HTTP transport and life cycle (`S`) | the HTTP lock, the port | serve, shut down | its lock in `IndexFileLock` |
| Event logs (`S`) | bounded logs with running ids | append, read after a cursor, stream | `EventLog` |
| Server web page (`server_ui/app.js`) | a cursor per log | refresh on a timer and on demand | its cursor in `EventLog` |
| Protocol and tool handlers (`S`) | none besides the cache | check arguments, format answers | a tool call in `IndexServer`; the tools that take line numbers in `ChangeTracking` |
| Control centres (`src/ui`) | one child process, its reader thread, a log | start, stop, show output, quit | `ControlCentre` |
| Small command lines | none | | no |

How they meet: every program that writes the index takes the update lock; a
watcher, built in or standalone, also holds the watcher lock for its whole
life. The server does not write the index itself. It starts a child process for
a command or a watcher update, closes the gate to tool calls until that
process has ended, and then reads the JSON files into its cache. The symbol
rows it reads from `index.sqlite` at every call, and the function graphs it
computes on demand it stores there too: the one place a server writes.

What is hard about it:

* an update is a dozen file writes with no transaction over them, sources may
  be saved between any two of them, and the process may be killed there;
* what an update skips is decided by hashes and stamps that an earlier run
  left, so one wrong entry is never noticed again;
* six branches (build, full, known files, structurally unchanged, orientation
  only, nothing to do) must leave the same kind of index through different
  write orders;
* the gate is closed on one thread and opened on another, and the runner's
  fields are read by reader threads without its lock;
* updates fail, are stopped or time out on the lock, and the watcher must try
  again without losing a save and without reloading for nothing;
* a cached function graph depends on the function, its file, its module, the
  rows of its callees and the release of the server, which reach the server
  at different times, while updates keep or drop the cache with the database;
* locks are retried and released by processes that die at any point, and one
  of them unlinks its file;
* requests to start and to stop the built-in watcher may overlap, and stopping
  gives up waiting for the thread after five seconds;
* both terminal front ends read a child's output on a thread and forget the
  child on another;
* log readers keep a cursor into a log that drops its oldest events, and the
  web page lets its requests overlap;
* a source search cuts its work into chunks, lets a thread pool fill one
  list and cancels what it no longer needs;
* the text pipeline is five passes over the same tokens, which tell scopes
  from each other's line numbers, with the two branches of every `#if` in
  between; and the line numbers it leaves are what hunks of a diff, symbol
  reads and ranges are compared with.

What makes each part correct is stated by the properties of section 3; each
hazard in `PROJECT.json` names its line in the code and the properties that
would notice it going wrong.

## 2. The modules

### ExclusiveLock, IndexFileLock, IndexFileLockProofs

`IndexFileLock` is `IndexFileLock.acquire` and `release`, a step for each
system call: open, try the flock, write the owner, clear it, unlock, close,
unlink. The file system is modelled down to inodes, because the flock belongs
to the inode and the HTTP lock's path may come to name another one. A process
may be killed at every step; a failing owner write (`OSError`) sends it back
into the retry loop with the lock already taken, as in the code. A `release`
that fails (`ReleaseFails`) neither closes nor unlinks the file; a process that is
killed while its pool works leaves the open file, and the flock, to the workers
it has forked (`CrashBeforeWorkers`). Both end with `DropHandle`. The timeout
is a choice: whenever the lock is busy the process may give up. The holder is
a process; that two threads of one process do not share a lock object follows
from how the code creates them.

`ExclusiveLock` is the abstract specification: one owner at a time, handed
over through nobody.

### ProjectIndexUpdate, MCProjectIndexUpdate, ProjectIndexUpdateProofs

One run of the builder or the updater at a time (that is what the update lock
gives), a developer who saves, creates and deletes files and edits
orientation documents, and kills.

* The content of a source file is a pair, its structure and the rest of its
  text, which is exactly what `structural_file_index_view` tells apart.
* An artifact is a function from paths to the content it was derived from;
  a JSON file whose write was cut off is `Torn` (the code writes in place),
  a transaction of SQLite either commits or does not.
* `index.sqlite` is in WAL mode. `log` says that `index.sqlite-wal` holds pages
  which the database lacks: after a kill of an update that wrote in place, or
  while somebody else has the database open when the writer closes it
  (`heldOpen`). A build that puts a new database beneath such a log leaves a
  mixture of both (`Put`), which is `Torn` as well; statements that meet it may
  fail (`DatabaseFails`).
* A file that cannot be read or parsed (`indexFailure`) is a diagnostic, or
  ends the run: when it is read for its hash (`HashMayFail`), or when it is new
  and a full update tries it again (`AggregateFully`).
* `UpdatePlan` is `make_update_plan` with its trust in stamps and hashes;
  `PrepareChanged`, `IndexFile`, then one of `AggregateBuild`,
  `SkipAggregate`, `AggregateIncrementally`, `AggregateFully`; the chosen
  branch puts down the list of writes and `WriteNext` does them one at a
  time, in the order of the code. What is computed before the writes
  (`target`, `entries`) and what is read at the write (`NewState` takes the
  stamps then) are kept apart: that is where saves during a run bite.
* The environment's powers are named in `Hazards`, so that a run can switch
  on exactly those its property is about.

### ReadersWriters, IndexGate

`IndexGate` is the gate with its RLock, flag and condition. A tool call keeps
the lock while its handler runs; a writer raises the flag and goes away.
`notify_all` empties `sleeping`; a notified thread competes for the lock
again. `ReadersWriters` is what the gate promises.

### IndexServer, IndexServerProofs

Extends `IndexGate` with the server around it; its proofs begin with the gate's. A version number stands for a
structure of the sources; `source`, `disk` and `loaded` are what is saved, what
the index shows, what the cache shows. How a child process gets from one to
the other is the business of `ProjectIndexUpdate`.

* `StartProcess` is `start_process` under the runner's lock, `RefusedReopens`
  the `except` clause around it.
* `Reader*` is `_read_process_output` of one command, cut where it reads a
  field of the runner without the lock: `process`, `on_success`, `on_finish`.
* `Watcher*` is one pass of `ServerIndexWatcher._run` and `_run_update`:
  changes seen, gate, update process, module map process, reload, gate open.
* Processes take the update lock or give up, succeed, or fail. `ProcessFails`
  (an error exit) and `StopProcess` (`stop_process`) leave the index as it was, as
  it would have become, or partly written, which is `Mixed`.
* `stop_process` ends the process and not the workers of its pool: `held` are
  the stopped commands whose workers live on. They keep the output open, so
  that the reader thread does not get to the end (`ReaderSeesExit`), and the
  lock file, so that no other process gets the update lock (`UpdateLockBusy`).
* Reloads take two steps and may fail (`LoadFails`); one that reads files while
  they are written gives the old ones, the new ones, or some of each.
* `behind` says that the cache may be wrong although nobody is about to reload
  it: after a process that wrote before it failed, a module map that failed, a
  load that failed or read a mixture. A later whole load ends it. `overtaken`
  is the history of a race that the code does not prevent (section 5); the
  safety properties say what holds unless it has happened.

### IndexWatchers, MCIndexWatchers, IndexWatchersProofs

The watchers' own life: `Register`, `MakeLock`, `TakeLock`, `Launch` are
`start_watcher` and `ServerIndexWatcher.start`, `AskStop` and `GiveUpJoining` are
`stop_watcher` with its five seconds, one request each thread of the server;
`Scan` to `Leave` are the loop of both watchers: first snapshot, refresh of
the documents, poll, debounce, update, end. `MakeLock` puts the lock object where
`stop` finds it, `TakeLock` acquires it; `ReloadFails` is the exception that ends a
watcher of the server after its update. `StartStandalone` and `Interrupt`
are the process of its own and its Ctrl+C.

* A snapshot is the time of each file's last save, as the stamps in it are;
  `Diff` is `diff_snapshots`, `IndexAfter` is what the updater does with the
  list it is given, unknown files included.
* Updates by other commands (`UpdateByCommand`) may come at any time: the gate
  and the update lock only put them one after the other.
* History variables say what the properties leave out: `unknown`, the files
  that an update was told of and did not know; `hasty`, the watchers stopped
  between their lock object and their thread. `first` is what each watcher found.

### Sifting, FunctionGraphCache, MCFunctionGraphCache, FunctionGraphCacheProofs

`get_function_body_graph` of several servers on one index, cut where it reads
or commits: `Ask` (symbol, slice, key), `Lookup`, `Resolve`, `Store`. `Key` is
the cache key with what each of its fingerprints really covers, `Fingerprint`
the primary key of the table, which is less. `UpdateKnownFiles`,
`SkipAggregate` and `ReplaceDatabase` are the outcomes of `ProjectIndexUpdate`
as the cache sees them: rows, state and manifest are written together, the
tables stay or go. `Reload` waits for the request, as the gate's lock makes it.
`moved` is a history variable: an update moved a symbol and kept the tables,
or ran under a request. A `refresh` skips the lookup; `cache_only` stops after
it. The extract cache is left out: an extract is determined by its key. `Sift` is
the code's list comprehension with a condition, by the places it keeps, so that
proofs can count them.

### CppTokens, CppLexer, CppDeclarations, CppStructuralScan, CppEmit, CppModuleScan, CppCommentContext, CppTextProofs

From a text to the records of its file index. There is no concurrency here;
the actions are reading one more line, and the hard part is that several
passes over one text must agree.

* `CppLexer` reads a line with three machines at once: the blanker of comments
  and `#if 0`, the tokenizer on the line as it is and the tokenizer on what
  the blanker left, since the scans read the latter and the data and alias
  emitters the former. `odd` marks the lines of which it is known that they
  are treated differently (section 5); nothing is claimed after one.
* `CppStructuralScan` is `scan_structure`, a token a step: the stack of
  braces, the stack of scopes and, for each open `#if`, the state each branch
  starts from and ends in. `CppDeclarations` has its decisions about one
  statement (namespace, type, enum, function, using) and `CppTokens` the token
  helpers. The history variables hold what scope and body each token was
  scanned in, whether branches left different braces open (`torn`) and whether
  a directive went back over statements (`rewound`).
* `CppEmit` is what the emitters make of the events once all are known:
  symbols, export entries, data, aliases and the lines a using statement
  holds on. They find scopes and bodies by lines again.
* `CppModuleScan` is `scan_module_facts`, a line a step. `CppCommentContext`
  is the search for a declaration's and a file's comment in the lines around.

The alphabets are the characters, tokens and lines in which the code makes
differences; a name is one token, an operator is called `operator`.

### EventLog, AnswerProofs

`append_event` and `wait_for_events` of the two bounded logs, the threads that
stream them, and the page's `refreshLogs`: the cursor is taken when a request
is made, the handler reads events and next id in two critical sections, and
requests overlap and fail. `jumped` is the history of the ids that the cursor
passed although the same answer could not hold them (section 5). `AnswerProofs`
proves about this module, `SourceSearch`, `FunctionGraphResolver` and
`ChangeTracking`.

### ControlCentre, ControlCentreProofs

Both front ends. The process, its pipe, the reader thread, the queue to the
screen and the stop with its grace period are the steps; `frontEnd` chooses
the console, which forgets a process when the user's loop polls it, or the
full screen, where the reader thread does. Each press of the stop key starts a
thread (`Stoppers`), which looks for the process, looks at the mark `stopping`, sets
it and asks, a step each. Stops and kills reach the process alone: `orphans` are
those that are over and left workers of their pool behind, which may go on to
write and hold the pipe open (`EndOfOutput`). `overtaken` is the history of a
start before the previous reader was through (section 5).

### SourceSearch

`search_source`: one thread for few files, or a pool: `TakeChunk` and
`BeginChunk` are the two halves of a pool's worker taking a future, `AddHit`
and `EndFile` the scan, `Collect`, `Cancel` and `Leave` the caller, which waits
for the workers before it answers. `snatched`
is the history of a chunk cancelled between those halves.

### ChangeTracking

A change is an edit script; `GitDiff` is git's part (external), the rest is
`parse_unified_diff_hunks` and `hunk_to_json`, and the tools that take the line
numbers on: hunks of a target, indexed ranges, nearest symbol, resolution of a
hunk, symbol and range reads.

### FunctionGraphResolver

`resolve_call` and what it sees. The state is the world of one calling
function: the scope it is in (`here`), the type taken for its class (`current`),
what the types name as bases, the functions that are visible, and the using
statements and aliases of its file.
The steps add a function or a using statement; what is claimed is claimed of
every call that a function in such a world could make.

* `Own` and `Mates` are the functions of the file and those of the other files
  of its modules, `Bases` and `Nested` what `build_function_visibility_context`
  takes for bases and nested types of `here`. The bases are those of `current`,
  which `_find_current_class_symbol` chooses by the last part of a name: any type of
  the file among the `Namesakes` of `here`, since any may come first there.
* `QualifiedCandidates`, `ThisCandidates`, `MemberCandidates` and
  `PlainCandidates` are the four searches, `Score` the sum of weights with the
  reward or the price for the number of parameters, `Edge` what is stored.
* `Meant` is the reference, C++'s own rule: the scope whose names hide those
  further out, the bases after their class, the using statements at the head
  of the file in the outermost scope, relative names looked for outwards. It
  uses nothing of the search but the world. `MeantIsFirst` says that the
  candidates contain what is meant, with nothing ranked above it, and that a
  sole target is the right one.
* `Near`, `Alike` and `Outdone` say where the property makes no claim: the index
  lacks what is needed, or takes the bases of a namesake for those of the class
  (`Mistaken`); a scope passes for another one that ends like it;
  a basis outweighs the scope that C++ looks in first. Section 5 says what the
  code does there. `Alike` and `Outdone` excuse only the rank: what is meant is
  a candidate, and a sole target is right, even then.

### MCCppText, MCParts

TLC reads one state space per run. `MCCppText` lets the lexer, the scan with
the emitters, the module scan and the comment search read files of their own,
and `MCParts` puts side by side the lock file that stays and the HTTP server's
(`Http`, an instance with variables of its own), the terminal front ends, the
streams, the page, the search, the changes and the calls. `part` says whose
behaviour it is: the parts share nothing, so interleaving them would add states
and no case. Each part keeps the properties it has in its own module.

## 3. The runs

| Run | Checks | Shows |
| --- | --- | --- |
| `update_quiet` | `CleanRunIsCurrent`, `CleanRunHasDocs`, `UnchangedIsIndexed` | Any sequence of three builds and updates of all kinds, with saves, creations and deletions between them, leaves a current index. |
| `update_killed` | `KilledUpdateIsRepeated`, `BuildHeals` | Builds and updates killed between any two file writes or during one, with saves meanwhile and servers that have the database open: a build repairs everything but a database whose log an update left behind, and a full update repeats what a killed one left undone. |
| `update_failing` | `FailsOnlyOnDamage` | Files that cannot be read or indexed, builds and updates that are killed, and a database mixed up by a left log: with nobody saving a run gives up only over what an earlier run damaged, over a file it cannot hash, or over a new file it could not index. |
| `update_savedDuringRun` | `UnchangedIsIndexed` | Violated: A save between the indexing of a file and the writing of update_state.json gives the old hash the new stamp, so no later update sees the change. |
| `server_safety` | `OneCommandUnlessOvertaken`, `NoCallDuringUpdate`, `LoadsWholeIndex`, `CacheCurrentUnlessMishap`, `SleepersHaveWaker` | A tool-call thread, two management commands with their reader threads and the built-in watcher, two saves and one failure (a process that fails or is stopped, before or after it wrote, or a failing reload) in every interleaving. |
| `server_liveness` | `GateReopens`, `WatcherCatchesUp` | The gate always opens again once no pool worker of a stopped process is left, and the cache ends up showing the sources, for one save and one failure. |
| `server_overtaken` | `OneCommandAtATime` | Violated: A command started between the exit of another and the moment its reader thread clears the runner is forgotten by the runner, so that a third can start next to it. |
| `graph_cache` | `XrefsAreOneGraph`, `CacheIsFreshUnlessMoved`, `XrefsPointToSymbols` | Servers of two releases compute, refresh and prune cached graphs while sources are saved and the index is updated or rebuilt: cached answers are what would be computed, stored edges belong to one graph each and lead to symbols. |
| `cpp_text` | `BlankingKeepsTokens`, `ScopesMatchBraces`, `PathsFollowRanges`, `DataIsExact`, `UsingEndsWithScope`, `ImportsAreInTheirFragment`, `OnlyCommentsAreShown` | Every short text over seven small alphabets of characters, tokens and lines goes through the lexer, the scan, the emitters, the module scan and the comment search, and is compared with what its language means. |
| `parts` | `MutualExclusion`, `OwnerTextNamesHolder`, `QuitLeavesNoChild`, `ExitNoteIsLast`, `StreamLosesOnlyToBursts`, `PageMissesOnlyJumps`, `AnswerIsFirstHits`, `NumbersAreExact`, `ChangeLeadsToSource`, `MeantIsFirst`, `HttpHoldersLockDistinctFiles`, `ImplementsExclusiveLock`, `ExitIsShown`, `StreamCatchesUp` | Eight parts that share nothing, side by side but never interleaved with each other: the lock file of the updates and that of the HTTP server, which is unlinked on release; a terminal front end with its commands, whose output is shown in the end; an event log's streams and its polling page; a parallel source search; diffs of every short edit script; the ranking of candidates for a call. |
| `watchers` | `WorkingWatcherHoldsLock`, `SeenChangesAreIndexed`, `LockHolderLives` | Two watchers of the server, started and stopped by overlapping requests, and a standalone one, with saves, deletions, failed updates and reloads and updates by others in every interleaving. |
| `hunk_ranges` | `IndexedRangesAreListed` | Violated: With index.sqlite, the lists that indexedRanges are taken from are empty. |

Bounds, and why they are enough.

* `parts`, the locks: for the lock file that stays three processes, so that one
  releases while a second takes over and a third retries; an inode for each and
  one to spare. For the HTTP lock two processes and three inodes, enough for an
  old inode that is held, a new one that is held and a free one. Both are state
  spaces without counters.
* `update_quiet`: two files (one changes, one does not; one added while one
  is deleted), two structures and two texts (every outcome of the structural
  comparison), three saves and three runs: build, update after a change,
  update that trusts what the previous one left. `update_killed` has one text,
  since the text matters only to the structural comparison, and three runs:
  the damage, its repetition and the check of what that left; a server may have
  the database open. `update_failing`
  has four (a log must be left beneath a database, which must be replaced and
  then be written) and one save. Files, structures and texts are interchangeable;
  that is the symmetry.
* `server_safety`: two commands (a third only repeats the first, except for a
  forgotten command, for which `server_overtaken` has three), two saves so
  that one can fall before and one into an update, and one failure, of a process,
  by a stop or of a reload. What two failures leave is again a cache that is
  `behind`. `server_liveness` has one save, to keep the temporal check within
  minutes.
* `watchers`: two watcher objects and two requests, so that starts cross and a
  forgotten watcher meets its successor; a standalone one; two files, one
  making the updater discover while the other is on its list; two saves and
  one failure. One watcher alone was also checked with five saves. States that
  differ only in what is remembered of a watcher that is over, which no step
  reads, count as one (`WithoutTheDead`).
* `graph_cache`: two functions that call each other and themselves in either
  order, so that one edge of a pair is cut off by `maxEdges`; two places and
  two option sets; two servers, of different releases, so that stores replace
  each other; two requests (the first stores, the second hits, replaces or is
  overtaken), one save and one prune, any number of updates and reloads. One
  save is enough to part each fingerprint from what it should cover; with two
  the state space leaves the minutes.
* `cpp_text`: lines of up to three fragments, any number of them, for the
  lexer, whose state between lines is finite (two open conditionals; a third
  repeats the second); files of five lines for the scan, so that an opening
  brace, a branch, the other branch, an `#endif` and a closing brace meet, with
  openers only in the first line; four statements for modules and four lines
  around a declaration for comments.
* `parts`, the terminal: two commands, one line each and one thread that stops,
  which may find the next command in the place of the one it was started for.
  The commands differ in name only, so the same one is started first.
  With two such threads `QuitLeavesNoChild` and `ExitNoteIsLast` were checked
  as well; they are proved for any number.
* `parts`, the rest: a log of four with answers of three
  and seven events, so that a stream loses both to the log and to the answer;
  three events for two overlapping refreshes of the page; five files in chunks
  of two, two workers and a limit of two, so that the last chunk is short and
  one chunk can be cancelled while others run; edit scripts of four lines with
  no or one line of context, so that changes merge into a hunk or part. For calls: seven
  scopes with a nested class, a base and two classes of one name; one using
  statement; two functions, because groups and ranks compare functions in
  pairs (three without using statements were checked as well).
* Deadlock is not checked, as every system here may rest: a developer who has
  used up the saves and the runs, a server nobody calls, a file that is read, a
  search that has returned or a program that was quit. That nobody waits for
  ever is `SleepersHaveWaker`, `GateReopens` and the other liveness properties.

Fairness is stated only where the code earns it.

* Server: a child process that got the lock ends (`WF` on success; failures
  need no fairness): the updater has no loop that waits for anything but the
  lock. Handlers return (`WF` on a reader's leaving): they compute and answer.
  The server's own threads get on (`SF` on the disjunction of their steps):
  each waits only for the RLock, which tool calls keep for a bounded time but
  take again and again, and weak fairness would let them starve everything
  else for ever. It is one conjunct for the whole server, weaker than one for
  each thread.
* Control centres: the reader threads run and the screen's timer fires (`WF`
  each). Commands need not write or exit, nor the user do anything. Here as in
  the server nothing ends the workers of a process that was stopped.
* Event log: the thread of each stream runs (`WF` each): it reads, writes or
  sends a keepalive, and waits with a timeout.
* Nobody has to save, ask, call or connect.

Each property of a passing run is also shown to be able to fail: `PROJECT.json`
names for each a wrong variant of a definition (a dropped guard, a swapped
order, a missing reset) under which TLC finds it violated. These variants are
definitions next to the right ones; no action uses them.

## 4. What is proved

For every number of processes, inodes, threads, watchers, commands, requests
and files, and without a bound on runs, saves and failures.

* `IndexFileLockProofs!MutualExclusionTheorem`, `Refinement`: a lock with
  `RemoveOnRelease = FALSE` excludes and implements `ExclusiveLock`.
  `HoldersAreApart`, `HoldersAreNamed`: any lock, the HTTP lock included, has its
  holders on different files whose texts name them, releases that fail and
  workers that outlive their process included.
* `IndexServerProofs!GateSafe`, `GateRefinement`: tool calls and writers exclude
  each other, no thread sleeps without a writer that will notify it, and the
  gate implements `ReadersWriters`.
* `IndexWatchersProofs!Typing`, `WorkersHoldTheLock`, `LockIsNotLeftBehind`,
  `SeenChangesReachTheIndex`: types; a working watcher holds the lock, unless it
  was stopped between its lock object and its thread; the lock's holder runs or
  is about to; what a snapshot has seen is in the index.
* `IndexServerProofs!OneCommand`, `CallsAndUpdatesExclude`,
  `ReloadsReadWholeFiles`, `CacheIsCurrent`, `NoLostWakeup`: every invariant
  of `server_safety`, for the gate, the runner with its reader threads and the
  watcher together, with processes that fail or are stopped when they have
  written any part of the index, workers that outlive them and reloads that fail.
  `CacheIsCurrent` says what the cache shows whenever nothing is under way, and
  exactly after which failures it may be `behind`.
* `ProjectIndexUpdateProofs!BuildsHeal`: whatever was saved, killed, torn or
  lost before it, a build that succeeds undisturbed leaves records, manifest,
  documents and hashes current, and the database too unless a log lies beside it.
  `KilledUpdatesAreRepeated`: from then on a full update that succeeds leaves
  every file current, however many before it were killed; its rows where the
  database was not put beneath a log. `FailuresAreOfDamage`: builds and updates
  during which nobody saves fail only over damage that an earlier run left, over a
  file that cannot be read for its hash, or over a new one that cannot be indexed.
* `ProjectIndexUpdateProofs!CleanRunsAreCurrent`, `CleanRunsHaveDocs`,
  `UnchangedFilesAreIndexed`: after builds and updates of all six kinds in any
  order, with any saves between them, what a run says that it did is done.
* `FunctionGraphCacheProofs!XrefsWhole`, `XrefsLead`, `CacheIsFresh`: the edges of a
  function are those of one cached graph, each leads to where its callee is,
  and the cache answers what would be computed now.
* `ControlCentreProofs!NothingIsLeftRunning`, `NothingIsShownAfterExit`: a front
  end that has quit has left none of its commands running, whichever threads
  were stopping them (their pool workers are another matter); on the full screen
  all that a command and its workers wrote stands before the note that it exited.
* `AnswerProofs!StreamsLoseOnlyToBursts`, `PagesMissOnlyJumps`: a stream shows
  the log in order and with no gap but after a burst, and the page misses only
  what its cursor jumped, for any number of connections and overlapping
  refreshes. `AnswersAreFirstHits`: a source search, by one thread or by any
  number of workers, answers the first hits in file order.
  `MeantIsServed`: for any scopes, types and callers and any number of functions
  and using statements, and whichever namesake is taken for the caller's class,
  what a call means in C++ is a candidate for it, none ranks above it but for the
  stated exceptions, and a sole target is it; only functions of a base that a
  namesake has instead of the class, or the class instead of it, are left out.
  `LineNumbersAreExact`: for any script of kept, added and removed lines and any
  context, the numbers read back from a diff are those of the added lines, and
  every removed line is counted once. `ChangesLeadToSource`: an answer for an item
  that is not cut off misses no change of it, each hunk resolves to the items around
  its added lines, the shortest first, and those lines can be read.
* `CppTextProofs!ScopesFollowBraces`: for any lines, directives and declarations,
  well formed or not, the scopes of the scan are those that its open braces
  opened, in that order, now and in every state saved for `#else` and `#endif`.
  `ImportsAreInPlace`: in a file in the order that C++ asks for, an import is told
  to be in the fragment whose statement precedes it, and the declaration of the
  module in the purview.

Mutual exclusion is not inductive: it says nothing of a process that has
opened a file, or has the flock and not yet the owner text. `HandleInv` ties
program counter, handle and flock together for every lock. It gives exclusion
per file only. `PathInv` (every open handle is the file the path names, nobody
is about to unlink) is what an unlinked file lacks, and turns exclusion per
file into exclusion per lock. Both are proved by one step for each action.
`GateInv` likewise ties the flag to a writer that is inside, and the lock to a
reader; a sleeping thread implies the flag, hence a writer, which is why no
wakeup is lost.

For the watchers, `LockInv` adds to the two properties that the requests which
are at work on a start have different watchers, each at the place that the
request's step implies (`StartsAreApart`): otherwise a second request could
launch a watcher whose lock another one has just taken, or give it back.
`SeenInv` orders the times (nothing in a snapshot, in the index or in what was
found first is later than the clock) and says of every watcher
(`WatcherIsTrue`) what its pending snapshot and its list will have put into the
index when the update succeeds. That a file's time alone would not do was
found by trying this proof: a file missing in two snapshots is equal in both
whatever the time of its deletion, so `Indexed` keeps the first such time.

`ServerInv` is about ownership. The runner belongs to the one command whose
reader thread has yet to clear it (`RunnerOwned`), and what that thread has
copied from the runner is its own; whoever closed the gate is inside until it
opens it (`GateOwned`); and the cache shows the index, or a reload is due whose
owner is still on its way, or it is known to be `behind` (`Accounted`,
`CacheFollows`). What a reload within the gate reads is whole, because nothing
that the server started writes then; and a failure that leaves files behind sets
`behind` in the step that writes them. The properties alone do not say
that the callback which a reader thread will call is still the one of its
command, which is what a start between exit and clearing breaks: all of it is
stated unless `overtaken`.

`BuildInv` says of each phase of an undisturbed build what it has done: the
indexed files are those not pending (`Indexing`), and each artifact shows the
sources or is in a write that is still due (`Writing`), so that when no write
is left nothing is stale. `PlainInv` says the same of an update that may be
killed anywhere, so it must hold of what is on the disk at any moment:
whatever `update_state.json` vouches for is in the file's own index, in the
manifest and in the rows (`VouchedIsIndexed`), unless the file that would say
so is itself torn. A plan leaves out only what is vouched for (`Planned`), a
pending write holds at least that (`UpdateWriting`), and the hashes are the
last write of all. The stamps need their own part (`StateIsTrue`): one of the
state that equals the one on disk has the hash of that save.
`QuietInv` is for runs that nothing disturbs, of all kinds: between two of
them manifest, rows and state belong together (`Settled`: the same files, the
structure of the files' own indexes, their hashes, and stamps of which none is
later than the clock, so that the next save has another one). It is not kept by
a single write. While a run indexes, the artifacts show what was there before
and `old` says what the files were (`ReIndexing`); while it writes,
`ReWriting` says that what every artifact *will be* when all is written
(`After`, `StateAfter`) is settled, which no write changes.
`FreshInv` says of each stored graph that its key
determines its edges, and of each request which key it has read. `QuitInv`
says that the process the runner knows is the only one that may be alive, and
in the full screen that its reader has not let go of it.

`FailInv` says of a plan that it can be carried out (`PlanIsSound`): every file
that it keeps is in the manifest, every file that it indexes is there. What a
run reads back while it writes is then either what it has just built or what an
earlier run left; only the latter can be unusable, and that is damage.
`PointInv` follows a place from the rows into a request's key (`Asks`), a graph
(`Placed`) and its edges (`Leads`), because the offsets in an edge are read long
after the rows were; the edges that remain of a graph are some of those it had,
which is a fact about `Sift`.
`OutputInv` follows each line from the pipe through the queue to the screen: no
line is lost on the way (`NoLineIsLost`), and the log says only what happened
(`LogIsTrue`). That the note of an exit comes last is not inductive without the
reader's state: it waits for the process only after the end of its output.

`EventsInv` says that a log is the last few ids without a gap, so that an answer
is a run of consecutive ids too. A stream's invariant (`InOrder`) is about what
was shown *and* what is still to be written, and keeps the position of a gap
with the burst that follows it. For the page, `Covers` says what must have been
shown or jumped below a cursor, and `Continues` that each refresh that is under
way, whenever it was asked, continues from a cursor that was covered then; both
count only while the page has room (`Roomy`), as the property does.
`SearchInv` has a part for each of the caller's states. `PoolInv` is the pool's
book-keeping: a chunk off the queue has one worker, a scanning worker has listed
the hits it has passed, a chunk that is done is listed whole. When the limit is
reached, chunks after the current one may have contributed more hits than it
takes: `EnoughIn` says that the hits in some first chunks alone reach the limit
and that none of these chunks was cancelled unread, so that what is cut off
after the limit (`FirstOf`) is what a search of everything would have cut off.
`WorldInv` is little more than that a world consists of such scopes, functions
and using statements, finitely many; the proof is in what follows from it for
each form of call (`PlainIsServed`, `ThisIsServed`, `QualifiedIsServed`,
`MemberIsServed`). What a call means lies in the innermost layer that has the
name, so the file has none of it in the layers inside (`PlainIsFound`, a least
layer), which leaves few bases that another candidate can have; and the sets of
bases that the four searches give are worth known sums, which with the reward
for the parameters decide the rank. A sum over a set is a fold; that it is the
sum of its members needs `SumsAreFunctions` and, again, a least counterexample.
The proof found that the claim did not have to exclude all functions of base
classes, as it did, but only those that a function of the namespace outweighs.

`ScanInv` says of any state of the scan what a brace may own: a brace that opens
scopes owns events, every event belongs to at most one open brace, and the
events of the braces ascend with the braces. The scopes are then the frames of
the owned events by their rank (`RankIn`), which is stable when an event is
appended, when the innermost brace is closed, which takes its events off the
end, and when an event gets its last line, which is no part of a frame. The
property alone is not inductive: a directive goes back to a saved state
while the events keep growing, so the same is said of the state before each
open `#if` and after each of its branches, relative to the events as they are
now. That the events that one declaration appends make as many scopes as its
brace owns needs what the scan's readers of declarations return
(`NamespaceNamesAreCounted`). `ModuleInv` says of a scan by lines what its
properties say of the order of statements: what precedes a statement is on its
line or above, what is pending is below all of them, so the numbers that
`module_fragment_for_line` compares give the order.

Of a diff, the invariant says only that a script is a sequence of lines
(`IsScript`); the work is in what its operators compute. The hunks of a script
are apart and contain every change (`HunksAreApart`, `ChangesAreInHunks`), taking
their starts by rank reaches each once (`OrderIsComplete`), and reading the diff
line by line gives them back (`HunkIsRead`, `PartsAreRead`). A hunk says where it
starts by counting lines before it, so the number of an added line is its
rank in the new text (`RanksAdd`), and the sizes of sets that are apart add up
(`SumOfApart`), which counts the removed lines. A hunk covers what is in its range
and, when it only removes, the line before (`HunkCovers`, `RangeOfCovered`), so that
every change inside an item is in a hunk that meets it (`AddedAreAnswered`,
`RemovedAreAnswered`). The range of a hunk does contain lines of its context, which
is why an answer for an item may have more than the item's changes.

The assumptions are the ones on the constants (`LockAssumption`,
`GateAssumption`, `ServerAssumption`, `WatcherAssumption`, `GraphCacheAssumption`,
`ControlAssumption`, `UpdateAssumption`, `MarkAssumption`, `LogAssumption`,
`SearchAssumption`, `ResolverAssumption`, `ChangeAssumption`, `ScanAssumption`,
`ModuleScanAssumption`: the values that
stand for "nobody", "no file" or "torn" are none of the things they stand in
for, readers are not writers, bounds are numbers, scopes are sequences of names,
types are scopes with a name and lines are sequences of tokens) and, where stated:
`RemoveOnRelease = FALSE`; for `BuildsHeal` and `KilledUpdatesAreRepeated`, that no
file fails to be parsed (such a file becomes a diagnostic and keeps its old
index); for the second, that a save does not bring back content which the file
had before, as the hash of the last plan could then vouch for an index that
is already replaced; for `CleanRunsAreCurrent` and the two after it, that nothing
is saved during a run, no run is killed, no file fails to be parsed, no server has
the database open while it is written in place and the list of a watcher is
complete (`Undisturbed`; content may come back); for `CacheIsFresh`,
that nobody asks for at most 0 edges (`Limited`), since that limit and the limit of 1
have the same key.

`HandleInv` contains the lock's type invariant, `GateInv` the gate's and
`ServerInv` the server's.

Only model-checked: the rest of the text pipeline, and liveness. Of the text pipeline
three properties are claims about the alphabets of the run and false for other
lines: a using statement ends with the wrong scope when one line holds two scopes
of a name (`namespace N { } namespace N { using M::g;`, closed on the next line;
`UsingEndsWithScope`); what is inside an anonymous namespace has a path without
it although the namespace has it in its own (`PathsFollowRanges`); and a
declaration on the line where a scope or a function opens or closes is lost
(`cpp_data_emit.py`:491-544; `DataIsExact`). `BlankingKeepsTokens`,
`DataIsExact` and `OnlyCommentsAreShown` compare two readers of characters or
tokens, case by case, so that a proof would repeat the readers;
`HttpHoldersLockDistinctFiles` of the run `parts` is what `HoldersAreApart` proves,
for the HTTP lock's constants. Liveness is out of the prover's reach together with
fairness and `ENABLED`. The prover's induction theorems cannot be used, since
they take a predicate as a parameter. Where a proof needs induction over numbers
(the chunks of a search, the places of a filtered sequence) it takes a least
counterexample (`LeastNatural`), which the well-foundedness of the naturals
gives as a fact about sets. The same argument gives a fold over a diff and the
joining of its hunks their functions (`DiffsCanBeFolded`, `PartsCanBeGlued`); it
would have to be repeated for each recursive definition of the lexer and the
emitters.

## 5. Findings

1. **A save during a run is lost** (`update_savedDuringRun`,
   `UnchangedIsIndexed`). The hash in `update_state.json` is of the text that
   was indexed, the stamp is taken when the state is written (`U`:245,
   `cpp_project_index.py`:840). A save in between pairs the old hash with the
   new stamp; `make_update_plan` trusts the stamp and never hashes the file
   again. A build and the known-files updates are exposed alike.
2. **A command can be forgotten** (`server_overtaken`, `OneCommandAtATime`).
   Between the exit of a process and the moment its reader thread clears the
   runner, `start_process` accepts a new command, whose process and callbacks
   that reader then clears: two commands may run together, and a callback that
   opens the gate may be lost.
3. **`indexedRanges` are always empty** (`hunk_ranges`,
   `IndexedRangesAreListed`). They and `summaryByIndexedRange` are computed
   from the index's lists of symbols and data, which are only filled when
   there is no `index.sqlite`, against `docs/readme.md`:1664.

Seen while modelling and kept out of the passing properties by a history
variable, a guard or a bound, without a run of its own. In the index and the
server:

* An update that finds the structure unchanged leaves the manifest, and with
  it the content hash from which fingerprints for clients are computed
  (`U`:1144).
* An update of known files that is killed, or that closes `index.sqlite` while a
  server has it open, leaves `index.sqlite-wal` behind. `replace_index_db`
  (`cpp_index_sqlite.py`:154) removes the log of the temporary file only, so the
  next build puts its database beneath the old log, and whoever opens it mixes the
  pages of both (`log`). No kill is needed for it, and rebuilding is what the
  updates ask for when they miss the database (`U`:304, :860).
* A modified file that cannot be indexed in a full update keeps its old index and
  gets the hash of its new text (`U`:1308): the next update calls it unchanged.
  `UnchangedIsIndexed` is checked where no file fails to be indexed.
* An update that fails or is stopped when it has written part or all of the
  index is followed by no reload (`S`:2982), and the gate opens over the old
  cache; when the watcher repeats such an update, it may find nothing to do, and
  again nobody reloads. So it is when the module map fails after a successful
  update (`S`:2651). A reload that fails ends the built-in watcher (`S`:2784)
  (`behind`).
* Stopping a build or an update that uses a pool ends the parent alone (`S`:2960).
  Workers that live on hold its output open, so that its reader thread does not
  come to the end and the gate stays shut; and, as they have inherited the open
  lock file, the update lock stays taken (`held`). On the full screen the note of the exit
  waits for them likewise (`orphans`).
* A symbol id contains its lines. A known-files update after an edit above a
  callee changes the callee's id and keeps the graph tables; nothing in the
  caller's key changes (`S`:3400), so the cached graph names a symbol that is
  gone. A prune that names only parser versions, or only resolver versions,
  deletes every graph (`cpp_function_graph_storage.py`:393). `maxEdges` 0 and
  1 share a key (`cpp_function_graph_cache.py`:51).
* A new file that cannot be indexed is a diagnostic of a build, but `U`:1296
  indexes it again outside any `try` and ends every full update; and so does a
  file that cannot be read for its hash (`U`:450).
* A file made while no watcher ran, and then modified, is on the list of the
  known-files update, which ignores it (`unknown`). A stop between the lock
  object and the thread of a start (`S`:2454-2491) releases the lock, or drops the
  object that is about to acquire it, and the watcher then works without
  (`hasty`);
  crossing starts leave a watcher that no request can stop; a watcher that
  died or did not get its lock stays registered, and a start does nothing.
* The page's cursor becomes the id of the next event while `since` asks for
  later ones (`app.js`:430), so that event is never shown (`jumped`);
  overlapping refreshes show events twice. A stream skips the older part of a
  burst of more than 200.
* A source search's chunks append to the call's own list
  (`cpp_project_index.py`:3824): the limits per chunk never apply, the number
  of files searched varies, a chunk cancelled between a worker's taking and
  starting it loses earlier hits (`snatched`), and an answer with exactly the
  limit is called truncated.
* `hunk_to_json` takes an added line that begins with `++`, or a removed one
  with `--`, for a header and miscounts the lines after it. Paths of
  `git status --porcelain` are relative to the worktree, renames keep the old
  path, and those of `--numstat` are not matched.
* On the full screen a command that is started before the previous one's
  reader was through is cleared by it (`overtaken`): it cannot be stopped and
  outlives the program. A thread that stops one command may set the mark
  `stopping` (`indexer_tui.py`:93) after the next was started, which then cannot be
  stopped but by quitting.

In the resolver of calls:

* `_find_current_class_symbol` (`cpp_function_graph_visibility.py`:111-128) takes
  the first type of the file that has the same short name; with `C` and `N::C` in
  one file `N::C` may get the bases of `C`, and what it inherits is then no
  candidate of `this->f()` (`Mistaken`).
* A relative qualified name (`A::f` in `N` for `N::A::f`) is looked up as if it
  were complete: it is external, or an exact edge to another `A::f`.
* A function of an outer namespace, or of the global one, is lost when the
  file has one of its name in the class or the namespace of the caller or
  behind a using statement that only brings it further out; any of the file
  hides those of the module's other files.
* Scopes that end alike pass for one class (`C` and `N::C`), be it the
  caller's, a base or a nested type, and for a function of a namespace all types
  in it pass for nested types (`Alike`).
* A function of the namespace counts more than one that a class has from its
  base, which hides it in C++; and a using declaration more than the scope it
  brings a name into: next to one, the function of an enclosing scope which a
  using directive names as well ranks behind (`Outdone`).
* All overloads found by `this->f` reach the highest score, so the number of
  parameters does not decide between them.

In the text pipeline:

* Blanker and tokenizer differ on a backslash before a comment, digit
  separators and raw strings (`odd`); after the `#else` of an
  `#if 0` the lexer shows the second branch (`cpp_lexer.py`:352), while the scan
  keeps the state of whichever branch scores best
  (`cpp_structural_scan.py`:1046).
* `export template<class T> class X` is not exported; a class named in
  capitals loses its constructors; `extern "C" {` opens a scope of blocks;
  `import "x.h";` is lost; two comments on one line hide the code between.

## 6. Not modelled, and why

* `--dry-run` (writes nothing), the optional JSONL files and the counts in
  the manifest: no later step reads them.
* Two builds or updates at once: excluded by the update lock, which is
  modelled and proved apart; a program run without the lock is not modelled.
* Power failure: a kill loses nothing that was written before it.
* Function graph extraction: partly tree-sitter's work, and a sequential
  transformation of one body; it has its tests.
* Ranking and paging of name queries, the orientation graph's paths, the
  module tree: functions of the loaded index without state of their own.
* Presentation, prompts, argument checking and formatting of answers.
* Operating systems other than those with `flock`: the Windows branch of the
  lock takes a byte-range lock with the same non-blocking retry.

## 7. What is left

1. The remaining functions over small inputs: module tree and reverse imports,
   orientation path tracing, name ranking and paging, inheritance of directory
   configurations.
2. The HTTP server's port and shutdown around its lock.
3. Proofs about the lexer and the emitters, with a recursive definition each.
