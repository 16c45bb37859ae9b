---------------------------- MODULE SourceSearch ----------------------------
(***************************************************************************)
(* search_source (cpp_project_index.py): the lines of the indexed files that *)
(* match, the first Limit in the order of the files. Few files, or a part of *)
(* one, are read by the caller; many by a pool of threads, a chunk of files  *)
(* at a time. Every scan puts its hits into the one list of the call.       *)
(*                                                                         *)
(* A worker of the pool takes a chunk off the queue and then declares it     *)
(* running; the caller may cancel it in between.                            *)
(***************************************************************************)
EXTENDS Naturals, FiniteSets

CONSTANTS
  Workers,
  FileCount, ChunkSize,  \* the files in their order, cut into chunks
  Limit,                 \* limit >= 1
  MaxHits                \* bound on the matching lines of a file

ASSUME SearchAssumption ==
  /\ {FileCount, ChunkSize, Limit} \subseteq Nat \ {0}
  /\ MaxHits \in Nat

VARIABLES
  hits,     \* of each file the number of matching lines
  future,   \* state of each chunk
  popped,   \* how many chunks the workers took off the queue
  worker,   \* of each worker: place, chunk, file, line
  found,    \* the list `matches`: file and number of the hit
  caller,   \* the thread of the call: place, the future or file it is at
  snatched  \* history: a chunk was cancelled after a worker had taken it

searchVars == <<hits, future, popped, worker, found, caller, snatched>>

Files  == 1 .. FileCount
ChunkCount == (FileCount + ChunkSize - 1) \div ChunkSize
Chunks == 1 .. ChunkCount
FirstFile(k) == (k - 1) * ChunkSize + 1
LastFile(k)  == IF k = ChunkCount THEN FileCount ELSE k * ChunkSize

Resting == [at |-> "idle", chunk |-> 0, file |-> 0, line |-> 0]

SearchInit ==
  /\ hits \in [Files -> 0 .. MaxHits]
  /\ future = [k \in Chunks |-> "pending"] /\ popped = 0
  /\ worker = [w \in Workers |-> Resting]
  /\ found = {} /\ snatched = FALSE
  /\ caller \in {[at |-> "waiting", of |-> 1], [at |-> "scanning", of |-> 1]}

HitsOf(f) == {<<f, n>> : n \in 1 .. hits[f]}

-----------------------------------------------------------------------------
(* The caller alone: file after file, until there are enough hits.           *)
ScanFile ==
  /\ caller.at = "scanning"
  /\ found' = found \union HitsOf(caller.of)
  /\ caller' = IF Cardinality(found') >= Limit THEN [at |-> "truncated", of |-> 0]
               ELSE IF caller.of = FileCount THEN [at |-> "complete", of |-> 0]
               ELSE [caller EXCEPT !.of = caller.of + 1]
  /\ UNCHANGED <<hits, future, popped, worker, snatched>>

-----------------------------------------------------------------------------
(* The pool.                                                                *)
Parallel == caller.at \notin {"scanning", "truncated", "complete"}

TakeChunk(w) ==
  /\ Parallel /\ worker[w].at = "idle" /\ popped < ChunkCount
  /\ popped' = popped + 1
  /\ worker' = [worker EXCEPT ![w] =
       [at |-> "taken", chunk |-> popped + 1, file |-> 0, line |-> 0]]
  /\ UNCHANGED <<hits, future, found, caller, snatched>>

BeginChunk(w) ==
  LET k == worker[w].chunk
  IN /\ worker[w].at = "taken"
     /\ IF future[k] = "cancelled"
        THEN worker' = [worker EXCEPT ![w] = Resting] /\ UNCHANGED future
        ELSE /\ worker' = [worker EXCEPT ![w] =
                  [at |-> "scanning", chunk |-> k, file |-> FirstFile(k), line |-> 1]]
             /\ future' = [future EXCEPT ![k] = "running"]
     /\ UNCHANGED <<hits, popped, found, caller, snatched>>

AddHit(w) ==
  LET at == worker[w]
  IN /\ at.at = "scanning" /\ at.line <= hits[at.file]
     /\ found' = found \union {<<at.file, at.line>>}
     /\ worker' = [worker EXCEPT ![w].line = at.line + 1]
     /\ UNCHANGED <<hits, future, popped, caller, snatched>>

(* A chunk would end early with enough hits of its own; but these are in the *)
(* call's list, its own stays empty.                                        *)
OwnHits(k)  == {}
CallHits(k) == found
CallIsFull(k)  == Cardinality(CallHits(k)) >= Limit
ChunkIsFull(k) == Cardinality(OwnHits(k)) >= Limit

EndFile(w) ==
  LET at == worker[w]
  IN /\ at.at = "scanning" /\ at.line > hits[at.file]
     /\ IF at.file = LastFile(at.chunk) \/ ChunkIsFull(at.chunk)
        THEN /\ worker' = [worker EXCEPT ![w] = Resting]
             /\ future' = [future EXCEPT ![at.chunk] = "done"]
        ELSE /\ worker' = [worker EXCEPT ![w].file = at.file + 1, ![w].line = 1]
             /\ UNCHANGED future
     /\ UNCHANGED <<hits, popped, found, caller, snatched>>

(* The caller takes the results in order. With enough hits, whosever they    *)
(* are, it cancels what has not begun.                                      *)
Enough == Cardinality(found) >= Limit

Collect ==
  /\ caller.at = "waiting" /\ future[caller.of] = "done"
  /\ caller' = IF Enough THEN [at |-> "cancelling", of |-> 1]
               ELSE IF caller.of = ChunkCount THEN [at |-> "joining", of |-> 0]
               ELSE [caller EXCEPT !.of = caller.of + 1]
  /\ UNCHANGED <<hits, future, popped, worker, found, snatched>>

Cancel ==
  LET k == caller.of
  IN /\ caller.at = "cancelling"
     /\ future' = IF future[k] = "pending" THEN [future EXCEPT ![k] = "cancelled"] ELSE future
     /\ snatched' = (snatched \/ (future[k] = "pending" /\ k <= popped))
     /\ caller' = IF k = ChunkCount THEN [at |-> "leaving", of |-> 0]
                  ELSE [caller EXCEPT !.of = k + 1]
     /\ UNCHANGED <<hits, popped, worker, found>>

(* The pool is left when its workers have emptied the queue.                 *)
PoolIsIdle == popped = ChunkCount /\ \A w \in Workers : worker[w] = Resting

Leave ==
  /\ caller.at \in {"joining", "leaving"} /\ PoolIsIdle
  /\ caller' = [at |-> IF caller.at = "joining" THEN "complete" ELSE "truncated", of |-> 0]
  /\ UNCHANGED <<hits, future, popped, worker, found, snatched>>

-----------------------------------------------------------------------------
SearchNext ==
  \/ ScanFile \/ Collect \/ Cancel \/ Leave
  \/ \E w \in Workers : TakeChunk(w) \/ BeginChunk(w) \/ AddHit(w) \/ EndFile(w)

SearchSpec == SearchInit /\ [][SearchNext]_searchVars

Before(a, b) == a[1] < b[1] \/ (a[1] = b[1] /\ a[2] < b[2])
FirstOf(set) == {a \in set : Cardinality({b \in set : Before(b, a)}) < Limit}

(* However the threads run, the answer is what one reader in file order      *)
(* would give: the first Limit of all hits, and it says so when there are    *)
(* more; unless a chunk was cancelled that a worker had just taken.         *)
AnswerIsFirstHits ==
  LET all == UNION {HitsOf(f) : f \in Files}
  IN caller.at \in {"complete", "truncated"} /\ ~snatched =>
       /\ FirstOf(found) = FirstOf(all)
       /\ Cardinality(all) > Limit => caller.at = "truncated"
=============================================================================
