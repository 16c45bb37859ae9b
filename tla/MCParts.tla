------------------------------ MODULE MCParts ------------------------------
(* Small parts of the system that share nothing: a behaviour is one of them. *)
EXTENDS IndexFileLock, ControlCentre, EventLog, SourceSearch, ChangeTracking,
        FunctionGraphResolver

CONSTANTS
  PageEvents,             \* bound on the events of a behaviour of the page
  HttpProcs, HttpInodes   \* HTTP servers and the inodes of their lock file

VARIABLES part, httpPath, httpHandle, httpFlocked, httpText, httpPc

(* The update and the watcher lock's file stays; that of the HTTP server is  *)
(* unlinked, and has variables of its own.                                   *)
Http == INSTANCE IndexFileLock
          WITH Procs <- HttpProcs, Inodes <- HttpInodes, RemoveOnRelease <- TRUE,
               path <- httpPath, handle <- httpHandle, flocked <- httpFlocked,
               ownerText <- httpText, pc <- httpPc

(* Two classes with one name, one of them nested in a namespace.            *)
MCScopes == {<<>>, <<"N">>, <<"N", "C">>, <<"N", "C", "D">>, <<"C">>, <<"B">>, <<"M">>}
MCTypes == {<<"N", "C">>, <<"N", "C", "D">>, <<"C">>, <<"B">>}
MCCallers == {<<>>, <<"N">>, <<"N", "C">>}

httpVars == <<httpPath, httpHandle, httpFlocked, httpText, httpPc>>

partVars == <<lockVars, httpVars, vars, logVars, searchVars, changeVars, resolverVars,
              part>>

(* The others stand still in any of their initial states; one will do.       *)
PartInit ==
  /\ part \in {"lock", "http lock", "terminal", "streams", "page", "search", "changes",
              "calls"}
  /\ LockInit /\ Http!LockInit /\ Init /\ LogInit /\ SearchInit /\ ChangeInit
  /\ ResolverInit
  /\ part # "terminal" => frontEnd = "tui"
  /\ part # "calls" => here = <<>>
  /\ part # "search" => caller.at = "waiting" /\ hits = [f \in Files |-> 0]

Locking ==
  /\ part = "lock" /\ LockNext
  /\ UNCHANGED <<httpVars, vars, logVars, searchVars, changeVars, resolverVars, part>>
HttpLocking ==
  /\ part = "http lock" /\ Http!LockNext
  /\ UNCHANGED <<lockVars, vars, logVars, searchVars, changeVars, resolverVars, part>>
(* Commands differ in name only: this one is started before the others.      *)
FirstCommand == CHOOSE c \in Commands : TRUE
OthersAreNew == \A c \in Commands \ {FirstCommand} : child[c] = "new"

Terminal ==
  /\ part = "terminal" /\ Next
  /\ child'[FirstCommand] # "new" \/ OthersAreNew'
  /\ UNCHANGED <<lockVars, httpVars, logVars, searchVars, changeVars, resolverVars, part>>
Stream ==
  /\ part = "streams" /\ StreamNext
  /\ UNCHANGED <<lockVars, httpVars, vars, searchVars, changeVars, resolverVars, part>>
Page ==
  /\ part = "page" /\ PageNext /\ nextEventId' <= PageEvents + 1
  /\ UNCHANGED <<lockVars, httpVars, vars, searchVars, changeVars, resolverVars, part>>
Search ==
  /\ part = "search" /\ SearchNext
  /\ UNCHANGED <<lockVars, httpVars, vars, logVars, changeVars, resolverVars, part>>
Changing ==
  /\ part = "changes" /\ ChangeNext
  /\ UNCHANGED <<lockVars, httpVars, vars, logVars, searchVars, resolverVars, part>>
Resolving ==
  /\ part = "calls" /\ ResolverNext
  /\ UNCHANGED <<lockVars, httpVars, vars, logVars, searchVars, changeVars, part>>

PartNext ==
  \/ Locking \/ HttpLocking \/ Terminal \/ Stream \/ Page \/ Search \/ Changing
  \/ Resolving

PartSpec == PartInit /\ [][PartNext]_partVars /\ Fairness /\ LogFairness

(* Two HTTP servers may both hold their lock, one on the unlinked file, but  *)
(* never on the same file (IndexFileLock with remove_on_release).            *)
HttpHoldersLockDistinctFiles == Http!HoldersLockDistinctFiles
=============================================================================
