------------------------- MODULE IndexWatchersProofs -------------------------
(***************************************************************************)
(* Any number of watchers, requests and files, any number of saves and       *)
(* failures: who works holds the watcher lock, and who holds it works or is  *)
(* about to.                                                               *)
(***************************************************************************)
EXTENDS IndexWatchers, TLAPS

Places == Working \union {"new", "made", "over"}

(* What the steps of a watcher write is a record of the right kind.          *)
LEMMA RecordsAreKept ==
  /\ Unborn \in Records
  /\ \A r \in Records, place \in Places : [r EXCEPT !.at = place] \in Records
  /\ \A seen \in Snapshots, seenDocs \in Int :
       [Unborn EXCEPT !.at = "polling", !.seen = seen, !.seenDocs = seenDocs] \in Records
  /\ \A r \in Records, p \in Snapshots, d \in Int, diff \in Diffs :
       [r EXCEPT !.at = "settling", !.pending = p, !.pendingDocs = d, !.diff = diff] \in Records
  /\ \A r \in Records, s \in Snapshots, d \in Int, place \in Places :
       [r EXCEPT !.seen = s, !.seenDocs = d, !.at = place] \in Records
<1>1. NoSnapshot \in Snapshots
  BY DEF NoSnapshot, Snapshots
<1>2. NoDiff \in Diffs
  BY DEF NoDiff, Diffs
<1>3. "new" \in Places /\ "polling" \in Places /\ "settling" \in Places
  BY DEF Places, Working
<1>4. Records = [at : Places, seen : Snapshots, seenDocs : Int, pending : Snapshots,
                 pendingDocs : Int, diff : Diffs]
  BY DEF Records, Places
<1>5. Unborn \in Records
  BY <1>1, <1>2, <1>3, <1>4 DEF Unborn
<1> QED
  BY <1>3, <1>4, <1>5

LEMMA DiffsAreDiffs == \A before, after : Diff(before, after) \in Diffs
BY DEF Diff, Diffs

(* The thread of a watcher, or its Ctrl+C, ends.                             *)
LEMMA EndKeepsTypes ==
  ASSUME TypeOK, NEW w \in Watchers, End(w), failures' \in Int,
         UNCHANGED <<sources, indexed, stopEvent, registered, manager, history>>
  PROVE  TypeOK'
<1>1. [Unborn EXCEPT !.at = "over"] \in Records
  BY RecordsAreKept DEF Places
<1>2. watcher' \in [Watchers -> Records]
  BY <1>1 DEF TypeOK, End, Forgotten
<1>3. lock' \in Watchers \union {None}
  BY DEF TypeOK, End
<1> QED
  BY <1>2, <1>3 DEF TypeOK, sources, indexed, history

(* A step that changes where a watcher is, and nothing it has seen.          *)
LEMMA GoesKeepsType ==
  ASSUME watcher \in [Watchers -> Records], NEW w \in Watchers, NEW place \in Places,
         Goes(w, place)
  PROVE  watcher' \in [Watchers -> Records]
<1>1. [watcher[w] EXCEPT !.at = place] \in Records
  BY RecordsAreKept
<1> QED
  BY <1>1 DEF Goes

(* The variables have their types in every state (IndexWatchers.TypeOK).     *)
THEOREM Typing == Spec => []TypeOK
<1>1. Init => TypeOK
  <2> SUFFICES ASSUME Init PROVE TypeOK
    OBVIOUS
  <2>1. watcher \in [Watchers -> Records]
    BY RecordsAreKept DEF Init
  <2>2. disk \in Snapshots /\ NoSnapshot \in Snapshots
    BY DEF Init, Snapshots, NoSnapshot
  <2>3. manager \in [Managers -> Requests]
    BY DEF Init, Requests
  <2> QED
    BY <2>1, <2>2, <2>3 DEF Init, TypeOK
<1>2. TypeOK /\ [Next]_vars => TypeOK'
  <2> SUFFICES ASSUME TypeOK, [Next]_vars PROVE TypeOK'
    OBVIOUS
  <2>1. ASSUME NEW f \in Files, Save(f) PROVE TypeOK'
    BY <2>1 DEF TypeOK, Save, indexed, history, Snapshots
  <2>2. CASE SaveDocs
    BY <2>2 DEF TypeOK, SaveDocs, indexed, history
  <2>3. CASE UpdateByCommand
    BY <2>3 DEF TypeOK, UpdateByCommand, sources, history
  <2>4. ASSUME NEW w \in Watchers, ThreadSteps(w) PROVE TypeOK'
    <3>1. watcher[w] \in Records
      BY DEF TypeOK
    <3>2. /\ watcher[w].seen \in Snapshots /\ watcher[w].seenDocs \in Int
          /\ watcher[w].pending \in Snapshots /\ watcher[w].pendingDocs \in Int
          /\ watcher[w].diff \in Diffs
      BY <3>1 DEF Records
    <3>3. \A place \in Working : place \in Places
      BY DEF Places
    <3>4. CASE Scan(w)
      <4>1. watcher' \in [Watchers -> Records]
        <5> DEFINE place == IF DocsMatch THEN "polling" ELSE "refreshing"
                   scanned == [watcher[w] EXCEPT !.seen = disk, !.seenDocs = docs, !.at = place]
        <5>1. watcher' = [watcher EXCEPT ![w] = scanned]
          BY <3>4 DEF Scan
        <5>2. disk \in Snapshots /\ docs \in Int /\ place \in Places
          BY DEF TypeOK, Places, Working
        <5> HIDE DEF place
        <5>3. scanned \in Records
          BY <3>1, <5>2, RecordsAreKept
        <5> HIDE DEF scanned
        <5> QED
          BY <5>1, <5>3 DEF TypeOK
      <4> QED
        BY <3>4, <4>1 DEF TypeOK, Scan, sources, indexed
    <3>5. CASE Refreshed(w)
      <4>1. watcher' \in [Watchers -> Records]
        BY <3>5, GoesKeepsType DEF TypeOK, Refreshed, Places, Working
      <4> QED
        BY <3>5, <4>1 DEF TypeOK, Refreshed, sources, history
    <3>6. CASE RefreshFails(w)
      <4>1. failures' \in Int
        BY <3>6 DEF TypeOK, RefreshFails
      <4> QED
        BY <3>6, <4>1, EndKeepsTypes DEF RefreshFails
    <3>7. ASSUME NEW d \in Diffs, Pending(w, d),
                 UNCHANGED <<sources, indexed, lock, stopEvent, registered, manager, failures,
                             history>>
          PROVE TypeOK'
      <4>1. watcher' \in [Watchers -> Records]
        <5>1. \A p \in Snapshots, n \in Int :
                [watcher[w] EXCEPT !.at = "settling", !.pending = p, !.pendingDocs = n,
                                   !.diff = d] \in Records
          BY <3>1, RecordsAreKept
        <5> QED
          BY <3>7, <5>1 DEF TypeOK, Pending
      <4> QED
        BY <3>7, <4>1 DEF TypeOK, sources, indexed, history
    <3>8. CASE Sees(w)
      BY <3>7, <3>8, DiffsAreDiffs DEF Sees
    <3>9. CASE SeesMore(w)
      BY <3>7, <3>9, DiffsAreDiffs DEF SeesMore, WholeDiff
    <3>10. CASE Settled(w)
      <4>1. watcher' \in [Watchers -> Records]
        BY <3>10, GoesKeepsType DEF TypeOK, Settled, Places, Working
      <4> QED
        BY <3>10, <4>1 DEF TypeOK, Settled, sources, indexed, history
    <3>11. ASSUME NEW seen \in Snapshots, NEW seenDocs \in Int, Polls(w, seen, seenDocs)
           PROVE watcher' \in [Watchers -> Records]
      <4>1. [Unborn EXCEPT !.at = "polling", !.seen = seen, !.seenDocs = seenDocs] \in Records
        BY RecordsAreKept
      <4> QED
        BY <3>11, <4>1 DEF TypeOK, Polls
    <3>12. ASSUME Updates(w)
           PROVE index' \in Snapshots /\ indexDocs' \in Int /\ unknown' \subseteq Files
      <4>1. IndexAfter(watcher[w].diff) \in Snapshots
        BY DEF TypeOK, IndexAfter, Snapshots
      <4>2. watcher[w].diff.modified \subseteq Files
        BY <3>2 DEF Diffs
      <4> QED
        BY <3>12, <4>1, <4>2 DEF TypeOK, Updates
    <3>13. CASE Updated(w)
      <4>1. watcher' \in [Watchers -> Records]
        <5>1. Indexed(w) \in Snapshots
          BY <3>2 DEF Indexed, Snapshots
        <5> QED
          BY <3>2, <3>11, <3>13, <5>1 DEF Updated
      <4>2. index' \in Snapshots /\ indexDocs' \in Int /\ unknown' \subseteq Files
        BY <3>12, <3>13 DEF Updated
      <4> QED
        BY <3>13, <4>1, <4>2 DEF TypeOK, Updated, sources
    <3>14. CASE UpdateFails(w)
      <4>1. watcher' \in [Watchers -> Records]
        BY <3>2, <3>11, <3>14 DEF UpdateFails
      <4>2. index' \in Snapshots /\ indexDocs' \in Int /\ unknown' \subseteq Files
        BY <3>12, <3>14 DEF TypeOK, UpdateFails, indexed
      <4> QED
        BY <3>14, <4>1, <4>2 DEF TypeOK, UpdateFails, sources
    <3>15. CASE Leave(w)
      <4>1. failures' \in Int
        BY <3>15 DEF TypeOK, Leave
      <4> QED
        BY <3>15, <4>1, EndKeepsTypes DEF Leave
    <3>16. CASE ReloadFails(w)
      <4>1. watcher' \in [Watchers -> Records]
        <5>1. [Unborn EXCEPT !.at = "over"] \in Records
          BY RecordsAreKept DEF Places
        <5> QED
          BY <3>16, <5>1 DEF TypeOK, ReloadFails, End, Forgotten
      <4>2. index' \in Snapshots /\ indexDocs' \in Int /\ unknown' \subseteq Files
        BY <3>12, <3>16 DEF ReloadFails
      <4>3. lock' \in Watchers \union {None} /\ failures' \in Int
        BY <3>16 DEF TypeOK, ReloadFails, End
      <4> QED
        BY <3>16, <4>1, <4>2, <4>3 DEF TypeOK, ReloadFails, sources
    <3> QED
      BY <2>4, <3>4, <3>5, <3>6, <3>8, <3>9, <3>10, <3>13, <3>14, <3>15, <3>16 DEF ThreadSteps
  <2>5. ASSUME NEW m \in Managers, RequestSteps(m) PROVE TypeOK'
    <3>0. /\ ServerWatchers \subseteq Watchers
          /\ manager[m] \in Requests
      BY DEF TypeOK, Watchers
    <3>1. CASE AskStart(m)
      <4>1. manager' \in [Managers -> Requests]
        BY <3>1 DEF TypeOK, AskStart, Turns, Requests
      <4> QED
        BY <3>1, <4>1 DEF TypeOK, AskStart, sources, indexed, history
    <3>2. CASE AskStop(m)
      <4>1. registered \in ServerWatchers
        BY <3>2 DEF TypeOK, AskStop
      <4>2. manager' \in [Managers -> Requests]
        BY <3>2, <4>1 DEF TypeOK, AskStop, Turns, Requests
      <4> QED
        BY <3>2, <4>1, <4>2 DEF TypeOK, AskStop, sources, indexed, history
    <3>3. ASSUME NEW w \in ServerWatchers, Register(m, w) PROVE TypeOK'
      <4>1. manager' \in [Managers -> Requests]
        BY <3>3 DEF TypeOK, Register, Turns, Requests
      <4>2. watcher' \in [Watchers -> Records]
        BY <3>0, <3>3, GoesKeepsType DEF TypeOK, Register, Places
      <4> QED
        BY <3>3, <4>1, <4>2 DEF TypeOK, Register, sources, indexed, history
    <3>4. CASE TakeLock(m)
      <4>0. manager[m].of \in ServerWatchers
        BY <3>0, <3>4 DEF TakeLock, Asks, Requests
      <4>1. manager' \in [Managers -> Requests]
        BY <3>4, <4>0 DEF TypeOK, TakeLock, Turns, Requests
      <4>2. lock' \in Watchers \union {None}
        BY <3>0, <3>4, <4>0 DEF TypeOK, TakeLock
      <4> QED
        BY <3>4, <4>1, <4>2 DEF TypeOK, TakeLock, sources, indexed, history
    <3>5. CASE Launch(m)
      <4>0. manager[m].of \in Watchers
        BY <3>0, <3>5 DEF Launch, Asks, Requests
      <4>1. manager' \in [Managers -> Requests]
        BY <3>5 DEF TypeOK, Launch, Turns, Requests
      <4>2. watcher' \in [Watchers -> Records]
        BY <3>5, <4>0, GoesKeepsType DEF TypeOK, Launch, Places, Working
      <4> QED
        BY <3>5, <4>1, <4>2 DEF TypeOK, Launch, sources, indexed, history
    <3>6. CASE GiveUpJoining(m)
      <4>0. manager[m].of \in ServerWatchers
        BY <3>0, <3>6 DEF GiveUpJoining, Asks, Requests
      <4>1. manager' \in [Managers -> Requests]
        BY <3>6 DEF TypeOK, GiveUpJoining, Turns, Requests
      <4>2. hasty' \subseteq ServerWatchers
        BY <3>6, <4>0 DEF TypeOK, GiveUpJoining
      <4>3. lock' \in Watchers \union {None} /\ registered' \in ServerWatchers \union {None}
        BY <3>6 DEF TypeOK, GiveUpJoining
      <4> QED
        BY <3>6, <4>1, <4>2, <4>3 DEF TypeOK, GiveUpJoining, sources, indexed
    <3>7. CASE MakeLock(m)
      <4>0. manager[m].of \in ServerWatchers
        BY <3>0, <3>7 DEF MakeLock, Asks, Requests
      <4>1. manager' \in [Managers -> Requests]
        BY <3>7, <4>0 DEF TypeOK, MakeLock, Turns, Requests
      <4> QED
        BY <3>7, <4>1 DEF TypeOK, MakeLock, sources, indexed, history
    <3> QED
      BY <2>5, <3>1, <3>2, <3>3, <3>4, <3>5, <3>6, <3>7 DEF RequestSteps
  <2>6. ASSUME NEW w \in Standalone, StartStandalone(w) PROVE TypeOK'
    <3>1. w \in Watchers /\ "scanning" \in Places /\ "over" \in Places
      BY DEF Watchers, Places, Working
    <3>2. watcher' \in [Watchers -> Records]
      BY <2>6, <3>1, GoesKeepsType DEF TypeOK, StartStandalone
    <3>3. lock' \in Watchers \union {None}
      BY <2>6, <3>1 DEF TypeOK, StartStandalone
    <3> QED
      BY <2>6, <3>2, <3>3 DEF TypeOK, StartStandalone, sources, indexed, history
  <2>7. ASSUME NEW w \in Standalone, Interrupt(w) PROVE TypeOK'
    <3>1. w \in Watchers /\ failures' \in Int
      BY <2>7 DEF TypeOK, Interrupt, Watchers
    <3> QED
      BY <2>7, <3>1, EndKeepsTypes DEF Interrupt
  <2>8. CASE UNCHANGED vars
    BY <2>8 DEF TypeOK, vars, sources, indexed, history
  <2> QED
    BY <2>1, <2>2, <2>3, <2>4, <2>5, <2>6, <2>7, <2>8 DEF Next
<1> QED
  BY <1>1, <1>2, PTL DEF Spec
-----------------------------------------------------------------------------
(* Of two requests that start watchers, each has a watcher of its own, whose *)
(* thread has not begun; and one that is about to start its thread holds the *)
(* lock, unless a stop came between.                                       *)
Starting(m) == manager[m].at \in {"locking", "acquiring", "launching"}

StartsAreApart ==
  /\ \A m \in Managers : Starting(m) => watcher[manager[m].of].at = "made"
  /\ \A m, n \in Managers :
       Starting(m) /\ Starting(n) /\ m # n => manager[m].of # manager[n].of
  /\ \A m \in Managers :
       manager[m].at = "launching" => lock = manager[m].of \/ manager[m].of \in hasty

LockInv == StartsAreApart /\ WorkingWatcherHoldsLock /\ LockHolderLives

(* What LockInv reads of the state.                                          *)
LEMMA LockInvReads ==
  ASSUME LockInv, UNCHANGED <<lock, manager, hasty>>,
         \A w \in Watchers : watcher'[w].at = watcher[w].at,
         TypeOK
  PROVE  LockInv'
<1>1. \A m \in Managers : Starting(m) => manager[m].of \in Watchers
  BY DEF TypeOK, Requests, Starting, Watchers
<1> QED
  BY <1>1 DEF LockInv, StartsAreApart, WorkingWatcherHoldsLock, LockHolderLives, Starting,
              IsAlive, IsLaunching

(* A step of a thread that goes on.                                          *)
LEMMA WorkKeepsLockInv ==
  ASSUME LockInv, TypeOK, NEW w \in Watchers, IsAlive(w), IsAlive(w)',
         UNCHANGED <<lock, manager, hasty>>,
         \A v \in Watchers \ {w} : watcher'[v] = watcher[v]
  PROVE  LockInv'
<1>1. \A m \in Managers : Starting(m) => manager[m].of \in Watchers \ {w}
  BY DEF TypeOK, Requests, Starting, Watchers, LockInv, StartsAreApart, IsAlive, Working
<1>2. StartsAreApart'
  BY <1>1 DEF LockInv, StartsAreApart, Starting
<1>3. WorkingWatcherHoldsLock'
  BY DEF LockInv, WorkingWatcherHoldsLock, IsAlive
<1>4. LockHolderLives'
  BY DEF LockInv, LockHolderLives, IsAlive, IsLaunching
<1> QED
  BY <1>2, <1>3, <1>4 DEF LockInv

(* A thread ends, and gives the lock back if it has it.                      *)
LEMMA EndKeepsLockInv ==
  ASSUME LockInv, TypeOK, NEW w \in Watchers, IsAlive(w), End(w), UNCHANGED <<manager, hasty>>
  PROVE  LockInv'
<1>1. \A m \in Managers : Starting(m) => manager[m].of \in Watchers \ {w}
  BY DEF TypeOK, Requests, Starting, Watchers, LockInv, StartsAreApart, IsAlive, Working
<1>2. /\ ~IsAlive(w)'
      /\ \A v \in Watchers \ {w} : watcher'[v] = watcher[v]
  <2>1. watcher'[w].at = "over"
    BY DEF TypeOK, End, Forgotten, Unborn
  <2> QED
    BY <2>1 DEF TypeOK, End, Forgotten, IsAlive, Working
<1>3. \A v \in Watchers \ {w} : lock = v => lock' = v
  BY DEF End
<1>4. StartsAreApart'
  BY <1>1, <1>2, <1>3 DEF LockInv, StartsAreApart, Starting
<1>5. WorkingWatcherHoldsLock'
  BY <1>2, <1>3 DEF LockInv, WorkingWatcherHoldsLock, IsAlive
<1>6. LockHolderLives'
  <2>1. \A v \in Watchers : lock' = v => lock = v /\ v # w
    BY WatcherAssumption DEF End, Watchers
  <2> QED
    BY <1>2, <2>1 DEF LockInv, LockHolderLives, IsAlive, IsLaunching
<1> QED
  BY <1>4, <1>5, <1>6 DEF LockInv

(* The lock invariant holds in every state.                                  *)
LEMMA LockInvariant == Spec => []LockInv
<1>1. Init => LockInv
  <2> SUFFICES ASSUME Init PROVE LockInv
    OBVIOUS
  <2>1. \A w \in Watchers : watcher[w].at = "new"
    BY DEF Init, Unborn
  <2>2. \A m \in Managers : manager[m].at = "idle"
    BY DEF Init
  <2>3. \A w \in Watchers : lock # w
    BY WatcherAssumption DEF Init, Watchers
  <2> QED
    BY <2>1, <2>2, <2>3 DEF LockInv, StartsAreApart, WorkingWatcherHoldsLock, LockHolderLives,
                            Starting, IsAlive, Working
<1>2. TypeOK /\ LockInv /\ [Next]_vars => LockInv'
  <2> SUFFICES ASSUME TypeOK, LockInv, [Next]_vars PROVE LockInv'
    OBVIOUS
  <2>1. ASSUME NEW f \in Files, Save(f) PROVE LockInv'
    BY <2>1, LockInvReads DEF Save, history
  <2>2. CASE SaveDocs
    BY <2>2, LockInvReads DEF SaveDocs, history
  <2>3. CASE UpdateByCommand
    BY <2>3, LockInvReads DEF UpdateByCommand, history
  <2>4. ASSUME NEW w \in Watchers, ThreadSteps(w) PROVE LockInv'
    <3>1. ASSUME NEW p \in Working, watcher'[w].at = p, IsAlive(w),
                 \A v \in Watchers \ {w} : watcher'[v] = watcher[v],
                 UNCHANGED <<lock, manager, hasty>>
          PROVE LockInv'
      BY <3>1, WorkKeepsLockInv DEF IsAlive
    <3>2. CASE Scan(w)
      <4>1. watcher'[w].at \in {"polling", "refreshing"}
        BY <3>2 DEF Scan, TypeOK, Records
      <4> QED
        BY <3>1, <3>2, <4>1 DEF Scan, TypeOK, At, IsAlive, Working
    <3>3. CASE Refreshed(w)
      <4>1. watcher'[w].at = "polling"
        BY <3>3 DEF Refreshed, Goes, TypeOK, Records
      <4> QED
        BY <3>1, <3>3, <4>1 DEF Refreshed, Goes, TypeOK, At, IsAlive, Working, history
    <3>4. CASE RefreshFails(w)
      BY <3>4, EndKeepsLockInv DEF RefreshFails, At, IsAlive, Working, history
    <3>5. CASE Sees(w)
      <4>1. watcher'[w].at = "settling"
        BY <3>5 DEF Sees, Pending, TypeOK, Records
      <4> QED
        BY <3>1, <3>5, <4>1 DEF Sees, Pending, TypeOK, At, IsAlive, Working, history
    <3>6. CASE SeesMore(w)
      <4>1. watcher'[w].at = "settling"
        BY <3>6 DEF SeesMore, Pending, TypeOK, Records
      <4> QED
        BY <3>1, <3>6, <4>1 DEF SeesMore, Pending, TypeOK, At, IsAlive, Working, history
    <3>7. CASE Settled(w)
      <4>1. watcher'[w].at = "updating"
        BY <3>7 DEF Settled, Goes, TypeOK, Records
      <4> QED
        BY <3>1, <3>7, <4>1 DEF Settled, Goes, TypeOK, At, IsAlive, Working, history
    <3>8. ASSUME NEW s, NEW d, Polls(w, s, d)
          PROVE  /\ watcher'[w].at = "polling"
                 /\ \A v \in Watchers \ {w} : watcher'[v] = watcher[v]
      BY <3>8 DEF Polls, Unborn, TypeOK
    <3>9. CASE Updated(w)
      BY <3>1, <3>8, <3>9 DEF Updated, At, IsAlive, Working
    <3>10. CASE UpdateFails(w)
      BY <3>1, <3>8, <3>10 DEF UpdateFails, At, IsAlive, Working
    <3>11. CASE Leave(w)
      BY <3>11, EndKeepsLockInv DEF Leave, IsAlive, Working, history
    <3>12. CASE ReloadFails(w)
      BY <3>12, EndKeepsLockInv DEF ReloadFails, At, IsAlive, Working
    <3> QED
      BY <2>4, <3>2, <3>3, <3>4, <3>5, <3>6, <3>7, <3>9, <3>10, <3>11, <3>12 DEF ThreadSteps
  <2>5. ASSUME NEW m \in Managers, RequestSteps(m) PROVE LockInv'
    <3>1. \A n \in Managers : Starting(n) => manager[n].of \in ServerWatchers
      BY DEF TypeOK, Requests, Starting
    <3>2. ServerWatchers \subseteq Watchers
      BY DEF Watchers
    <3>3. ASSUME NEW place, NEW w, Turns(m, place, w)
          PROVE  /\ manager'[m] = [at |-> place, of |-> w]
                 /\ \A n \in Managers \ {m} : manager'[n] = manager[n]
      BY <3>3 DEF Turns, TypeOK
    <3>4. ASSUME NEW place \in {"idle", "making", "joining"}, NEW w, Turns(m, place, w),
                 manager[m].at \in {"idle", "making", "acquiring"},
                 UNCHANGED <<lock, watcher, hasty>>
          PROVE  LockInv'
      <4>1. /\ manager'[m] = [at |-> place, of |-> w]
            /\ \A n \in Managers \ {m} : manager'[n] = manager[n]
        BY <3>3, <3>4
      <4>2. manager'[m].at = place
        BY <4>1
      <4>3. \A n \in Managers : Starting(n)' => n # m
        BY <3>4, <4>2 DEF Starting
      <4>4. StartsAreApart'
        BY <3>4, <4>1, <4>3 DEF LockInv, StartsAreApart, Starting
      <4>5. \A v \in Watchers : IsLaunching(v) => IsLaunching(v)'
        BY <3>4, <4>1 DEF IsLaunching
      <4> QED
        BY <3>4, <4>4, <4>5 DEF LockInv, WorkingWatcherHoldsLock, LockHolderLives, IsAlive
    <3>5. CASE AskStart(m)
      BY <3>4, <3>5 DEF AskStart, Asks, history
    <3>6. CASE AskStop(m)
      BY <3>4, <3>6 DEF AskStop, Asks, history
    <3>7. ASSUME NEW w \in ServerWatchers, Register(m, w) PROVE LockInv'
      <4>1. /\ watcher'[w].at = "made" /\ watcher[w].at = "new"
            /\ \A v \in Watchers \ {w} : watcher'[v] = watcher[v]
        BY <3>2, <3>7 DEF Register, Goes, At, TypeOK, Records
      <4>2. /\ manager[m].at = "making" /\ manager'[m] = [at |-> "locking", of |-> w]
            /\ \A n \in Managers \ {m} : manager'[n] = manager[n]
        BY <3>3, <3>7 DEF Register, Asks
      <4>3. \A n \in Managers : Starting(n) => manager[n].of # w
        BY <4>1 DEF LockInv, StartsAreApart
      <4>4. UNCHANGED <<lock, hasty>>
        BY <3>7 DEF Register, history
      <4>5. StartsAreApart'
        BY <3>1, <3>2, <4>1, <4>2, <4>3, <4>4 DEF LockInv, StartsAreApart, Starting
      <4>6. WorkingWatcherHoldsLock'
        BY <4>1, <4>4 DEF LockInv, WorkingWatcherHoldsLock, IsAlive, Working
      <4>7. \A v \in Watchers : IsLaunching(v) => IsLaunching(v)'
        BY <4>2 DEF IsLaunching
      <4>8. LockHolderLives'
        BY <4>1, <4>4, <4>7 DEF LockInv, LockHolderLives, IsAlive, Working
      <4> QED
        BY <4>5, <4>6, <4>8 DEF LockInv
    <3>8. CASE TakeLock(m)
      <4> DEFINE w == manager[m].of
      <4>1. CASE lock = None /\ Turns(m, "launching", w)
        <5>1. /\ manager'[m] = [at |-> "launching", of |-> w]
              /\ \A n \in Managers \ {m} : manager'[n] = manager[n]
          BY <3>3, <4>1
        <5>2. /\ Starting(m) /\ UNCHANGED <<watcher, hasty>>
              /\ lock' = IF w \in hasty THEN lock ELSE w
          <6>1. manager[m].at = "acquiring"
            BY <3>8 DEF TakeLock, Asks
          <6>2. manager'[m].at = "launching"
            BY <5>1
          <6>3. ASSUME Turns(m, "idle", None) PROVE FALSE
            <7>1. manager'[m] = [at |-> "idle", of |-> None]
              BY <3>3, <6>3
            <7> QED
              BY <6>2, <7>1
          <6>4. lock' = IF w \in hasty THEN lock ELSE w
            BY <3>8, <6>3 DEF TakeLock
          <6> QED
            BY <3>8, <6>1, <6>4 DEF TakeLock, Starting, history
        <5>3. \A v \in Watchers : lock # v
          BY <4>1, WatcherAssumption DEF Watchers
        <5>4. \A n \in Managers : Starting(n)' => Starting(n) /\ manager'[n].of = manager[n].of
          BY <5>1, <5>2 DEF Starting
        <5>5. StartsAreApart'
          BY <3>1, <3>2, <5>1, <5>2, <5>3, <5>4 DEF LockInv, StartsAreApart, Starting
        <5>6. WorkingWatcherHoldsLock'
          BY <5>2, <5>3 DEF LockInv, WorkingWatcherHoldsLock, IsAlive
        <5>7. LockHolderLives'
          BY <5>1, <5>2, <5>3 DEF LockHolderLives, IsLaunching
        <5> QED
          BY <5>5, <5>6, <5>7 DEF LockInv
      <4>2. CASE Turns(m, "idle", None) /\ UNCHANGED lock
        BY <3>4, <3>8, <4>2 DEF TakeLock, Asks, history
      <4> QED
        BY <3>8, <4>1, <4>2 DEF TakeLock
    <3>11. CASE MakeLock(m)
      <4>1. /\ manager'[m] = [at |-> "acquiring", of |-> manager[m].of]
            /\ \A n \in Managers \ {m} : manager'[n] = manager[n]
        BY <3>3, <3>11 DEF MakeLock
      <4>2. Starting(m) /\ manager[m].at = "locking" /\ UNCHANGED <<watcher, lock, hasty>>
        BY <3>11 DEF MakeLock, Asks, Starting, history
      <4>3. /\ manager'[m].at = "acquiring"
            /\ \A n \in Managers : Starting(n)' => Starting(n) /\ manager'[n].of = manager[n].of
        BY <4>1, <4>2 DEF Starting
      <4>4. StartsAreApart'
        BY <4>1, <4>2, <4>3 DEF LockInv, StartsAreApart, Starting
      <4>5. \A v \in Watchers : IsLaunching(v) => IsLaunching(v)'
        BY <4>1, <4>2 DEF IsLaunching
      <4> QED
        BY <4>2, <4>4, <4>5 DEF LockInv, WorkingWatcherHoldsLock, LockHolderLives, IsAlive
    <3>9. CASE Launch(m)
      <4> DEFINE w == manager[m].of
      <4>1. Starting(m) /\ w \in Watchers /\ manager[m].at = "launching"
        BY <3>1, <3>2, <3>9 DEF Launch, Asks, Starting
      <4>0. /\ manager'[m] = [at |-> "idle", of |-> None]
            /\ \A n \in Managers \ {m} : manager'[n] = manager[n]
        BY <3>3, <3>9 DEF Launch
      <4>2. /\ manager'[m].at = "idle"
            /\ \A n \in Managers \ {m} : manager'[n] = manager[n]
        BY <4>0
      <4>3. /\ watcher'[w].at = "scanning"
            /\ \A v \in Watchers \ {w} : watcher'[v] = watcher[v]
        BY <3>9, <4>1 DEF Launch, Goes, TypeOK, Records
      <4>4. UNCHANGED <<lock, hasty>>
        BY <3>9 DEF Launch, history
      <4>5. \A n \in Managers : Starting(n)' =>
              Starting(n) /\ manager'[n] = manager[n] /\ manager[n].of \in Watchers \ {w}
        BY <3>1, <3>2, <4>1, <4>2 DEF LockInv, StartsAreApart, Starting
      <4>6. StartsAreApart'
        BY <4>3, <4>4, <4>5 DEF LockInv, StartsAreApart, Starting
      <4>7. lock = w \/ w \in hasty
        BY <4>1 DEF LockInv, StartsAreApart
      <4>8. WorkingWatcherHoldsLock'
        BY <4>3, <4>4, <4>7 DEF LockInv, WorkingWatcherHoldsLock, IsAlive
      <4>9. \A v \in Watchers \ {w} : IsLaunching(v) => IsLaunching(v)'
        BY <4>2 DEF IsLaunching
      <4>10. LockHolderLives'
        BY <4>3, <4>4, <4>9 DEF LockInv, LockHolderLives, IsAlive, Working
      <4> QED
        BY <4>6, <4>8, <4>10 DEF LockInv
    <3>10. CASE GiveUpJoining(m)
      <4> DEFINE w == manager[m].of
      <4>1. manager[m].at = "joining" /\ w \in ServerWatchers
        BY <3>10 DEF GiveUpJoining, Asks, TypeOK, Requests
      <4>0. /\ manager'[m] = [at |-> "idle", of |-> None]
            /\ \A n \in Managers \ {m} : manager'[n] = manager[n]
        BY <3>3, <3>10 DEF GiveUpJoining
      <4>2. /\ manager'[m].at = "idle"
            /\ \A n \in Managers \ {m} : manager'[n] = manager[n]
        BY <4>0
      <4>3. /\ watcher' = watcher
            /\ lock' = IF lock = w /\ ~IsAlive(w) THEN None ELSE lock
            /\ hasty' = IF IsStarting(w) THEN hasty \union {w} ELSE hasty
        BY <3>10 DEF GiveUpJoining, OnlyIfOver
      <4>4. \A n \in Managers : Starting(n)' => Starting(n) /\ manager'[n] = manager[n]
        BY <4>2 DEF Starting
      <4>9. \A n \in Managers : manager[n].at = "launching" /\ manager[n].of = w => w \in hasty'
        BY <4>3 DEF LockInv, StartsAreApart, Starting, IsStarting, At
      <4>5. StartsAreApart'
        BY <4>3, <4>4, <4>9 DEF LockInv, StartsAreApart, Starting
      <4>6. WorkingWatcherHoldsLock'
        BY <4>3 DEF LockInv, WorkingWatcherHoldsLock, IsAlive
      <4>7. \A v \in Watchers : IsLaunching(v) => IsLaunching(v)'
        BY <4>1, <4>2 DEF IsLaunching
      <4>8. LockHolderLives'
        BY <4>3, <4>7, WatcherAssumption DEF LockInv, LockHolderLives, IsAlive, Watchers
      <4> QED
        BY <4>5, <4>6, <4>8 DEF LockInv
    <3> QED
      BY <2>5, <3>5, <3>6, <3>7, <3>8, <3>9, <3>10, <3>11 DEF RequestSteps
  <2>6. ASSUME NEW w \in Standalone, StartStandalone(w) PROVE LockInv'
    <3>1. w \in Watchers /\ watcher[w].at = "new" /\ UNCHANGED <<manager, hasty>>
      BY <2>6 DEF StartStandalone, At, Watchers, history
    <3>2. \A n \in Managers : Starting(n) => manager[n].of \in Watchers \ {w}
      BY <3>1 DEF TypeOK, Requests, Starting, Watchers, LockInv, StartsAreApart
    <3>3. /\ \A v \in Watchers \ {w} : watcher'[v] = watcher[v]
          /\ watcher'[w].at = IF lock = None THEN "scanning" ELSE "over"
          /\ lock' = IF lock = None THEN w ELSE lock
      BY <2>6, <3>1 DEF StartStandalone, Goes, TypeOK, Records
    <3>4. \A v \in Watchers : lock = v => lock # None
      BY WatcherAssumption DEF Watchers
    <3>5. StartsAreApart'
      BY <3>1, <3>2, <3>3, <3>4 DEF LockInv, StartsAreApart, Starting
    <3>6. WorkingWatcherHoldsLock'
      BY <3>1, <3>3, <3>4 DEF LockInv, WorkingWatcherHoldsLock, IsAlive, Working
    <3>7. \A v \in Watchers : IsLaunching(v) => IsLaunching(v)'
      BY <3>1 DEF IsLaunching
    <3>8. LockHolderLives'
      BY <3>1, <3>3, <3>4, <3>7 DEF LockInv, LockHolderLives, IsAlive, Working
    <3> QED
      BY <3>5, <3>6, <3>8 DEF LockInv
  <2>7. ASSUME NEW w \in Standalone, Interrupt(w) PROVE LockInv'
    BY <2>7, EndKeepsLockInv DEF Interrupt, Watchers, history
  <2>8. CASE UNCHANGED vars
    BY <2>8, LockInvReads DEF vars, history
  <2> QED
    BY <2>1, <2>2, <2>3, <2>4, <2>5, <2>6, <2>7, <2>8 DEF Next
<1> QED
  BY <1>1, <1>2, Typing, PTL DEF Spec

(* A watcher that looks at the sources or updates the index holds the lock,  *)
(* also when the server has stopped waiting for it (ServerIndexWatcher.stop), *)
(* unless a stop came between its lock object and its thread.              *)
THEOREM WorkersHoldTheLock == Spec => []WorkingWatcherHoldsLock
<1>1. LockInv => WorkingWatcherHoldsLock
  BY DEF LockInv
<1> QED
  BY <1>1, LockInvariant, PTL

(* The watcher lock is never left behind by a watcher that has ended.        *)
THEOREM LockIsNotLeftBehind == Spec => []LockHolderLives
<1>1. LockInv => LockHolderLives
  BY DEF LockInv
<1> QED
  BY <1>1, LockInvariant, PTL
-----------------------------------------------------------------------------
(* Why nothing that a watcher has seen is lost. Saves and updates only bring *)
(* files and documents forward; what a watcher has seen is not later than    *)
(* what there is; the list for the updater is the difference of its two      *)
(* snapshots, over however many polls they were taken.                     *)
TimesAreOrdered ==
  /\ indexDocs <= docs /\ docs <= clock
  /\ \A f \in Files : Age(index[f]) <= Age(disk[f]) /\ Age(disk[f]) <= clock

MovesForward ==
  /\ docs <= docs' /\ indexDocs' \in {indexDocs, docs}
  /\ \A f \in Files : Age(disk[f]) <= Age(disk'[f]) /\ index'[f] \in {index[f], disk[f]}
  /\ unknown \subseteq unknown'

FileIsIndexed(w, f) ==
  LET seen == watcher[w].seen[f]
  IN Entry(seen) # Entry(first[w][f]) =>
       Age(index[f]) >= Age(seen) \/ Entry(index[f]) = Entry(seen)

FilesAreIndexed(w) == \A f \in Files \ unknown : FileIsIndexed(w, f)

SnapshotIsPast(w) ==
  /\ watcher[w].seenDocs <= docs
  /\ \A f \in Files : Age(watcher[w].seen[f]) <= Age(disk[f])

PendingIsPast(w) ==
  /\ watcher[w].pendingDocs <= docs
  /\ \A f \in Files : Age(watcher[w].pending[f]) <= Age(disk[f])
  /\ watcher[w].diff = Diff(watcher[w].seen, watcher[w].pending)

Waiting  == {"settling", "updating"}
Watching == Waiting \union {"polling"}
Looking  == Watching \union {"refreshing"}

WatcherIsTrue(w) ==
  /\ watcher[w].at \in Looking => SnapshotIsPast(w) /\ FilesAreIndexed(w)
  /\ watcher[w].at \in Watching => indexDocs >= watcher[w].seenDocs
  /\ watcher[w].at \in Waiting => PendingIsPast(w)

SeenInv == TimesAreOrdered /\ \A w \in Watchers : WatcherIsTrue(w)

(* What has been indexed stays so, while a watcher keeps its snapshot.       *)
LEMMA ForwardKeepsFiles ==
  ASSUME TypeOK, TypeOK', TimesAreOrdered, MovesForward,
         NEW w \in Watchers, SnapshotIsPast(w), FilesAreIndexed(w),
         watcher'[w].seen = watcher[w].seen, first'[w] = first[w]
  PROVE  FilesAreIndexed(w)'
<1> SUFFICES ASSUME NEW f \in Files, f \notin unknown PROVE FileIsIndexed(w, f)'
  BY DEF FilesAreIndexed, MovesForward
<1>1. FileIsIndexed(w, f) /\ Age(watcher[w].seen[f]) <= Age(disk[f])
  BY DEF FilesAreIndexed, SnapshotIsPast
<1>2. index'[f] = index[f] \/ index'[f] = disk[f]
  BY DEF MovesForward
<1> QED
  BY <1>1, <1>2 DEF FileIsIndexed

LEMMA ForwardKeepsSnapshot ==
  ASSUME TypeOK, TypeOK', MovesForward,
         NEW w \in Watchers, SnapshotIsPast(w),
         watcher'[w].seen = watcher[w].seen, watcher'[w].seenDocs = watcher[w].seenDocs
  PROVE  SnapshotIsPast(w)'
<1>1. /\ docs \in Int /\ docs' \in Int /\ watcher[w].seenDocs \in Int
      /\ \A f \in Files : disk[f] \in Int /\ disk'[f] \in Int /\ watcher[w].seen[f] \in Int
  BY DEF TypeOK, Snapshots, Records
<1>2. \A t \in Int : Age(t) \in Int
  BY DEF Age
<1> QED
  BY <1>1, <1>2 DEF SnapshotIsPast, MovesForward

LEMMA ForwardKeepsPending ==
  ASSUME TypeOK, TypeOK', MovesForward,
         NEW w \in Watchers, PendingIsPast(w), watcher'[w].seen = watcher[w].seen,
         watcher'[w].pending = watcher[w].pending, watcher'[w].diff = watcher[w].diff,
         watcher'[w].pendingDocs = watcher[w].pendingDocs
  PROVE  PendingIsPast(w)'
<1>1. /\ docs \in Int /\ docs' \in Int /\ watcher[w].pendingDocs \in Int
      /\ \A f \in Files : disk[f] \in Int /\ disk'[f] \in Int /\ watcher[w].pending[f] \in Int
  BY DEF TypeOK, Snapshots, Records
<1>2. \A t \in Int : Age(t) \in Int
  BY DEF Age
<1> QED
  BY <1>1, <1>2 DEF PendingIsPast, MovesForward

(* So a watcher that takes no step stays right about what it has seen.       *)
LEMMA ForwardKeepsWatcher ==
  ASSUME TypeOK, TypeOK', TimesAreOrdered, MovesForward,
         NEW w \in Watchers, WatcherIsTrue(w), watcher'[w] = watcher[w], first'[w] = first[w]
  PROVE  WatcherIsTrue(w)'
<1>1. /\ docs \in Int /\ indexDocs \in Int /\ indexDocs' \in Int /\ watcher[w].seenDocs \in Int
  BY DEF TypeOK, Records
<1>2. watcher[w].at \in Looking => SnapshotIsPast(w)' /\ FilesAreIndexed(w)'
  BY ForwardKeepsFiles, ForwardKeepsSnapshot DEF WatcherIsTrue
<1>3. watcher[w].at \in Watching => indexDocs' >= watcher[w].seenDocs
  BY <1>1 DEF WatcherIsTrue, MovesForward, TimesAreOrdered
<1>4. watcher[w].at \in Waiting => PendingIsPast(w)'
  BY ForwardKeepsPending DEF WatcherIsTrue
<1> QED
  BY <1>2, <1>3, <1>4 DEF WatcherIsTrue

LEMMA UpdatesMoveForward ==
  ASSUME TypeOK, TimesAreOrdered, NEW w \in Watchers, Updates(w)
  PROVE  /\ indexDocs' \in {indexDocs, docs} /\ unknown \subseteq unknown'
         /\ \A f \in Files : index'[f] \in {index[f], disk[f]}
BY DEF Updates, IndexAfter

(* No step brings a file, a document or the index back.                      *)
LEMMA StepsMoveForward ==
  ASSUME TypeOK, TypeOK', TimesAreOrdered, [Next]_vars
  PROVE  MovesForward /\ TimesAreOrdered'
<1>0. /\ docs \in Int /\ indexDocs \in Int /\ clock \in Int
      /\ \A f \in Files : disk[f] \in Int /\ index[f] \in Int
      /\ \A t \in Int : Age(t) \in Int
  BY DEF TypeOK, Snapshots, Age
<1>1. ASSUME disk' = disk, docs' = docs, clock' = clock,
             indexDocs' \in {indexDocs, docs}, unknown \subseteq unknown',
             \A f \in Files : index'[f] \in {index[f], disk[f]}
      PROVE  MovesForward /\ TimesAreOrdered'
  BY <1>0, <1>1 DEF MovesForward, TimesAreOrdered
<1>2. ASSUME NEW f \in Files, Save(f) PROVE MovesForward /\ TimesAreOrdered'
  <2>1. PICK sign \in {1, -1} : disk' = [disk EXCEPT ![f] = sign * (clock + 1)]
    BY <1>2 DEF Save
  <2>2. Age(disk[f]) <= clock /\ 0 <= Age(disk[f])
    BY <1>0 DEF TimesAreOrdered, Age
  <2>3. Age(disk'[f]) = clock + 1
    <3>1. disk'[f] = sign * (clock + 1)
      BY <2>1 DEF TypeOK, Snapshots
    <3>2. CASE sign = 1
      BY <1>0, <2>2, <3>1, <3>2 DEF Age
    <3>3. CASE sign = -1
      BY <1>0, <2>2, <3>1, <3>3 DEF Age
    <3> QED
      BY <3>2, <3>3
  <2>4. \A g \in Files \ {f} : disk'[g] = disk[g]
    BY <2>1 DEF TypeOK, Snapshots
  <2>5. UNCHANGED <<index, indexDocs, docs, unknown>> /\ clock' = clock + 1
    BY <1>2 DEF Save, indexed, history
  <2>6. \A g \in Files : /\ Age(disk[g]) <= Age(disk'[g]) /\ Age(disk'[g]) <= clock'
                         /\ Age(index[g]) <= Age(disk'[g])
    BY <1>0, <2>2, <2>3, <2>4, <2>5 DEF TimesAreOrdered
  <2> QED
    BY <1>0, <2>5, <2>6 DEF MovesForward, TimesAreOrdered
<1>3. CASE SaveDocs
  <2>1. UNCHANGED <<index, indexDocs, disk, unknown>> /\ docs' = clock + 1 /\ clock' = clock + 1
    BY <1>3 DEF SaveDocs, indexed, history
  <2> QED
    BY <1>0, <2>1 DEF MovesForward, TimesAreOrdered
<1>4. CASE UpdateByCommand
  BY <1>1, <1>4 DEF UpdateByCommand, sources, history
<1>5. ASSUME NEW w \in Watchers, ThreadSteps(w) PROVE MovesForward /\ TimesAreOrdered'
  <2>1. CASE Updated(w)
    BY <1>1, <2>1, UpdatesMoveForward DEF Updated, sources
  <2>2. CASE UpdateFails(w)
    BY <1>1, <2>2, UpdatesMoveForward DEF UpdateFails, sources, indexed
  <2>4. CASE ReloadFails(w)
    BY <1>1, <2>4, UpdatesMoveForward DEF ReloadFails, sources
  <2>3. CASE Scan(w) \/ Refreshed(w) \/ RefreshFails(w) \/ Sees(w) \/ SeesMore(w)
             \/ Settled(w) \/ Leave(w)
    BY <1>1, <2>3 DEF Scan, Refreshed, RefreshFails, Sees, SeesMore, Settled, Leave,
                      sources, indexed, history
  <2> QED
    BY <1>5, <2>1, <2>2, <2>3, <2>4 DEF ThreadSteps
<1>6. ASSUME NEW m \in Managers, RequestSteps(m) PROVE MovesForward /\ TimesAreOrdered'
  BY <1>1, <1>6 DEF RequestSteps, AskStart, AskStop, Register, MakeLock, TakeLock, Launch, GiveUpJoining,
                    sources, indexed, history
<1>7. ASSUME NEW w \in Standalone, StartStandalone(w) \/ Interrupt(w)
      PROVE  MovesForward /\ TimesAreOrdered'
  BY <1>1, <1>7 DEF StartStandalone, Interrupt, sources, indexed, history
<1>8. CASE UNCHANGED vars
  BY <1>1, <1>8 DEF vars, sources, indexed, history
<1> QED
  BY <1>2, <1>3, <1>4, <1>5, <1>6, <1>7, <1>8 DEF Next

(* diff_snapshots tells the updater of every file that differs.              *)
LEMMA DiffTellsAll ==
  ASSUME NEW before, NEW after, NEW f \in Files, Entry(before[f]) # Entry(after[f])
  PROVE  /\ Diff(before, after).changed
         /\ Diff(before, after).discover \/ f \in Diff(before, after).modified
<1> DEFINE differ == {g \in Files : Entry(before[g]) # Entry(after[g])}
<1>1. f \in differ
  OBVIOUS
<1>2. Exists(before[f]) # Exists(after[f]) \/ (Exists(before[f]) /\ Exists(after[f]))
  BY DEF Entry
<1>3. /\ Diff(before, after).changed = (differ # {})
      /\ Diff(before, after).discover = (\E g \in differ : Exists(before[g]) # Exists(after[g]))
      /\ Diff(before, after).modified = {g \in differ : Exists(before[g]) /\ Exists(after[g])}
  BY DEF Diff
<1> HIDE DEF differ
<1> QED
  BY <1>1, <1>2, <1>3

(* The update that a watcher runs for its two snapshots brings every file     *)
(* that differs in them to what it is now, or finds that it is unknown.       *)
LEMMA UpdateIndexesSeen ==
  ASSUME TypeOK, TypeOK', TimesAreOrdered, MovesForward, NEW w \in Watchers,
         watcher[w].at = "updating", WatcherIsTrue(w), Updates(w), disk' = disk,
         first'[w] = first[w], watcher'[w].seen = Indexed(w)
  PROVE  FilesAreIndexed(w)'
<1> SUFFICES ASSUME NEW f \in Files, f \notin unknown' PROVE FileIsIndexed(w, f)'
  BY DEF FilesAreIndexed
<1> DEFINE r == watcher[w]
<1>1. /\ SnapshotIsPast(w) /\ FilesAreIndexed(w) /\ PendingIsPast(w)
  BY DEF WatcherIsTrue, Looking, Watching, Waiting
<1>2. watcher'[w].seen[f] = IF Entry(r.pending[f]) = Entry(r.seen[f]) THEN r.seen[f]
                            ELSE r.pending[f]
  BY DEF Indexed
<1>3. CASE Entry(r.pending[f]) = Entry(r.seen[f])
  <2>1. FileIsIndexed(w, f) /\ Age(r.seen[f]) <= Age(disk[f])
    BY <1>1 DEF FilesAreIndexed, SnapshotIsPast, MovesForward
  <2>2. index'[f] = index[f] \/ index'[f] = disk[f]
    BY DEF MovesForward
  <2> QED
    BY <1>2, <1>3, <2>1, <2>2 DEF FileIsIndexed
<1>4. CASE Entry(r.pending[f]) # Entry(r.seen[f])
  <2>1. r.diff = Diff(r.seen, r.pending)
    BY <1>1 DEF PendingIsPast
  <2>2. r.diff.changed
    BY <1>4, <2>1, DiffTellsAll
  <2>3. r.diff.discover \/ f \in r.diff.modified
    BY <1>4, <2>1, DiffTellsAll
  <2>4. index'[f] = disk[f]
    <3>1. CASE r.diff.discover
      BY <2>2, <3>1 DEF Updates, IndexAfter, TypeOK, Snapshots
    <3>2. CASE ~r.diff.discover
      <4>1. f \in r.diff.modified
        BY <2>3, <3>2
      <4>2. unknown' = unknown \union {g \in r.diff.modified : ~Exists(index[g])}
        BY <2>2, <3>2 DEF Updates
      <4>3. Exists(index[f])
        BY <4>1, <4>2
      <4> QED
        BY <2>2, <4>1, <4>3 DEF Updates, IndexAfter, TypeOK, Snapshots
    <3> QED
      BY <3>1, <3>2
  <2>5. watcher'[w].seen[f] = r.pending[f] /\ Age(r.pending[f]) <= Age(disk[f])
    BY <1>1, <1>2, <1>4 DEF PendingIsPast
  <2>6. Age(disk[f]) \in Int /\ Age(r.pending[f]) \in Int
    BY DEF TypeOK, Snapshots, Records, Age
  <2> QED
    BY <2>4, <2>5, <2>6 DEF FileIsIndexed
<1> QED
  BY <1>3, <1>4

LEMMA SeenInvariant == Spec => []SeenInv
<1>1. Init => SeenInv
  <2> SUFFICES ASSUME Init PROVE SeenInv
    OBVIOUS
  <2>1. TimesAreOrdered
    BY DEF Init, TimesAreOrdered, Age
  <2>2. \A w \in Watchers : watcher[w].at = "new"
    BY DEF Init, Unborn
  <2> QED
    BY <2>1, <2>2 DEF SeenInv, WatcherIsTrue, Looking, Watching, Waiting
<1>2. TypeOK /\ TypeOK' /\ SeenInv /\ [Next]_vars => SeenInv'
  <2> SUFFICES ASSUME TypeOK, TypeOK', SeenInv, [Next]_vars PROVE SeenInv'
    OBVIOUS
  <2>0. MovesForward /\ TimesAreOrdered /\ TimesAreOrdered'
    BY StepsMoveForward DEF SeenInv
  <2>1. ASSUME NEW w \in Watchers, WatcherIsTrue(w)',
               \A v \in Watchers \ {w} : watcher'[v] = watcher[v] /\ first'[v] = first[v]
        PROVE  SeenInv'
    <3>1. ASSUME NEW v \in Watchers \ {w} PROVE WatcherIsTrue(v)'
      <4>1. WatcherIsTrue(v) /\ watcher'[v] = watcher[v] /\ first'[v] = first[v]
        BY <2>1 DEF SeenInv
      <4> QED
        BY <2>0, <4>1, ForwardKeepsWatcher
    <3> QED
      BY <2>0, <2>1, <3>1 DEF SeenInv
  <2>2. ASSUME UNCHANGED <<watcher, first>> PROVE SeenInv'
    <3>1. ASSUME NEW v \in Watchers PROVE WatcherIsTrue(v)'
      <4>1. WatcherIsTrue(v) /\ watcher'[v] = watcher[v] /\ first'[v] = first[v]
        BY <2>2 DEF SeenInv
      <4> QED
        BY <2>0, <4>1, ForwardKeepsWatcher
    <3> QED
      BY <2>0, <3>1 DEF SeenInv
  <2>3. ASSUME NEW w \in Watchers, watcher'[w].at \notin Looking, UNCHANGED first,
               \A v \in Watchers \ {w} : watcher'[v] = watcher[v]
        PROVE  SeenInv'
    BY <2>1, <2>3 DEF WatcherIsTrue, Looking, Watching, Waiting
  <2>4. ASSUME NEW w \in Watchers, Forgotten(w), UNCHANGED first PROVE SeenInv'
    <3>1. /\ watcher'[w].at = "over" /\ \A v \in Watchers \ {w} : watcher'[v] = watcher[v]
      BY <2>4 DEF Forgotten, Unborn, TypeOK
    <3> QED
      BY <2>3, <2>4, <3>1 DEF Looking, Watching, Waiting
  <2>5. ASSUME NEW w \in Watchers, NEW place \in {"made", "scanning", "over"}, Goes(w, place),
               UNCHANGED first
        PROVE  SeenInv'
    <3>1. /\ watcher'[w].at = place /\ \A v \in Watchers \ {w} : watcher'[v] = watcher[v]
      BY <2>5 DEF Goes, TypeOK, Records
    <3> QED
      BY <2>3, <2>5, <3>1 DEF Looking, Watching, Waiting
  <2>6. ASSUME NEW w \in Watchers, ThreadSteps(w) PROVE SeenInv'
    <3>0. WatcherIsTrue(w) /\ watcher[w] \in Records /\ first[w] \in Snapshots
      BY DEF SeenInv, TypeOK
    <3>1. CASE Scan(w)
      <4>1. /\ watcher'[w].seen = disk /\ watcher'[w].seenDocs = docs /\ first'[w] = disk
            /\ watcher'[w].at = IF indexDocs = docs THEN "polling" ELSE "refreshing"
            /\ UNCHANGED <<disk, docs, indexDocs>>
            /\ \A v \in Watchers \ {w} : watcher'[v] = watcher[v] /\ first'[v] = first[v]
        BY <3>0, <3>1 DEF Scan, DocsMatch, TypeOK, Records, sources, indexed
      <4>2. SnapshotIsPast(w)'
        <5>1. \A f \in Files : Age(disk[f]) \in Int
          BY DEF TypeOK, Snapshots, Age
        <5> QED
          BY <4>1, <5>1 DEF SnapshotIsPast, TypeOK
      <4>3. FilesAreIndexed(w)'
        BY <4>1 DEF FilesAreIndexed, FileIsIndexed
      <4>4. WatcherIsTrue(w)'
        BY <4>1, <4>2, <4>3 DEF WatcherIsTrue, Looking, Watching, Waiting, TypeOK
      <4> QED
        BY <2>1, <4>1, <4>4
    <3>2. CASE Refreshed(w)
      <4>1. /\ watcher'[w] = [watcher[w] EXCEPT !.at = "polling"] /\ watcher[w].at = "refreshing"
            /\ indexDocs' = docs /\ UNCHANGED <<first, docs>>
            /\ \A v \in Watchers \ {w} : watcher'[v] = watcher[v]
        BY <3>2 DEF Refreshed, At, Goes, TypeOK, sources, history
      <4>2. /\ watcher'[w].seen = watcher[w].seen /\ watcher'[w].seenDocs = watcher[w].seenDocs
            /\ watcher'[w].at = "polling"
        BY <3>0, <4>1 DEF Records
      <4>3. SnapshotIsPast(w) /\ FilesAreIndexed(w)
        BY <3>0, <4>1 DEF WatcherIsTrue, Looking
      <4>4. SnapshotIsPast(w)' /\ FilesAreIndexed(w)'
        BY <2>0, <4>1, <4>2, <4>3, ForwardKeepsFiles, ForwardKeepsSnapshot
      <4>5. indexDocs' >= watcher'[w].seenDocs
        BY <3>0, <4>1, <4>2, <4>3 DEF SnapshotIsPast, TypeOK, Records
      <4>6. WatcherIsTrue(w)'
        BY <4>2, <4>4, <4>5 DEF WatcherIsTrue, Waiting
      <4> QED
        BY <2>1, <4>1, <4>6
    <3>3. CASE RefreshFails(w)
      BY <2>4, <3>3 DEF RefreshFails, End, history
    <3>4. ASSUME watcher[w].at \in Watching, Pending(w, WholeDiff(w)),
                 UNCHANGED <<sources, indexed, first>>
          PROVE  SeenInv'
      <4>1. /\ watcher'[w] = [watcher[w] EXCEPT !.at = "settling", !.pending = disk,
                                !.pendingDocs = docs, !.diff = WholeDiff(w)]
            /\ \A v \in Watchers \ {w} : watcher'[v] = watcher[v]
        BY <3>4 DEF Pending, TypeOK
      <4>2. /\ watcher'[w].seen = watcher[w].seen /\ watcher'[w].seenDocs = watcher[w].seenDocs
            /\ watcher'[w].at = "settling" /\ watcher'[w].pending = disk
            /\ watcher'[w].pendingDocs = docs /\ watcher'[w].diff = WholeDiff(w)
        BY <3>0, <4>1 DEF Records
      <4>3. SnapshotIsPast(w) /\ FilesAreIndexed(w) /\ indexDocs >= watcher[w].seenDocs
        BY <3>0, <3>4 DEF WatcherIsTrue, Looking
      <4>4. SnapshotIsPast(w)' /\ FilesAreIndexed(w)'
        BY <2>0, <3>4, <4>2, <4>3, ForwardKeepsFiles, ForwardKeepsSnapshot
      <4>5. PendingIsPast(w)'
        <5>1. /\ docs \in Int /\ \A f \in Files : Age(disk[f]) \in Int
          BY DEF TypeOK, Snapshots, Age
        <5>2. watcher'[w].diff = Diff(watcher'[w].seen, watcher'[w].pending)
          BY <4>2 DEF WholeDiff
        <5> QED
          BY <3>4, <4>2, <5>1, <5>2 DEF PendingIsPast, sources
      <4>6. WatcherIsTrue(w)'
        BY <3>4, <4>2, <4>3, <4>4, <4>5 DEF WatcherIsTrue, indexed
      <4> QED
        BY <2>1, <3>4, <4>1, <4>6
    <3>5. CASE Sees(w)
      BY <3>4, <3>5 DEF Sees, At, Watching, history, WholeDiff
    <3>6. CASE SeesMore(w)
      BY <3>4, <3>6 DEF SeesMore, At, Watching, Waiting, history
    <3>7. CASE Settled(w)
      <4>1. /\ watcher'[w] = [watcher[w] EXCEPT !.at = "updating"] /\ watcher[w].at = "settling"
            /\ UNCHANGED <<sources, indexed, first>>
            /\ \A v \in Watchers \ {w} : watcher'[v] = watcher[v]
        BY <3>7 DEF Settled, At, Goes, TypeOK, history
      <4>2. /\ watcher'[w].seen = watcher[w].seen /\ watcher'[w].seenDocs = watcher[w].seenDocs
            /\ watcher'[w].at = "updating" /\ watcher'[w].pending = watcher[w].pending
            /\ watcher'[w].pendingDocs = watcher[w].pendingDocs
            /\ watcher'[w].diff = watcher[w].diff
        BY <3>0, <4>1 DEF Records
      <4>3. /\ SnapshotIsPast(w) /\ FilesAreIndexed(w) /\ PendingIsPast(w)
            /\ indexDocs >= watcher[w].seenDocs
        BY <3>0, <4>1 DEF WatcherIsTrue, Looking, Watching, Waiting
      <4>4. SnapshotIsPast(w)' /\ FilesAreIndexed(w)' /\ PendingIsPast(w)'
        BY <2>0, <4>1, <4>2, <4>3, ForwardKeepsFiles, ForwardKeepsSnapshot, ForwardKeepsPending
      <4>5. WatcherIsTrue(w)'
        BY <4>1, <4>2, <4>3, <4>4 DEF WatcherIsTrue, indexed
      <4> QED
        BY <2>1, <4>1, <4>5
    <3>8. ASSUME NEW s, NEW d, Polls(w, s, d)
          PROVE  /\ watcher'[w].at = "polling" /\ watcher'[w].seen = s /\ watcher'[w].seenDocs = d
                 /\ \A v \in Watchers \ {w} : watcher'[v] = watcher[v]
      BY <3>8 DEF Polls, Unborn, TypeOK
    <3>9. CASE Updated(w)
      <4>1. /\ watcher[w].at = "updating" /\ Updates(w) /\ UNCHANGED <<disk, docs, first>>
            /\ indexDocs' = docs
        BY <3>9 DEF Updated, Updates, At, sources
      <4>2. /\ watcher'[w].at = "polling" /\ watcher'[w].seen = Indexed(w)
            /\ watcher'[w].seenDocs = watcher[w].pendingDocs
            /\ \A v \in Watchers \ {w} : watcher'[v] = watcher[v]
        BY <3>8, <3>9 DEF Updated
      <4>3. FilesAreIndexed(w)'
        BY <2>0, <3>0, <4>1, <4>2, UpdateIndexesSeen
      <4>4. SnapshotIsPast(w) /\ PendingIsPast(w)
        BY <3>0, <4>1 DEF WatcherIsTrue, Looking, Watching, Waiting
      <4>5. SnapshotIsPast(w)'
        BY <4>1, <4>2, <4>4 DEF SnapshotIsPast, PendingIsPast, Indexed
      <4>6. indexDocs' >= watcher'[w].seenDocs
        BY <3>0, <4>1, <4>2, <4>4 DEF PendingIsPast, TypeOK, Records
      <4>7. WatcherIsTrue(w)'
        BY <4>2, <4>3, <4>5, <4>6 DEF WatcherIsTrue, Waiting
      <4> QED
        BY <2>1, <4>1, <4>2, <4>7
    <3>10. CASE UpdateFails(w)
      <4>1. watcher[w].at = "updating" /\ UNCHANGED <<disk, docs, first>>
        BY <3>10 DEF UpdateFails, At, sources
      <4>2. /\ watcher'[w].at = "polling" /\ watcher'[w].seen = watcher[w].seen
            /\ watcher'[w].seenDocs = watcher[w].seenDocs
            /\ \A v \in Watchers \ {w} : watcher'[v] = watcher[v]
        BY <3>8, <3>10 DEF UpdateFails
      <4>3. SnapshotIsPast(w) /\ FilesAreIndexed(w) /\ indexDocs >= watcher[w].seenDocs
        BY <3>0, <4>1 DEF WatcherIsTrue, Looking, Watching, Waiting
      <4>4. SnapshotIsPast(w)' /\ FilesAreIndexed(w)'
        BY <2>0, <4>1, <4>2, <4>3, ForwardKeepsFiles, ForwardKeepsSnapshot
      <4>5. indexDocs' >= watcher'[w].seenDocs
        BY <2>0, <3>0, <4>2, <4>3
           DEF MovesForward, TimesAreOrdered, SnapshotIsPast, TypeOK, Records
      <4>6. WatcherIsTrue(w)'
        BY <4>2, <4>4, <4>5 DEF WatcherIsTrue, Waiting
      <4> QED
        BY <2>1, <4>1, <4>2, <4>6
    <3>11. CASE Leave(w)
      BY <2>4, <3>11 DEF Leave, End, history
    <3>12. CASE ReloadFails(w)
      BY <2>4, <3>12 DEF ReloadFails, End
    <3> QED
      BY <2>6, <3>1, <3>2, <3>3, <3>5, <3>6, <3>7, <3>9, <3>10, <3>11, <3>12 DEF ThreadSteps
  <2>7. ASSUME NEW m \in Managers, RequestSteps(m) PROVE SeenInv'
    <3>1. CASE AskStart(m) \/ AskStop(m) \/ MakeLock(m) \/ TakeLock(m) \/ GiveUpJoining(m)
      BY <2>2, <3>1 DEF AskStart, AskStop, MakeLock, TakeLock, GiveUpJoining, history
    <3>2. ASSUME NEW w \in ServerWatchers, Register(m, w) PROVE SeenInv'
      BY <2>5, <3>2 DEF Register, Watchers, history
    <3>3. CASE Launch(m)
      <4>1. manager[m].of \in Watchers
        BY <3>3 DEF Launch, Asks, TypeOK, Requests, Watchers
      <4> QED
        BY <2>5, <3>3, <4>1 DEF Launch, history
    <3> QED
      BY <2>7, <3>1, <3>2, <3>3 DEF RequestSteps
  <2>8. ASSUME NEW w \in Standalone, StartStandalone(w) PROVE SeenInv'
    BY <2>5, <2>8 DEF StartStandalone, Watchers, history
  <2>9. ASSUME NEW w \in Standalone, Interrupt(w) PROVE SeenInv'
    BY <2>4, <2>9 DEF Interrupt, End, Watchers, history
  <2>10. CASE (\E f \in Files : Save(f)) \/ SaveDocs \/ UpdateByCommand \/ UNCHANGED vars
    BY <2>2, <2>10 DEF Save, SaveDocs, UpdateByCommand, vars, history
  <2> QED
    BY <2>6, <2>7, <2>8, <2>9, <2>10 DEF Next
<1> QED
  BY <1>1, <1>2, Typing, PTL DEF Spec

(* What a watcher takes for done is in the index: its snapshot moves on only  *)
(* over changes that an update has indexed, whatever failed or came between.  *)
THEOREM SeenChangesReachTheIndex == Spec => []SeenChangesAreIndexed
<1>1. SeenInv => SeenChangesAreIndexed
  BY DEF SeenInv, WatcherIsTrue, FilesAreIndexed, FileIsIndexed, SeenChangesAreIndexed, Looking,
         Watching, Waiting
<1> QED
  BY <1>1, SeenInvariant, PTL
=============================================================================
