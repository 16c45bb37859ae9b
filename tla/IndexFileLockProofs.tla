------------------------ MODULE IndexFileLockProofs ------------------------
(***************************************************************************)
(* Theorems of IndexFileLock, for any number of processes and inodes.      *)
(*                                                                         *)
(* HandleInv ties the three views of ownership together: the program       *)
(* counter, the open handle and the kernel's flock. It is inductive for    *)
(* both kinds of lock. PathInv adds, for a lock file that is never         *)
(* unlinked, that every open handle is the file the path names: with it    *)
(* ownership of "a file" becomes ownership of "the lock".                  *)
(***************************************************************************)
EXTENDS IndexFileLock, TLAPS

(* The locations from which a process still holds the flock it obtained. *)
Owning == {"locked", "held", "cleared", "failed"}

HandleInv ==
  /\ TypeOK
  /\ \A p \in Procs : pc[p] \in {"trying", "unlocked"} \cup Owning => handle[p] # NoInode
  /\ \A p \in Procs : pc[p] \in {"idle", "closed"} => handle[p] = NoInode
  /\ \A p \in Procs : pc[p] \in Owning => flocked[handle[p]] = p
  /\ \A p \in Procs, i \in Inodes :
       flocked[i] = p => handle[p] = i /\ pc[p] \in {"trying"} \cup Owning
  /\ \A p \in Procs : pc[p] = "held" => ownerText[handle[p]] = p

PathInv ==
  /\ \A p \in Procs : pc[p] # "closed"
  /\ \A p \in Procs : handle[p] # NoInode => handle[p] = path

(* The program starts with every handle closed and nothing locked. *)
LEMMA InitHandleInv == LockInit => HandleInv
  BY LockAssumption DEF LockInit, HandleInv, TypeOK, Locations, Owning

(* HandleInv is preserved by every step, whatever remove_on_release is:
   no process ever clears, unlocks or re-locks a file it does not own. *)
LEMMA NextHandleInv == HandleInv /\ [LockNext]_lockVars => HandleInv'
<1> SUFFICES ASSUME HandleInv, [LockNext]_lockVars PROVE HandleInv'
  OBVIOUS
<1> USE LockAssumption DEF HandleInv, TypeOK, Locations, Owning
<1>1. ASSUME NEW p \in Procs, Open(p) PROVE HandleInv'
  <2>1. CASE path # NoInode /\ handle' = [handle EXCEPT ![p] = path]
             /\ UNCHANGED <<path, ownerText>>
    BY <1>1, <2>1 DEF Open, Goto
  <2>2. ASSUME path = NoInode, NEW i \in FreeInodes, path' = i,
               handle' = [handle EXCEPT ![p] = i],
               ownerText' = [ownerText EXCEPT ![i] = Nobody]
        PROVE  HandleInv'
    BY <1>1, <2>2 DEF Open, Goto, FreeInodes
  <2>3. QED
    BY <1>1, <2>1, <2>2 DEF Open
<1>2. ASSUME NEW p \in Procs, TryLock(p) PROVE HandleInv'
  BY <1>2 DEF TryLock, Goto
<1>3. ASSUME NEW p \in Procs, GiveUp(p) PROVE HandleInv'
  BY <1>3 DEF GiveUp, Goto, FlockedWithout
<1>4. ASSUME NEW p \in Procs, WriteOwner(p) PROVE HandleInv'
  BY <1>4 DEF WriteOwner, Goto
<1>5. ASSUME NEW p \in Procs, WriteOwnerFails(p) PROVE HandleInv'
  BY <1>5 DEF WriteOwnerFails, Goto
<1>6. ASSUME NEW p \in Procs, ClearOwner(p) PROVE HandleInv'
  BY <1>6 DEF ClearOwner, Goto
<1>7. ASSUME NEW p \in Procs, Unlock(p) PROVE HandleInv'
  BY <1>7 DEF Unlock, Goto
<1>8. ASSUME NEW p \in Procs, CloseHandle(p) PROVE HandleInv'
  BY <1>8 DEF CloseHandle, Goto
<1>9. ASSUME NEW p \in Procs, Unlink(p) PROVE HandleInv'
  BY <1>9 DEF Unlink, Goto
<1>10. ASSUME NEW p \in Procs, Crash(p) PROVE HandleInv'
  BY <1>10 DEF Crash, FlockedWithout
<1>11. ASSUME NEW p \in Procs, ReleaseFails(p) \/ CrashBeforeWorkers(p) PROVE HandleInv'
  BY <1>11 DEF ReleaseFails, CrashBeforeWorkers, Goto
<1>12. ASSUME NEW p \in Procs, DropHandle(p) PROVE HandleInv'
  BY <1>12 DEF DropHandle, Goto, FlockedWithout
<1>13. CASE UNCHANGED lockVars
  BY <1>13 DEF lockVars
<1>14. QED
  BY <1>1, <1>2, <1>3, <1>4, <1>5, <1>6, <1>7, <1>8, <1>9, <1>10, <1>11, <1>12, <1>13
     DEF LockNext, Acquire, Release

(* Whoever is past the retry loop has the file open and holds its flock. *)
THEOREM HandleInvariance == LockSpec => []HandleInv
  BY InitHandleInv, NextHandleInv, PTL DEF LockSpec

(* For every lock, the HTTP server's included: two processes inside the
   body hold different files. *)
THEOREM HoldersAreApart == LockSpec => []HoldersLockDistinctFiles
<1>1. HandleInv => HoldersLockDistinctFiles
  BY DEF HandleInv, Owning, HoldersLockDistinctFiles
<1>2. QED
  BY <1>1, HandleInvariance, PTL

(* And the text of a held file names its holder. *)
THEOREM HoldersAreNamed == LockSpec => []OwnerTextNamesHolder
<1>1. HandleInv => OwnerTextNamesHolder
  BY DEF HandleInv, Owning, OwnerTextNamesHolder
<1>2. QED
  BY <1>1, HandleInvariance, PTL

-----------------------------------------------------------------------------
(* When the lock file is never unlinked, every handle is the path's file:
   once created the file stays, and every later open finds it. *)
LEMMA NextPathInv ==
  ASSUME RemoveOnRelease = FALSE, HandleInv, PathInv, [LockNext]_lockVars
  PROVE  PathInv'
<1> USE DEF HandleInv, PathInv, TypeOK, Owning
<1>1. ASSUME NEW p \in Procs, Open(p) PROVE PathInv'
  <2>1. CASE path # NoInode /\ handle' = [handle EXCEPT ![p] = path]
             /\ UNCHANGED <<path, ownerText>>
    BY <1>1, <2>1 DEF Open, Goto
  <2>2. ASSUME path = NoInode, NEW i \in FreeInodes, path' = i,
               handle' = [handle EXCEPT ![p] = i]
        PROVE  PathInv'
    BY <1>1, <2>2 DEF Open, Goto, FreeInodes
  <2>3. QED
    BY <1>1, <2>1, <2>2 DEF Open
<1>2. ASSUME NEW p \in Procs, TryLock(p) \/ WriteOwner(p) \/ WriteOwnerFails(p)
                              \/ ClearOwner(p) \/ Unlock(p)
      PROVE  PathInv'
  BY <1>2 DEF TryLock, WriteOwner, WriteOwnerFails, ClearOwner, Unlock, Goto
<1>3. ASSUME NEW p \in Procs, GiveUp(p) PROVE PathInv'
  BY <1>3 DEF GiveUp, Goto
<1>4. ASSUME NEW p \in Procs, CloseHandle(p) PROVE PathInv'
  BY <1>4 DEF CloseHandle, Goto
<1>5. ASSUME NEW p \in Procs, Unlink(p) PROVE PathInv'
  BY <1>5 DEF Unlink, Goto
<1>6. ASSUME NEW p \in Procs, Crash(p) PROVE PathInv'
  BY <1>6 DEF Crash
<1>7. ASSUME NEW p \in Procs, ReleaseFails(p) \/ DropHandle(p) \/ CrashBeforeWorkers(p)
      PROVE  PathInv'
  BY <1>7 DEF ReleaseFails, DropHandle, CrashBeforeWorkers, Goto
<1>8. CASE UNCHANGED lockVars
  BY <1>8 DEF lockVars
<1>9. QED
  BY <1>1, <1>2, <1>3, <1>4, <1>5, <1>6, <1>7, <1>8 DEF LockNext, Acquire, Release

(* The file a process of the update or watcher lock has open is always the
   one the path names. *)
THEOREM PathInvariance ==
  ASSUME RemoveOnRelease = FALSE
  PROVE  LockSpec => [](HandleInv /\ PathInv)
<1>1. LockInit => PathInv
  BY DEF LockInit, PathInv
<1>2. HandleInv /\ PathInv /\ [LockNext]_lockVars => PathInv'
  BY NextPathInv
<1>3. QED
  BY <1>1, <1>2, HandleInvariance, PTL DEF LockSpec

(* At most one process is inside the body of `with index_update_lock(...)`
   or holds the watcher lock, for any number of processes, through retries,
   failed owner writes and crashes. *)
THEOREM MutualExclusionTheorem ==
  ASSUME RemoveOnRelease = FALSE
  PROVE  LockSpec => []MutualExclusion
<1>1. HandleInv /\ PathInv => MutualExclusion
  BY DEF HandleInv, PathInv, Owning, MutualExclusion
<1>2. QED
  BY <1>1, PathInvariance, PTL

-----------------------------------------------------------------------------
(* The steps of acquire() and release() are steps of the abstract exclusive
   lock, or leave it unchanged: TryLock takes it, Unlock, GiveUp,
   DropHandle and Crash may give it back. *)
THEOREM Refinement ==
  ASSUME RemoveOnRelease = FALSE
  PROVE  LockSpec => ImplementsExclusiveLock
<1> DEFINE own == IF path = NoInode THEN Nobody ELSE flocked[path]
<1>1. LockInit => own = Nobody
  BY LockAssumption DEF LockInit
<1>2. ASSUME HandleInv, PathInv, [LockNext]_lockVars
      PROVE  UNCHANGED own
             \/ \E p \in Procs : \/ own = Nobody /\ own' = p
                                 \/ own = p /\ own' = Nobody
  <2> USE <1>2, LockAssumption DEF HandleInv, PathInv, TypeOK, Owning
  <2>1. ASSUME NEW p \in Procs, Open(p) PROVE UNCHANGED own
    <3>1. CASE path # NoInode
      BY <2>1, <3>1 DEF Open
    <3>2. CASE path = NoInode
      <4>1. PICK i \in FreeInodes : path' = i
        BY <2>1, <3>2 DEF Open
      <4>2. i \in Inodes /\ flocked[i] = Nobody
        BY <4>1 DEF FreeInodes
      <4>3. QED
        BY <2>1, <3>2, <4>1, <4>2 DEF Open
    <3>3. QED
      BY <3>1, <3>2
  <2>2. ASSUME NEW p \in Procs, TryLock(p)
        PROVE  UNCHANGED own \/ (own = Nobody /\ own' = p)
    BY <2>2 DEF TryLock, Goto
  <2>3. ASSUME NEW p \in Procs, GiveUp(p) \/ Crash(p) \/ DropHandle(p)
        PROVE  UNCHANGED own \/ (own = p /\ own' = Nobody)
    BY <2>3 DEF GiveUp, Crash, DropHandle, Goto, FlockedWithout
  <2>4. ASSUME NEW p \in Procs, Unlock(p) PROVE own = p /\ own' = Nobody
    BY <2>4 DEF Unlock, Goto
  <2>5. ASSUME NEW p \in Procs, WriteOwner(p) \/ WriteOwnerFails(p) \/ ClearOwner(p)
                                \/ CloseHandle(p) \/ ReleaseFails(p)
                                \/ CrashBeforeWorkers(p)
        PROVE  UNCHANGED own
    BY <2>5 DEF WriteOwner, WriteOwnerFails, ClearOwner, CloseHandle, ReleaseFails,
                CrashBeforeWorkers
  <2>6. ASSUME NEW p \in Procs, Unlink(p) PROVE FALSE
    BY <2>6 DEF Unlink, Goto
  <2>7. CASE UNCHANGED lockVars
    BY <2>7 DEF lockVars
  <2>8. QED
    BY <1>2, <2>1, <2>2, <2>3, <2>4, <2>5, <2>6, <2>7 DEF LockNext, Acquire, Release
<1>3. LockInit => Lock!Init
  BY <1>1 DEF Lock!Init
<1>4. HandleInv /\ PathInv /\ [LockNext]_lockVars => [Lock!Next]_own
  BY <1>2 DEF Lock!Next, Lock!Take, Lock!Give
<1>5. QED
  BY <1>3, <1>4, PathInvariance, PTL DEF LockSpec, ImplementsExclusiveLock, Lock!Spec
=============================================================================
