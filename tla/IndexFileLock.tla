--------------------------- MODULE IndexFileLock ---------------------------
(***************************************************************************)
(* The lock files of an index root (src/indexer/cpp_index_lock.py): the    *)
(* `.update.lock` of the index writers, the `.watcher.lock` of the one     *)
(* watcher and the `.http-<host>-<port>.lock` of the HTTP server.          *)
(*                                                                         *)
(* Each process runs `with IndexFileLock(...)`: it opens the lock file,    *)
(* tries flock(LOCK_EX | LOCK_NB) until it succeeds or its timeout         *)
(* expires, writes its identity into the file, runs the body, clears the   *)
(* identity, unlocks, closes and, for the HTTP lock only, unlinks the      *)
(* file. The steps interleave with those of the other processes, and a     *)
(* process may be killed between any two of them.                          *)
(*                                                                         *)
(* A lock belongs to an inode, not to a path: that is what makes unlinking *)
(* a lock file delicate, and why the file system is modelled down to       *)
(* inodes. The body of the `with` is the interval in which pc is "held".   *)
(***************************************************************************)
CONSTANTS
  Procs,            (* processes, each with one IndexFileLock object        *)
  Inodes,           (* inode numbers of the file system, reused when free   *)
  Nobody,           (* "no process": a free lock, an empty owner text       *)
  NoInode,          (* "no inode": the path is unlinked, no open handle     *)
  RemoveOnRelease   (* the constructor's remove_on_release flag             *)

ASSUME LockAssumption ==
  /\ Nobody \notin Procs
  /\ NoInode \notin Inodes
  /\ RemoveOnRelease \in BOOLEAN

VARIABLES
  path,       (* the inode the lock file's path names, or NoInode           *)
  handle,     (* self._handle of each process: the inode it has open        *)
  flocked,    (* per inode, the process whose open file holds the flock     *)
  ownerText,  (* per inode, the process named by the text after the byte    *)
  pc          (* where each process is in acquire(), the body or release()  *)

lockVars == <<path, handle, flocked, ownerText, pc>>

(***************************************************************************)
(* idle      no lock object, or acquire() raised IndexLockError            *)
(* trying    opened the file, in the retry loop                            *)
(* locked    flock obtained, owner text not written yet                    *)
(* held      inside the body of the `with`                                 *)
(* cleared   release() has cleared the owner text                          *)
(* unlocked  release() has dropped the flock                               *)
(* closed    release() has closed the handle and is about to unlink        *)
(* failed    release() has raised, or the process has died while workers   *)
(*           it had forked live on: the lock file is still open            *)
(***************************************************************************)
Locations ==
  {"idle", "trying", "locked", "held", "cleared", "unlocked", "closed", "failed"}

LockInit ==
  /\ path = NoInode
  /\ handle = [p \in Procs |-> NoInode]
  /\ flocked = [i \in Inodes |-> Nobody]
  /\ ownerText = [i \in Inodes |-> Nobody]
  /\ pc = [p \in Procs |-> "idle"]

Goto(p, from, to) ==
  /\ pc[p] = from
  /\ pc' = [pc EXCEPT ![p] = to]

(* An inode the file system may hand out for a new file: no path names it
   and no process has it open. *)
FreeInodes == {i \in Inodes : path # i /\ \A p \in Procs : handle[p] # i}

(* Closing a file drops the flock that was taken through it. *)
FlockedWithout(p) == [i \in Inodes |-> IF flocked[i] = p THEN Nobody ELSE flocked[i]]

(* acquire(): open("a+b") creates the file when the path names none.       *)
Open(p) ==
  /\ Goto(p, "idle", "trying")
  /\ \/ /\ path # NoInode
        /\ handle' = [handle EXCEPT ![p] = path]
        /\ UNCHANGED <<path, ownerText>>
     \/ /\ path = NoInode
        /\ \E i \in FreeInodes :
             /\ path' = i
             /\ handle' = [handle EXCEPT ![p] = i]
             /\ ownerText' = [ownerText EXCEPT ![i] = Nobody]
  /\ UNCHANGED flocked

(* Wrong variants of an action, here and below, show that the properties
   notice them: a lock call that does not look at other holders, ...       *)
TryLockShared(p) ==
  /\ Goto(p, "trying", "locked")
  /\ flocked' = [flocked EXCEPT ![handle[p]] = p]
  /\ UNCHANGED <<path, handle, ownerText>>

(* ... one that mixes up process and file, ...                             *)
TryLockSwapped(p) ==
  /\ Goto(p, "trying", "locked")
  /\ flocked[handle[p]] \in {Nobody, p}
  /\ flocked' = [flocked EXCEPT ![handle[p]] = handle[p]]
  /\ UNCHANGED <<path, handle, ownerText>>

(* One successful turn of the retry loop. A process that already holds the
   flock through the same handle (WriteOwnerFails) obtains it again.       *)
TryLock(p) ==
  /\ Goto(p, "trying", "locked")
  /\ flocked[handle[p]] \in {Nobody, p}
  /\ flocked' = [flocked EXCEPT ![handle[p]] = p]
  /\ UNCHANGED <<path, handle, ownerText>>

(* The lock is busy at the deadline: close the handle, raise.              *)
GiveUp(p) ==
  /\ Goto(p, "trying", "idle")
  /\ flocked[handle[p]] # Nobody
  /\ handle' = [handle EXCEPT ![p] = NoInode]
  /\ flocked' = FlockedWithout(p)
  /\ UNCHANGED <<path, ownerText>>

WriteOwner(p) ==
  /\ Goto(p, "locked", "held")
  /\ ownerText' = [ownerText EXCEPT ![handle[p]] = p]
  /\ UNCHANGED <<path, handle, flocked>>

(* _write_owner() raises OSError (a full disk): the loop goes on with the
   flock already taken, after truncate() has emptied the owner text.       *)
WriteOwnerFails(p) ==
  /\ Goto(p, "locked", "trying")
  /\ ownerText' = [ownerText EXCEPT ![handle[p]] = Nobody]
  /\ UNCHANGED <<path, handle, flocked>>

ClearOwner(p) ==
  /\ Goto(p, "held", "cleared")
  /\ ownerText' = [ownerText EXCEPT ![handle[p]] = Nobody]
  /\ UNCHANGED <<path, handle, flocked>>

Unlock(p) ==
  /\ Goto(p, "cleared", "unlocked")
  /\ flocked' = [flocked EXCEPT ![handle[p]] = Nobody]
  /\ UNCHANGED <<path, handle, ownerText>>

(* ... and a release that clears the owner text after unlocking.           *)
CloseHandleClearing(p) ==
  /\ Goto(p, "unlocked", IF RemoveOnRelease THEN "closed" ELSE "idle")
  /\ handle' = [handle EXCEPT ![p] = NoInode]
  /\ ownerText' = [ownerText EXCEPT ![handle[p]] = Nobody]
  /\ UNCHANGED <<path, flocked>>

CloseHandle(p) ==
  /\ Goto(p, "unlocked", IF RemoveOnRelease THEN "closed" ELSE "idle")
  /\ handle' = [handle EXCEPT ![p] = NoInode]
  /\ UNCHANGED <<path, flocked, ownerText>>

(* unlink() removes whatever file the path names by now; a missing file is
   not an error. *)
Unlink(p) ==
  /\ Goto(p, "closed", "idle")
  /\ path' = NoInode
  /\ UNCHANGED <<handle, flocked, ownerText>>

(* _clear_owner() or _unlock() raises OSError, the text emptied or not:
   release() forgets that it acquired the lock and neither closes the file
   nor unlinks it, so the flock outlives the body. *)
ReleaseFails(p) ==
  /\ pc[p] \in {"held", "cleared"}
  /\ pc' = [pc EXCEPT ![p] = "failed"]
  /\ \E text \in {ownerText[handle[p]], Nobody} :
       ownerText' = [ownerText EXCEPT ![handle[p]] = text]
  /\ UNCHANGED <<path, handle, flocked>>

(* The lock object goes with the exception, or the last worker of a process
   that was killed ends; either way the open file goes with it.            *)
DropHandle(p) ==
  /\ Goto(p, "failed", "idle")
  /\ handle' = [handle EXCEPT ![p] = NoInode]
  /\ flocked' = FlockedWithout(p)
  /\ UNCHANGED <<path, ownerText>>

(* The process is killed: the kernel closes its handle and drops its flock;
   the owner text stays in the file. *)
Crash(p) ==
  /\ pc[p] # "idle"
  /\ pc' = [pc EXCEPT ![p] = "idle"]
  /\ handle' = [handle EXCEPT ![p] = NoInode]
  /\ flocked' = FlockedWithout(p)
  /\ UNCHANGED <<path, ownerText>>

(* The process is killed in the body, while a pool runs there: its forked
   workers share the open lock file, so the flock stays with them.         *)
CrashBeforeWorkers(p) ==
  /\ Goto(p, "held", "failed")
  /\ UNCHANGED <<path, handle, flocked, ownerText>>

Acquire(p) == Open(p) \/ TryLock(p) \/ GiveUp(p) \/ WriteOwner(p) \/ WriteOwnerFails(p)

(* release() begins with the lock held and runs to its end or raises.      *)
Release(p) ==
  \/ ClearOwner(p) \/ Unlock(p) \/ CloseHandle(p) \/ Unlink(p)
  \/ ReleaseFails(p) \/ DropHandle(p)

LockNext == \E p \in Procs : Acquire(p) \/ Release(p) \/ Crash(p) \/ CrashBeforeWorkers(p)

LockSpec == LockInit /\ [][LockNext]_lockVars

(***************************************************************************)
(* Properties                                                              *)
(***************************************************************************)
TypeOK ==
  /\ path \in Inodes \cup {NoInode}
  /\ handle \in [Procs -> Inodes \cup {NoInode}]
  /\ flocked \in [Inodes -> Procs \cup {Nobody}]
  /\ ownerText \in [Inodes -> Procs \cup {Nobody}]
  /\ pc \in [Procs -> Locations]

(* Two processes are never inside the body of a `with` on the same lock
   file at once, however their opens, retries, releases and crashes
   interleave. True of the update and watcher locks, whose file is never
   unlinked; not of a lock built with remove_on_release. *)
MutualExclusion ==
  \A p, q \in Procs : p # q => ~(pc[p] = "held" /\ pc[q] = "held")

(* What is left of it for the HTTP lock, whose file is unlinked after the
   flock is dropped: two processes may both be inside, one on the old inode
   and one on a new file at the same path, but never on the same file. *)
HoldersLockDistinctFiles ==
  \A p, q \in Procs :
    (p # q /\ pc[p] = "held" /\ pc[q] = "held") => handle[p] # handle[q]

(* The text a status page reads from a held lock file names its holder: a
   releasing or crashed process never wipes or replaces the text of the
   process that took the lock after it. *)
OwnerTextNamesHolder ==
  \A p \in Procs : pc[p] = "held" => ownerText[handle[p]] = p

(* The lock as its users see it: the process that holds the flock of the
   file the path names. *)
Lock == INSTANCE ExclusiveLock
          WITH owner <- IF path = NoInode THEN Nobody ELSE flocked[path]

(* The retry loop, the handles and the owner text implement the abstract
   exclusive lock. *)
ImplementsExclusiveLock == Lock!Spec
=============================================================================
