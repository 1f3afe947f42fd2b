------------------------------ MODULE FileLock ------------------------------
(* The advisory file lock of evidence-capture/pipeline.py (_try_lock,       *)
(* _unlock).  A lock is an OS lock on an open handle to the lock file, not  *)
(* the file's existence.  A contender re-checks after locking that the path *)
(* still names the file it locked.  On POSIX release unlinks the path while *)
(* still holding the lock; on Windows it unlocks and closes first and the   *)
(* unlink fails while any other process has the file open.                  *)
(*                                                                          *)
(* Every system call is a step of its own; calls of different processes     *)
(* interleave.  A process may die between any two of them.                  *)
EXTENDS Naturals

CONSTANTS
    Procs,      \* processes that contend for one lock path
    Inodes,     \* file identities; one may be reused once nothing refers to it
    None,       \* no process, no file
    MaxTries,   \* rounds of _try_lock's loop (3 in the code)
    MaxCrashes  \* bound on the number of deaths

ASSUME ConstAssumption ==
    /\ None \notin Procs
    /\ None \notin Inodes
    /\ MaxTries \in Nat \ {0}
    /\ MaxCrashes \in Nat

VARIABLES
    posix,    \* TRUE: the fcntl.flock branch, FALSE: msvcrt.locking; never changes
    path,     \* the inode the lock path names, or None
    flock,    \* the process holding the OS lock of each inode, or None
    fd,       \* the inode each process has open, or None
    pc,       \* where each process is in _try_lock / _unlock
    tries,    \* rounds used by the current _try_lock call
    met,      \* history: processes during whose current call another one was inside
    crashes   \* deaths so far

vars == <<posix, path, flock, fd, pc, tries, met, crashes>>

\* "busy" and "failed" are both the return value False: "failed" when the
\* lock file could not be opened, "busy" otherwise.
Outside == {"idle", "busy", "failed"}
Inside  == {"open", "lock", "check", "held", "unlock", "unlink"}

Active(p) == pc[p] \in Inside
Holding(p) == pc[p] = "held"

Init ==
    /\ posix \in BOOLEAN
    /\ path = None
    /\ flock = [i \in Inodes |-> None]
    /\ fd = [p \in Procs |-> None]
    /\ pc = [p \in Procs |-> "idle"]
    /\ tries = [p \in Procs |-> 0]
    /\ met = {}
    /\ crashes = 0

-----------------------------------------------------------------------------
\* _try_lock is called by a process that does not hold the lock.
Begin(p) ==
    /\ pc[p] \in Outside
    /\ pc' = [pc EXCEPT ![p] = "open"]
    /\ tries' = [tries EXCEPT ![p] = 0]
    /\ LET others == {q \in Procs \ {p} : Active(q)}
       IN  met' = (met \ {p}) \cup others \cup (IF others = {} THEN {} ELSE {p})
    /\ UNCHANGED <<path, flock, fd, crashes>>

Unused(i) == path # i /\ flock[i] = None /\ \A q \in Procs : fd[q] # i

\* os.open(path, O_CREAT | O_RDWR): the existing file, or a new one.
OpenFile(p) ==
    /\ pc[p] = "open"
    /\ \/ path # None /\ fd' = [fd EXCEPT ![p] = path] /\ path' = path
       \/ /\ path = None
          /\ \E i \in Inodes : /\ Unused(i)
                               /\ path' = i
                               /\ fd' = [fd EXCEPT ![p] = i]
    /\ pc' = [pc EXCEPT ![p] = "lock"]
    /\ UNCHANGED <<flock, tries, met, crashes>>

\* The open raises OSError: _try_lock returns False and touches nothing.
OpenFails(p) ==
    /\ pc[p] = "open"
    /\ pc' = [pc EXCEPT ![p] = "failed"]
    /\ UNCHANGED <<path, flock, fd, tries, met, crashes>>

\* _os_lock succeeds: nobody holds the lock of the inode this process opened.
FlockTaken(p) ==
    /\ pc[p] = "lock"
    /\ flock[fd[p]] = None
    /\ flock' = [flock EXCEPT ![fd[p]] = p]
    /\ pc' = [pc EXCEPT ![p] = "check"]
    /\ UNCHANGED <<path, fd, tries, met, crashes>>

\* _os_lock fails: close and return False.
FlockBusy(p) ==
    /\ pc[p] = "lock"
    /\ flock[fd[p]] # None
    /\ fd' = [fd EXCEPT ![p] = None]
    /\ pc' = [pc EXCEPT ![p] = "busy"]
    /\ UNCHANGED <<path, flock, tries, met, crashes>>

\* Mutant: no identity check after locking.
BugCheckSame(p) ==
    /\ pc[p] = "check"
    /\ pc' = [pc EXCEPT ![p] = "held"]
    /\ UNCHANGED <<path, flock, fd, tries, met, crashes>>

\* The path still names the locked file: the lock is held.
CheckSame(p) ==
    /\ pc[p] = "check"
    /\ path = fd[p]
    /\ pc' = [pc EXCEPT ![p] = "held"]
    /\ UNCHANGED <<path, flock, fd, tries, met, crashes>>

\* The path was unlinked (and perhaps recreated) between open and lock:
\* unlock, close, and take another round if one is left.
CheckGone(p) ==
    /\ pc[p] = "check"
    /\ path # fd[p]
    /\ flock' = [flock EXCEPT ![fd[p]] = None]
    /\ tries' = [tries EXCEPT ![p] = @ + 1]
    /\ fd' = [fd EXCEPT ![p] = None]
    /\ pc' = [pc EXCEPT ![p] = IF tries'[p] < MaxTries THEN "open" ELSE "busy"]
    /\ UNCHANGED <<path, met, crashes>>

-----------------------------------------------------------------------------
\* Mutant: an unlink that raises makes release return with the lock still held.
BugPosixUnlink(p) ==
    /\ posix
    /\ pc[p] = "held"
    /\ pc' = [pc EXCEPT ![p] = "idle"]
    /\ UNCHANGED <<path, flock, fd, tries, met, crashes>>

\* _unlock, POSIX: unlink while still locked; what the path names goes away,
\* or the call raises and the file stays.
PosixUnlink(p) ==
    /\ posix
    /\ pc[p] = "held"
    /\ path' \in {path, None}
    /\ pc' = [pc EXCEPT ![p] = "unlock"]
    /\ UNCHANGED <<flock, fd, tries, met, crashes>>

\* _os_unlock and os.close: the lock is free, the handle is gone.  On Windows
\* this comes first and the unlink follows.
Unlock(p) ==
    /\ pc[p] = IF posix THEN "unlock" ELSE "held"
    /\ flock' = [flock EXCEPT ![fd[p]] = None]
    /\ fd' = [fd EXCEPT ![p] = None]
    /\ pc' = [pc EXCEPT ![p] = IF posix THEN "idle" ELSE "unlink"]
    /\ UNCHANGED <<path, tries, met, crashes>>

\* Mutant: the unlink takes effect under a contender's open handle.
BugWindowsUnlink(p) ==
    /\ pc[p] = "unlink"
    /\ path' = None
    /\ pc' = [pc EXCEPT ![p] = "idle"]
    /\ UNCHANGED <<flock, fd, tries, met, crashes>>

\* Windows: the unlink takes effect only when no process has the file open,
\* and may fail all the same.
WindowsUnlink(p) ==
    /\ pc[p] = "unlink"
    /\ path' = path \/ (path' = None /\ \A q \in Procs : fd[q] # path)
    /\ pc' = [pc EXCEPT ![p] = "idle"]
    /\ UNCHANGED <<flock, fd, tries, met, crashes>>

\* Mutant: a dead holder's lock stays, as a lock by mere existence would.
BugDie(p) ==
    /\ Active(p)
    /\ crashes < MaxCrashes
    /\ crashes' = crashes + 1
    /\ fd' = [fd EXCEPT ![p] = None]
    /\ pc' = [pc EXCEPT ![p] = "idle"]
    /\ UNCHANGED <<path, flock, tries, met>>

\* The process dies: the operating system closes its handle and drops its
\* lock; the lock file stays behind.
Die(p) ==
    /\ Active(p)
    /\ crashes < MaxCrashes
    /\ crashes' = crashes + 1
    /\ flock' = [i \in Inodes |-> IF flock[i] = p THEN None ELSE flock[i]]
    /\ fd' = [fd EXCEPT ![p] = None]
    /\ pc' = [pc EXCEPT ![p] = "idle"]
    /\ UNCHANGED <<path, tries, met>>

Step(p) ==
    \/ OpenFile(p) \/ FlockTaken(p) \/ FlockBusy(p)
    \/ CheckSame(p) \/ CheckGone(p)
    \/ PosixUnlink(p) \/ Unlock(p) \/ WindowsUnlink(p)

Next ==
    /\ \E p \in Procs : Begin(p) \/ Step(p) \/ OpenFails(p) \/ Die(p)
    /\ UNCHANGED posix

Spec == Init /\ [][Next]_vars

\* A live process goes on with the call it is in; _wait_lock polls: it calls
\* _try_lock again while it is refused; opening the lock file does not fail
\* for ever.
Fairness ==
    \A p \in Procs :
        /\ WF_vars(Step(p) /\ UNCHANGED posix)
        /\ WF_vars(Begin(p) /\ UNCHANGED posix)
        /\ SF_vars(OpenFile(p) /\ UNCHANGED posix)

FairSpec == Spec /\ Fairness

-----------------------------------------------------------------------------
TypeOK ==
    /\ posix \in BOOLEAN
    /\ path \in Inodes \cup {None}
    /\ flock \in [Inodes -> Procs \cup {None}]
    /\ fd \in [Procs -> Inodes \cup {None}]
    /\ pc \in [Procs -> Outside \cup Inside]
    /\ tries \in [Procs -> 0 .. MaxTries]
    /\ met \subseteq Procs
    /\ crashes \in 0 .. MaxCrashes

(* Two processes never hold the lock of one path at once, whatever the      *)
(* order of their open, lock, check and unlink calls (pipeline.py:185-194). *)
MutualExclusion ==
    \A p, q \in Procs : Holding(p) /\ Holding(q) => p = q

(* _try_lock answers "busy" only when another process was inside the        *)
(* protocol during the call: a file left by a dead holder never refuses     *)
(* anybody (pipeline.py:186-188, "a dead holder's lock is free at once").   *)
RefusedOnlyByContender ==
    \A p \in Procs : pc[p] = "busy" => p \in met

(* Pollers never refuse one another for ever: again and again one of them   *)
(* gets the lock, although each attempt is non-blocking and a contender     *)
(* that locked a stale file makes others fail.                              *)
NoLivelock == []<>(\E p \in Procs : Holding(p))

\* Refinement: the lock's holder is the process past the check, if any.
Holder == IF \E p \in Procs : Holding(p)
          THEN CHOOSE p \in Procs : Holding(p) ELSE None

Abstract == INSTANCE Mutex WITH NoProc <- None, holder <- Holder

(* The protocol implements Mutex: the lock passes from one holder to the    *)
(* next only through a state in which it is free.                           *)
ImplementsMutex == Abstract!Spec
=============================================================================
