-------------------------- MODULE FileLock_proofs --------------------------
(* FileLock for any number of processes, inodes, rounds and deaths, on both *)
(* platforms: type correctness, mutual exclusion, refusal only by a live    *)
(* contender, and the implementation of Mutex.                              *)
EXTENDS FileLock, TLAPS

\* A process past the OS lock owns the lock of the inode it has open.
Owns ==
    \A p \in Procs : pc[p] \in {"check", "held", "unlock"} =>
        fd[p] \in Inodes /\ flock[fd[p]] = p

\* Nobody else owns an OS lock.
OwnedByActive ==
    \A i \in Inodes : \A p \in Procs : flock[i] = p =>
        fd[p] = i /\ pc[p] \in {"check", "held", "unlock"}

\* The path names the inode of the holder: nobody unlinks it meanwhile.
HeldPath == \A p \in Procs : Holding(p) => path = fd[p]

Shape ==
    /\ \A p \in Procs : pc[p] = "lock" => fd[p] \in Inodes
    /\ \A p \in Procs : pc[p] \in {"open", "lock", "check"} => tries[p] < MaxTries
    /\ \A p \in Procs : pc[p] = "unlock" => posix
    /\ \A p \in Procs : pc[p] = "unlink" => ~posix

\* Two processes inside the protocol have met; a path that moved under a
\* contender was moved by a process it has met.
Met ==
    /\ \A p, q \in Procs : p # q /\ Active(p) /\ Active(q) => p \in met
    /\ \A p \in Procs : pc[p] \in {"lock", "check"} /\ path # fd[p] => p \in met

LockInv == TypeOK /\ Shape /\ Owns /\ OwnedByActive /\ HeldPath

MetInv == LockInv /\ Met /\ RefusedOnlyByContender

USE ConstAssumption

-----------------------------------------------------------------------------
LEMMA InitLockInv == Init => LockInv
  BY DEF Init, LockInv, TypeOK, Shape, Owns, OwnedByActive, HeldPath, Holding, Outside, Inside

\* Every step keeps the strengthened lock invariant.
LEMMA StepLockInv == LockInv /\ [Next]_vars => LockInv'
  <1> SUFFICES ASSUME LockInv, [Next]_vars PROVE LockInv'
    OBVIOUS
  <1>0. UNCHANGED posix
    BY DEF Next, vars
  <1> USE <1>0 DEF LockInv, TypeOK, Shape, Owns, OwnedByActive, HeldPath, Holding, Outside, Inside
  <1>1. ASSUME NEW p \in Procs, Begin(p) PROVE LockInv'
    BY <1>1 DEF Begin, Active
  <1>2. ASSUME NEW p \in Procs, OpenFile(p) PROVE LockInv'
    BY <1>2 DEF OpenFile, Unused
  <1>3. ASSUME NEW p \in Procs, OpenFails(p) PROVE LockInv'
    BY <1>3 DEF OpenFails
  <1>4. ASSUME NEW p \in Procs, FlockTaken(p) PROVE LockInv'
    BY <1>4 DEF FlockTaken
  <1>5. ASSUME NEW p \in Procs, FlockBusy(p) PROVE LockInv'
    BY <1>5 DEF FlockBusy
  <1>6. ASSUME NEW p \in Procs, CheckSame(p) PROVE LockInv'
    BY <1>6 DEF CheckSame
  <1>7. ASSUME NEW p \in Procs, CheckGone(p) PROVE LockInv'
    BY <1>7 DEF CheckGone
  <1>8. ASSUME NEW p \in Procs, PosixUnlink(p) PROVE LockInv'
    BY <1>8 DEF PosixUnlink
  <1>9. ASSUME NEW p \in Procs, Unlock(p) PROVE LockInv'
    BY <1>9 DEF Unlock
  <1>10. ASSUME NEW p \in Procs, WindowsUnlink(p) PROVE LockInv'
    BY <1>10 DEF WindowsUnlink
  <1>11. ASSUME NEW p \in Procs, Die(p) PROVE LockInv'
    BY <1>11 DEF Die, Active
  <1>12. CASE UNCHANGED vars
    BY <1>12 DEF vars
  <1>13. QED
    BY <1>1, <1>2, <1>3, <1>4, <1>5, <1>6, <1>7, <1>8, <1>9, <1>10, <1>11, <1>12 DEF Next, Step

\* The lock invariant holds in every reachable state.
THEOREM LockInvariant == Spec => []LockInv
  BY InitLockInv, StepLockInv, PTL DEF Spec

\* Type correctness of the protocol's state.
THEOREM TypeCorrect == Spec => []TypeOK
  BY LockInvariant, PTL DEF LockInv

\* Two holders have the same inode open, which has one lock owner.
LEMMA LockInvExcludes == LockInv => MutualExclusion
  BY DEF LockInv, MutualExclusion, Owns, HeldPath, Holding

(* At most one process is past the check, for any number of contenders and  *)
(* any interleaving of open, lock, check, unlink and deaths.                *)
THEOREM Exclusion == Spec => []MutualExclusion
  BY LockInvariant, LockInvExcludes, PTL

-----------------------------------------------------------------------------
LEMMA InitMetInv == Init => MetInv
  <1>1. Init => LockInv
    BY InitLockInv
  <1>2. QED
    BY <1>1 DEF Init, MetInv, Met, RefusedOnlyByContender, Active, Inside

\* Every step keeps the record of who met whom.
LEMMA StepMetInv == MetInv /\ [Next]_vars => MetInv'
  <1> SUFFICES ASSUME MetInv, [Next]_vars PROVE Met' /\ RefusedOnlyByContender'
    BY StepLockInv DEF MetInv
  <1> USE DEF MetInv, Met, RefusedOnlyByContender, LockInv, TypeOK, Active, Outside, Inside
  <1>1. ASSUME NEW p \in Procs, Begin(p) PROVE Met' /\ RefusedOnlyByContender'
    BY <1>1 DEF Begin
  <1>2. ASSUME NEW p \in Procs, OpenFile(p) PROVE Met' /\ RefusedOnlyByContender'
    <2>1. ASSUME NEW q \in Procs, q # p, pc[q] \in {"lock", "check"}, path' # fd[q]
          PROVE  q \in met
      BY <1>2, <2>1 DEF OpenFile
    <2>2. QED
      BY <1>2, <2>1 DEF OpenFile
  <1>3. ASSUME NEW p \in Procs, OpenFails(p) PROVE Met' /\ RefusedOnlyByContender'
    BY <1>3 DEF OpenFails
  <1>4. ASSUME NEW p \in Procs, FlockTaken(p) PROVE Met' /\ RefusedOnlyByContender'
    BY <1>4 DEF FlockTaken
  <1>5. ASSUME NEW p \in Procs, FlockBusy(p) PROVE Met' /\ RefusedOnlyByContender'
    <2>1. fd[p] \in Inodes /\ flock[fd[p]] \in Procs
      BY <1>5 DEF FlockBusy, Shape
    <2>2. flock[fd[p]] # p /\ Active(flock[fd[p]])
      BY <1>5, <2>1 DEF FlockBusy, OwnedByActive
    <2>3. p \in met
      BY <1>5, <2>1, <2>2 DEF FlockBusy
    <2>4. QED
      BY <1>5, <2>3 DEF FlockBusy
  <1>6. ASSUME NEW p \in Procs, CheckSame(p) PROVE Met' /\ RefusedOnlyByContender'
    BY <1>6 DEF CheckSame
  <1>7. ASSUME NEW p \in Procs, CheckGone(p) PROVE Met' /\ RefusedOnlyByContender'
    BY <1>7 DEF CheckGone
  <1>8. ASSUME NEW p \in Procs, PosixUnlink(p) PROVE Met' /\ RefusedOnlyByContender'
    <2>1. ASSUME NEW q \in Procs, pc'[q] \in {"lock", "check"} PROVE q \in met
      BY <1>8, <2>1 DEF PosixUnlink
    <2>2. QED
      BY <1>8, <2>1 DEF PosixUnlink
  <1>9. ASSUME NEW p \in Procs, Unlock(p) PROVE Met' /\ RefusedOnlyByContender'
    BY <1>9 DEF Unlock
  <1>10. ASSUME NEW p \in Procs, WindowsUnlink(p) PROVE Met' /\ RefusedOnlyByContender'
    <2>1. ASSUME NEW q \in Procs, pc'[q] \in {"lock", "check"} PROVE q \in met
      BY <1>10, <2>1 DEF WindowsUnlink
    <2>2. QED
      BY <1>10, <2>1 DEF WindowsUnlink
  <1>11. ASSUME NEW p \in Procs, Die(p) PROVE Met' /\ RefusedOnlyByContender'
    BY <1>11 DEF Die
  <1>12. CASE UNCHANGED vars
    BY <1>12 DEF vars
  <1>13. QED
    BY <1>1, <1>2, <1>3, <1>4, <1>5, <1>6, <1>7, <1>8, <1>9, <1>10, <1>11, <1>12 DEF Next, Step

(* "busy" is answered only when another live process was inside the         *)
(* protocol during the call: a dead holder's leftovers refuse nobody.       *)
THEOREM NoFalseRefusal == Spec => []RefusedOnlyByContender
  BY InitMetInv, StepMetInv, PTL DEF Spec, MetInv

-----------------------------------------------------------------------------
\* Where nobody holds the lock the mapped holder is None; a holder is unique.
LEMMA HolderValue ==
    ASSUME LockInv
    PROVE  /\ \A p \in Procs : Holding(p) => Holder = p
           /\ (\A p \in Procs : ~Holding(p)) => Holder = None
  BY LockInvExcludes DEF Holder, MutualExclusion

\* The same facts after a step.
LEMMA HolderValuePrimed ==
    ASSUME LockInv'
    PROVE  /\ \A p \in Procs : Holding(p)' => Holder' = p
           /\ (\A p \in Procs : ~Holding(p)') => Holder' = None
  <1>1. MutualExclusion'
    BY LockInvExcludes, PTL
  <1>2. QED
    BY <1>1 DEF Holder, MutualExclusion

\* A step after which the same processes hold the lock is a stutter.
LEMMA SameHolder ==
    ASSUME LockInv, LockInv', \A p \in Procs : Holding(p)' <=> Holding(p)
    PROVE  UNCHANGED Holder
  <1>1. CASE \E p \in Procs : Holding(p)
    <2>1. PICK p \in Procs : Holding(p)
      BY <1>1
    <2>2. Holder = p /\ Holder' = p
      BY <2>1, HolderValue, HolderValuePrimed
    <2>3. QED
      BY <2>2
  <1>2. CASE \A p \in Procs : ~Holding(p)
    BY <1>2, HolderValue, HolderValuePrimed
  <1>3. QED
    BY <1>1, <1>2

\* Every step of the protocol is a step of Mutex or leaves the holder alone.
LEMMA StepRefines == LockInv /\ [Next]_vars => [Abstract!Next]_Holder
  <1> SUFFICES ASSUME LockInv, [Next]_vars
               PROVE  Abstract!Next \/ UNCHANGED Holder
    OBVIOUS
  <1>0. LockInv'
    BY StepLockInv
  <1> USE DEF LockInv, TypeOK, Holding, Outside, Inside
  <1>1. ASSUME NEW p \in Procs, CheckSame(p) PROVE Abstract!Acquire(p)
    <2>1. \A q \in Procs : ~Holding(q)
      BY <1>1 DEF CheckSame, Owns, HeldPath
    <2>2. Holding(p)'
      BY <1>1 DEF CheckSame
    <2>3. Holder = None /\ Holder' = p
      BY <1>0, <2>1, <2>2, HolderValue, HolderValuePrimed
    <2>4. QED
      BY <2>3 DEF Abstract!Acquire
  <1>2. ASSUME NEW p \in Procs, Holding(p), pc'[p] # "held",
               \A q \in Procs \ {p} : pc'[q] = pc[q]
        PROVE  Abstract!Leave(p)
    <2>1. \A q \in Procs : ~Holding(q)'
      BY <1>2, LockInvExcludes DEF MutualExclusion
    <2>2. Holder = p /\ Holder' = None
      BY <1>0, <1>2, <2>1, HolderValue, HolderValuePrimed
    <2>3. QED
      BY <2>2 DEF Abstract!Leave
  <1>3. ASSUME NEW p \in Procs, pc[p] # "held", pc'[p] # "held",
               \A q \in Procs \ {p} : pc'[q] = pc[q]
        PROVE  UNCHANGED Holder
    <2>1. \A q \in Procs : Holding(q)' <=> Holding(q)
      BY <1>3
    <2>2. QED
      BY <1>0, <2>1, SameHolder
  <1>4. CASE UNCHANGED vars
    BY <1>0, <1>4, SameHolder DEF vars
  <1>5. ASSUME NEW p \in Procs,
               Begin(p) \/ OpenFile(p) \/ OpenFails(p) \/ FlockTaken(p)
                 \/ FlockBusy(p) \/ CheckGone(p) \/ WindowsUnlink(p)
        PROVE  /\ pc[p] # "held" /\ pc'[p] # "held"
               /\ \A q \in Procs \ {p} : pc'[q] = pc[q]
    BY <1>5 DEF Begin, OpenFile, OpenFails, FlockTaken, FlockBusy, CheckGone, WindowsUnlink
  <1>6. ASSUME NEW p \in Procs, PosixUnlink(p) \/ Unlock(p) \/ Die(p)
        PROVE  /\ pc'[p] # "held"
               /\ \A q \in Procs \ {p} : pc'[q] = pc[q]
    BY <1>6 DEF PosixUnlink, Unlock, Die
  <1>7. QED
    BY <1>1, <1>2, <1>3, <1>4, <1>5, <1>6 DEF Next, Step, Abstract!Next

(* The protocol implements Mutex for any number of contenders: whatever the *)
(* interleaving of system calls and deaths, the lock is handed on only      *)
(* through a state in which nobody holds it.                                *)
THEOREM Refinement == Spec => ImplementsMutex
  <1>1. Init => Abstract!Init
    BY DEF Init, Abstract!Init, Holder, Holding
  <1>2. LockInv /\ [Next]_vars => [Abstract!Next]_Holder
    BY StepRefines
  <1>3. QED
    BY <1>1, <1>2, LockInvariant, PTL DEF Spec, ImplementsMutex, Abstract!Spec
=============================================================================
