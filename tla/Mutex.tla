------------------------------- MODULE Mutex -------------------------------
(* What a lock of pipeline.py promises its callers: at most one process     *)
(* holds it, a process takes it only while it is free, and it is free again *)
(* when its holder releases it or dies.  FileLock implements this.          *)
CONSTANTS Procs,    \* the processes that may contend
          NoProc    \* "nobody"

VARIABLE holder

Init == holder = NoProc

Acquire(p) == holder = NoProc /\ holder' = p

\* Released by its holder, or dropped by the operating system at its death.
Leave(p) == holder = p /\ holder' = NoProc

Next == \E p \in Procs : Acquire(p) \/ Leave(p)

Spec == Init /\ [][Next]_holder
=============================================================================
