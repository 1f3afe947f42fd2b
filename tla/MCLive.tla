-------------------------------- MODULE MCLive --------------------------------
(* What the maintenance pass has to get done in the end, in one run: each    *)
(* initial state has either the draining of the shared pending-failure file  *)
(* at work or the expiry of an episode's content, and the other at rest.     *)
EXTENDS Retention, TLC

CONSTANTS None, Junk, r1, s1, s2, f1, f2, f3

VARIABLES
    tool,
    where, text, ragged, appender, claimer, pc, fd, glob, claimed, unread, readable, buf, retry,
    manifests, recorded, drainFaults

drainVars == <<where, text, ragged, appender, claimer, pc, fd, glob, claimed, unread, readable, buf, retry,
               manifests, recorded, drainFaults>>
liveVars == <<tool, drainVars, vars>>

\* One failed start, two stores, and files enough for one pending, one
\* .draining and one to come.
Drained == INSTANCE PendingLog WITH
    Recs <- {r1}, Stores <- {s1, s2}, Files <- {f1, f2, f3}, MaxFaults <- 2, faults <- drainFaults

ASSUME ConstAssumption /\ Drained!ConstAssumption

\* What there is no content of has no date; at rest there is nothing.
LiveInit ==
    /\ tool \in {"drain", "retention"}
    /\ Init /\ Drained!Init
    /\ content["payloads"] = "none" => expires["payloads"] = Never
    /\ content["snapshots"] = "none" /\ content["causal"] = "none" => expires["snapshots"] = Never
    /\ tool # "retention" => manifest /\ content = [k \in Kinds |-> "none"]

Draining(A) == tool = "drain" /\ A /\ UNCHANGED <<tool, vars>>
Retaining(A) == tool = "retention" /\ A /\ UNCHANGED <<tool, drainVars>>

LiveNext == Draining(Drained!Next) \/ Retaining(Next)

\* The fairness of PendingLog and of Retention.
LiveFairness ==
    /\ \A p \in Drained!Procs : /\ WF_liveVars(Draining(Drained!AppendStep(p)))
                                /\ SF_liveVars(Draining(Drained!AppendLock(p)))
    /\ \A d \in {s1, s2} : /\ WF_liveVars(Draining(Drained!BeginDrain(d)))
                           /\ WF_liveVars(Draining(Drained!DrainStep(d)))
                           /\ SF_liveVars(Draining(Drained!ClaimLock(d)))
    /\ WF_liveVars(Retaining(Begin)) /\ WF_liveVars(Retaining(Work)) /\ WF_liveVars(Retaining(Tomorrow))

LiveSpec == LiveInit /\ [][LiveNext]_liveVars /\ LiveFairness

-----------------------------------------------------------------------------
\* Every recorded failure becomes a failed manifest in the end.
EventuallyRecorded == tool = "drain" => Drained!EventuallyRecorded
=============================================================================
