------------------------------ MODULE MCReplay ------------------------------
(* From a captured episode to a measured pair of runs, in one run: each      *)
(* initial state has one of these state machines at work and the others at   *)
(* rest in a fixed state.  The states of the checkout that are sealed, the   *)
(* clone a replay starts from, the twin runs, the audit that admits          *)
(* episodes, the backstop that watches over all of it, and the registration  *)
(* of what a replay is judged by.                                            *)
EXTENDS Registration, Causal, Clone, Twin, Audit, Backstop, TLC

CONSTANTS a, x, y, c1, c2, c3, p, n, q, r1, r2, l1, l2

VARIABLES tool

\* One path, two texts, three commits: the path is committed with LF, then
\* with CRLF and another text, then deleted.
MCTreeOf == [c \in {c1, c2, c3} |-> [f \in {a} |->
    CASE c = c1 -> [text |-> x, eol |-> "lf"]
      [] c = c2 -> [text |-> y, eol |-> "crlf"]
      [] c = c3 -> Absent]]

MCBefore == {<<c1, c1>>, <<c2, c2>>, <<c3, c3>>, <<c1, c2>>, <<c1, c3>>, <<c2, c3>>}

\* A positive and a misleading control and a real task.
MCTasks == (p :> [kind |-> "lab", family |-> "positive", start |-> "overlay"])
      @@ (n :> [kind |-> "lab", family |-> "misleading", start |-> "overlay"])
      @@ (q :> [kind |-> "real", family |-> None, start |-> "payload"])

\* The client writes a target at once, late and over its cap, or fails.
Says(mid, k, call) == [type |-> "assistant", mid |-> mid, n |-> k, call |-> call]
Ends(failed, k) == [type |-> "result", failed |-> failed, n |-> k]
MCScripts(t) ==
    { <<Says(1, 1, IF t = n THEN "planted" ELSE "target"), Ends(FALSE, 1)>>,
      <<Says(1, 1, None), Says(1, 3, "target"), Ends(FALSE, 3)>>,
      <<Says(1, 1, None), Ends(TRUE, 2)>> }

ASSUME /\ ConstAssumption /\ CausalAssumption /\ CloneAssumption
       /\ TwinAssumption /\ AuditAssumption /\ BackstopAssumption

\* The checkout starts as it was committed, or with mixed line endings.
Known(f) == f = TreeOf[tip][a] \/ (f # Absent /\ f.text = x /\ f.eol = "mixed")

\* Plans of four runs are all of the positive control.
Long == Pair(<<p, 1>>, "A") \o Pair(<<p, 2>>, "B")

\* A machine at rest starts in one of its initial states.
ReplayInit ==
    /\ tool \in {"causal", "clone", "twin", "audit", "backstop", "registration"}
    /\ IF tool = "causal" THEN TRUE ELSE tip = c1 /\ work = TreeOf[c1] /\ conv = "false"
    /\ IF tool = "clone" THEN TRUE ELSE source = {} /\ packed = {} /\ wrong = {} /\ given = Nil /\ secrets = {}
    /\ IF tool = "twin" THEN TRUE ELSE plan = Pair(<<p, 1>>, "A")
    /\ Init /\ CausalInit /\ CloneInit /\ AuditInit /\ BackstopInit /\ TwinInit
    /\ Len(plan) = 4 => plan = Long
    /\ Known(work[a])

\* Each step is of the machine at work and leaves the variables of the others.
Capturing(A) == /\ tool = "causal" /\ A
                /\ UNCHANGED <<tool, vars, cloneVars, twinVars, auditVars, backstopVars>>
Cloning(A) == /\ tool = "clone" /\ A
              /\ UNCHANGED <<tool, vars, causalVars, twinVars, auditVars, backstopVars>>

\* A ledger is rebuilt in one of the plans.  While a client runs it may as well
\* be read or written after: neither step touches what the other does.
Rebuilding == /\ plan # Pair(<<p, 1>>, "A") => rebuilds' = 0
              /\ twinStep = "running" => UNCHANGED rebuild
Running(A) == /\ tool = "twin" /\ A /\ Rebuilding
              /\ UNCHANGED <<tool, vars, causalVars, cloneVars, auditVars, backstopVars>>
Auditing(A) == /\ tool = "audit" /\ A
               /\ UNCHANGED <<tool, vars, causalVars, cloneVars, twinVars, backstopVars>>
Watching(A) == /\ tool = "backstop" /\ A
               /\ UNCHANGED <<tool, vars, causalVars, cloneVars, twinVars, auditVars>>
Registering(A) == /\ tool = "registration" /\ A
                  /\ UNCHANGED <<tool, causalVars, cloneVars, twinVars, auditVars, backstopVars>>

ReplayNext ==
    \/ Capturing(CausalNext) \/ Cloning(CloneNext) \/ Running(TwinNext)
    \/ Auditing(AuditNext) \/ Watching(BackstopNext)
    \/ Registering(Next)

ReplaySpec ==
    ReplayInit /\
    [][ReplayNext]_<<tool, vars, causalVars, cloneVars, twinVars, auditVars, backstopVars>>

=============================================================================
