------------------------------- MODULE MCGraph -------------------------------
(* The two state machines of graphify/, in one run: each initial state has   *)
(* one of them at work and the other at rest in a fixed state.               *)
EXTENDS GraphHealth, GraphFunnel, TLC

CONSTANTS q1, q2

VARIABLE tool

MCTarget(name, scan) == [name |-> name, scan |-> scan, bad |-> FALSE]
Settings(file, badDirs, dirs, targets) ==
    [file |-> file, badKey |-> FALSE, badDirs |-> badDirs, dirs |-> dirs, targets |-> targets]

\* A valid configuration, one whose dashboard setting is bad, and none.
MCConfigs ==
    { Settings("object", FALSE, {"d1"}, <<MCTarget("a", "sa"), MCTarget("b", "sb")>>),
      Settings("object", TRUE, {}, <<MCTarget("a", "sa")>>),
      Settings("missing", FALSE, {}, <<>>) }

MCBuilt == {{"sa", "sb"}, {"sb"}}
MCEnvs == {{"d1"}}

\* The second commit moves the node count by more than the threshold.
MCSize == (0 :> 10) @@ (1 :> 12)

\* The funnel does not look at what a question says, only whether it is the same.
Alike == Permutations({q1, q2})

ASSUME ConstAssumption

GraphInit ==
    /\ tool \in {"funnel", "health"}
    /\ FunnelInit /\ Init
    /\ tool # "health" => graph["sa"] # None

GraphNext ==
    \/ tool = "funnel" /\ FunnelNext /\ UNCHANGED <<tool, vars>>
    \/ tool = "health" /\ Next /\ UNCHANGED <<tool, funnelVars>>

GraphSpec == GraphInit /\ [][GraphNext]_<<tool, funnelVars, vars>>
=============================================================================
