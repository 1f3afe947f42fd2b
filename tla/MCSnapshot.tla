------------------------------ MODULE MCSnapshot ------------------------------
(* What is kept of the checkout at both ends of a turn, in one run: each      *)
(* initial state has either the start snapshot or the evidence of the causal  *)
(* hooks at work, and the other at rest.                                      *)
EXTENDS Snapshot, CausalEvidence, TLC

CONSTANTS f1, f2, x, y

VARIABLE tool

\* Two files, two contents, two commits: one has both files, the other only
\* f1.  At the start f2 is clean, or untracked.
MCCommits == {(f1 :> x) @@ (f2 :> x), (f1 :> x) @@ (f2 :> Absent)}

ASSUME EvidenceAssumption

MCInit ==
    /\ tool \in {"snapshot", "evidence"}
    /\ SnapshotInit /\ EvidenceInit
    /\ index[f1] = x /\ work[f1] = x
    /\ <<head[f2], index[f2], work[f2]>> \in
          {<<x, x, x>>, <<Absent, Absent, y>>}
    /\ tool # "snapshot" => head[f2] = x

Taking(A) == tool = "snapshot" /\ A /\ UNCHANGED <<tool, evidenceVars>>
Witnessing(A) == tool = "evidence" /\ A /\ UNCHANGED <<tool, snapshotVars>>

MCNext == Taking(SnapshotNext) \/ Witnessing(EvidenceNext)

MCSpec == MCInit /\ [][MCNext]_<<tool, snapshotVars, evidenceVars>>
===============================================================================
