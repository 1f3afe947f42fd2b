----------------------------- MODULE MCEvacuate -----------------------------
(* Evacuate for TLC: two names, of which only the first may hold a packet   *)
(* of either content; the second content under the second name is invalid.  *)
(* The second worktree begins without a file of the second name.            *)
EXTENDS Evacuate

CONSTANTS r1, r2, w1, w2, c1, c2, id

MCRuns == {r1, r2}
MCTrees == {w1, w2}
MCTreeOf == [r \in MCRuns |-> IF r = r1 THEN w1 ELSE w2]
MCClaims == [n \in Names |-> [c \in Contents |-> IF <<n, c>> = <<2, c2>> THEN None ELSE id]]
MCInitial == {s \in [Trees -> [Names -> Contents \cup {None}]] : s[w2][2] = None}
=============================================================================
