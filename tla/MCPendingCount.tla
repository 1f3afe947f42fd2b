--------------------------- MODULE MCPendingCount ---------------------------
(* PendingCount for TLC: the records are alike, and so are the inodes.      *)
EXTENDS PendingCount, TLC

Symmetry == Permutations(Recs) \cup Permutations(Files)
=============================================================================
