----------------------------- MODULE MCFileLock -----------------------------
(* FileLock for TLC: three contenders and one inode more than handles can   *)
(* pin, so a fresh file can always be created.                              *)
EXTENDS FileLock, FiniteSets

ASSUME EnoughInodes == Cardinality(Inodes) > Cardinality(Procs)
=============================================================================
