-------------------------- MODULE Evacuate_proofs --------------------------
(* Evacuate for any number of runs, worktrees, files, contents, changes and *)
(* faults: type correctness, an archive that is never overwritten, and      *)
(* receipts that stay true.                                                 *)
EXTENDS Evacuate, TLAPS

USE ConstAssumption

\* Whatever a run holds for a regular file has a place in the archive.
LEMMA TargetType ==
  ASSUME NEW n \in Names, NEW c \in Contents
  PROVE  Target(n, c) \in Targets
  BY DEF Target, Targets

-----------------------------------------------------------------------------
LEMMA InitTypeOK == Init => TypeOK
  <1>1. {} \in SUBSET Names
    OBVIOUS
  <1>2. QED
    BY <1>1 DEF Init, TypeOK

LEMMA StepTypeOK == TypeOK /\ [Next]_vars => TypeOK'
  <1> SUFFICES ASSUME TypeOK, [Next]_vars PROVE TypeOK'
    OBVIOUS
  <1> USE DEF TypeOK, Go, Fault, Raw
  <1>1. ASSUME NEW r \in Runs, List(r) PROVE TypeOK'
    BY <1>1 DEF List, Listing
  <1>2. ASSUME NEW r \in Runs, Unsupported(r) PROVE TypeOK'
    BY <1>2 DEF Unsupported, Take, Judge
  <1>3. ASSUME NEW r \in Runs, ReadFails(r) PROVE TypeOK'
    BY <1>3 DEF ReadFails, Take, Judge
  <1>4. ASSUME NEW r \in Runs, Repeated(r) PROVE TypeOK'
    BY <1>4 DEF Repeated, ReadAs, Take, Judge
  <1>5. ASSUME NEW r \in Runs, Read(r) PROVE TypeOK'
    BY <1>5 DEF Read, ReadAs, Take
  <1>6. ASSUME NEW r \in Runs, Match(r) PROVE TypeOK'
    BY <1>6 DEF Match, Done, Judge
  <1>7. ASSUME NEW r \in Runs, Link(r) PROVE TypeOK'
    <2>1. Target(cur[r], Raw(r)) \in Targets
      BY <1>7, TargetType DEF Link
    <2>2. QED
      BY <1>7, <2>1 DEF Link, locals
  <1>8. ASSUME NEW r \in Runs, CopyFails(r) PROVE TypeOK'
    BY <1>8 DEF CopyFails, Done, Judge
  <1>9. ASSUME NEW r \in Runs, Recheck(r) PROVE TypeOK'
    BY <1>9 DEF Recheck, Done, Judge
  <1>10. ASSUME NEW r \in Runs, RecheckFails(r) PROVE TypeOK'
    BY <1>10 DEF RecheckFails, Done, Judge
  <1>11. ASSUME NEW r \in Runs, Relist(r) PROVE TypeOK'
    BY <1>11 DEF Relist
  <1>12. ASSUME NEW r \in Runs, Conclude(r) PROVE TypeOK'
    BY <1>12 DEF Conclude, Return
  <1>13. ASSUME NEW r \in Runs, Die(r) PROVE TypeOK'
    BY <1>13 DEF Die, Return
  <1>14. ASSUME NEW t \in Trees, NEW n \in Names, Change(t, n) PROVE TypeOK'
    BY <1>14 DEF Change, locals
  <1>15. CASE UNCHANGED vars
    BY <1>15 DEF vars, locals
  <1>16. QED
    BY <1>1, <1>2, <1>3, <1>4, <1>5, <1>6, <1>7, <1>8, <1>9, <1>10, <1>11, <1>12,
       <1>13, <1>14, <1>15 DEF Next, Step

\* Type correctness of the evacuation's state.
THEOREM TypeCorrect == Spec => []TypeOK
  BY InitTypeOK, StepTypeOK, PTL DEF Spec

-----------------------------------------------------------------------------
\* No step replaces or removes what is in the archive.
LEMMA ArchiveKept ==
  ASSUME TypeOK, [Next]_vars, NEW t \in Targets, archive[t] # None
  PROVE  archive'[t] = archive[t]
  <1>1. ASSUME NEW r \in Runs, Link(r) PROVE archive'[t] = archive[t]
    BY <1>1 DEF Link, Archived, TypeOK
  <1>2. ASSUME NEW r \in Runs,
               \/ List(r) \/ Unsupported(r) \/ ReadFails(r) \/ Repeated(r) \/ Read(r)
               \/ Match(r) \/ CopyFails(r) \/ Recheck(r) \/ RecheckFails(r) \/ Relist(r)
               \/ Conclude(r) \/ Die(r)
        PROVE  archive' = archive
    BY <1>2 DEF List, Unsupported, ReadFails, Repeated, Read, ReadAs, Take, Match,
       CopyFails, Recheck, RecheckFails, Relist, Conclude, Die
  <1>3. CASE UNCHANGED vars \/ \E u \in Trees, n \in Names : Change(u, n)
    BY <1>3 DEF vars, Change
  <1>4. QED
    BY <1>1, <1>2, <1>3 DEF Next, Step

(* Nothing in the archive is ever replaced, whatever runs publish at the    *)
(* same time.                                                               *)
THEOREM ArchiveNeverOverwritten == Spec => NeverOverwritten
  <1>1. TypeOK /\ [Next]_vars => [\A t \in Targets : archive[t] # None => archive'[t] = archive[t]]_vars
    BY ArchiveKept
  <1>2. QED
    BY <1>1, TypeCorrect, PTL DEF Spec, NeverOverwritten

-----------------------------------------------------------------------------
\* The file a run is about to archive.
Pending(r, n) == pc[r] = "archive" /\ cur[r] = n

\* As long as nothing blocks, what a run has read is archived, but for the
\* file it is about to archive.
ReadArchived(r) ==
    \A n \in Names : digest[r][n] # None /\ ~Pending(r, n) =>
        archive[Target(n, digest[r][n])] = digest[r][n]

\* Likewise for the packet ids it remembers, which duplicates rely on.
SeenArchived(r) ==
    \A i \in Ids : seen[r][i] # None =>
        \/ archive[i] = seen[r][i]
        \/ pc[r] = "archive" /\ Claims[cur[r]][Raw(r)] = i /\ Raw(r) = seen[r][i]

RunOK(r) == blocked[r] = {} => ReadArchived(r) /\ SeenArchived(r)

EvacInv == TypeOK /\ (\A r \in Runs : RunOK(r)) /\ ReceiptsVerify

LEMMA InitEvacInv == Init => EvacInv
  BY InitTypeOK DEF Init, EvacInv, RunOK, ReadArchived, SeenArchived, ReceiptsVerify

\* What the last receipts name stays in the archive.
LEMMA ReceiptsKept ==
  ASSUME EvacInv, [Next]_vars, NEW r \in Runs, receipt'[r] = receipt[r], receipt[r] # None
  PROVE  \A n \in Names : receipt[r][n] # None =>
             archive'[Target(n, receipt[r][n])] = receipt[r][n]
  <1> SUFFICES ASSUME NEW n \in Names, receipt[r][n] # None
               PROVE  archive'[Target(n, receipt[r][n])] = receipt[r][n]
    OBVIOUS
  <1>0. receipt[r] \in [Names -> Contents \cup {None}]
    <2>1. receipt[r] \in [Names -> Contents \cup {None}] \cup {None}
      BY DEF EvacInv, TypeOK
    <2>2. QED
      BY <2>1
  <1>1. receipt[r][n] \in Contents
    BY <1>0
  <1>2. archive[Target(n, receipt[r][n])] = receipt[r][n]
    BY DEF EvacInv, ReceiptsVerify
  <1>3. QED
    BY <1>1, <1>2, TargetType, ArchiveKept DEF EvacInv

\* What a run has read and does not read anew stays in the archive.
LEMMA ReadKept ==
  ASSUME EvacInv, [Next]_vars, NEW r \in Runs, NEW n \in Names, blocked[r] = {},
         digest[r][n] # None, ~Pending(r, n)
  PROVE  archive'[Target(n, digest[r][n])] = digest[r][n]
  <1>1. digest[r][n] \in Contents
    BY DEF EvacInv, TypeOK
  <1>2. archive[Target(n, digest[r][n])] = digest[r][n]
    BY DEF EvacInv, RunOK, ReadArchived
  <1>3. QED
    BY <1>1, <1>2, TargetType, ArchiveKept DEF EvacInv

\* A packet id that is archived with its remembered content stays so.
LEMMA SeenKept ==
  ASSUME EvacInv, [Next]_vars, NEW r \in Runs, NEW i \in Ids, blocked[r] = {},
         seen[r][i] # None, pc[r] # "archive"
  PROVE  archive'[i] = seen[r][i]
  <1>1. archive[i] = seen[r][i] /\ i \in Targets
    BY DEF EvacInv, RunOK, SeenArchived, Targets
  <1>2. QED
    BY <1>1, ArchiveKept DEF EvacInv

\* A step leaves a run alone whose own state it does not change.
LEMMA OthersKept ==
  ASSUME EvacInv, [Next]_vars, NEW r \in Runs,
         digest'[r] = digest[r], pc'[r] = pc[r], cur'[r] = cur[r], seen'[r] = seen[r],
         blocked'[r] = blocked[r]
  PROVE  RunOK(r)'
  <1> SUFFICES ASSUME blocked[r] = {} PROVE ReadArchived(r)' /\ SeenArchived(r)'
    BY DEF RunOK
  <1>1. ReadArchived(r)'
    BY ReadKept DEF ReadArchived, Pending
  <1>2. ASSUME NEW i \in Ids, seen[r][i] # None
        PROVE  \/ archive'[i] = seen[r][i]
               \/ pc[r] = "archive" /\ Claims[cur[r]][Raw(r)] = i /\ Raw(r) = seen[r][i]
    <2>1. \/ archive[i] = seen[r][i]
          \/ pc[r] = "archive" /\ Claims[cur[r]][Raw(r)] = i /\ Raw(r) = seen[r][i]
      BY <1>2 DEF EvacInv, RunOK, SeenArchived
    <2>2. ASSUME archive[i] = seen[r][i] PROVE archive'[i] = seen[r][i]
      BY <1>2, <2>2, ArchiveKept DEF EvacInv, Targets
    <2>3. QED
      BY <2>1, <2>2
  <1>3. QED
    BY <1>1, <1>2 DEF SeenArchived, Raw

\* What a run knows stays archived while it goes on without a new file.
LEMMA SameKept ==
  ASSUME EvacInv, [Next]_vars, NEW r \in Runs,
         digest'[r] = digest[r], seen'[r] = seen[r],
         pc[r] # "archive", pc'[r] # "archive", blocked'[r] = blocked[r] \/ blocked'[r] # {}
  PROVE  RunOK(r)'
  BY ReadKept, SeenKept DEF RunOK, ReadArchived, SeenArchived, Pending

\* A run that publishes or compares its current file, whose target then has
\* its content, has archived all it knows.
LEMMA CurrentKept ==
  ASSUME EvacInv, [Next]_vars, NEW r \in Runs,
         digest'[r] = digest[r], seen'[r] = seen[r], pc[r] = "archive", pc'[r] # "archive",
         blocked'[r] = blocked[r], archive'[Target(cur[r], Raw(r))] = Raw(r)
  PROVE  RunOK(r)'
  <1> SUFFICES ASSUME blocked[r] = {} PROVE ReadArchived(r)' /\ SeenArchived(r)'
    BY DEF RunOK
  <1>1. cur[r] \in Names /\ Raw(r) \in Contents
    BY DEF EvacInv, TypeOK
  <1>2. ReadArchived(r)'
    BY <1>1, ReadKept DEF ReadArchived, Pending, Raw
  <1>3. ASSUME NEW i \in Ids, seen[r][i] # None PROVE archive'[i] = seen[r][i]
    <2>1. CASE archive[i] = seen[r][i]
      BY <1>3, <2>1, ArchiveKept DEF EvacInv, Targets
    <2>2. CASE Claims[cur[r]][Raw(r)] = i /\ Raw(r) = seen[r][i]
      BY <1>1, <2>2 DEF Target
    <2>3. QED
      BY <1>3, <2>1, <2>2 DEF EvacInv, RunOK, SeenArchived
  <1>4. QED
    BY <1>2, <1>3 DEF SeenArchived

\* Reading a file whose packet id is known adds what is archived already.
LEMMA RepeatedKept ==
  ASSUME EvacInv, [Next]_vars, NEW r \in Runs, Repeated(r)
  PROVE  RunOK(r)'
  <1>1. PICK n \in Names, c \in Contents, i \in Ids :
          ReadAs(r, n, c, i) /\ seen[r][i] # None /\ Judge(r, n, seen[r][i] = c)
    BY DEF Repeated
  <1>2. /\ pc[r] = "next" /\ pc' = pc /\ seen' = seen
        /\ digest' = [digest EXCEPT ![r] = [digest[r] EXCEPT ![n] = c]]
        /\ Claims[n][c] = i
    BY <1>1 DEF Repeated, ReadAs, Take
  <1>3. CASE seen[r][i] = c
    <2>1. blocked' = blocked
      BY <1>1, <1>3 DEF Judge
    <2> SUFFICES ASSUME blocked[r] = {} PROVE ReadArchived(r)' /\ SeenArchived(r)'
      BY <2>1 DEF RunOK
    <2>2. archive'[Target(n, c)] = c
      BY <1>1, <1>2, <1>3, SeenKept DEF Target
    <2>3. \A m \in Names : digest'[r][m] = IF m = n THEN c ELSE digest[r][m]
      BY <1>2 DEF EvacInv, TypeOK
    <2>4. ASSUME NEW m \in Names, digest'[r][m] # None
          PROVE  archive'[Target(m, digest'[r][m])] = digest'[r][m]
      <3>1. CASE m = n
        BY <2>2, <2>3, <3>1
      <3>2. CASE m # n
        BY <1>2, <2>3, <2>4, <3>2, ReadKept DEF Pending
      <3>3. QED
        BY <3>1, <3>2
    <2>5. SeenArchived(r)'
      BY <1>2, SeenKept DEF SeenArchived
    <2>6. QED
      BY <2>4, <2>5 DEF ReadArchived
  <1>4. CASE seen[r][i] # c
    <2>1. blocked'[r] # {}
      BY <1>1, <1>4 DEF Judge, EvacInv, TypeOK
    <2>2. QED
      BY <2>1 DEF RunOK
  <1>5. QED
    BY <1>3, <1>4

\* A file that is read makes itself the one to be archived.
LEMMA ReadStepKept ==
  ASSUME EvacInv, [Next]_vars, NEW r \in Runs, Read(r)
  PROVE  RunOK(r)'
  <1>1. PICK n \in Names, c \in Contents, i \in Ids \cup {None} :
          /\ ReadAs(r, n, c, i)
          /\ seen' = [seen EXCEPT ![r] = [j \in Ids |-> IF j = i THEN c ELSE seen[r][j]]]
          /\ cur' = [cur EXCEPT ![r] = n]
    BY DEF Read
  <1>2. /\ pc[r] = "next" /\ pc'[r] = "archive" /\ cur'[r] = n /\ blocked' = blocked
        /\ Claims[n][c] = i
    BY <1>1 DEF Read, ReadAs, Take, Go, EvacInv, TypeOK
  <1>3. \A m \in Names : digest'[r][m] = IF m = n THEN c ELSE digest[r][m]
    BY <1>1 DEF ReadAs, EvacInv, TypeOK
  <1>4. \A j \in Ids : seen'[r][j] = IF j = i THEN c ELSE seen[r][j]
    BY <1>1 DEF EvacInv, TypeOK
  <1> SUFFICES ASSUME blocked[r] = {} PROVE ReadArchived(r)' /\ SeenArchived(r)'
    BY <1>2 DEF RunOK
  <1>5. ReadArchived(r)'
    BY <1>2, <1>3, ReadKept DEF ReadArchived, Pending
  <1>6. SeenArchived(r)'
    BY <1>2, <1>3, <1>4, SeenKept DEF SeenArchived, Raw
  <1>7. QED
    BY <1>5, <1>6

\* A run that ends knows nothing any more.
LEMMA ReturnKept ==
  ASSUME EvacInv, NEW r \in Runs, Return(r)
  PROVE  RunOK(r)'
  BY DEF EvacInv, TypeOK, Return, RunOK, ReadArchived, SeenArchived
LEMMA StepRunOK ==
  ASSUME EvacInv, [Next]_vars, NEW q \in Runs
  PROVE  RunOK(q)'
  <1> USE DEF EvacInv, TypeOK
  <1>1. ASSUME NEW r \in Runs, List(r) PROVE RunOK(q)'
    BY <1>1, SameKept, OthersKept DEF List, Go
  <1>2. ASSUME NEW r \in Runs, Unsupported(r) \/ ReadFails(r) PROVE RunOK(q)'
    <2>1. CASE q = r
      <3>1. PICK n \in Names : Judge(r, n, FALSE)
        BY <1>2 DEF Unsupported, ReadFails
      <3>2. blocked' = [blocked EXCEPT ![r] = blocked[r] \cup {n}]
        BY <3>1 DEF Judge
      <3>3. blocked'[r] # {}
        BY <3>2
      <3>4. QED
        BY <2>1, <3>3 DEF RunOK
    <2>2. CASE q # r
      BY <1>2, <2>2, OthersKept DEF Unsupported, ReadFails, Take, Judge
    <2>3. QED
      BY <2>1, <2>2
  <1>3. ASSUME NEW r \in Runs, Repeated(r) PROVE RunOK(q)'
    <2>1. CASE q # r
      BY <1>3, <2>1, OthersKept DEF Repeated, ReadAs, Take, Judge
    <2>2. QED
      BY <1>3, <2>1, RepeatedKept
  <1>4. ASSUME NEW r \in Runs, Read(r) PROVE RunOK(q)'
    <2>1. CASE q # r
      BY <1>4, <2>1, OthersKept DEF Read, ReadAs, Take, Go
    <2>2. QED
      BY <1>4, <2>1, ReadStepKept
  <1>5. ASSUME NEW r \in Runs, Match(r) \/ CopyFails(r) \/ Recheck(r) \/ RecheckFails(r)
        PROVE  RunOK(q)'
    <2>1. CASE q # r
      BY <1>5, <2>1, OthersKept DEF Match, CopyFails, Recheck, RecheckFails, Done, Judge, Go
    <2>2. CASE q = r /\ blocked'[r] # {}
      BY <2>2 DEF RunOK
    <2>3. CASE q = r /\ blocked'[r] = {}
      <3>0. PICK ok \in BOOLEAN : Done(r, ok)
        BY <1>5 DEF Match, CopyFails, Recheck, RecheckFails
      <3>1. blocked' = blocked
        <4>1. CASE ok
          BY <3>0, <4>1 DEF Done, Judge
        <4>2. CASE ~ok
          <5>1. blocked'[r] = blocked[r] \cup {cur[r]}
            BY <3>0, <4>2 DEF Done, Judge
          <5>2. QED
            BY <2>3, <5>1
        <4>3. QED
          BY <4>1, <4>2
      <3>2. CASE Match(r)
        <4>1. Archived(r) = Raw(r)
          <5>1. CASE Archived(r) # Raw(r)
            <6>1. blocked'[r] = blocked[r] \cup {cur[r]}
              BY <3>2, <5>1 DEF Match, Done, Judge
            <6>2. QED
              BY <2>3, <6>1
          <5>2. QED
            BY <5>1
        <4>2. archive' = archive /\ pc'[r] = "next" /\ pc[r] = "archive"
              /\ digest' = digest /\ seen' = seen
          BY <3>2 DEF Match, Done, Go
        <4>3. archive'[Target(cur[r], Raw(r))] = Raw(r)
          BY <4>1, <4>2 DEF Archived
        <4>4. RunOK(r)'
          BY <3>1, <4>2, <4>3, CurrentKept
        <4>5. QED
          BY <2>3, <4>4
      <3>3. CASE Recheck(r) \/ RecheckFails(r)
        BY <2>3, <3>1, <3>3, SameKept DEF Recheck, RecheckFails, Done, Go
      <3>4. CASE CopyFails(r)
        BY <2>3, <3>4 DEF CopyFails, Done, Judge
      <3>5. QED
        BY <1>5, <3>2, <3>3, <3>4
    <2>4. QED
      BY <2>1, <2>2, <2>3
  <1>6. ASSUME NEW r \in Runs, Link(r) PROVE RunOK(q)'
    <2>1. CASE q # r
      BY <1>6, <2>1, OthersKept DEF Link, Go, locals
    <2>2. CASE q = r
      <3>1. Target(cur[r], Raw(r)) \in Targets
        BY <1>6, TargetType DEF Link
      <3>2. QED
        BY <1>6, <2>2, <3>1, CurrentKept DEF Link, Go, locals
    <2>3. QED
      BY <2>1, <2>2
  <1>7. ASSUME NEW r \in Runs, Relist(r) PROVE RunOK(q)'
    BY <1>7, SameKept, OthersKept DEF Relist, Go
  <1>8. ASSUME NEW r \in Runs, Conclude(r) \/ Die(r) PROVE RunOK(q)'
    <2>1. CASE q # r
      BY <1>8, <2>1, OthersKept DEF Conclude, Die, Return, Go
    <2>2. QED
      BY <1>8, <2>1, ReturnKept DEF Conclude, Die
  <1>9. CASE UNCHANGED vars \/ \E t \in Trees, n \in Names : Change(t, n)
    BY <1>9, OthersKept DEF vars, locals, Change
  <1>10. QED
    BY <1>1, <1>2, <1>3, <1>4, <1>5, <1>6, <1>7, <1>8, <1>9 DEF Next, Step

\* Receipts stay true, and a new one names only what is archived.
LEMMA StepReceipts ==
  ASSUME EvacInv, [Next]_vars
  PROVE  ReceiptsVerify'
  <1>1. ASSUME NEW r \in Runs, Conclude(r), NEW q \in Runs, receipt'[q] # None
        PROVE  \A n \in Names : receipt'[q][n] # None =>
                   archive'[Target(n, receipt'[q][n])] = receipt'[q][n]
    <2>1. CASE q # r
      <3>1. receipt'[q] = receipt[q]
        BY <1>1, <2>1 DEF Conclude, EvacInv, TypeOK
      <3>2. QED
        BY <1>1, <3>1, ReceiptsKept
    <2>2. CASE q = r
      <3>1. receipt'[r] = digest[r] /\ blocked[r] = {} /\ pc[r] = "conclude"
        BY <1>1, <2>2 DEF Conclude, SafeToRemove, EvacInv, TypeOK
      <3>2. QED
        BY <2>2, <3>1, ReadKept DEF Pending
    <2>3. QED
      BY <2>1, <2>2
  <1>2. ASSUME receipt' = receipt PROVE ReceiptsVerify'
    BY <1>2, ReceiptsKept DEF ReceiptsVerify
  <1>3. ASSUME NEW r \in Runs, Conclude(r) PROVE ReceiptsVerify'
    BY <1>1, <1>3 DEF ReceiptsVerify
  <1>4. ASSUME NEW r \in Runs,
               \/ List(r) \/ Unsupported(r) \/ ReadFails(r) \/ Repeated(r) \/ Read(r)
               \/ Match(r) \/ Link(r) \/ CopyFails(r) \/ Recheck(r) \/ RecheckFails(r)
               \/ Relist(r) \/ Die(r)
        PROVE  receipt' = receipt
    BY <1>4 DEF List, Unsupported, ReadFails, Repeated, Read, ReadAs, Take, Match, Link,
       CopyFails, Recheck, RecheckFails, Done, Relist, Die
  <1>5. CASE UNCHANGED vars \/ \E t \in Trees, n \in Names : Change(t, n)
    BY <1>2, <1>5 DEF vars, Change
  <1>6. QED
    BY <1>2, <1>3, <1>4, <1>5 DEF Next, Step

(* A receipt that says "safe to remove" stays true: what the run read is in *)
(* the archive, however many runs there are and however they interleave,    *)
(* fail, or die.                                                            *)
THEOREM ReceiptsStayTrue == Spec => []ReceiptsVerify
  <1>1. EvacInv /\ [Next]_vars => EvacInv'
    BY StepTypeOK, StepRunOK, StepReceipts DEF EvacInv
  <1>2. EvacInv => ReceiptsVerify
    BY DEF EvacInv
  <1>3. QED
    BY InitEvacInv, <1>1, <1>2, PTL DEF Spec

=============================================================================
