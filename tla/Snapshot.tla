------------------------------ MODULE Snapshot ------------------------------
(* The start snapshot of evidence-capture: take_snapshot reads HEAD, the    *)
(* index and the worktree piece by piece, twice, while the user, an editor  *)
(* or git goes on changing them, and publishes what it read if the second   *)
(* pass found no difference.  reconstruct builds the start from it.         *)
(*                                                                          *)
(* A path's content in HEAD's tree, in the index and in the worktree is a   *)
(* blob or Absent.  Ignored files, modes, nested repositories and the state *)
(* files of a merge or a bisect are left out.                               *)
EXTENDS Naturals

CONSTANTS
    Files,      \* the paths
    Blobs,      \* what a file may contain
    Absent,     \* no such file
    Repo,       \* in a read that is of no path in particular
    Commits,    \* the trees of the commits HEAD may be at
    MaxChanges  \* bound on the changes made while the snapshot is taken

Contents == Blobs \cup {Absent}
Trees == [Files -> Contents]

ASSUME SnapshotAssumption ==
    Absent \notin Blobs /\ Repo \notin Files /\ Commits \subseteq Trees /\ MaxChanges \in Nat

VARIABLES
    head,      \* the tree of HEAD's commit
    index,     \* the index
    stamp,     \* its modification time
    work,      \* the worktree
    lock,      \* index.lock exists
    pass,      \* 1: before the second bracket, 2: from it on
    done,      \* the reads done in this pass
    first,     \* what each read of the first pass saw
    differs,   \* a read of the second pass saw something else
    result,    \* start_snapshot.state, or "running"
    mid,       \* history: the checkout when the second pass began
    had,       \* history: the contents HEAD and each file have had
    restored,  \* history: HEAD or a file got back one of them
    raced,     \* history: the index was written while the first calls ran
    changes

checkout == <<head, index, stamp, work, lock>>
taker == <<pass, done, first, differs, result, mid>>
history == <<had, restored, raced, changes>>
snapshotVars == <<checkout, taker, history>>

-----------------------------------------------------------------------------
\* A path in git status --porcelain=v2: nothing when HEAD, index and worktree
\* agree; of the worktree only whether it differs from the index.
Status(f) ==
    LET wt == CASE index[f] = Absent -> IF work[f] = Absent THEN "same" ELSE "untracked"
                [] index[f] # Absent /\ work[f] = Absent -> "deleted"
                [] OTHER -> IF work[f] = index[f] THEN "same" ELSE "changed"
    IN  IF head[f] = index[f] /\ wt = "same" THEN <<Absent, Absent, "same">>
        ELSE <<head[f], index[f], wt>>

\* A path in git diff-files -p.
Patch(f) ==
    IF index[f] # Absent /\ work[f] # index[f] THEN <<index[f], work[f]>>
    ELSE <<Absent, Absent>>

\* Mutant: the modification time of the index is not in the bracket.
BugSees(k, f) ==
    CASE k \in {"head", "ls-tree"} -> head
      [] k \in {"index", "ls-files"} -> index
      [] k = "stamp" -> 0
      [] k = "locks" -> lock
      [] k = "status" -> Status(f)
      [] k = "diff-files" -> Patch(f)
      [] k = "file" -> work[f]

\* What a read sees: the calls and the files of the two brackets, the
\* artifacts, and the bytes of a path.
Sees(k, f) ==
    CASE k \in {"head", "ls-tree"} -> head
      [] k \in {"index", "ls-files"} -> index
      [] k = "stamp" -> stamp
      [] k = "locks" -> lock
      [] k = "status" -> Status(f)
      [] k = "diff-files" -> Patch(f)
      [] k = "file" -> work[f]

\* The order of the reads; those of one stage are run in parallel.
Stage(k) ==
    CASE k \in {"head", "status"} -> 1
      [] k = "stamp" -> 2
      [] k = "index" -> 3
      [] k = "locks" -> 4
      [] k \in {"ls-tree", "ls-files", "diff-files"} -> 5
      [] k = "file" -> 6

OfRepo == {"head", "stamp", "index", "locks", "ls-tree", "ls-files"}
OfFile == {"status", "diff-files", "file"}

\* Paths whose bytes are kept: untracked, or tracked and changed.
Kept == {f \in Files : first["status"][f][3] \in {"untracked", "changed"}}

\* The reads of a pass.
Wanted ==
    {<<k, Repo>> : k \in OfRepo}
    \cup {<<k, f>> : k \in OfFile \ {"file"}, f \in Files}
    \cup {<<"file", f>> : f \in Kept}

Nothing ==
    [k \in OfRepo \cup OfFile |->
        [f \in Files \cup {Repo} |-> IF k = "locks" THEN FALSE ELSE <<Absent, Absent, "same">>]]

SnapshotInit ==
    /\ head \in Commits /\ index \in Trees /\ work \in Trees
    /\ stamp = 0 /\ lock = FALSE
    /\ pass = 1 /\ done = {} /\ differs = FALSE /\ result = "running"
    /\ first = Nothing
    /\ mid = [head |-> head, index |-> index, work |-> work]
    /\ had = [head |-> {head}, work |-> [f \in Files |-> {work[f]}]]
    /\ restored = FALSE /\ raced = FALSE /\ changes = 0

-----------------------------------------------------------------------------
Running == result = "running"

\* The reads of this pass whose turn it is; none is done past a lock.
Due ==
    {r \in Wanted \ done :
        /\ \A q \in Wanted \ done : Stage(r[1]) <= Stage(q[1])
        /\ Stage(r[1]) > 4 => ~first["locks"][Repo]}

ReadFirst(r) ==
    /\ pass = 1
    /\ r[1] = "file" => work[r[2]] # Absent
    /\ first' = [first EXCEPT ![r[1]][r[2]] = Sees(r[1], r[2])]
    /\ done' = done \cup {r}
    /\ UNCHANGED <<checkout, history, pass, differs, result, mid>>

\* Phase 3 begins.
SecondPass ==
    /\ Running /\ pass = 1 /\ Wanted \subseteq done
    /\ pass' = 2 /\ done' = {}
    /\ mid' = [head |-> head, index |-> index, work |-> work]
    /\ UNCHANGED <<checkout, history, first, differs, result>>

\* Mutant: the bytes of the kept files are not compared.
BugReadAgain(r) ==
    /\ pass = 2
    /\ differs' = (differs \/ (r[1] # "file" /\ Sees(r[1], r[2]) # first[r[1]][r[2]])
                           \/ (r[1] = "locks" /\ lock))
    /\ done' = done \cup {r}
    /\ UNCHANGED <<checkout, history, pass, first, result, mid>>

ReadAgain(r) ==
    /\ pass = 2
    /\ differs' = (differs \/ Sees(r[1], r[2]) # first[r[1]][r[2]] \/ (r[1] = "locks" /\ lock))
    /\ done' = done \cup {r}
    /\ UNCHANGED <<checkout, history, pass, first, result, mid>>

\* The staging directory is renamed to snapshots/<episode>; its sums are read
\* back for the manifest, and that may fail.
Publish ==
    /\ Running /\ pass = 2 /\ Wanted \subseteq done
    /\ ~differs /\ result' = "complete"
    /\ UNCHANGED <<checkout, history, pass, done, first, differs, mid>>

\* A lock, a difference, a path that is gone, the budget, the size cap, an
\* error, an existing snapshot, a kill.
Fail ==
    /\ Running /\ result' = "failed"
    /\ done' = {} /\ first' = Nothing
    /\ UNCHANGED <<checkout, history, pass, differs, mid>>

Take ==
    \/ Running /\ \E r \in Due : ReadFirst(r) \/ ReadAgain(r)
    \/ SecondPass \/ Publish \/ Fail

-----------------------------------------------------------------------------
Change == Running /\ changes < MaxChanges /\ changes' = changes + 1

\* An editor, a formatter, a checkout.
ChangeFile(f) ==
    /\ Change
    /\ \E b \in Contents \ {work[f]} :
          /\ work' = [work EXCEPT ![f] = b]
          /\ had' = [had EXCEPT !.work[f] = @ \cup {b}]
          /\ restored' = (restored \/ b \in had.work[f])
    /\ UNCHANGED <<head, index, stamp, lock, taker, raced>>

\* A commit or a reset.
MoveHead ==
    /\ Change
    /\ \E t \in Commits \ {head} :
          /\ head' = t
          /\ had' = [had EXCEPT !.head = @ \cup {t}]
          /\ restored' = (restored \/ t \in had.head)
    /\ UNCHANGED <<index, stamp, work, lock, taker, raced>>

\* git writes the index under index.lock, by renaming it.
LockIndex ==
    /\ Change /\ ~lock
    /\ lock' = TRUE
    /\ UNCHANGED <<head, index, stamp, work, taker, had, restored, raced>>

WriteIndex ==
    /\ Running /\ lock
    /\ lock' = FALSE /\ stamp' = stamp + 1
    /\ \E f \in Files, b \in Contents : index' = [index EXCEPT ![f] = b]
    /\ raced' = (raced \/ (pass = 1 /\ done # {} /\ <<"stamp", Repo>> \notin done))
    /\ UNCHANGED <<head, work, taker, had, restored, changes>>

Others == (\E f \in Files : ChangeFile(f)) \/ MoveHead \/ LockIndex \/ WriteIndex

SnapshotNext == Take \/ Others

SnapshotSpec == SnapshotInit /\ [][SnapshotNext]_snapshotVars

-----------------------------------------------------------------------------
\* reconstruct: the commit, index.bin, the index's files, then what was kept.
Rebuilt ==
    [head |-> first["head"][Repo], index |-> first["index"][Repo],
     work |-> [f \in Files |->
                 CASE f \in Kept -> first["file"][f]
                   [] first["status"][f][3] = "deleted" -> Absent
                   [] OTHER -> first["index"][Repo][f]]]

\* Every variable holds a value of its kind; in particular the index
\* changes under index.lock only, so that it is written once per change.
SnapshotTypeOK ==
    /\ head \in Commits /\ index \in Trees /\ work \in Trees
    /\ stamp \in 0 .. MaxChanges /\ lock \in BOOLEAN
    /\ pass \in {1, 2} /\ done \subseteq Wanted
    /\ differs \in BOOLEAN /\ raced \in BOOLEAN /\ restored \in BOOLEAN
    /\ result \in {"running", "complete", "failed"}
    /\ changes \in 0 .. MaxChanges

\* The index of a published snapshot is the index as it was when the second
\* bracket began, whatever was written meanwhile and even if the old index was
\* written back: bracket_diff compares the modification time too.
IndexOfOneMoment == result = "complete" => Rebuilt.index = mid.index

\* What reconstruct builds from a published snapshot is the checkout as it was
\* when the second bracket began: HEAD, index and every file of one moment.
\* Two things the two brackets cannot see are hypotheses: HEAD or a file that
\* got back a content it had before, and an index written between the first
\* calls and the reading of its modification time.
CheckoutOfOneMoment ==
    result = "complete" /\ ~restored /\ ~raced =>
        Rebuilt = [head |-> mid.head, index |-> mid.index, work |-> mid.work]

=============================================================================
