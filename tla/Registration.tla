---------------------------- MODULE Registration ----------------------------
(* The preregistration of an episode's correctness predicate and the guard  *)
(* in front of a replay: register creates one file exclusively and commits  *)
(* it, launch verifies that it was committed once and is unmodified, admits *)
(* the episode and only then runs.  Registrars and launchers interleave;    *)
(* any of them may die, git may fail, and a commit that git reports as      *)
(* failed may have been made.                                               *)
EXTENDS Naturals, Sequences

CONSTANTS
    Registrars, Launchers,
    Nothing,      \* no such file, no entry
    MaxFaults     \* bound on failing calls, deaths and edits by hand

ConstAssumption == Nothing \notin Registrars \cup {"torn", "edited"} /\ MaxFaults \in Nat

VARIABLES
    file,      \* whose predicate checks/<ep>.json holds; "torn" while it is written
    commits,   \* the versions of the file in the metadata repository's history
    replays,   \* replays/<ep> exists
    reg,       \* registrar -> its next step
    run,       \* launcher -> its next step
    seen,      \* launcher -> the entry it read first
    checked,   \* launcher -> the entry whose checks admission ran
    raced,     \* history: launchers whose file changed before it was compared
    faults

vars == <<file, commits, replays, reg, run, seen, checked, raced, faults>>
rest == <<replays, run, seen, checked>>

Version == Registrars \cup {"torn", "edited"}

Init ==
    /\ file = Nothing /\ commits = <<>> /\ replays = FALSE
    /\ reg = [r \in Registrars |-> "idle"]
    /\ run = [l \in Launchers |-> "idle"]
    /\ seen = [l \in Launchers |-> Nothing] /\ checked = [l \in Launchers |-> Nothing]
    /\ raced = {} /\ faults = 0

Fault == faults < MaxFaults /\ faults' = faults + 1
Go(r, to) == reg' = [reg EXCEPT ![r] = to]

\* Where a launcher has read the file and not yet compared it with the history.
Comparing == {"compare", "recompare"}

\* The file gets another content, or none.
Change(content) ==
    /\ file' = content
    /\ raced' = raced \cup {l \in Launchers : run[l] \in Comparing}

-----------------------------------------------------------------------------
\* register: refused once replay outputs or a registration exist; the create
\* is exclusive, so a registrar that lost the race fails there.
Check(r) ==
    /\ reg[r] = "idle"
    /\ Go(r, IF replays \/ file # Nothing THEN "refused" ELSE "create")
    /\ UNCHANGED <<file, commits, rest, raced, faults>>

Create(r) ==
    /\ reg[r] = "create"
    /\ IF file # Nothing THEN Go(r, "refused") /\ UNCHANGED <<file, raced>>
       ELSE Go(r, "write") /\ Change("torn")
    /\ UNCHANGED <<commits, rest, faults>>

Write(r) ==
    /\ reg[r] = "write"
    /\ Go(r, "commit")
    /\ Change(r)
    /\ UNCHANGED <<commits, rest, faults>>

\* commit_meta of the file as it is; nothing to commit is a success.
Record == commits' = IF commits # <<>> /\ commits[Len(commits)] = file THEN commits
                     ELSE Append(commits, file)

Commit(r) ==
    /\ reg[r] = "commit"
    /\ Go(r, "registered")
    /\ Record
    /\ UNCHANGED <<file, rest, raced, faults>>

CommitFails(r) ==
    /\ Fault
    /\ reg[r] = "commit"
    /\ Go(r, "unlink")
    /\ Record \/ UNCHANGED commits
    /\ UNCHANGED <<file, rest, raced>>

Unlink(r) ==
    /\ reg[r] = "unlink"
    /\ Go(r, "refused")
    /\ Change(Nothing)
    /\ UNCHANGED <<commits, rest, faults>>

DieRegistering(r) ==
    /\ Fault
    /\ reg[r] \in {"create", "write", "commit", "unlink"}
    /\ Go(r, "dead")
    /\ UNCHANGED <<file, commits, rest, raced>>

\* Somebody edits the file, or commits what it holds.
Edit ==
    /\ Fault
    /\ file \in Registrars
    /\ Change("edited")
    /\ UNCHANGED <<commits, reg, rest>>

CommitByHand ==
    /\ Fault
    /\ file # Nothing
    /\ Record
    /\ UNCHANGED <<file, reg, rest, raced>>

-----------------------------------------------------------------------------
\* verify_registration is three reads.  The file: its digest matches, as an edit
\* by hand does not keep it.  The working tree: git tracks the file, which it
\* does of one that is in HEAD, and HEAD has it as it is now.  The history.
Entry == IF file \in Registrars THEN file ELSE Nothing

Unmodified == commits # <<>> /\ commits[Len(commits)] = file

\* Mutant: a file that was committed again is accepted.
BugOnce == commits # <<>>

Once == Len(commits) = 1

Step(l, from, to) == run[l] = from /\ run' = [run EXCEPT ![l] = to]
kept == <<file, commits, reg, raced, faults>>

\* authorize_run verifies, and admit verifies again before it runs the checks.
ReadEntry(l) ==
    /\ Step(l, "idle", IF Entry # Nothing THEN "compare" ELSE "refused")
    /\ seen' = [seen EXCEPT ![l] = Entry]
    /\ UNCHANGED <<kept, replays, checked>>

RereadEntry(l) ==
    /\ Step(l, "admit", IF Entry # Nothing THEN "recompare" ELSE "refused")
    /\ checked' = [checked EXCEPT ![l] = Entry]
    /\ UNCHANGED <<kept, replays, seen>>

Compare(l) ==
    /\ \/ Step(l, "compare", IF Unmodified THEN "count" ELSE "refused")
       \/ Step(l, "recompare", IF Unmodified THEN "recount" ELSE "refused")
    /\ UNCHANGED <<kept, replays, seen, checked>>

\* The second time the checks of the entry are run, and the episode is admitted
\* or not.
Count(l) ==
    /\ \/ Step(l, "count", IF Once THEN "admit" ELSE "refused")
       \/ \E eligible \in BOOLEAN :
             Step(l, "recount", IF Once /\ eligible THEN "launch" ELSE "refused")
    /\ UNCHANGED <<kept, replays, seen, checked>>

Launch(l) ==
    /\ Step(l, "launch", "done")
    /\ replays' = TRUE
    /\ UNCHANGED <<kept, seen, checked>>

\* A refused launch is tried again.
Retry(l) ==
    /\ Step(l, "refused", "idle")
    /\ seen' = [seen EXCEPT ![l] = Nothing] /\ checked' = [checked EXCEPT ![l] = Nothing]
    /\ raced' = raced \ {l}
    /\ UNCHANGED <<file, commits, replays, reg, faults>>

Next ==
    \/ \E r \in Registrars :
          \/ Check(r) \/ Create(r) \/ Write(r) \/ Commit(r)
          \/ CommitFails(r) \/ Unlink(r) \/ DieRegistering(r)
    \/ \E l \in Launchers :
          \/ ReadEntry(l) \/ RereadEntry(l) \/ Compare(l) \/ Count(l)
          \/ Launch(l) \/ Retry(l)
    \/ Edit \/ CommitByHand

Spec == Init /\ [][Next]_vars

-----------------------------------------------------------------------------
\* Each variable stays in its range.
TypeOK ==
    /\ file \in Version \cup {Nothing} /\ commits \in Seq(Version) /\ replays \in BOOLEAN
    /\ reg \in [Registrars -> {"idle", "create", "write", "commit", "unlink",
                               "registered", "refused", "dead"}]
    /\ run \in [Launchers -> {"idle", "compare", "count", "admit", "recompare", "recount",
                               "launch", "refused", "done"}]
    /\ seen \in [Launchers -> Registrars \cup {Nothing}]
    /\ checked \in [Launchers -> Registrars \cup {Nothing}]
    /\ raced \subseteq Launchers /\ faults \in 0 .. MaxFaults

\* All replays of an episode are launched with one predicate, the first its
\* history ever held, and it is the one whose checks admitted the episode
\* (causal_admit.py:7-10, "A registration is never replaced"), whichever
\* registrars raced, died or were told wrongly that git had failed, and whatever
\* was edited or committed between any two reads of the two verifications: with
\* the one exception that the file changed after a verification had read it and
\* before it was compared with HEAD (causal_admit.py:99, 109).
OnePredicate ==
    \A l \in Launchers :
        run[l] \in {"launch", "done"} =>
            /\ commits # <<>>
            /\ l \notin raced => seen[l] = commits[1] /\ checked[l] = commits[1]
=============================================================================
