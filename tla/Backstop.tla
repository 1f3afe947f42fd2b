------------------------------- MODULE Backstop -------------------------------
(* The scheduled backstop and what its health says.  A pass fixes its time,  *)
(* checks the stores, waits for the maintenance lock, runs maintenance,      *)
(* looks for failed captures and for content past its expiry, and leaves a   *)
(* status file; health reads that file and the failures on record.  Start    *)
(* hooks fail meanwhile and put their failure on record some time after they *)
(* began, a scheduled pass and one by hand run together, and any pass may    *)
(* die.  One repository; the history and the text of problems are left out,  *)
(* a failure record that cannot be read is one that is never on record.      *)
EXTENDS Integers, Sequences, FiniteSetsExt

CONSTANTS
    Passes, Never,
    Streak,      \* FAILURE_STREAK
    StaleAfter,  \* STALE_AFTER_H
    MaxStarts, MaxRuns, MaxTime    \* bounds

BackstopAssumption == {Streak, StaleAfter, MaxStarts, MaxRuns, MaxTime} \subseteq Nat /\ Streak > 0

VARIABLES
    now,
    starts,     \* the captures: [at, failed, on]; on record or not
    pass,       \* pass -> Never or what it has found so far
    status,     \* the status file; "is" also tells of one that is not there
    runs        \* how many passes there were

backstopVars == <<now, starts, pass, status, runs>>

BackstopInit ==
    /\ now = 0 /\ starts = <<>>
    /\ pass = [p \in Passes |-> Never] /\ runs = 0
    /\ status = [is |-> "none", run |-> 0, ok |-> Never, seen |-> {}, began |-> 0]

-----------------------------------------------------------------------------
(* The captures.                                                           *)

StartHook(failed) ==
    /\ Len(starts) < MaxStarts
    /\ starts' = Append(starts, [at |-> now, failed |-> failed, on |-> FALSE])
    /\ UNCHANGED <<now, pass, status, runs>>

\* Its manifest, or its line in the pending file, is written.
OnRecord(i) ==
    /\ ~ starts[i].on /\ starts' = [starts EXCEPT ![i].on = TRUE]
    /\ UNCHANGED <<now, pass, status, runs>>

Tick == now < MaxTime /\ now' = now + 1 /\ UNCHANGED <<starts, pass, status, runs>>

-----------------------------------------------------------------------------
(* A pass.                                                                 *)

\* Mutant: the time of a pass is when it is recorded.
BugTimeOf(p) == now

\* The time that a pass is recorded under: when it began.
TimeOf(p) == pass[p].at

PassAt(p, step) == pass[p] # Never /\ pass[p].step = step
Found(p, problem, step) ==
    pass' = [pass EXCEPT ![p].step = step, ![p].problem = @ \/ problem]

Begin(p) ==
    /\ pass[p] = Never /\ runs < MaxRuns /\ runs' = runs + 1
    /\ pass' = [pass EXCEPT ![p] =
           [at |-> now, problem |-> FALSE, warning |-> FALSE, seen |-> {}, step |-> "check"]]
    /\ UNCHANGED <<now, starts, status>>

\* check_content_store and check_meta_store: stores that are not there end the
\* pass; refused ones are a problem.
StoreChecks == {"ok", "refusing", "missing"}

CheckStores(p) ==
    /\ PassAt(p, "check")
    /\ \E store \in StoreChecks :
          Found(p, store # "ok", IF store = "missing" THEN "record" ELSE "maintain")
    /\ UNCHANGED <<now, starts, status, runs>>

\* run_maintain, and the streaks of failures it reports; a pass that is not
\* done by its deadline gives up; others may hold the lock.
FailedStreak ==
    LET on == {i \in DOMAIN starts : starts[i].on}
        last == {i \in on : Cardinality({j \in on : j > i}) < Streak}
    IN  Cardinality(last) = Streak /\ \A i \in last : starts[i].failed

Maintain(p) ==
    /\ PassAt(p, "maintain")
    /\ \E error \in BOOLEAN :
          pass' = [pass EXCEPT ![p].step = "overdue", ![p].problem = @ \/ error,
                               ![p].warning = ~ error /\ FailedStreak,
                               ![p].seen = IF error THEN {} ELSE {i \in DOMAIN starts : starts[i].on}]
    /\ UNCHANGED <<now, starts, status, runs>>

GiveUp(p) ==
    /\ PassAt(p, "maintain") /\ Found(p, TRUE, "overdue")
    /\ UNCHANGED <<now, starts, status, runs>>

Overdue(p) ==
    /\ PassAt(p, "overdue") /\ \E left \in BOOLEAN : Found(p, left, "record")
    /\ UNCHANGED <<now, starts, status, runs>>

\* _record: a status file that cannot be read counts as none.
Outcome(p) == IF pass[p].problem THEN "fail" ELSE IF pass[p].warning THEN "warn" ELSE "ok"

RecordPass(p) ==
    /\ PassAt(p, "record")
    /\ pass' = [pass EXCEPT ![p] = Never]
    /\ status' = [run |-> TimeOf(p), is |-> Outcome(p), seen |-> pass[p].seen, began |-> pass[p].at,
                  ok |-> IF Outcome(p) # "fail" THEN TimeOf(p)
                         ELSE IF status.is \in {"none", "unreadable"} THEN Never ELSE status.ok]
    /\ UNCHANGED <<now, starts, runs>>

\* It dies, or its status file cannot be written.
PassDies(p) ==
    /\ pass[p] # Never /\ pass' = [pass EXCEPT ![p] = Never]
    /\ UNCHANGED <<now, starts, status, runs>>

Damage ==
    /\ status.is \notin {"none", "unreadable"} /\ status' = [status EXCEPT !.is = "unreadable"]
    /\ UNCHANGED <<now, starts, pass, runs>>

BackstopNext ==
    \/ \E failed \in BOOLEAN : StartHook(failed)
    \/ \E i \in DOMAIN starts : OnRecord(i)
    \/ Tick \/ Damage
    \/ \E p \in Passes : Begin(p) \/ CheckStores(p) \/ Maintain(p) \/ GiveUp(p) \/ Overdue(p) \/ RecordPass(p) \/ PassDies(p)

BackstopSpec == BackstopInit /\ [][BackstopNext]_backstopVars

-----------------------------------------------------------------------------
\* health: failures that began after the last pass cap its standing.
OnFile == {i \in DOMAIN starts : starts[i].failed /\ starts[i].on}
Unseen == {i \in OnFile : starts[i].at > status.run}

Worse(x, y) == IF "fail" \in {x, y} THEN "fail" ELSE IF "warn" \in {x, y} THEN "warn" ELSE "ok"

Health ==
    CASE status.is = "unreadable" -> "fail"
      [] status.is = "none" -> "never_run"
      [] OTHER ->
           IF status.ok = Never \/ now - status.ok > StaleAfter THEN "stale"
           ELSE IF Unseen = {} THEN status.is
           ELSE Worse(status.is, IF Cardinality(Unseen) >= Streak THEN "fail" ELSE "warn")

-----------------------------------------------------------------------------
\* Each variable stays in its range.
BackstopTypeOK ==
    /\ now \in 0 .. MaxTime /\ runs \in 0 .. MaxRuns
    /\ Health \in {"ok", "warn", "fail", "stale", "never_run"}

\* A standing of ok hides no failure whose hook began after the pass that it
\* rests on: it was on record when that pass looked.  (One that began before
\* the pass and is put on record after the look is hidden.)
OkHidesNothing ==
    Health = "ok" => \A i \in OnFile : i \in status.seen \/ starts[i].at <= status.began
===============================================================================
