------------------------------ MODULE Episode ------------------------------
(* The life of one captured episode of evidence-capture: its manifest, the  *)
(* open pointer of its session, and the one place its start snapshot is in. *)
(* The start hook, the Stop hooks of two turns, the maintenance pass, and   *)
(* the rescreen and expire commands all write that manifest; each keeps a   *)
(* copy of it between its read and its write.                               *)
(*                                                                          *)
(* The episode lock is the abstract holder FileLock implements.  Of the     *)
(* manifest the fields are kept that decide what is done next; a join and a *)
(* rule evaluation have any outcome the transcript and the screen can give. *)
EXTENDS Naturals

CONSTANTS
    Tools,     \* the commands run beside the hooks: rescreen, expire
    MaxFaults  \* bound on deaths, failed calls and deferred reviews

ASSUME ConstAssumption == Tools \subseteq {"rescreen", "expire"} /\ MaxFaults \in Nat

Procs == {"start", "stop", "maintain"} \cup Tools

\* Classes of the episode's age: from the start on, killed after 120 s,
\* re-joined for 24 h, pointer retired after 72 h, content kept 90 days.
Killed == 1
Rejoin == 2
Stale == 3
Expired == 4

VARIABLES
    m,       \* the manifest on disk
    ptr,     \* what open/<session> names: "none", "this" or the "other" episode
    sess,    \* the session: "turn1", "between", "turn2", "over"
    place,   \* where the snapshot is
    logged,  \* its deletion is in DELETIONS.log
    unlogged,  \* history: a process died between removing it and logging that
    age,     \* the class of the episode's age
    lock,    \* holder of the episode lock
    pc,      \* where each process is
    cp,      \* each process's copy of the manifest
    faults,
    clobbered  \* history: a copy read without the lock overwrote a later write

vars == <<m, ptr, sess, place, logged, unlogged, age, lock, pc, cp, faults, clobbered>>

Verdicts == {"unknown", "clear", "yes", "failed"}  \* "failed": X6 or X7, for good

\* verdict: the exclusion rules, the link and the boundary; end: the turn at
\* whose Stop the causal end state was sealed.
Manifests ==
    [phase : {"none", "begun", "started", "ended", "killed"},
     join : {"none", "found", "lost", "expired"}, by : {"none", "end", "maintain"},
     end : 0 .. 2, verdict : Verdicts,
     review : {"none", "held", "excluded", "materialized"}]

Blank == [phase |-> "none", join |-> "none", by |-> "none", end |-> 0,
          verdict |-> "unknown", review |-> "none"]

\* Where a process holds the episode lock.
Locked == {"read", "join", "judge", "review", "staged", "log", "record", "reviewed"}

\* Where a process has removed the content and not yet logged it.
Unlogged == {"log", "expire_log"}

Init ==
    /\ m = Blank /\ ptr = "none" /\ sess = "turn1" /\ place = "none"
    /\ logged = FALSE /\ unlogged = FALSE /\ age = 0 /\ lock = "none" /\ faults = 0 /\ clobbered = FALSE
    /\ pc = [p \in Procs |-> IF p = "start" THEN "begin" ELSE "idle"]
    /\ cp = [p \in Procs |-> Blank]

-----------------------------------------------------------------------------
At(p, l) == pc[p] = l

Go(p, l) == pc' = [pc EXCEPT ![p] = l]

Hold(p, c) == cp' = [cp EXCEPT ![p] = c]

Fault == faults < MaxFaults /\ faults' = faults + 1

Finish(p) == Go(p, "idle") /\ Hold(p, Blank)

Content == <<place, logged, unlogged>>
Session == <<ptr, sess>>

-----------------------------------------------------------------------------
\* UserPromptSubmit: a first manifest, the snapshot, the manifest, the pointer.
StartBegin ==
    /\ At("start", "begin")
    /\ m' = [Blank EXCEPT !.phase = "begun"]
    /\ Go("start", "snapshot")
    /\ UNCHANGED <<Session, Content, age, lock, cp, faults, clobbered>>

StartSnapshot ==
    /\ At("start", "snapshot")
    /\ Go("start", "write")
    /\ \/ place' = "live" /\ faults' = faults
          /\ Hold("start", [Blank EXCEPT !.phase = "started"])
       \/ Fault /\ place' = place
          /\ Hold("start", [Blank EXCEPT !.phase = "started", !.verdict = "failed"])
    /\ UNCHANGED <<m, Session, logged, unlogged, age, lock, clobbered>>

StartWrite ==
    /\ At("start", "write")
    /\ m' = cp["start"]
    /\ Go("start", "pointer")
    /\ UNCHANGED <<Session, Content, age, lock, cp, faults, clobbered>>

StartPointer ==
    /\ At("start", "pointer")
    /\ \/ ptr' = "this" /\ faults' = faults
       \/ Fault /\ ptr' = ptr
    /\ Finish("start")
    /\ UNCHANGED <<m, sess, Content, age, lock, clobbered>>

\* A turn ends with a Stop hook, or is interrupted and has none.
TurnEnds ==
    /\ At("start", "idle") /\ At("stop", "idle")
    /\ \/ sess = "turn1" /\ sess' = "between"
       \/ sess = "turn2" /\ sess' = "over"
    /\ (Go("stop", "open") \/ pc' = pc)
    /\ UNCHANGED <<m, ptr, Content, age, lock, cp, faults, clobbered>>

\* The next prompt of the session: captured, or not (capture switched off, a
\* store problem, a hook that died before the pointer).
NextPrompt ==
    /\ sess = "between" /\ At("stop", "idle")
    /\ sess' = "turn2"
    /\ ptr' \in {ptr, "other"}
    /\ UNCHANGED <<m, Content, age, lock, pc, cp, faults, clobbered>>

\* The turn whose Stop hook is running.
Turn == IF sess = "between" THEN 1 ELSE 2

-----------------------------------------------------------------------------
\* Joins.  An exclusion for a failed snapshot or start is for good.
Judged(c, v) == [c EXCEPT !.verdict = IF c.verdict = "failed" THEN "failed" ELSE v]

\* finalize with the prompt found; only a live Stop seals an end state, once.
Found(c, by, v, sealed) ==
    [Judged(c, v) EXCEPT
        !.phase = "ended", !.join = "found", !.by = by,
        !.end = IF by = "end" /\ sealed /\ c.end = 0 THEN Turn ELSE c.end]

\* finalize with the prompt not found: the phase stays.
Lost(c, by) ==
    [Judged(c, IF c.verdict = "yes" THEN "yes" ELSE "unknown") EXCEPT
        !.join = "lost", !.by = by]

Joins(c, by) ==
    {Found(c, by, v, s) : v \in Verdicts \ {"failed"}, s \in BOOLEAN} \cup {Lost(c, by)}

CanFinalize(c, by) ==
    /\ c.review # "materialized"
    /\ \/ c.phase = "started"
       \/ by = "end" /\ c.phase = "ended" /\ c.by = "maintain"

-----------------------------------------------------------------------------
\* Stop: the pointer, the lock, the manifest, the join, the review, the pointer.
EndOpen ==
    /\ At("stop", "open")
    /\ Go("stop", IF ptr = "this" THEN "lock" ELSE "idle")
    /\ UNCHANGED <<m, Session, Content, age, lock, cp, faults, clobbered>>

EndLock ==
    /\ At("stop", "lock")
    /\ \/ lock = "none" /\ lock' = "stop" /\ Go("stop", "read")
       \/ lock # "none" /\ lock' = lock /\ Go("stop", "idle")
    /\ UNCHANGED <<m, Session, Content, age, cp, faults, clobbered>>

EndRead ==
    /\ At("stop", "read")
    /\ \/ CanFinalize(m, "end") /\ Hold("stop", m) /\ Go("stop", "join") /\ lock' = lock
       \/ ~CanFinalize(m, "end") /\ Finish("stop") /\ lock' = "none"
    /\ UNCHANGED <<m, Session, Content, age, faults, clobbered>>

\* With no transcript the manifest only gets the error.
EndJoin ==
    /\ At("stop", "join")
    /\ \/ /\ \E c \in Joins(cp["stop"], "end") : m' = c /\ Hold("stop", c)
          /\ Go("stop", "review") /\ lock' = lock
       \/ m' = cp["stop"] /\ Finish("stop") /\ lock' = "none"
    /\ UNCHANGED <<Session, Content, age, faults, clobbered>>

EndPointer ==
    /\ At("stop", "reviewed")
    /\ ptr' = IF ptr = "this" THEN "none" ELSE ptr
    /\ Finish("stop") /\ lock' = "none"
    /\ UNCHANGED <<m, sess, Content, age, faults, clobbered>>

-----------------------------------------------------------------------------
\* review_episode, by the Stop hook or maintenance, under the episode lock.
Decisions(c) ==
    CASE c.verdict \in {"yes", "failed"} -> {"excluded"}
      [] c.verdict = "unknown" -> {"held"}
      [] OTHER -> IF place # "live" THEN {"excluded"}
                  ELSE {"held", "excluded", "cleared"}

Reviewed(p, s) == [cp[p] EXCEPT !.review = s]

\* An unchanged state is written only if its reason changed.
Conclude(p, s) ==
    /\ Hold(p, Reviewed(p, s))
    /\ \/ Go(p, "record")
       \/ cp[p].review = s /\ Go(p, "reviewed")

\* Nothing to do, or the store has problems and the review is deferred.
RevSkip(p) ==
    /\ At(p, "review") /\ Go(p, "reviewed")
    /\ \/ cp[p].review = "materialized" /\ faults' = faults
       \/ Fault
    /\ UNCHANGED <<m, Session, Content, age, lock, cp, clobbered>>

\* Mutant: an interrupted payload is never adopted.
BugRevAdopt(p) ==
    /\ At(p, "review") /\ cp[p].review # "materialized"
    /\ place = "payload"
    /\ Conclude(p, "held")
    /\ UNCHANGED <<m, Session, Content, age, lock, faults, clobbered>>

\* A payload the manifest does not record.
RevAdopt(p) ==
    /\ At(p, "review") /\ cp[p].review # "materialized"
    /\ place = "payload"
    /\ Hold(p, Reviewed(p, "materialized")) /\ Go(p, "record")
    /\ UNCHANGED <<m, Session, Content, age, lock, faults, clobbered>>

RevHold(p) ==
    /\ At(p, "review") /\ cp[p].review # "materialized"
    /\ place # "payload" /\ "held" \in Decisions(cp[p])
    /\ Conclude(p, "held")
    /\ UNCHANGED <<m, Session, Content, age, lock, faults, clobbered>>

\* Mutant: an episode already excluded is not looked at again.
BugRevExclude(p) ==
    /\ At(p, "review") /\ cp[p].review # "materialized"
    /\ place # "payload" /\ "excluded" \in Decisions(cp[p])
    /\ \/ /\ place = "live" /\ cp[p].review # "excluded"
          /\ place' = "gone" /\ faults' = faults /\ Go(p, "log") /\ cp' = cp
       \/ place = "live" /\ Fault /\ place' = place /\ Conclude(p, "excluded")
       \/ /\ place # "live" \/ cp[p].review = "excluded"
          /\ UNCHANGED <<place, faults>> /\ Conclude(p, "excluded")
    /\ UNCHANGED <<m, Session, logged, unlogged, age, lock, clobbered>>

\* The snapshot is removed; a removal that failed is tried by the next review.
RevExclude(p) ==
    /\ At(p, "review") /\ cp[p].review # "materialized"
    /\ place # "payload" /\ "excluded" \in Decisions(cp[p])
    /\ \/ place = "live" /\ place' = "gone" /\ faults' = faults /\ Go(p, "log") /\ cp' = cp
       \/ place = "live" /\ Fault /\ place' = place /\ Conclude(p, "excluded")
       \/ place # "live" /\ UNCHANGED <<place, faults>> /\ Conclude(p, "excluded")
    /\ UNCHANGED <<m, Session, logged, unlogged, age, lock, clobbered>>

\* The removal is appended to DELETIONS.log.
RevLog(p) ==
    /\ At(p, "log")
    /\ logged' = TRUE
    /\ Hold(p, Reviewed(p, "excluded")) /\ Go(p, "record")
    /\ UNCHANGED <<m, Session, place, unlogged, age, lock, faults, clobbered>>

\* Mutant: the manifest says materialized before the payload is in place.
BugRevStage(p) ==
    /\ At(p, "review") /\ cp[p].review # "materialized"
    /\ "cleared" \in Decisions(cp[p])
    /\ place' = "stage" /\ m' = Reviewed(p, "materialized") /\ Go(p, "staged")
    /\ UNCHANGED <<Session, logged, unlogged, age, lock, cp, faults, clobbered>>

\* The snapshot is moved into a staging directory, that into payloads/.
RevStage(p) ==
    /\ At(p, "review") /\ cp[p].review # "materialized"
    /\ "cleared" \in Decisions(cp[p])
    /\ place' = "stage" /\ Go(p, "staged")
    /\ UNCHANGED <<m, Session, logged, unlogged, age, lock, cp, faults, clobbered>>

RevPlace(p) ==
    /\ At(p, "staged")
    /\ place' = "payload"
    /\ Hold(p, Reviewed(p, "materialized")) /\ Go(p, "record")
    /\ UNCHANGED <<m, Session, logged, unlogged, age, lock, faults, clobbered>>

RevFails(p) ==
    /\ At(p, "staged") /\ Fault
    /\ place' = "live"
    /\ Hold(p, Reviewed(p, "held")) /\ Go(p, "record")
    /\ UNCHANGED <<m, Session, logged, unlogged, age, lock, clobbered>>

RevRecord(p) ==
    /\ At(p, "record")
    /\ m' = cp[p] /\ Go(p, "reviewed")
    /\ UNCHANGED <<Session, Content, age, lock, cp, faults, clobbered>>

Review(p) ==
    \/ RevSkip(p) \/ RevAdopt(p) \/ RevHold(p) \/ RevExclude(p) \/ RevLog(p)
    \/ RevStage(p) \/ RevPlace(p) \/ RevFails(p) \/ RevRecord(p)

-----------------------------------------------------------------------------
\* maintain.lock: one maintenance pass or rescreen at a time.
PassFree == \A p \in Procs : p \notin {"start", "stop", "expire"} => At(p, "idle")

\* Mutant: the orphan's snapshot is removed with it.
BugSwept(old) ==
    IF place = "stage" /\ old /\ \A p \in Procs : ~At(p, "staged") THEN "gone" ELSE place

\* A staging directory nobody is building in is swept after an hour: its
\* snapshot goes back to snapshots/.
Swept(old) ==
    IF place = "stage" /\ old /\ \A p \in Procs : ~At(p, "staged") THEN "live" ELSE place

\* A pass sweeps tmp/ and reads every manifest; a materialized one is left alone.
MaintainScan ==
    /\ PassFree /\ m.phase # "none"
    /\ \E old \in BOOLEAN : place' = Swept(old)
    /\ Hold("maintain", m)
    /\ Go("maintain", IF m.review = "materialized" THEN "expire" ELSE "lock")
    /\ UNCHANGED <<m, Session, logged, unlogged, age, lock, faults, clobbered>>

MaintainLock ==
    /\ At("maintain", "lock")
    /\ \/ lock = "none" /\ lock' = "maintain" /\ Go("maintain", "read")
       \/ lock # "none" /\ lock' = lock /\ Go("maintain", "expire")
    /\ UNCHANGED <<m, Session, Content, age, cp, faults, clobbered>>

\* Mutant: maintenance goes on with the manifest it scanned.
BugMaintainRead ==
    /\ At("maintain", "read")
    /\ Go("maintain", "judge")
    /\ UNCHANGED <<m, Session, Content, age, lock, cp, faults, clobbered>>

\* The manifest is read again under the lock.
MaintainRead ==
    /\ At("maintain", "read")
    /\ Hold("maintain", m) /\ Go("maintain", "judge")
    /\ UNCHANGED <<m, Session, Content, age, lock, faults, clobbered>>

\* A terminal episode: its boundary and link may be resolved only now.
Relinked(c) ==
    IF c.verdict # "unknown" THEN {c}
    ELSE {Judged(c, v) : v \in IF c.join = "found" THEN Verdicts \ {"failed"}
                               ELSE {"unknown", "yes"}}

\* Mutant: the re-join window never closes.
BugOutcomes(c) ==
    CASE c.phase = "begun" /\ age >= Killed ->
           {[c EXCEPT !.phase = "killed", !.verdict = "failed"]}
      [] c.phase = "started" -> Joins(c, "maintain") \cup {c}
      [] c.phase \in {"ended", "killed"} -> Relinked(c)
      [] OTHER -> {c}

\* What a pass makes of a manifest.  A turn is over when a later episode of
\* the session exists or the transcript is idle, which it may be at any time.
Outcomes(c) ==
    CASE c.phase = "begun" /\ age >= Killed ->
           {[c EXCEPT !.phase = "killed", !.verdict = "failed"]}
      [] c.phase = "started" ->
           Joins(c, "maintain")
           \cup (IF age >= Rejoin
                 THEN {[c EXCEPT !.phase = "ended", !.join = "expired", !.by = "maintain"]}
                 ELSE {c})
      [] c.phase \in {"ended", "killed"} -> Relinked(c)
      [] OTHER -> {c}

MaintainJudge ==
    /\ At("maintain", "judge")
    /\ \E c \in Outcomes(cp["maintain"]) :
          /\ m' = IF c = cp["maintain"] THEN m ELSE c
          /\ Hold("maintain", c)
          /\ Go("maintain", IF c.phase \in {"ended", "killed"} THEN "review" ELSE "reviewed")
    /\ UNCHANGED <<Session, Content, age, lock, faults, clobbered>>

MaintainUnlock ==
    /\ At("maintain", "reviewed")
    /\ lock' = "none" /\ Go("maintain", "expire") /\ Hold("maintain", Blank)
    /\ UNCHANGED <<m, Session, Content, age, faults, clobbered>>

-----------------------------------------------------------------------------
\* expire(), at the end of a pass or as a command; it takes no episode lock.
AfterExpire(p) == IF p = "maintain" THEN "retire" ELSE "idle"

ExpireScan(p) ==
    /\ At(p, IF p = "maintain" THEN "expire" ELSE "idle")
    /\ \/ /\ age >= Expired
          /\ \/ place = "live" /\ Go(p, "delete_snapshot")
             \/ place = "payload" /\ Go(p, "delete_payload")
          /\ Hold(p, m)
       \/ p = "maintain" /\ Go(p, "retire") /\ Hold(p, Blank)
    /\ UNCHANGED <<m, Session, Content, age, lock, faults, clobbered>>

\* Sealed content stays and the seal is noted; a deletion that fails is only
\* logged; a directory moved away since the scan counts as deleted.
ExpireDelete(p) ==
    /\ At(p, "delete_snapshot") \/ At(p, "delete_payload")
    /\ LET here == IF At(p, "delete_snapshot") THEN "live" ELSE "payload" IN
       \/ place = here /\ place' = "gone" /\ faults' = faults /\ Go(p, "expire_log") /\ cp' = cp
       \/ UNCHANGED <<place, faults>> /\ Go(p, "stale_write") /\ cp' = cp
       \/ place = here /\ Fault /\ place' = place /\ Go(p, AfterExpire(p)) /\ Hold(p, Blank)
    /\ UNCHANGED <<m, Session, logged, unlogged, age, lock, clobbered>>

ExpireLog(p) ==
    /\ At(p, "expire_log")
    /\ logged' = TRUE /\ Go(p, "stale_write")
    /\ UNCHANGED <<m, Session, place, unlogged, age, lock, cp, faults, clobbered>>

ExpireWrite(p) ==
    /\ At(p, "stale_write")
    /\ m' = cp[p] /\ clobbered' = (clobbered \/ m # cp[p])
    /\ Go(p, AfterExpire(p)) /\ Hold(p, Blank)
    /\ UNCHANGED <<Session, Content, age, lock, faults>>

\* retire_open_pointers: the manifest and the pointer are read, then unlinked.
RetireCheck ==
    /\ At("maintain", "retire")
    /\ Go("maintain", IF /\ ptr = "this" /\ m.phase = "ended" /\ m.by = "maintain"
                         /\ age >= Stale
                      THEN "unlink" ELSE "idle")
    /\ UNCHANGED <<m, Session, Content, age, lock, cp, faults, clobbered>>

Retire ==
    /\ At("maintain", "unlink")
    /\ ptr' = "none" /\ Go("maintain", "idle")
    /\ UNCHANGED <<m, sess, Content, age, lock, cp, faults, clobbered>>

-----------------------------------------------------------------------------
\* rescreen: the manifests are read once, before any episode is locked.
RescreenScan ==
    /\ "rescreen" \in Tools /\ PassFree /\ m.join = "found"
    /\ Hold("rescreen", m) /\ Go("rescreen", "lock")
    /\ UNCHANGED <<m, Session, Content, age, lock, faults, clobbered>>

RescreenLock ==
    /\ "rescreen" \in Tools /\ At("rescreen", "lock")
    /\ \/ lock = "none" /\ lock' = "rescreen" /\ Go("rescreen", "join") /\ cp' = cp
       \/ lock # "none" /\ lock' = lock /\ Finish("rescreen")
    /\ UNCHANGED <<m, Session, Content, age, faults, clobbered>>

RescreenWrite ==
    /\ "rescreen" \in Tools /\ At("rescreen", "join")
    /\ \/ /\ \E v \in Verdicts \ {"failed"} : m' = Judged(cp["rescreen"], v)
          /\ clobbered' = (clobbered \/ m # cp["rescreen"])
       \/ UNCHANGED <<m, clobbered>>
    /\ lock' = "none" /\ Finish("rescreen")
    /\ UNCHANGED <<Session, Content, age, faults>>

-----------------------------------------------------------------------------
Tick ==
    /\ age < Expired /\ age' = age + 1
    /\ UNCHANGED <<m, Session, Content, lock, pc, cp, faults, clobbered>>

\* A death, or an append to DELETIONS.log that fails.
Die(p) ==
    /\ pc[p] \notin {"idle", "begin"} /\ Fault
    /\ Finish(p)
    /\ lock' = IF lock = p THEN "none" ELSE lock
    /\ unlogged' = (unlogged \/ pc[p] \in Unlogged)
    /\ UNCHANGED <<m, Session, place, logged, age, clobbered>>

Start == StartBegin \/ StartSnapshot \/ StartWrite \/ StartPointer
Stop == EndOpen \/ EndLock \/ EndRead \/ EndJoin \/ Review("stop") \/ EndPointer
Expire(p) == ExpireScan(p) \/ ExpireDelete(p) \/ ExpireLog(p) \/ ExpireWrite(p)
Maintain ==
    \/ MaintainScan \/ MaintainLock \/ MaintainRead \/ MaintainJudge
    \/ Review("maintain") \/ MaintainUnlock
    \/ RetireCheck \/ Retire
Rescreen == RescreenScan \/ RescreenLock \/ RescreenWrite

Next ==
    \/ Start \/ TurnEnds \/ NextPrompt \/ Stop \/ Maintain \/ Rescreen
    \/ \E p \in Procs \cap {"maintain", "expire"} : Expire(p)
    \/ Tick
    \/ \E p \in Procs : Die(p)

Spec == Init /\ [][Next]_vars

\* Processes keep running until they die, time passes, and passes are started
\* by hooks and by the scheduler; an orphan gets old between two passes.
Fairness ==
    /\ WF_vars(Start) /\ WF_vars(Stop) /\ WF_vars(Maintain \/ Expire("maintain")) /\ WF_vars(Tick)
    /\ SF_vars(MaintainScan /\ place' # place)

FairSpec == Spec /\ Fairness

-----------------------------------------------------------------------------
\* Types, and the episode lock is held exactly where a process holds it.
TypeOK ==
    /\ m \in Manifests
    /\ ptr \in {"none", "this", "other"}
    /\ sess \in {"turn1", "between", "turn2", "over"}
    /\ place \in {"none", "live", "stage", "payload", "gone"}
    /\ logged \in BOOLEAN /\ unlogged \in BOOLEAN
    /\ age \in 0 .. Expired
    /\ pc \in [Procs -> Locked \cup
                {"idle", "begin", "snapshot", "write", "pointer", "open", "lock", "expire",
                 "delete_snapshot", "delete_payload", "expire_log", "stale_write", "retire",
                 "unlink"}]
    /\ cp \in [Procs -> Manifests]
    /\ faults \in 0 .. MaxFaults
    /\ lock \in Procs \cup {"none"}
    /\ clobbered \in BOOLEAN
    /\ \A p \in Procs : lock = p <=> pc[p] \in Locked

(* A maintenance join is provisional until the Stop hook's own join         *)
(* replaces it (pipeline.py:974); the Stop hook's join, and the end state   *)
(* sealed with it (causal_hooks.py:115), are replaced by no hook and no     *)
(* later pass, whatever dies or waits in between, until a command that read *)
(* the manifest without its lock writes an older one back.                  *)
StopJoinKept ==
    [][m.by = "end" /\ m.join = "found" /\ ~clobbered'
           => m'.by = "end" /\ m'.join = "found" /\ m'.end = m.end]_vars

(* A materialized payload is never revisited (review.py:580): no hook and   *)
(* no pass takes the state back, with the same exception.                   *)
MaterializedFinal ==
    [][m.review = "materialized" /\ ~clobbered' => m'.review = "materialized"]_vars

\* The content is gone by a deletion, of which there is a record, or soon will
\* be, or whose process died before the record.
Deleted == place = "gone" /\ (logged \/ unlogged \/ \E p \in Procs : pc[p] \in Unlogged)

(* A snapshot is never silently dropped (store.py:354-356): wherever a      *)
(* review, a sweep or an expiry is cut short, a snapshot that is gone was   *)
(* deleted, and has its record in DELETIONS.log.  The one exception is a    *)
(* process cut short between the removal and the append (store.py:432,      *)
(* 435): nothing writes that record later, as the next review finds no      *)
(* snapshot to delete.                                                      *)
NeverDropped == place = "gone" => Deleted

(* A manifest that says materialized has its payload, or that was deleted   *)
(* as above: the payload is in place before the manifest records it         *)
(* (review.py:535-546, 640-656), and neither a stale copy nor a review that *)
(* was cut short records one that never was there.                          *)
MaterializedBacked == m.review = "materialized" => place = "payload" \/ Deleted

(* Every captured episode gets to a terminal phase, or maintenance keeps    *)
(* failing to find its prompt in the transcript.                            *)
EventuallyTerminal ==
    m.phase # "none" ~> m.phase \in {"ended", "killed"} \/ m.join = "lost"

(* A payload whose build was cut short before the manifest recorded it is   *)
(* adopted by a later review (review.py:594-600), unless it expires or a    *)
(* stale copy of the manifest is written back.                              *)
PayloadRecorded ==
    place = "payload" ~> m.review = "materialized" \/ place = "gone" \/ clobbered

(* Content of an excluded episode does not stay: a deletion that failed is  *)
(* tried again by each later review (review.py:607-616).                    *)
ExcludedDeleted ==
    m.review = "excluded" /\ place = "live" ~> m.review # "excluded" \/ place # "live"

-----------------------------------------------------------------------------
(* "Link, boundary, snapshot, review and retention are left as they are"    *)
(* (rescreen.py:7-9): a rescreen changes no review state.                   *)
RescreenLeavesReview == [][RescreenWrite => m'.review = m.review]_vars

=============================================================================
