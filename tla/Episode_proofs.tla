--------------------------- MODULE Episode_proofs ---------------------------
(* Episode for any bound on faults and any set of tools: type correctness   *)
(* with the use of the episode lock, and what holds of the snapshot.        *)
EXTENDS Episode, TLAPS

USE ConstAssumption

-----------------------------------------------------------------------------
\* What joins, rule evaluations and maintenance make of a manifest is one.
LEMMA JudgedType ==
  ASSUME NEW c \in Manifests, NEW v \in Verdicts
  PROVE  Judged(c, v) \in Manifests
  BY DEF Judged, Manifests, Verdicts

LEMMA BlankType == Blank \in Manifests
  BY DEF Blank, Manifests, Verdicts

LEMMA JoinsType ==
  ASSUME NEW c \in Manifests, NEW by \in {"end", "maintain"}, NEW d \in Joins(c, by)
  PROVE  d \in Manifests
  <1>1. ASSUME NEW v \in Verdicts \ {"failed"}, NEW s \in BOOLEAN, d = Found(c, by, v, s)
        PROVE  d \in Manifests
    <2>1. Turn \in 0 .. 2
      BY DEF Turn
    <2>2. Judged(c, v) \in Manifests /\ c.end \in 0 .. 2
      BY JudgedType DEF Manifests
    <2> DEFINE e == IF by = "end" /\ s /\ c.end = 0 THEN Turn ELSE c.end
    <2>3. e \in 0 .. 2
      BY <2>1, <2>2
    <2>4. d = [Judged(c, v) EXCEPT !.phase = "ended", !.join = "found", !.by = by, !.end = e]
      BY <1>1, Zenon DEF Found
    <2> HIDE DEF e
    <2>5. QED
      BY <2>2, <2>3, <2>4 DEF Manifests
  <1>2. ASSUME d = Lost(c, by) PROVE d \in Manifests
    <2> DEFINE v == IF c.verdict = "yes" THEN "yes" ELSE "unknown"
    <2>1. Judged(c, v) \in Manifests
      BY JudgedType DEF Verdicts
    <2>2. d = [Judged(c, v) EXCEPT !.join = "lost", !.by = by]
      BY <1>2 DEF Lost
    <2> HIDE DEF v
    <2>3. QED
      BY <2>1, <2>2 DEF Manifests
  <1>3. QED
    BY <1>1, <1>2 DEF Joins

LEMMA OutcomesType ==
  ASSUME NEW c \in Manifests, NEW d \in Outcomes(c)
  PROVE  d \in Manifests
  <1>1. CASE c.phase = "begun" /\ age >= Killed
    BY <1>1 DEF Outcomes, Manifests, Verdicts
  <1>2. CASE c.phase = "started"
    <2>1. \/ d \in Joins(c, "maintain")
          \/ d = [c EXCEPT !.phase = "ended", !.join = "expired", !.by = "maintain"]
          \/ d = c
      BY <1>2 DEF Outcomes
    <2>2. [c EXCEPT !.phase = "ended", !.join = "expired", !.by = "maintain"] \in Manifests
      BY DEF Manifests
    <2>3. QED
      BY <2>1, <2>2, JoinsType
  <1>3. CASE c.phase \in {"ended", "killed"}
    <2>1. d \in Relinked(c)
      BY <1>3 DEF Outcomes
    <2>2. d = c \/ \E v \in Verdicts : d = Judged(c, v)
      BY <2>1 DEF Relinked, Verdicts
    <2>3. QED
      BY <2>2, JudgedType
  <1>4. CASE c.phase \notin {"started", "ended", "killed"} /\ ~(c.phase = "begun" /\ age >= Killed)
    BY <1>4 DEF Outcomes
  <1>5. QED
    BY <1>1, <1>2, <1>3, <1>4

LEMMA ReviewedType ==
  ASSUME cp \in [Procs -> Manifests], NEW p \in Procs,
         NEW s \in {"none", "held", "excluded", "materialized"}
  PROVE  Reviewed(p, s) \in Manifests
  BY DEF Reviewed, Manifests

-----------------------------------------------------------------------------
\* TypeOK as the type of the state and the use of the lock; sets of labels and
\* of processes stay unexpanded below.
Labels ==
    Locked \cup {"idle", "begin", "snapshot", "write", "pointer", "open", "lock", "expire",
                 "delete_snapshot", "delete_payload", "expire_log", "stale_write", "retire",
                 "unlink"}

State ==
    /\ m \in Manifests
    /\ ptr \in {"none", "this", "other"}
    /\ sess \in {"turn1", "between", "turn2", "over"}
    /\ place \in {"none", "live", "stage", "payload", "gone"}
    /\ age \in 0 .. Expired
    /\ pc \in [Procs -> Labels]
    /\ cp \in [Procs -> Manifests]
    /\ faults \in 0 .. MaxFaults
    /\ lock \in Procs \cup {"none"}

LockUse == \A p \in Procs : lock = p <=> pc[p] \in Locked

Flags == logged \in BOOLEAN /\ unlogged \in BOOLEAN /\ clobbered \in BOOLEAN

Typed == State /\ LockUse

LEMMA TypedIsTypeOK == Typed /\ Flags <=> TypeOK
  BY DEF Typed, Flags, State, LockUse, TypeOK, Labels

LEMMA LabelFacts ==
  /\ "read" \in Labels /\ "read" \in Locked
  /\ "join" \in Labels /\ "join" \in Locked
  /\ "judge" \in Labels /\ "judge" \in Locked
  /\ "review" \in Labels /\ "review" \in Locked
  /\ "staged" \in Labels /\ "staged" \in Locked
  /\ "log" \in Labels /\ "log" \in Locked
  /\ "record" \in Labels /\ "record" \in Locked
  /\ "reviewed" \in Labels /\ "reviewed" \in Locked
  /\ "idle" \in Labels /\ "idle" \notin Locked
  /\ "begin" \in Labels /\ "begin" \notin Locked
  /\ "snapshot" \in Labels /\ "snapshot" \notin Locked
  /\ "write" \in Labels /\ "write" \notin Locked
  /\ "pointer" \in Labels /\ "pointer" \notin Locked
  /\ "open" \in Labels /\ "open" \notin Locked
  /\ "lock" \in Labels /\ "lock" \notin Locked
  /\ "expire" \in Labels /\ "expire" \notin Locked
  /\ "delete_snapshot" \in Labels /\ "delete_snapshot" \notin Locked
  /\ "delete_payload" \in Labels /\ "delete_payload" \notin Locked
  /\ "expire_log" \in Labels /\ "expire_log" \notin Locked
  /\ "stale_write" \in Labels /\ "stale_write" \notin Locked
  /\ "retire" \in Labels /\ "retire" \notin Locked
  /\ "unlink" \in Labels /\ "unlink" \notin Locked
  BY DEF Labels, Locked

LEMMA ProcFacts ==
  /\ "start" \in Procs /\ "stop" \in Procs /\ "maintain" \in Procs
  /\ "none" \notin Procs
  /\ "rescreen" \in Tools => "rescreen" \in Procs
  BY DEF Procs

LEMMA InitTyped == Init => Typed
  <1>1. Init => State
    BY BlankType, LabelFacts, ProcFacts DEF Init, State, Expired
  <1>2. Init => LockUse
    BY LabelFacts, ProcFacts DEF Init, LockUse
  <1>3. QED
    BY <1>1, <1>2 DEF Typed

LEMMA StartType ==
  ASSUME Typed, Start
  PROVE  Typed'
  <1> USE LabelFacts, ProcFacts DEF Typed, State, LockUse, At, Go, Hold, Fault, Finish, Session, Content
  <1>1. CASE StartBegin
    <2>1. [Blank EXCEPT !.phase = "begun"] \in Manifests
      BY DEF Blank, Manifests, Verdicts
    <2>2. QED
      BY <1>1, <2>1 DEF StartBegin
  <1>2. CASE StartSnapshot
    <2>1. /\ [Blank EXCEPT !.phase = "started"] \in Manifests
          /\ [Blank EXCEPT !.phase = "started", !.verdict = "failed"] \in Manifests
      BY BlankType DEF Manifests, Verdicts
    <2>2. QED
      BY <1>2, <2>1 DEF StartSnapshot
  <1>3. CASE StartWrite
    BY <1>3 DEF StartWrite
  <1>4. CASE StartPointer
    BY <1>4, BlankType DEF StartPointer
  <1>5. QED
    BY <1>1, <1>2, <1>3, <1>4 DEF Start

LEMMA StopType ==
  ASSUME Typed, EndOpen \/ EndLock \/ EndRead \/ EndJoin \/ EndPointer
  PROVE  Typed'
  <1> USE LabelFacts, ProcFacts DEF Typed, State, LockUse, At, Go, Hold, Fault, Finish, Session, Content
  <1>1. CASE EndOpen
    BY <1>1 DEF EndOpen
  <1>2. CASE EndLock
    BY <1>2 DEF EndLock
  <1>3. CASE EndRead
    BY <1>3, BlankType DEF EndRead
  <1>4. CASE EndJoin
    BY <1>4, BlankType, JoinsType DEF EndJoin
  <1>5. CASE EndPointer
    BY <1>5, BlankType DEF EndPointer
  <1>6. QED
    BY <1>1, <1>2, <1>3, <1>4, <1>5

LEMMA ReviewType ==
  ASSUME Typed, NEW p \in {"stop", "maintain"}, Review(p)
  PROVE  Typed'
  <1> USE LabelFacts, ProcFacts DEF Typed, State, LockUse, At, Go, Hold, Fault, Session, Content
  <1>0. \A s \in {"none", "held", "excluded", "materialized"} : Reviewed(p, s) \in Manifests
    BY ReviewedType
  <1>1. CASE RevSkip(p)
    BY <1>1 DEF RevSkip
  <1>2. CASE RevAdopt(p)
    BY <1>0, <1>2 DEF RevAdopt
  <1>3. CASE RevHold(p)
    BY <1>0, <1>3 DEF RevHold, Conclude
  <1>4. CASE RevExclude(p)
    BY <1>0, <1>4 DEF RevExclude, Conclude
  <1>5. CASE RevStage(p)
    BY <1>5 DEF RevStage
  <1>6. CASE RevPlace(p)
    BY <1>0, <1>6 DEF RevPlace
  <1>7. CASE RevFails(p)
    BY <1>0, <1>7 DEF RevFails
  <1>8. CASE RevRecord(p)
    BY <1>8 DEF RevRecord
  <1>9. CASE RevLog(p)
    BY <1>0, <1>9 DEF RevLog
  <1>10. QED
    BY <1>1, <1>2, <1>3, <1>4, <1>5, <1>6, <1>7, <1>8, <1>9 DEF Review

LEMMA MaintainType ==
  ASSUME Typed,
         \/ MaintainScan \/ MaintainLock \/ MaintainRead \/ MaintainJudge
         \/ MaintainUnlock \/ RetireCheck \/ Retire
  PROVE  Typed'
  <1> USE LabelFacts, ProcFacts DEF Typed, State, LockUse, At, Go, Hold, Session, Content
  <1>1. CASE MaintainScan
    BY <1>1 DEF MaintainScan, PassFree, Swept
  <1>2. CASE MaintainLock
    BY <1>2 DEF MaintainLock
  <1>3. CASE MaintainRead
    BY <1>3 DEF MaintainRead
  <1>4. CASE MaintainJudge
    BY <1>4, OutcomesType DEF MaintainJudge
  <1>5. CASE MaintainUnlock
    BY <1>5, BlankType DEF MaintainUnlock
  <1>6. CASE RetireCheck
    BY <1>6 DEF RetireCheck
  <1>7. CASE Retire
    BY <1>7 DEF Retire
  <1>8. QED
    BY <1>1, <1>2, <1>3, <1>4, <1>5, <1>6, <1>7

LEMMA ToolsType ==
  ASSUME Typed,
         \/ Rescreen
         \/ \E p \in Procs \cap {"maintain", "expire"} : Expire(p)
  PROVE  Typed'
  <1> USE LabelFacts, ProcFacts DEF Typed, State, LockUse, At, Go, Hold, Fault, Finish, Session, Content
  <1>1. ASSUME NEW p \in Procs \cap {"maintain", "expire"}, ExpireScan(p) PROVE Typed'
    BY <1>1, BlankType DEF ExpireScan
  <1>2. ASSUME NEW p \in Procs \cap {"maintain", "expire"}, ExpireDelete(p) PROVE Typed'
    BY <1>2, BlankType DEF ExpireDelete, AfterExpire
  <1>3. ASSUME NEW p \in Procs \cap {"maintain", "expire"}, ExpireWrite(p) PROVE Typed'
    BY <1>3, BlankType DEF ExpireWrite, AfterExpire
  <1>4. CASE RescreenScan
    BY <1>4 DEF RescreenScan, PassFree
  <1>5. CASE RescreenLock
    BY <1>5, BlankType DEF RescreenLock
  <1>6. CASE RescreenWrite
    BY <1>6, BlankType, JudgedType DEF RescreenWrite
  <1>7. ASSUME NEW p \in Procs \cap {"maintain", "expire"}, ExpireLog(p) PROVE Typed'
    BY <1>7 DEF ExpireLog
  <1>8. QED
    BY <1>1, <1>2, <1>3, <1>4, <1>5, <1>6, <1>7 DEF Rescreen, Expire

LEMMA StepTyped == Typed /\ [Next]_vars => Typed'
  <1> SUFFICES ASSUME Typed, [Next]_vars PROVE Typed'
    OBVIOUS
  <1>1. CASE Start
    BY <1>1, StartType
  <1>2. CASE Stop
    BY <1>2, StopType, ReviewType DEF Stop
  <1>3. CASE Maintain
    BY <1>3, MaintainType, ReviewType DEF Maintain
  <1>4. CASE Rescreen \/ \E p \in Procs \cap {"maintain", "expire"} : Expire(p)
    BY <1>4, ToolsType
  <1>5. CASE TurnEnds
    BY <1>5, LabelFacts, ProcFacts DEF TurnEnds, Typed, State, LockUse, At, Go, Content
  <1>6. CASE NextPrompt
    BY <1>6 DEF NextPrompt, Typed, State, LockUse, At, Content
  <1>7. CASE Tick
    BY <1>7 DEF Tick, Typed, State, LockUse, Session, Content, Expired
  <1>8. ASSUME NEW p \in Procs, Die(p) PROVE Typed'
    BY <1>8, BlankType, LabelFacts, ProcFacts DEF Die, Typed, State, LockUse, Fault, Finish, Go, Hold, Session, Content
  <1>9. CASE UNCHANGED vars
    BY <1>9 DEF vars, Typed, State, LockUse
  <1>10. QED
    BY <1>1, <1>2, <1>3, <1>4, <1>5, <1>6, <1>7, <1>8, <1>9 DEF Next

LEMMA StepFlags == Flags /\ [Next]_vars => Flags'
  <1> SUFFICES ASSUME Flags, [Next]_vars PROVE Flags'
    OBVIOUS
  <1> USE DEF Flags, Session, Content
  <1>1. CASE Start
    BY <1>1 DEF Start, StartBegin, StartSnapshot, StartWrite, StartPointer
  <1>2. ASSUME NEW p \in {"stop", "maintain"}, Review(p) PROVE Flags'
    BY <1>2 DEF Review, RevSkip, RevAdopt, RevHold, RevExclude, RevLog, RevStage, RevPlace, RevFails, RevRecord
  <1>3. CASE Stop
    BY <1>2, <1>3 DEF Stop, EndOpen, EndLock, EndRead, EndJoin, EndPointer
  <1>4. CASE Maintain
    BY <1>2, <1>4 DEF Maintain, MaintainScan, MaintainLock, MaintainRead, MaintainJudge,
       MaintainUnlock, RetireCheck, Retire
  <1>5. ASSUME NEW p \in Procs, Expire(p) PROVE Flags'
    BY <1>5 DEF Expire, ExpireScan, ExpireDelete, ExpireLog, ExpireWrite
  <1>6. CASE Rescreen
    BY <1>6 DEF Rescreen, RescreenScan, RescreenLock, RescreenWrite
  <1>7. CASE TurnEnds \/ NextPrompt \/ Tick \/ (\E p \in Procs : Die(p)) \/ UNCHANGED vars
    BY <1>7 DEF TurnEnds, NextPrompt, Tick, Die, vars
  <1>8. QED
    BY <1>1, <1>3, <1>4, <1>5, <1>6, <1>7 DEF Next

(* The types of the episode's state; the episode lock is held exactly while *)
(* a process is between its acquisition and its release.                    *)
THEOREM TypeCorrect == Spec => []TypeOK
  <1>1. Init => Flags
    BY DEF Init, Flags
  <1>2. Flags /\ [Next]_vars => Flags'
    BY StepFlags
  <1>3. QED
    BY InitTyped, StepTyped, TypedIsTypeOK, <1>1, <1>2, PTL DEF Spec

-----------------------------------------------------------------------------
\* The snapshot is in its payload, or was deleted.
Safe == place \in {"payload", "gone"}

\* No manifest, on disk or in a process's copy, claims a payload that is not.
Backed ==
    /\ m.review = "materialized" => Safe
    /\ \A p \in Procs : cp[p].review = "materialized" => Safe

\* A review that has staged the snapshot finds it there.
Staging == \A p \in Procs : pc[p] = "staged" => place = "stage"

\* There is no snapshot before the start hook has taken it.
Early == pc["start"] \in {"begin", "snapshot"} => place = "none"

\* The record of a deletion was made, is about to be, or was cut off.
Accounted == logged \/ unlogged \/ \E p \in Procs : pc[p] \in Unlogged

ContentInv == Typed /\ Backed /\ Staging /\ Early /\ NeverDropped

LEMMA InitContentInv == Init => ContentInv
  BY InitTyped DEF Init, ContentInv, Backed, Staging, Early, NeverDropped, Blank

\* Joins and maintenance leave the review state as it is.
LEMMA JudgedReview == ASSUME NEW c \in Manifests, NEW v PROVE Judged(c, v).review = c.review
  BY DEF Judged, Manifests

LEMMA JoinsReview ==
  ASSUME NEW c \in Manifests, NEW by \in {"end", "maintain"}, NEW d \in Joins(c, by)
  PROVE  d.review = c.review
  <1>1. ASSUME NEW v \in Verdicts \ {"failed"}, NEW s \in BOOLEAN, d = Found(c, by, v, s)
        PROVE  d.review = c.review
    <2> DEFINE e == IF by = "end" /\ s /\ c.end = 0 THEN Turn ELSE c.end
    <2>1. d = [Judged(c, v) EXCEPT !.phase = "ended", !.join = "found", !.by = by, !.end = e]
      BY <1>1, Zenon DEF Found
    <2>2. Judged(c, v) \in Manifests /\ Judged(c, v).review = c.review
      BY JudgedType, JudgedReview
    <2> HIDE DEF e
    <2>3. QED
      BY <2>1, <2>2 DEF Manifests
  <1>2. ASSUME d = Lost(c, by) PROVE d.review = c.review
    <2> DEFINE v == IF c.verdict = "yes" THEN "yes" ELSE "unknown"
    <2>1. Judged(c, v) \in Manifests /\ Judged(c, v).review = c.review
      BY JudgedType, JudgedReview DEF Verdicts
    <2>2. d = [Judged(c, v) EXCEPT !.join = "lost", !.by = by]
      BY <1>2 DEF Lost
    <2> HIDE DEF v
    <2>3. QED
      BY <2>1, <2>2 DEF Manifests
  <1>3. QED
    BY <1>1, <1>2 DEF Joins

LEMMA OutcomesReview ==
  ASSUME NEW c \in Manifests, NEW d \in Outcomes(c)
  PROVE  d.review = c.review
  <1>1. CASE c.phase = "begun" /\ age >= Killed
    BY <1>1 DEF Outcomes, Manifests
  <1>2. CASE c.phase = "started"
    <2>1. \/ d \in Joins(c, "maintain")
          \/ d = [c EXCEPT !.phase = "ended", !.join = "expired", !.by = "maintain"]
          \/ d = c
      BY <1>2 DEF Outcomes
    <2>2. [c EXCEPT !.phase = "ended", !.join = "expired", !.by = "maintain"].review = c.review
      BY DEF Manifests
    <2>3. QED
      BY <2>1, <2>2, JoinsReview
  <1>3. CASE c.phase \in {"ended", "killed"}
    <2>1. d \in Relinked(c)
      BY <1>3 DEF Outcomes
    <2>2. d = c \/ \E v \in Verdicts : d = Judged(c, v)
      BY <2>1 DEF Relinked, Verdicts
    <2>3. QED
      BY <2>2, JudgedReview
  <1>4. CASE c.phase \notin {"started", "ended", "killed"} /\ ~(c.phase = "begun" /\ age >= Killed)
    BY <1>4 DEF Outcomes
  <1>5. QED
    BY <1>1, <1>2, <1>3, <1>4

\* The steps of the start hook keep what is said of the content; and so on.
LEMMA StartContent ==
  ASSUME ContentInv, Start
  PROVE  Backed' /\ Staging' /\ Early'
  <1> USE ProcFacts DEF ContentInv, Typed, State, Backed, Safe, Staging, Early,
        At, Go, Hold, Fault, Finish, Session, Content
  <1>1. CASE StartBegin
    <2>1. [Blank EXCEPT !.phase = "begun"].review = "none"
      BY DEF Blank
    <2>2. QED
      BY <1>1, <2>1 DEF StartBegin
  <1>2. CASE StartSnapshot
    <2>1. /\ [Blank EXCEPT !.phase = "started"].review = "none"
          /\ [Blank EXCEPT !.phase = "started", !.verdict = "failed"].review = "none"
      BY DEF Blank
    <2>2. QED
      BY <1>2, <2>1 DEF StartSnapshot
  <1>3. CASE StartWrite
    BY <1>3 DEF StartWrite
  <1>4. CASE StartPointer
    BY <1>4 DEF StartPointer, Blank
  <1>5. QED
    BY <1>1, <1>2, <1>3, <1>4 DEF Start

LEMMA StopContent ==
  ASSUME ContentInv, EndOpen \/ EndLock \/ EndRead \/ EndJoin \/ EndPointer
  PROVE  Backed' /\ Staging' /\ Early'
  <1> USE ProcFacts DEF ContentInv, Typed, State, Backed, Safe, Staging, Early,
        At, Go, Hold, Fault, Finish, Session, Content
  <1>1. CASE EndOpen
    BY <1>1 DEF EndOpen
  <1>2. CASE EndLock
    BY <1>2 DEF EndLock
  <1>3. CASE EndRead
    BY <1>3 DEF EndRead, Blank
  <1>4. CASE EndJoin
    BY <1>4, JoinsReview DEF EndJoin, Blank
  <1>5. CASE EndPointer
    BY <1>5 DEF EndPointer, Blank
  <1>6. QED
    BY <1>1, <1>2, <1>3, <1>4, <1>5

LEMMA ReviewContent ==
  ASSUME ContentInv, NEW p \in {"stop", "maintain"}, Review(p)
  PROVE  Backed' /\ Staging' /\ Early'
  <1> USE ProcFacts DEF ContentInv, Typed, State, Backed, Safe, Staging, Early,
        At, Go, Hold, Fault, Session, Content
  <1>0. \A s \in {"none", "held", "excluded", "materialized"} : Reviewed(p, s).review = s
    BY DEF Reviewed, Manifests
  <1>a. \A q \in Procs : q # p /\ pc[p] \in Locked => pc[q] # "staged"
    BY LabelFacts DEF LockUse
  <1>1. CASE RevSkip(p)
    BY <1>1 DEF RevSkip
  <1>2. CASE RevAdopt(p)
    BY <1>0, <1>2 DEF RevAdopt
  <1>3. CASE RevHold(p)
    BY <1>0, <1>3 DEF RevHold, Conclude
  <1>4. CASE RevExclude(p)
    BY <1>0, <1>a, <1>4, LabelFacts DEF RevExclude, Conclude
  <1>5. CASE RevStage(p)
    BY <1>a, <1>5, LabelFacts DEF RevStage, Decisions
  <1>6. CASE RevPlace(p)
    BY <1>0, <1>a, <1>6, LabelFacts DEF RevPlace
  <1>7. CASE RevFails(p)
    BY <1>0, <1>a, <1>7, LabelFacts DEF RevFails
  <1>8. CASE RevRecord(p)
    BY <1>8 DEF RevRecord
  <1>9. CASE RevLog(p)
    BY <1>0, <1>9 DEF RevLog
  <1>10. QED
    BY <1>1, <1>2, <1>3, <1>4, <1>5, <1>6, <1>7, <1>8, <1>9 DEF Review

LEMMA MaintainContent ==
  ASSUME ContentInv,
         \/ MaintainScan \/ MaintainLock \/ MaintainRead \/ MaintainJudge
         \/ MaintainUnlock \/ RetireCheck \/ Retire
  PROVE  Backed' /\ Staging' /\ Early'
  <1> USE ProcFacts DEF ContentInv, Typed, State, Backed, Safe, Staging, Early,
        At, Go, Hold, Session, Content
  <1>1. CASE MaintainScan
    BY <1>1 DEF MaintainScan, Swept
  <1>2. CASE MaintainLock
    BY <1>2 DEF MaintainLock
  <1>3. CASE MaintainRead
    BY <1>3 DEF MaintainRead
  <1>4. CASE MaintainJudge
    BY <1>4, OutcomesReview DEF MaintainJudge
  <1>5. CASE MaintainUnlock
    BY <1>5 DEF MaintainUnlock, Blank
  <1>6. CASE RetireCheck
    BY <1>6 DEF RetireCheck
  <1>7. CASE Retire
    BY <1>7 DEF Retire
  <1>8. QED
    BY <1>1, <1>2, <1>3, <1>4, <1>5, <1>6, <1>7

LEMMA ToolsContent ==
  ASSUME ContentInv,
         \/ Rescreen
         \/ \E p \in Procs \cap {"maintain", "expire"} : Expire(p)
  PROVE  Backed' /\ Staging' /\ Early'
  <1> USE ProcFacts DEF ContentInv, Typed, State, Backed, Safe, Staging, Early,
        At, Go, Hold, Fault, Finish, Session, Content
  <1>1. ASSUME NEW p \in Procs \cap {"maintain", "expire"}, ExpireScan(p)
        PROVE  Backed' /\ Staging' /\ Early'
    BY <1>1 DEF ExpireScan, Blank
  <1>2. ASSUME NEW p \in Procs \cap {"maintain", "expire"}, ExpireDelete(p)
        PROVE  Backed' /\ Staging' /\ Early'
    <2>1. /\ m' = m /\ pc'[p] # "staged" /\ pc' = [pc EXCEPT ![p] = pc'[p]]
          /\ pc["start"] \in {"begin", "snapshot"} <=> pc'["start"] \in {"begin", "snapshot"}
          /\ cp' = cp \/ cp' = [cp EXCEPT ![p] = Blank]
      BY <1>2 DEF ExpireDelete, AfterExpire
    <2>2. \/ place' = place
          \/ place \in {"live", "payload"} /\ place' = "gone"
      BY <1>2 DEF ExpireDelete
    <2>3. QED
      BY <2>1, <2>2 DEF Blank
  <1>3. ASSUME NEW p \in Procs \cap {"maintain", "expire"}, ExpireWrite(p)
        PROVE  Backed' /\ Staging' /\ Early'
    BY <1>3 DEF ExpireWrite, AfterExpire, Blank
  <1>4. CASE RescreenScan
    BY <1>4 DEF RescreenScan
  <1>5. CASE RescreenLock
    BY <1>5 DEF RescreenLock, Blank
  <1>6. CASE RescreenWrite
    BY <1>6, JudgedReview DEF RescreenWrite, Blank
  <1>7. ASSUME NEW p \in Procs \cap {"maintain", "expire"}, ExpireLog(p)
        PROVE  Backed' /\ Staging' /\ Early'
    BY <1>7 DEF ExpireLog
  <1>8. QED
    BY <1>1, <1>2, <1>3, <1>4, <1>5, <1>6, <1>7 DEF Rescreen, Expire

\* A step that removes nothing and ends no pending record.
Quiet ==
    /\ place' = "gone" => place = "gone"
    /\ logged' = logged /\ unlogged' = unlogged
    /\ \A q \in Procs : pc[q] \in Unlogged => pc'[q] = pc[q]

LEMMA QuietKeeps == ASSUME NeverDropped, Quiet PROVE NeverDropped'
  BY Zenon DEF NeverDropped, Deleted, Quiet

LEMMA ReviewRecords ==
  ASSUME ContentInv, NEW p \in {"stop", "maintain"}, Review(p)
  PROVE  NeverDropped'
  <1>1. /\ p \in Procs
        /\ "review" \notin Unlogged /\ "staged" \notin Unlogged /\ "record" \notin Unlogged
        /\ "log" \in Unlogged
    BY ProcFacts DEF Unlogged
  <1>2. pc \in [Procs -> Labels] /\ NeverDropped
    BY DEF ContentInv, Typed, State
  <1>3. CASE RevLog(p)
    BY <1>3, <1>2, Zenon DEF RevLog, NeverDropped, Deleted
  <1>4. CASE RevExclude(p)
    <2>1. CASE place' = place
      <3>1. Quiet
        BY <1>1, <1>2, <1>4, <2>1 DEF RevExclude, Conclude, At, Go, Hold, Quiet
      <3>2. QED
        BY <3>1, <1>2, QuietKeeps
    <2>2. CASE pc' = [pc EXCEPT ![p] = "log"]
      <3>1. pc'[p] \in Unlogged
        BY <1>1, <1>2, <2>2
      <3>2. QED
        BY <3>1, <1>1, Zenon DEF NeverDropped, Deleted
    <2>3. QED
      BY <1>4, <2>1, <2>2 DEF RevExclude, Go
  <1>5. ASSUME RevSkip(p) \/ RevAdopt(p) \/ RevHold(p) \/ RevStage(p) \/ RevPlace(p)
               \/ RevFails(p) \/ RevRecord(p)
        PROVE  NeverDropped'
    <2>1. Quiet
      BY <1>1, <1>2, <1>5 DEF RevSkip, RevAdopt, RevHold, RevStage, RevPlace, RevFails, RevRecord,
         Conclude, At, Go, Hold, Quiet, Content
    <2>2. QED
      BY <2>1, <1>2, QuietKeeps
  <1>6. QED
    BY <1>3, <1>4, <1>5 DEF Review

LEMMA ExpireRecords ==
  ASSUME ContentInv, NEW p \in Procs, Expire(p)
  PROVE  NeverDropped'
  <1>1. /\ "expire" \notin Unlogged /\ "idle" \notin Unlogged /\ "stale_write" \notin Unlogged
        /\ "delete_snapshot" \notin Unlogged /\ "delete_payload" \notin Unlogged
        /\ "expire_log" \in Unlogged
    BY DEF Unlogged
  <1>2. pc \in [Procs -> Labels] /\ NeverDropped
    BY DEF ContentInv, Typed, State
  <1>3. CASE ExpireLog(p)
    BY <1>3, <1>2, Zenon DEF ExpireLog, NeverDropped, Deleted
  <1>4. CASE ExpireDelete(p)
    <2>1. CASE place' = place
      <3>1. Quiet
        BY <1>1, <1>2, <1>4, <2>1 DEF ExpireDelete, AfterExpire, At, Go, Hold, Quiet
      <3>2. QED
        BY <3>1, <1>2, QuietKeeps
    <2>2. CASE pc' = [pc EXCEPT ![p] = "expire_log"]
      <3>1. pc'[p] \in Unlogged
        BY <1>1, <1>2, <2>2
      <3>2. QED
        BY <3>1, Zenon DEF NeverDropped, Deleted
    <2>3. QED
      BY <1>4, <2>1, <2>2 DEF ExpireDelete, Go
  <1>5. CASE ExpireScan(p) \/ ExpireWrite(p)
    <2>1. Quiet
      BY <1>1, <1>2, <1>5 DEF ExpireScan, ExpireWrite, AfterExpire, At, Go, Hold, Quiet, Content
    <2>2. QED
      BY <2>1, <1>2, QuietKeeps
  <1>6. QED
    BY <1>3, <1>4, <1>5 DEF Expire

LEMMA StepRecords ==
  ASSUME ContentInv, [Next]_vars
  PROVE  NeverDropped'
  <1>1. /\ "start" \in Procs /\ "stop" \in Procs /\ "maintain" \in Procs
        /\ "rescreen" \in Tools => "rescreen" \in Procs
    BY ProcFacts
  <1>2. pc \in [Procs -> Labels] /\ NeverDropped
    BY DEF ContentInv, Typed, State
  <1> USE <1>1, <1>2 DEF Quiet, At, Go, Hold, Finish, Session, Content, Unlogged
  <1>3. CASE Start
    <2>1. Quiet
      BY <1>3 DEF Start, StartBegin, StartSnapshot, StartWrite, StartPointer
    <2>2. QED
      BY <2>1, QuietKeeps
  <1>4. CASE EndOpen \/ EndLock \/ EndRead \/ EndJoin \/ EndPointer
    <2>1. Quiet
      BY <1>4 DEF EndOpen, EndLock, EndRead, EndJoin, EndPointer
    <2>2. QED
      BY <2>1, QuietKeeps
  <1>5. CASE \/ MaintainScan \/ MaintainLock \/ MaintainRead \/ MaintainJudge
             \/ MaintainUnlock \/ RetireCheck \/ Retire
    <2>1. Quiet
      BY <1>5 DEF MaintainScan, PassFree, Swept, MaintainLock, MaintainRead, MaintainJudge,
         MaintainUnlock, RetireCheck, Retire
    <2>2. QED
      BY <2>1, QuietKeeps
  <1>6. CASE Rescreen
    <2>1. Quiet
      BY <1>6 DEF Rescreen, RescreenScan, PassFree, RescreenLock, RescreenWrite
    <2>2. QED
      BY <2>1, QuietKeeps
  <1>7. CASE TurnEnds \/ NextPrompt \/ Tick \/ UNCHANGED vars
    <2>1. Quiet
      BY <1>7 DEF TurnEnds, NextPrompt, Tick, vars
    <2>2. QED
      BY <2>1, QuietKeeps
  <1>8. ASSUME NEW p \in Procs, Die(p) PROVE NeverDropped'
    <2>1. \A q \in Procs \ {p} : pc'[q] = pc[q]
      BY <1>8 DEF Die
    <2>2. place' = place /\ logged' = logged /\ unlogged' = (unlogged \/ pc[p] \in Unlogged)
      BY <1>8, Zenon DEF Die
    <2>3. QED
      BY <1>2, <2>1, <2>2, Zenon DEF NeverDropped, Deleted
  <1>9. QED
    BY <1>3, <1>4, <1>5, <1>6, <1>7, <1>8, ReviewRecords, ExpireRecords
       DEF Next, Stop, Maintain

LEMMA StepContentInv == ContentInv /\ [Next]_vars => ContentInv'
  <1> SUFFICES ASSUME ContentInv, [Next]_vars
               PROVE  Backed' /\ Staging' /\ Early'
    BY StepTyped, StepRecords DEF ContentInv
  <1>1. CASE Start
    BY <1>1, StartContent
  <1>2. CASE Stop
    BY <1>2, StopContent, ReviewContent DEF Stop
  <1>3. CASE Maintain
    BY <1>3, MaintainContent, ReviewContent DEF Maintain
  <1>4. CASE Rescreen \/ \E p \in Procs \cap {"maintain", "expire"} : Expire(p)
    BY <1>4, ToolsContent
  <1> USE ProcFacts DEF ContentInv, Typed, State, Backed, Safe, Staging, Early,
        At, Go, Hold, Fault, Finish, Session, Content
  <1>5. CASE TurnEnds
    BY <1>5 DEF TurnEnds
  <1>6. CASE NextPrompt \/ Tick \/ UNCHANGED vars
    BY <1>6 DEF NextPrompt, Tick, vars
  <1>7. ASSUME NEW p \in Procs, Die(p)
        PROVE  Backed' /\ Staging' /\ Early'
    BY <1>7 DEF Die, Blank
  <1>8. QED
    BY <1>1, <1>2, <1>3, <1>4, <1>5, <1>6, <1>7 DEF Next

LEMMA ContentInvariant == Spec => []ContentInv
  BY InitContentInv, StepContentInv, PTL DEF Spec

(* A snapshot that is gone was deleted, and has its record in DELETIONS.log *)
(* or is about to have it, whatever review, sweep or expiry was cut short,  *)
(* but for a process cut short between the removal and the append.          *)
THEOREM SnapshotNeverDropped == Spec => []NeverDropped
  BY ContentInvariant, PTL DEF ContentInv

(* A manifest that says materialized has its payload in place, or that was  *)
(* deleted as above, at every death and whatever stale copy of the manifest *)
(* is written back.                                                         *)
THEOREM PayloadsBacked == Spec => []MaterializedBacked
  <1>1. ContentInv => MaterializedBacked
    BY DEF ContentInv, Backed, Safe, NeverDropped, MaterializedBacked
  <1>2. QED
    BY ContentInvariant, <1>1, PTL

-----------------------------------------------------------------------------
\* A join that found its prompt has ended the episode.
FoundEnded(c) == c.join = "found" => c.phase = "ended"

\* A manifest before the start hook's second write: no join, no payload; if
\* maintenance took the hook for killed, excluded for good.
Unstarted(c) ==
    /\ c.phase \in {"none", "begun", "killed"}
    /\ c.join = "none" /\ c.by = "none" /\ c.review \in {"none", "excluded"}
    /\ c.phase = "killed" => c.verdict = "failed"

\* What joins, rule evaluations and maintenance leave as it is.
LEMMA JudgedKeeps ==
  ASSUME NEW c \in Manifests, NEW v \in Verdicts
  PROVE  /\ Judged(c, v).phase = c.phase /\ Judged(c, v).join = c.join
         /\ Judged(c, v).by = c.by /\ Judged(c, v).end = c.end
  BY DEF Judged, Manifests

LEMMA JoinsEnd ==
  ASSUME NEW c \in Manifests, NEW by \in {"end", "maintain"}, NEW d \in Joins(c, by)
  PROVE  FoundEnded(d)
  <1>1. ASSUME NEW v \in Verdicts \ {"failed"}, NEW s \in BOOLEAN, d = Found(c, by, v, s)
        PROVE  d.phase = "ended"
    <2> DEFINE e == IF by = "end" /\ s /\ c.end = 0 THEN Turn ELSE c.end
    <2>1. d = [Judged(c, v) EXCEPT !.phase = "ended", !.join = "found", !.by = by, !.end = e]
      BY <1>1, Zenon DEF Found
    <2>2. Judged(c, v) \in Manifests
      BY JudgedType
    <2> HIDE DEF e
    <2>3. QED
      BY <2>1, <2>2 DEF Manifests
  <1>2. ASSUME d = Lost(c, by) PROVE d.join = "lost"
    <2> DEFINE v == IF c.verdict = "yes" THEN "yes" ELSE "unknown"
    <2>1. Judged(c, v) \in Manifests
      BY JudgedType DEF Verdicts
    <2>2. d = [Judged(c, v) EXCEPT !.join = "lost", !.by = by]
      BY <1>2 DEF Lost
    <2> HIDE DEF v
    <2>3. QED
      BY <2>1, <2>2 DEF Manifests
  <1>3. QED
    BY <1>1, <1>2 DEF Joins, FoundEnded

LEMMA OutcomesKeep ==
  ASSUME NEW c \in Manifests, FoundEnded(c), NEW d \in Outcomes(c)
  PROVE  /\ FoundEnded(d)
         /\ c.phase = "ended" => d.join = c.join /\ d.by = c.by /\ d.end = c.end
         /\ Unstarted(c) => Unstarted(d)
  <1>1. CASE c.phase = "begun" /\ age >= Killed
    <2>1. d = [c EXCEPT !.phase = "killed", !.verdict = "failed"]
      BY <1>1 DEF Outcomes
    <2>2. QED
      BY <1>1, <2>1 DEF FoundEnded, Unstarted, Manifests
  <1>2. CASE c.phase = "started"
    <2>1. \/ d \in Joins(c, "maintain")
          \/ d = [c EXCEPT !.phase = "ended", !.join = "expired", !.by = "maintain"]
          \/ d = c
      BY <1>2 DEF Outcomes
    <2>2. [c EXCEPT !.phase = "ended", !.join = "expired", !.by = "maintain"].join = "expired"
      BY DEF Manifests
    <2>3. FoundEnded(d)
      BY <2>1, <2>2, JoinsEnd DEF FoundEnded
    <2>4. QED
      BY <1>2, <2>3 DEF Unstarted
  <1>3. CASE c.phase \in {"ended", "killed"}
    <2>1. d \in Relinked(c)
      BY <1>3 DEF Outcomes
    <2>2. d = c \/ (c.verdict = "unknown" /\ \E v \in Verdicts : d = Judged(c, v))
      BY <2>1 DEF Relinked, Verdicts
    <2>3. QED
      BY <1>3, <2>2, JudgedKeeps DEF FoundEnded, Unstarted
  <1>4. CASE c.phase \notin {"started", "ended", "killed"} /\ ~(c.phase = "begun" /\ age >= Killed)
    <2>1. d = c
      BY <1>4 DEF Outcomes
    <2>2. QED
      BY <2>1
  <1>5. QED
    BY <1>1, <1>2, <1>3, <1>4

LEMMA ReviewedKeeps ==
  ASSUME cp \in [Procs -> Manifests], NEW p \in Procs,
         NEW s \in {"none", "held", "excluded", "materialized"}
  PROVE  /\ Reviewed(p, s).phase = cp[p].phase /\ Reviewed(p, s).join = cp[p].join
         /\ Reviewed(p, s).by = cp[p].by /\ Reviewed(p, s).end = cp[p].end
         /\ Reviewed(p, s).verdict = cp[p].verdict /\ Reviewed(p, s).review = s
  BY DEF Reviewed, Manifests

-----------------------------------------------------------------------------
FoundInv == FoundEnded(m) /\ \A p \in Procs : FoundEnded(cp[p])

\* What a process has checked of its copy before it goes on.
Ready ==
    /\ pc["stop"] = "join" => CanFinalize(cp["stop"], "end")
    /\ pc["maintain"] \in {"review", "staged", "log"} => cp["maintain"].phase \in {"ended", "killed"}
    /\ pc["stop"] \in {"staged", "log"} => cp["stop"].review # "materialized"
    /\ pc["maintain"] \in {"staged", "log"} => cp["maintain"].review # "materialized"

\* Until the start hook's second write no Stop runs and nothing is joined.
Starting ==
    pc["start"] \in {"begin", "snapshot", "write"} =>
        /\ pc["stop"] = "idle" /\ pc["maintain"] # "staged"
        /\ Unstarted(m) /\ \A p \in Procs \ {"start"} : Unstarted(cp[p])
        /\ place \in {"none", "live", "gone"}
        /\ pc["start"] = "write" =>
             cp["start"].by = "none" /\ cp["start"].join = "none" /\ cp["start"].review = "none"
        /\ pc["start"] = "begin" =>
             m.phase = "none" /\ \A p \in Procs \ {"start"} : pc[p] = "idle"

\* Maintenance still has the copy it read before the start hook's second write.
Behind ==
    /\ Unstarted(cp["maintain"])
    /\ m.by # "end" /\ m.review # "materialized" /\ place \in {"none", "live", "gone"}

\* The manifest differs from the copy about to be recorded in its review only.
Alike(p) ==
    /\ m.review # "materialized"
    /\ m.join = cp[p].join /\ m.by = cp[p].by /\ m.end = cp[p].end

\* The copy of the lock's holder is the manifest, unless one was written back
\* without the lock.
Fresh ==
    /\ pc["stop"] \in {"join", "review", "staged", "log"} => cp["stop"] = m
    /\ pc["stop"] = "record" => Alike("stop")
    /\ pc["maintain"] \in {"judge", "review", "log"} => cp["maintain"] = m \/ Behind
    /\ pc["maintain"] = "staged" => cp["maintain"] = m
    /\ pc["maintain"] = "record" => Alike("maintain") \/ Behind

CopyInv == ContentInv /\ Flags /\ FoundInv /\ Ready /\ Starting /\ (~clobbered => Fresh)

LEMMA InitCopyInv == Init => CopyInv
  <1> SUFFICES ASSUME Init PROVE CopyInv
    OBVIOUS
  <1>1. Blank.join = "none" /\ Blank.phase = "none" /\ Blank.by = "none" /\ Blank.review = "none"
    BY DEF Blank
  <1>2. Flags
    BY DEF Init, Flags
  <1>3. QED
    BY <1>1, <1>2, InitContentInv, ProcFacts
       DEF Init, CopyInv, FoundInv, FoundEnded, Ready, Starting, Unstarted, Fresh

LEMMA StartCopies ==
  ASSUME CopyInv, Start
  PROVE  FoundInv' /\ Ready' /\ Starting' /\ (~clobbered' => Fresh')
  <1> USE ProcFacts DEF CopyInv, ContentInv, Typed, State, FoundInv, FoundEnded, Ready,
        Starting, Unstarted, Fresh, At, Go, Hold, Finish, Session, Content
  <1>0. clobbered' = clobbered
    BY DEF Start, StartBegin, StartSnapshot, StartWrite, StartPointer
  <1>1. CASE StartBegin
    <2>1. /\ [Blank EXCEPT !.phase = "begun"].phase = "begun"
          /\ [Blank EXCEPT !.phase = "begun"].join = "none"
          /\ [Blank EXCEPT !.phase = "begun"].by = "none"
          /\ [Blank EXCEPT !.phase = "begun"].review = "none"
      BY DEF Blank
    <2>2. QED
      BY <1>1, <2>1 DEF StartBegin
  <1>2. CASE StartSnapshot
    <2> DEFINE c == [Blank EXCEPT !.phase = "started"]
               d == [Blank EXCEPT !.phase = "started", !.verdict = "failed"]
    <2>0. /\ c.join = "none" /\ c.by = "none" /\ c.review = "none"
          /\ d.join = "none" /\ d.by = "none" /\ d.review = "none"
      BY DEF Blank
    <2>a. cp' = [cp EXCEPT !["start"] = c] \/ cp' = [cp EXCEPT !["start"] = d]
      BY <1>2 DEF StartSnapshot
    <2> HIDE DEF c, d
    <2>1. cp'["start"].join = "none" /\ cp'["start"].by = "none" /\ cp'["start"].review = "none"
      BY <2>0, <2>a
    <2>2. /\ \A p \in Procs \ {"start"} : cp'[p] = cp[p]
          /\ place' \in {place, "live"} /\ m' = m /\ pc' = [pc EXCEPT !["start"] = "write"]
      BY <1>2 DEF StartSnapshot
    <2>3. QED
      BY <1>2, <1>0, <2>1, <2>2 DEF StartSnapshot, Early, CanFinalize, Behind, Alike
  <1>3. CASE StartWrite
    BY <1>3, <1>0 DEF StartWrite, CanFinalize, Behind
  <1>4. CASE StartPointer
    BY <1>4, <1>0 DEF StartPointer, Blank, CanFinalize, Behind, Alike
  <1>5. QED
    BY <1>1, <1>2, <1>3, <1>4 DEF Start

LEMMA StopCopies ==
  ASSUME CopyInv, EndOpen \/ EndLock \/ EndRead \/ EndJoin \/ EndPointer
  PROVE  FoundInv' /\ Ready' /\ Starting' /\ (~clobbered' => Fresh')
  <1> USE ProcFacts DEF CopyInv, ContentInv, Typed, State, FoundInv, FoundEnded, Ready,
        Starting, Unstarted, Fresh, Behind, Alike, At, Go, Hold, Finish, Session, Content
  <1>0. clobbered' = clobbered
    BY DEF EndOpen, EndLock, EndRead, EndJoin, EndPointer
  <1>1. CASE EndOpen
    BY <1>0, <1>1 DEF EndOpen, CanFinalize
  <1>2. CASE EndLock
    BY <1>0, <1>2 DEF EndLock, CanFinalize
  <1>3. CASE EndRead
    BY <1>0, <1>3 DEF EndRead, Blank, CanFinalize
  <1>4. CASE EndJoin
    <2>1. pc["maintain"] \notin {"judge", "review", "staged", "log", "record"}
      BY <1>4, LabelFacts DEF EndJoin, LockUse
    <2>2. \A d \in Joins(cp["stop"], "end") : FoundEnded(d)
      BY JoinsEnd
    <2>3. QED
      BY <1>0, <1>4, <2>1, <2>2 DEF EndJoin, Blank
  <1>5. CASE EndPointer
    BY <1>0, <1>5 DEF EndPointer, Blank, CanFinalize
  <1>6. QED
    BY <1>1, <1>2, <1>3, <1>4, <1>5

LEMMA StopReviewCopies ==
  ASSUME CopyInv, Review("stop")
  PROVE  FoundInv' /\ Ready' /\ Starting' /\ (~clobbered' => Fresh')
  <1> DEFINE p == "stop"
  <1> USE ProcFacts DEF CopyInv, ContentInv, Typed, State, FoundInv, FoundEnded, Ready,
        Starting, Unstarted, Fresh, Alike, At, Go, Hold, Session, Content
  <1>0. clobbered' = clobbered
    BY DEF Review, RevSkip, RevAdopt, RevHold, RevExclude, RevLog, RevStage, RevPlace, RevFails, RevRecord
  <1>a. /\ pc["stop"] \in {"review", "staged", "log", "record"}
        /\ pc["start"] \notin {"begin", "snapshot", "write"}
    BY DEF Review, RevSkip, RevAdopt, RevHold, RevExclude, RevLog, RevStage, RevPlace, RevFails, RevRecord
  <1>b. pc["maintain"] \notin {"judge", "review", "staged", "log", "record"}
    BY <1>a, LabelFacts DEF LockUse
  <1>c. \A s \in {"none", "held", "excluded", "materialized"} :
          /\ Reviewed(p, s).phase = cp[p].phase /\ Reviewed(p, s).join = cp[p].join
          /\ Reviewed(p, s).by = cp[p].by /\ Reviewed(p, s).end = cp[p].end
    BY ReviewedKeeps
  <1>1. CASE RevSkip(p)
    BY <1>0, <1>a, <1>b, <1>1 DEF RevSkip
  <1>2. CASE RevAdopt(p)
    BY <1>0, <1>a, <1>b, <1>c, <1>2 DEF RevAdopt
  <1>3. CASE RevHold(p)
    BY <1>0, <1>a, <1>b, <1>c, <1>3 DEF RevHold, Conclude
  <1>4. CASE RevExclude(p)
    BY <1>0, <1>a, <1>b, <1>c, <1>4 DEF RevExclude, Conclude
  <1>5. CASE RevStage(p)
    BY <1>0, <1>a, <1>b, <1>5 DEF RevStage
  <1>6. CASE RevPlace(p)
    BY <1>0, <1>a, <1>b, <1>c, <1>6 DEF RevPlace
  <1>7. CASE RevFails(p)
    BY <1>0, <1>a, <1>b, <1>c, <1>7 DEF RevFails
  <1>8. CASE RevRecord(p)
    BY <1>0, <1>a, <1>b, <1>8 DEF RevRecord
  <1>9. CASE RevLog(p)
    BY <1>0, <1>a, <1>b, <1>c, <1>9 DEF RevLog
  <1>10. QED
    BY <1>1, <1>2, <1>3, <1>4, <1>5, <1>6, <1>7, <1>8, <1>9 DEF Review

LEMMA MaintainReviewCopies ==
  ASSUME CopyInv, Review("maintain")
  PROVE  FoundInv' /\ Ready' /\ Starting' /\ (~clobbered' => Fresh')
  <1> DEFINE p == "maintain"
  <1> USE ProcFacts DEF CopyInv, ContentInv, Typed, State, FoundInv, FoundEnded, Ready,
        Starting, Unstarted, Fresh, Alike, Behind, At, Go, Hold, Session, Content
  <1>0. clobbered' = clobbered
    BY DEF Review, RevSkip, RevAdopt, RevHold, RevExclude, RevLog, RevStage, RevPlace, RevFails, RevRecord
  <1>a. pc["maintain"] \in {"review", "staged", "log", "record"} /\ pc["start"] # "begin"
    BY DEF Review, RevSkip, RevAdopt, RevHold, RevExclude, RevLog, RevStage, RevPlace, RevFails, RevRecord
  <1>b. pc["stop"] \notin {"join", "review", "staged", "log", "record"}
    BY <1>a, LabelFacts DEF LockUse
  <1>c. \A s \in {"none", "held", "excluded", "materialized"} :
          /\ Reviewed(p, s).phase = cp[p].phase /\ Reviewed(p, s).join = cp[p].join
          /\ Reviewed(p, s).by = cp[p].by /\ Reviewed(p, s).end = cp[p].end
          /\ Reviewed(p, s).verdict = cp[p].verdict /\ Reviewed(p, s).review = s
    BY ReviewedKeeps
  <1>d. At(p, "review") /\ Unstarted(cp[p]) => Decisions(cp[p]) = {"excluded"}
    BY DEF Decisions
  <1>1. CASE RevSkip(p)
    BY <1>0, <1>a, <1>b, <1>1 DEF RevSkip
  <1>2. CASE RevAdopt(p)
    BY <1>0, <1>a, <1>b, <1>c, <1>2 DEF RevAdopt
  <1>3. CASE RevHold(p)
    BY <1>0, <1>a, <1>b, <1>c, <1>d, <1>3 DEF RevHold, Conclude
  <1>4. CASE RevExclude(p)
    BY <1>0, <1>a, <1>b, <1>c, <1>4 DEF RevExclude, Conclude
  <1>5. CASE RevStage(p)
    BY <1>0, <1>a, <1>b, <1>d, <1>5 DEF RevStage
  <1>6. CASE RevPlace(p)
    BY <1>0, <1>a, <1>b, <1>c, <1>6 DEF RevPlace
  <1>7. CASE RevFails(p)
    BY <1>0, <1>a, <1>b, <1>c, <1>7 DEF RevFails
  <1>8. CASE RevRecord(p)
    BY <1>0, <1>a, <1>b, <1>8 DEF RevRecord
  <1>9. CASE RevLog(p)
    BY <1>0, <1>a, <1>b, <1>c, <1>9 DEF RevLog
  <1>10. QED
    BY <1>1, <1>2, <1>3, <1>4, <1>5, <1>6, <1>7, <1>8, <1>9 DEF Review

LEMMA MaintainCopies ==
  ASSUME CopyInv,
         \/ MaintainScan \/ MaintainLock \/ MaintainRead \/ MaintainJudge
         \/ MaintainUnlock \/ RetireCheck \/ Retire
  PROVE  FoundInv' /\ Ready' /\ Starting' /\ (~clobbered' => Fresh')
  <1> USE ProcFacts DEF CopyInv, ContentInv, Typed, State, FoundInv, FoundEnded, Ready,
        Starting, Unstarted, Fresh, Alike, Behind, At, Go, Hold, Session, Content
  <1>0. clobbered' = clobbered
    BY DEF MaintainScan, MaintainLock, MaintainRead, MaintainJudge, MaintainUnlock, RetireCheck, Retire
  <1>1. CASE MaintainScan
    BY <1>0, <1>1 DEF MaintainScan, Swept
  <1>2. CASE MaintainLock
    BY <1>0, <1>2 DEF MaintainLock
  <1>3. CASE MaintainRead
    BY <1>0, <1>3 DEF MaintainRead
  <1>4. CASE MaintainJudge
    <2>1. pc["stop"] \notin {"join", "review", "staged", "log", "record"}
      BY <1>4, LabelFacts DEF MaintainJudge, LockUse
    <2>2. PICK c \in Outcomes(cp["maintain"]) :
            /\ m' = IF c = cp["maintain"] THEN m ELSE c
            /\ cp' = [cp EXCEPT !["maintain"] = c]
            /\ pc' = [pc EXCEPT !["maintain"] =
                          IF c.phase \in {"ended", "killed"} THEN "review" ELSE "reviewed"]
      BY <1>4 DEF MaintainJudge
    <2>3. /\ c.join = "found" => c.phase = "ended"
          /\ Unstarted(cp["maintain"]) => Unstarted(c)
      BY OutcomesKeep
    <2>4. QED
      BY <1>0, <1>4, <2>1, <2>2, <2>3 DEF MaintainJudge
  <1>5. CASE MaintainUnlock
    BY <1>0, <1>5 DEF MaintainUnlock, Blank
  <1>6. CASE RetireCheck
    BY <1>0, <1>6 DEF RetireCheck
  <1>7. CASE Retire
    BY <1>0, <1>7 DEF Retire
  <1>8. QED
    BY <1>1, <1>2, <1>3, <1>4, <1>5, <1>6, <1>7

LEMMA ToolsCopies ==
  ASSUME CopyInv,
         \/ Rescreen
         \/ \E p \in Procs \cap {"maintain", "expire"} : Expire(p)
  PROVE  FoundInv' /\ Ready' /\ Starting' /\ (~clobbered' => Fresh')
  <1> USE ProcFacts DEF CopyInv, ContentInv, Typed, State, FoundInv, FoundEnded, Ready,
        Starting, Unstarted, Fresh, Alike, Behind, At, Go, Hold, Finish, Session, Content
  <1>0. Blank.join = "none" /\ Blank.phase = "none" /\ Blank.by = "none" /\ Blank.review = "none"
    BY DEF Blank
  <1>1. ASSUME NEW p \in Procs \cap {"maintain", "expire"}, ExpireScan(p)
        PROVE  FoundInv' /\ Ready' /\ Starting' /\ (~clobbered' => Fresh')
    BY <1>0, <1>1 DEF ExpireScan, Early
  <1>2. ASSUME NEW p \in Procs \cap {"maintain", "expire"}, ExpireDelete(p)
        PROVE  FoundInv' /\ Ready' /\ Starting' /\ (~clobbered' => Fresh')
    <2>1. /\ m' = m /\ pc[p] # "idle" /\ pc' = [pc EXCEPT ![p] = pc'[p]]
          /\ pc'[p] \in {"expire_log", "stale_write", "retire", "idle"}
          /\ cp' = cp \/ cp' = [cp EXCEPT ![p] = Blank]
          /\ place' \in {place, "gone"}
      BY <1>2 DEF ExpireDelete, AfterExpire
    <2>2. clobbered' = clobbered
      BY <1>2 DEF ExpireDelete
    <2>3. QED
      BY <1>0, <2>1, <2>2
  <1>3. ASSUME NEW p \in Procs \cap {"maintain", "expire"}, ExpireWrite(p)
        PROVE  FoundInv' /\ Ready' /\ Starting' /\ (~clobbered' => Fresh')
    <2>1. ~clobbered' => ~clobbered /\ m' = m
      BY <1>3, Zenon DEF ExpireWrite
    <2>2. QED
      BY <1>0, <1>3, <2>1 DEF ExpireWrite, AfterExpire
  <1>4. CASE RescreenScan
    BY <1>4 DEF RescreenScan
  <1>5. CASE RescreenLock
    BY <1>0, <1>5 DEF RescreenLock
  <1>6. CASE RescreenWrite
    <2>1. ~clobbered' => ~clobbered
      BY <1>6, Zenon DEF RescreenWrite
    <2>2. /\ pc["stop"] \notin {"join", "review", "staged", "log", "record"}
          /\ pc["maintain"] \notin {"judge", "review", "staged", "log", "record"}
      BY <1>6, LabelFacts DEF RescreenWrite, LockUse
    <2>3. m' = m \/ \E v \in Verdicts \ {"failed"} : m' = Judged(cp["rescreen"], v)
      BY <1>6 DEF RescreenWrite
    <2>4. /\ m'.join = "found" => m'.phase = "ended"
          /\ Unstarted(m) /\ Unstarted(cp["rescreen"]) => Unstarted(m)'
      BY <2>3, <1>6, JudgedKeeps, JudgedReview DEF RescreenWrite, Judged, Manifests
    <2>5. QED
      BY <1>0, <1>6, <2>1, <2>2, <2>4 DEF RescreenWrite
  <1>7. ASSUME NEW p \in Procs \cap {"maintain", "expire"}, ExpireLog(p)
        PROVE  FoundInv' /\ Ready' /\ Starting' /\ (~clobbered' => Fresh')
    BY <1>7 DEF ExpireLog
  <1>8. QED
    BY <1>1, <1>2, <1>3, <1>4, <1>5, <1>6, <1>7 DEF Rescreen, Expire

LEMMA StepCopyInv == CopyInv /\ [Next]_vars => CopyInv'
  <1> SUFFICES ASSUME CopyInv, [Next]_vars
               PROVE  FoundInv' /\ Ready' /\ Starting' /\ (~clobbered' => Fresh')
    BY StepContentInv, StepFlags DEF CopyInv
  <1>1. CASE Start
    BY <1>1, StartCopies
  <1>2. CASE Stop
    BY <1>2, StopCopies, StopReviewCopies DEF Stop
  <1>3. CASE Maintain
    BY <1>3, MaintainCopies, MaintainReviewCopies DEF Maintain
  <1>4. CASE Rescreen \/ \E p \in Procs \cap {"maintain", "expire"} : Expire(p)
    BY <1>4, ToolsCopies
  <1> USE ProcFacts DEF CopyInv, ContentInv, Typed, State, FoundInv, FoundEnded, Ready,
        Starting, Unstarted, Fresh, Alike, Behind, At, Go, Hold, Finish, Session, Content, CanFinalize
  <1>5. CASE TurnEnds
    BY <1>5 DEF TurnEnds
  <1>6. CASE NextPrompt \/ Tick \/ UNCHANGED vars
    BY <1>6 DEF NextPrompt, Tick, vars
  <1>7. ASSUME NEW p \in Procs, Die(p)
        PROVE  FoundInv' /\ Ready' /\ Starting' /\ (~clobbered' => Fresh')
    BY <1>7 DEF Die, Blank
  <1>8. QED
    BY <1>1, <1>2, <1>3, <1>4, <1>5, <1>6, <1>7 DEF Next

LEMMA CopyInvariant == Spec => []CopyInv
  BY InitCopyInv, StepCopyInv, PTL DEF Spec

-----------------------------------------------------------------------------
\* The steps that write a manifest, and what each writes; a manifest joined by
\* its Stop hook, or materialized, is none the start hook still has to write.
LEMMA Writes ==
  ASSUME CopyInv, [Next]_vars, ~clobbered'
  PROVE  \/ m' = m
         \/ Unstarted(m)
         \/ EndJoin
         \/ \E p \in {"stop", "maintain"} : RevRecord(p)
         \/ MaintainJudge
         \/ \E v \in Verdicts : m' = Judged(m, v)
  <1> USE DEF Session, Content
  <1>1. CASE Start
    BY <1>1 DEF Start, StartBegin, StartSnapshot, StartWrite, StartPointer, CopyInv, Starting, At
  <1>2. ASSUME NEW p \in {"stop", "maintain"}, Review(p) PROVE m' = m \/ RevRecord(p)
    BY <1>2 DEF Review, RevSkip, RevAdopt, RevHold, RevExclude, RevLog, RevStage, RevPlace, RevFails
  <1>3. CASE Stop
    BY <1>2, <1>3 DEF Stop, EndOpen, EndLock, EndRead, EndPointer
  <1>4. CASE Maintain
    BY <1>2, <1>4 DEF Maintain, MaintainScan, MaintainLock, MaintainRead,
       MaintainUnlock, RetireCheck, Retire
  <1>5. ASSUME NEW p \in Procs, Expire(p) PROVE m' = m
    <2>1. CASE ExpireWrite(p)
      BY <2>1, Zenon DEF ExpireWrite
    <2>2. QED
      BY <1>5, <2>1 DEF Expire, ExpireScan, ExpireDelete, ExpireLog
  <1>6. CASE Rescreen
    <2>1. CASE RescreenWrite
      <3>1. m' = m \/ m = cp["rescreen"]
        BY <2>1, Zenon DEF RescreenWrite
      <3>2. QED
        BY <2>1, <3>1 DEF RescreenWrite
    <2>2. QED
      BY <1>6, <2>1 DEF Rescreen, RescreenScan, RescreenLock
  <1>7. CASE TurnEnds \/ NextPrompt \/ Tick \/ (\E p \in Procs : Die(p)) \/ UNCHANGED vars
    BY <1>7 DEF TurnEnds, NextPrompt, Tick, Die, vars
  <1>8. QED
    BY <1>1, <1>3, <1>4, <1>5, <1>6, <1>7 DEF Next

KeepsJoin ==
    m.by = "end" /\ m.join = "found" /\ ~clobbered'
        => m'.by = "end" /\ m'.join = "found" /\ m'.end = m.end

KeepsMaterialized == m.review = "materialized" /\ ~clobbered' => m'.review = "materialized"

LEMMA StepKeeps == CopyInv /\ [Next]_vars => KeepsJoin /\ KeepsMaterialized
  <1> SUFFICES ASSUME CopyInv, [Next]_vars, ~clobbered'
               PROVE  KeepsJoin /\ KeepsMaterialized
    BY DEF KeepsJoin, KeepsMaterialized
  <1> USE ProcFacts DEF CopyInv, ContentInv, Typed, State, FoundInv, FoundEnded, Ready,
        Behind, Unstarted, KeepsJoin, KeepsMaterialized, At, Hold
  <1>1. CASE m' = m \/ Unstarted(m)
    BY <1>1
  <1>2. CASE EndJoin
    BY <1>2 DEF EndJoin, Fresh, CanFinalize
  <1>3. ASSUME NEW p \in {"stop", "maintain"}, RevRecord(p)
        PROVE  KeepsJoin /\ KeepsMaterialized
    BY <1>3 DEF RevRecord, Fresh, Alike
  <1>4. CASE MaintainJudge
    <2>1. PICK c \in Outcomes(cp["maintain"]) : m' = IF c = cp["maintain"] THEN m ELSE c
      BY <1>4 DEF MaintainJudge
    <2>2. /\ cp["maintain"].phase = "ended" =>
                /\ c.join = cp["maintain"].join
                /\ c.by = cp["maintain"].by /\ c.end = cp["maintain"].end
          /\ c.review = cp["maintain"].review
      BY OutcomesKeep, OutcomesReview
    <2>3. QED
      BY <1>4, <2>1, <2>2 DEF MaintainJudge, Fresh
  <1>5. ASSUME NEW v \in Verdicts, m' = Judged(m, v)
        PROVE  KeepsJoin /\ KeepsMaterialized
    BY <1>5, JudgedKeeps, JudgedReview
  <1>6. clobbered \/ Fresh
    OBVIOUS
  <1>7. QED
    BY <1>1, <1>2, <1>3, <1>4, <1>5, Writes

(* The Stop hook's own join, and the end state sealed with it, are kept by  *)
(* every hook and every pass, whatever dies or waits between a read of the  *)
(* manifest and its write, until a copy read without the lock overwrites a  *)
(* later write.                                                             *)
THEOREM StopJoinIsKept == Spec => StopJoinKept
  <1>1. CopyInv /\ [Next]_vars => [KeepsJoin]_vars
    BY StepKeeps
  <1>2. [][KeepsJoin]_vars <=> StopJoinKept
    BY DEF KeepsJoin, StopJoinKept
  <1>3. QED
    BY CopyInvariant, <1>1, <1>2, PTL DEF Spec

(* A materialized review state is taken back by no hook and no pass, with   *)
(* the same exception.                                                      *)
THEOREM MaterializedIsFinal == Spec => MaterializedFinal
  <1>1. CopyInv /\ [Next]_vars => [KeepsMaterialized]_vars
    BY StepKeeps
  <1>2. [][KeepsMaterialized]_vars <=> MaterializedFinal
    BY DEF KeepsMaterialized, MaterializedFinal
  <1>3. QED
    BY CopyInvariant, <1>1, <1>2, PTL DEF Spec
=============================================================================
