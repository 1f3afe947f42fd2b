------------------------- MODULE PendingLog_proofs -------------------------
(* PendingLog for any number of starts, stores, inodes and faults: types,   *)
(* no recorded failure is ever lost, and no two stores record the same one  *)
(* while nothing fails; and PendingCount's count of them.                   *)
EXTENDS PendingCount, TLAPS

USE ConstAssumption

\* Who holds the append lock has it, and the file it writes to is the
\* pending file.
Writers ==
    /\ \A p \in Procs : pc[p] \in {"open", "write", "unlock", "unlockerr", "replace", "claimunlock"}
                          => appender = p
    /\ \A p \in Procs : pc[p] \in {"write", "unlock", "unlockerr"}
                          => fd[p] \in Files /\ where[fd[p]] = "pend"

\* A claimed file is a .draining file, or one its drain has just unlinked.
Claims ==
    /\ \A d \in Stores : \A f \in claimed[d] : claimer[f] = d /\ where[f] # "pend"
    /\ \A d \in Stores : unread[d] \cup readable[d] \subseteq claimed[d]
    /\ \A d \in Stores : \A f \in unread[d] \cup readable[d] : where[f] = "work"
    /\ \A d \in Stores : unread[d] \cap readable[d] = {}
    /\ \A d \in Stores : pc[d] \in {"orphans", "claimwait", "replace", "claimunlock"}
                           => \A f \in claimed[d] : where[f] = "work"

\* Starts and drains keep to their own steps; a pass begins with nothing read.
Phases ==
    /\ \A r \in Recs : pc[r] \in {"idle"} \cup StarterDone \cup Appending
    /\ \A d \in Stores : pc[d] \in {"idle"} \cup Appending \cup Draining
    /\ \A d \in Stores : pc[d] \in {"idle", "orphans", "claimwait", "replace", "claimunlock", "release"}
                           => unread[d] = {} /\ readable[d] = {}
    /\ \A d \in Stores : pc[d] \notin {"orphans", "claimwait", "replace", "claimunlock", "read", "line"}
                           => unread[d] = {}
    /\ \A d \in Stores : pc[d] # "line" => buf[d] = NoText
    /\ \A d \in Stores : pc[d] = "idle" => claimed[d] = {}

\* What a pass has read and not put back yet is in its hands or recorded.
InHand ==
    \A d \in Stores : \A f \in readable[d] :
        pc[d] \notin {"unlock", "unlink"} =>
            Holds(text[f]) \subseteq Holds(buf[d]) \cup Holds(retry[d]) \cup InManifests

\* Files whose text is in a manifest or in the pending file already.
Doomed(f) == \E d \in Stores : f \in readable[d] /\ pc[d] \in {"unlock", "unlink"}

\* Every recorded failure is in a manifest or in a file no pass will unlink
\* as it is.
Kept ==
    \A r \in recorded : \/ r \in InManifests
                        \/ \E f \in Files : ~Doomed(f) /\ r \in Holds(text[f])

PendInv == TypeOK /\ Writers /\ Claims /\ Phases /\ InHand /\ Kept

-----------------------------------------------------------------------------
\* Appending loses no text, glued or not.
LEMMA GluedText ==
    ASSUME TypeOK, NEW f \in Files, NEW u \in Texts, NEW t \in Glued(f, u)
    PROVE  t \in Texts /\ Holds(t) = Holds(text[f]) \cup Holds(u)
  BY DEF TypeOK, Texts, Glued, Plus, Minus, Good, Bad, Holds

LEMMA PayloadType ==
    ASSUME TypeOK, NEW p \in Procs
    PROVE  Payload(p) \in Texts
  BY DEF TypeOK, Texts, Payload, Good, Procs

\* A file's lines hold the records of its text.
LEMMA LinesText ==
    ASSUME TypeOK, NEW f \in Files
    PROVE  LinesOf(f) \in Texts /\ Holds(LinesOf(f)) = Holds(text[f])
  BY DEF TypeOK, Texts, LinesOf, Plus, Bad, Holds

\* Moving one line out of a text, or into one.
LEMMA GoodLine ==
    ASSUME NEW t \in Texts, NEW r \in Recs
    PROVE  /\ Minus(t, Good(r)) \in Texts /\ Plus(t, Good(r)) \in Texts
           /\ Holds(Plus(t, Good(r))) = Holds(t) \cup {r}
           /\ Holds(t) \subseteq Holds(Minus(t, Good(r))) \cup {r}
  BY DEF Texts, Plus, Minus, Good, Holds

LEMMA BadLine ==
    ASSUME NEW t \in Texts, NEW x \in Recs \cup {Junk}
    PROVE  /\ Minus(t, Bad(x)) \in Texts /\ Plus(t, Bad(x)) \in Texts
           /\ Holds(Plus(t, Bad(x))) = Holds(t) \cup ({x} \ {Junk})
           /\ Holds(t) \subseteq Holds(Minus(t, Bad(x))) \cup ({x} \ {Junk})
  BY DEF Texts, Plus, Minus, Bad, Holds

LEMMA LineTypes ==
    ASSUME TypeOK, NEW d \in Stores
    PROVE  buf[d].whole \subseteq Recs /\ buf[d].torn \subseteq Recs \cup {Junk}
  BY DEF TypeOK, Texts

LEMMA NoTextType == NoText \in Texts /\ Holds(NoText) = {}
  BY DEF Texts, NoText, Holds

LEMMA InitPendInv == Init => PendInv
  BY NoTextType DEF Init, PendInv, TypeOK, Writers, Claims, Phases, InHand, Kept, Pend, Procs
\* What a short write leaves in the file it writes to: all it held, and types.
LEMMA ShortText ==
    ASSUME TypeOK, NEW p \in Procs, WriteShort(p), fd[p] \in Files
    PROVE  /\ text' \in [Files -> Texts]
           /\ \A f \in Files : Holds(text[f]) \subseteq Holds(text'[f])
           /\ \A f \in Files : f # fd[p] => text'[f] = text[f]
  <1>1. PICK w \in SUBSET Payload(p).whole, b \in SUBSET Payload(p).torn :
          \/ text' = text
          \/ \E t \in Glued(fd[p], [whole |-> w, torn |-> b]) : text' = [text EXCEPT ![fd[p]] = t]
    BY DEF WriteShort
  <1>2. [whole |-> w, torn |-> b] \in Texts
    BY PayloadType DEF Texts
  <1>3. CASE text' = text
    BY <1>3 DEF TypeOK
  <1>4. ASSUME NEW t \in Glued(fd[p], [whole |-> w, torn |-> b]), text' = [text EXCEPT ![fd[p]] = t]
        PROVE  /\ text' \in [Files -> Texts]
               /\ \A f \in Files : Holds(text[f]) \subseteq Holds(text'[f])
               /\ \A f \in Files : f # fd[p] => text'[f] = text[f]
    <2>1. t \in Texts /\ Holds(text[fd[p]]) \subseteq Holds(t)
      BY <1>2, GluedText
    <2>2. QED
      BY <1>4, <2>1 DEF TypeOK
  <1>5. QED
    BY <1>1, <1>3, <1>4


-----------------------------------------------------------------------------
Struct == TypeOK /\ Writers /\ Claims /\ Phases

\* Every step keeps the types, the lock discipline and the phases of a pass.
LEMMA StepStruct == Struct /\ [Next]_vars => Struct'
  <1> SUFFICES ASSUME Struct, [Next]_vars PROVE Struct'
    OBVIOUS
  <1> USE DEF Struct, TypeOK, Writers, Claims, Phases, Pend, Procs, StarterDone, Appending, Draining,
              files, locks, pass, history
  <1>1. ASSUME NEW r \in Recs, Record(r) PROVE Struct'
    BY <1>1 DEF Record
  <1>2. ASSUME NEW p \in Procs, AppendLock(p) PROVE Struct'
    BY <1>2 DEF AppendLock
  <1>3. ASSUME NEW p \in Procs, AppendTimeout(p) PROVE Struct'
    BY <1>3 DEF AppendTimeout, GiveUp, Fault
  <1>4. ASSUME NEW p \in Procs, OpenPend(p) PROVE Struct'
    BY <1>4 DEF OpenPend, Unused
  <1>5. ASSUME NEW p \in Procs, WriteLines(p) PROVE Struct'
    <2>1. fd[p] \in Files
      BY <1>5 DEF WriteLines
    <2>2. text' \in [Files -> Texts]
      BY <1>5, <2>1, GluedText, PayloadType DEF WriteLines
    <2>3. QED
      BY <1>5, <2>1, <2>2 DEF WriteLines
  <1>6. ASSUME NEW p \in Procs, WriteShort(p) PROVE Struct'
    <2>1. fd[p] \in Files
      BY <1>6 DEF WriteShort
    <2>2. text' \in [Files -> Texts]
      BY <1>6, <2>1, ShortText DEF WriteShort
    <2>3. ragged' \subseteq Files
      BY <1>6, <2>1 DEF WriteShort
    <2>4. QED
      BY <1>6, <2>1, <2>2, <2>3 DEF WriteShort, Fault
  <1>7. ASSUME NEW p \in Procs, AppendUnlock(p) PROVE Struct'
    BY <1>7 DEF AppendUnlock
  <1>8. ASSUME NEW p \in Procs, AppendFailed(p) PROVE Struct'
    BY <1>8 DEF AppendFailed, GiveUp
  <1>9. ASSUME NEW d \in Stores, BeginDrain(d) PROVE Struct'
    BY <1>9, NoTextType DEF BeginDrain
  <1>10. ASSUME NEW d \in Stores, TakeOrphan(d) PROVE Struct'
    <2>1. PICK f \in glob[d] :
            \/ /\ claimer[f] = None /\ where[f] = "work"
               /\ claimer' = [claimer EXCEPT ![f] = d]
               /\ claimed' = [claimed EXCEPT ![d] = @ \cup {f}]
            \/ UNCHANGED <<claimer, claimed>>
      BY <1>10 DEF TakeOrphan
    <2>2. glob' \in [Stores -> SUBSET Files]
      BY <1>10 DEF TakeOrphan
    <2>3. CASE UNCHANGED <<claimer, claimed>>
      BY <1>10, <2>2, <2>3 DEF TakeOrphan
    <2>4. CASE /\ claimer[f] = None /\ where[f] = "work"
               /\ claimer' = [claimer EXCEPT ![f] = d]
               /\ claimed' = [claimed EXCEPT ![d] = @ \cup {f}]
      <3>1. \A e \in Stores : f \notin claimed[e]
        BY <2>4
      <3>2. UNCHANGED <<where, pc, fd, unread, readable, appender>>
        BY <1>10 DEF TakeOrphan
      <3>3. Claims'
        BY <1>10, <2>4, <3>1, <3>2 DEF TakeOrphan
      <3>4. TypeOK'
        BY <1>10, <2>2, <2>4, <3>2 DEF TakeOrphan
      <3>5. QED
        BY <1>10, <2>4, <3>2, <3>3, <3>4 DEF TakeOrphan
    <2>5. QED
      BY <2>1, <2>3, <2>4
  <1>11. ASSUME NEW d \in Stores, OrphansDone(d) PROVE Struct'
    BY <1>11 DEF OrphansDone
  <1>12. ASSUME NEW d \in Stores, ClaimLock(d) PROVE Struct'
    BY <1>12 DEF ClaimLock
  <1>13. ASSUME NEW d \in Stores, ClaimTimeout(d) PROVE Struct'
    BY <1>13 DEF ClaimTimeout, Fault
  <1>14. ASSUME NEW d \in Stores, Replace(d) PROVE Struct'
    BY <1>14 DEF Replace
  <1>15. ASSUME NEW d \in Stores, ReplaceMissing(d) PROVE Struct'
    BY <1>15 DEF ReplaceMissing
  <1>16. ASSUME NEW d \in Stores, ReplaceFails(d) PROVE Struct'
    BY <1>16 DEF ReplaceFails, Fault
  <1>17. ASSUME NEW d \in Stores, ClaimUnlock(d) PROVE Struct'
    BY <1>17 DEF ClaimUnlock
  <1>18. ASSUME NEW d \in Stores, ReadFile(d) PROVE Struct'
    BY <1>18, LinesText DEF ReadFile
  <1>19. ASSUME NEW d \in Stores, ReadFails(d) PROVE Struct'
    BY <1>19 DEF ReadFails, Fault
  <1>20. ASSUME NEW d \in Stores, LineRecorded(d) PROVE Struct'
    <2>1. buf' \in [Stores -> Texts]
      BY <1>20, GoodLine, LineTypes DEF LineRecorded
    <2>2. manifests' \in [Stores -> SUBSET Recs]
      BY <1>20, LineTypes DEF LineRecorded
    <2>3. pc' = pc /\ \A e \in Stores \ {d} : buf'[e] = buf[e]
      BY <1>20 DEF LineRecorded
    <2>4. QED
      BY <1>20, <2>1, <2>2, <2>3 DEF LineRecorded
  <1>21. ASSUME NEW d \in Stores, LineFails(d) PROVE Struct'
    <2>1. buf' \in [Stores -> Texts]
      BY <1>21, GoodLine, LineTypes DEF LineFails
    <2>2. retry' \in [Stores -> Texts]
      BY <1>21, GoodLine, LineTypes DEF LineFails
    <2>3. manifests' \in [Stores -> SUBSET Recs]
      BY <1>21, LineTypes DEF LineFails
    <2>4. pc' = pc /\ \A e \in Stores \ {d} : buf'[e] = buf[e]
      BY <1>21 DEF LineFails
    <2>5. QED
      BY <1>21, <2>1, <2>2, <2>3, <2>4 DEF LineFails, Fault
  <1>22. ASSUME NEW d \in Stores, LineTorn(d) PROVE Struct'
    <2>1. buf' \in [Stores -> Texts]
      BY <1>22, BadLine, LineTypes DEF LineTorn
    <2>2. retry' \in [Stores -> Texts]
      BY <1>22, BadLine, LineTypes DEF LineTorn
    <2>3. pc' = pc /\ \A e \in Stores \ {d} : buf'[e] = buf[e]
      BY <1>22 DEF LineTorn
    <2>4. QED
      BY <1>22, <2>1, <2>2, <2>3 DEF LineTorn
  <1>23. ASSUME NEW d \in Stores, LinesDone(d) PROVE Struct'
    BY <1>23 DEF LinesDone
  <1>24. ASSUME NEW d \in Stores, ReadDone(d) PROVE Struct'
    BY <1>24 DEF ReadDone
  <1>25. ASSUME NEW d \in Stores, Unlink(d) PROVE Struct'
    BY <1>25, NoTextType DEF Unlink
  <1>26. ASSUME NEW d \in Stores, UnlinkFails(d) PROVE Struct'
    BY <1>26 DEF UnlinkFails, Fault
  <1>27. ASSUME NEW d \in Stores, UnlinkDone(d) PROVE Struct'
    BY <1>27 DEF UnlinkDone
  <1>28. ASSUME NEW d \in Stores, ReleaseClaims(d) PROVE Struct'
    <2>1. \A e \in Stores \ {d} : claimed[e] \cap claimed[d] = {}
      OBVIOUS
    <2>2. Claims'
      BY <1>28, <2>1 DEF ReleaseClaims
    <2>3. QED
      BY <1>28, <2>2 DEF ReleaseClaims
  <1>29. ASSUME NEW p \in Procs, Die(p) PROVE Struct'
    <2>1. /\ UNCHANGED <<where, text, ragged>>
          /\ appender' \in Procs \cup {None} /\ claimer' \in [Files -> Stores \cup {None}]
          /\ fd' \in [Procs -> Files \cup {None}]
          /\ \A q \in Procs \ {p} : fd'[q] = fd[q] /\ pc'[q] = pc[q]
          /\ \A q \in Procs \ {p} : appender = q => appender' = q
          /\ \A f \in Files : claimer[f] # p => claimer'[f] = claimer[f]
      BY <1>29 DEF Die
    <2>2. CASE p \in Recs
      <3>1. pc' = [pc EXCEPT ![p] = "dead"] /\ UNCHANGED pass /\ claimer' = claimer
        BY <1>29, <2>2 DEF Die
      <3>2. QED
        BY <1>29, <2>1, <2>2, <3>1 DEF Die, Fault
    <2>3. CASE p \in Stores
      <3>1. /\ pc' = [pc EXCEPT ![p] = "idle"]
            /\ \A e \in Stores \ {p} : /\ claimed'[e] = claimed[e] /\ unread'[e] = unread[e]
                                         /\ readable'[e] = readable[e] /\ buf'[e] = buf[e]
            /\ claimed'[p] = {} /\ unread'[p] = {} /\ readable'[p] = {} /\ buf'[p] = NoText
        BY <1>29, <2>3 DEF Die
      <3>2. TypeOK'
        <4>1. UNCHANGED <<manifests, recorded>> /\ faults' \in 0 .. MaxFaults
          BY <1>29 DEF Die, Fault
        <4> p \notin Recs
          BY <2>3
        <4>a. /\ glob' = [glob EXCEPT ![p] = {}] /\ claimed' = [claimed EXCEPT ![p] = {}]
              /\ unread' = [unread EXCEPT ![p] = {}] /\ readable' = [readable EXCEPT ![p] = {}]
              /\ buf' = [buf EXCEPT ![p] = NoText] /\ retry' = [retry EXCEPT ![p] = NoText]
          BY <1>29 DEF Die
        <4>2. /\ glob' \in [Stores -> SUBSET Files] /\ claimed' \in [Stores -> SUBSET Files]
              /\ unread' \in [Stores -> SUBSET Files] /\ readable' \in [Stores -> SUBSET Files]
          BY <4>a
        <4>3. buf' \in [Stores -> Texts] /\ retry' \in [Stores -> Texts]
          BY <4>a, NoTextType
        <4>4. QED
          BY <2>1, <2>3, <3>1, <4>1, <4>2, <4>3
      <3>3. Writers' /\ Phases'
        BY <1>29, <2>1, <2>3, <3>1 DEF Die
      <3>4. Claims'
        <4>1. \A e \in Stores : /\ claimed'[e] \subseteq claimed[e] /\ unread'[e] \subseteq unread[e]
                                /\ readable'[e] \subseteq readable[e]
          BY <2>3, <3>1
        <4>2. \A e \in Stores : \A f \in claimed'[e] : claimer'[f] = e /\ where'[f] # "pend"
          BY <2>1, <2>3, <3>1
        <4>3. QED
          BY <2>1, <2>3, <3>1, <4>1, <4>2
      <3>5. QED
        BY <3>2, <3>3, <3>4
    <2>4. QED
      BY <2>2, <2>3
  <1>30. CASE UNCHANGED vars
    BY <1>30 DEF vars
  <1> QED
    BY <1>1, <1>2, <1>3, <1>4, <1>5, <1>6, <1>7, <1>8, <1>9, <1>10, <1>11, <1>12, <1>13, <1>14, <1>15, <1>16, <1>17, <1>18, <1>19, <1>20, <1>21, <1>22, <1>23, <1>24, <1>25, <1>26, <1>27, <1>28, <1>29, <1>30 DEF Next, AppendStep, DrainStep, FaultStep

-----------------------------------------------------------------------------
\* The file a process writes to is not one a pass has read.
LEMMA WritingPend ==
    ASSUME Struct, NEW p \in Procs, pc[p] \in {"write", "unlock", "unlockerr"}
    PROVE  /\ fd[p] \in Files /\ ~Doomed(fd[p])
           /\ \A d \in Stores : fd[p] \notin readable[d]
  BY DEF Struct, Writers, Claims, Doomed

\* Steps that change no text, no manifest and nothing a pass has in hand.
LEMMA Frame ==
    ASSUME InHand, Kept, UNCHANGED <<text, manifests, recorded, buf, retry>>,
           \A d \in Stores : \/ readable'[d] = {}
                             \/ /\ readable'[d] \subseteq readable[d]
                                /\ pc[d] \in {"unlock", "unlink"} <=> pc'[d] \in {"unlock", "unlink"}
    PROVE  InHand' /\ Kept'
  <1>1. \A f : Doomed(f)' => Doomed(f)
    BY DEF Doomed
  <1>2. Kept'
    BY <1>1 DEF Kept, InManifests
  <1>3. InHand'
    BY DEF InHand, InManifests
  <1>4. QED
    BY <1>2, <1>3

\* Every step keeps what is recorded in a manifest or in a safe file.
LEMMA StepData == PendInv /\ [Next]_vars => InHand' /\ Kept'
  <1> SUFFICES ASSUME PendInv, [Next]_vars PROVE InHand' /\ Kept'
    OBVIOUS
  <1>0. Struct
    BY DEF PendInv, Struct
  <1> USE DEF PendInv
  <1>1. ASSUME NEW r \in Recs, Record(r) PROVE InHand' /\ Kept'
    BY <1>1, Frame DEF Record, files, locks, pass, history, TypeOK, Procs
  <1>2. ASSUME NEW p \in Procs, AppendLock(p) PROVE InHand' /\ Kept'
    BY <1>2, Frame DEF AppendLock, files, locks, pass, history, TypeOK, Procs
  <1>3. ASSUME NEW p \in Procs, AppendTimeout(p) PROVE InHand' /\ Kept'
    BY <1>3, Frame DEF AppendTimeout, GiveUp, files, locks, history, TypeOK, Procs
  <1>4. ASSUME NEW p \in Procs, OpenPend(p) PROVE InHand' /\ Kept'
    BY <1>4, Frame DEF OpenPend, files, locks, pass, history, TypeOK, Procs
  <1>5. ASSUME NEW p \in Procs, WriteLines(p) PROVE InHand' /\ Kept'
    <2>1. /\ UNCHANGED <<readable, buf, retry, manifests, fd>> /\ pc[p] = "write"
          /\ pc' = [pc EXCEPT ![p] = "unlock"] /\ recorded' = recorded \cup ({p} \cap Recs)
      BY <1>5 DEF WriteLines, pass
    <2>2. /\ fd[p] \in Files /\ ~Doomed(fd[p])
          /\ \A d \in Stores : fd[p] \notin readable[d]
      BY <1>0, <2>1, WritingPend
    <2>3. /\ \A f \in Files \ {fd[p]} : text'[f] = text[f]
          /\ Holds(text'[fd[p]]) = Holds(text[fd[p]]) \cup Holds(Payload(p))
      BY <1>5, <2>2, GluedText, PayloadType DEF WriteLines, TypeOK
    <2>4. InHand'
      BY <2>1, <2>2, <2>3 DEF InHand, InManifests, TypeOK, Procs
    <2>5. ~Doomed(fd[p])'
      BY <2>1, <2>2 DEF Doomed
    <2>6. CASE p \in Recs
      <3>1. p \in Holds(text'[fd[p]])
        BY <2>3, <2>6 DEF Payload, Good, Holds
      <3>2. \A f : Doomed(f)' => Doomed(f)
        BY <2>1, <2>6 DEF Doomed, TypeOK, Procs
      <3>3. \A f \in Files : Holds(text[f]) \subseteq Holds(text'[f])
        BY <2>3
      <3>4. Kept'
        BY <2>1, <2>2, <2>5, <3>1, <3>2, <3>3 DEF Kept, InManifests
      <3>5. QED
        BY <2>4, <3>4
    <2>7. CASE p \in Stores
      <3>1. Payload(p) = retry[p] /\ recorded' = recorded
        BY <2>1, <2>7 DEF Payload
      <3>2. Holds(buf[p]) = {}
        BY <1>0, <2>1, <2>7, NoTextType DEF Struct, Phases
      <3>3. \A f \in readable[p] : Holds(text[f]) \subseteq Holds(text'[fd[p]]) \cup InManifests
        BY <2>1, <2>3, <2>7, <3>1, <3>2 DEF InHand
      <3>4. \A f : Doomed(f)' => Doomed(f) \/ f \in readable[p]
        BY <2>1 DEF Doomed, TypeOK, Procs
      <3>5. \A f \in Files : Holds(text[f]) \subseteq Holds(text'[f])
        BY <2>3
      <3>6. ASSUME NEW r \in recorded
            PROVE  r \in InManifests \/ \E f \in Files : ~Doomed(f)' /\ r \in Holds(text'[f])
        <4>1. CASE r \in InManifests
          BY <4>1
        <4>2. ASSUME NEW f \in Files, ~Doomed(f), r \in Holds(text[f])
              PROVE  r \in InManifests \/ \E g \in Files : ~Doomed(g)' /\ r \in Holds(text'[g])
          <5>1. CASE f \in readable[p]
            BY <2>1, <2>2, <2>5, <3>3, <4>2, <5>1
          <5>2. CASE f \notin readable[p]
            BY <3>4, <3>5, <4>2, <5>2
          <5>3. QED
            BY <5>1, <5>2
        <4>3. QED
          BY <4>1, <4>2 DEF Kept
      <3>7. Kept'
        BY <2>1, <3>1, <3>6 DEF Kept, InManifests
      <3>8. QED
        BY <2>4, <3>7
    <2>8. QED
      BY <2>6, <2>7 DEF Procs
  <1>6. ASSUME NEW p \in Procs, WriteShort(p) PROVE InHand' /\ Kept'
    <2>1. /\ UNCHANGED <<readable, buf, retry, manifests, recorded>> /\ pc[p] = "write"
          /\ pc' = [pc EXCEPT ![p] = "unlockerr"]
      BY <1>6 DEF WriteShort, pass, history
    <2>2. /\ fd[p] \in Files
          /\ \A d \in Stores : fd[p] \notin readable[d]
      BY <1>0, <2>1, WritingPend
    <2>3. /\ \A f \in Files : Holds(text[f]) \subseteq Holds(text'[f])
          /\ \A f \in Files : f # fd[p] => text'[f] = text[f]
      BY <1>6, <2>2, ShortText
    <2>4. \A f : Doomed(f)' => Doomed(f)
      BY <2>1 DEF Doomed, TypeOK, Procs
    <2>5. Kept'
      BY <2>1, <2>3, <2>4 DEF Kept, InManifests
    <2>6. InHand'
      BY <2>1, <2>2, <2>3 DEF InHand, InManifests, TypeOK, Procs
    <2>7. QED
      BY <2>5, <2>6
  <1>7. ASSUME NEW p \in Procs, AppendUnlock(p) PROVE InHand' /\ Kept'
    BY <1>7, Frame DEF AppendUnlock, files, pass, history, TypeOK, Procs
  <1>8. ASSUME NEW p \in Procs, AppendFailed(p) PROVE InHand' /\ Kept'
    BY <1>8, Frame DEF AppendFailed, GiveUp, files, locks, history, TypeOK, Procs
  <1>9. ASSUME NEW d \in Stores, BeginDrain(d) PROVE InHand' /\ Kept'
    <2>1. /\ UNCHANGED <<text, manifests, recorded, buf, readable>> /\ readable[d] = {}
          /\ \A e \in Stores \ {d} : pc'[e] = pc[e] /\ retry'[e] = retry[e]
      BY <1>0, <1>9 DEF BeginDrain, files, history, Struct, Phases, TypeOK, Procs
    <2>2. \A f : Doomed(f)' => Doomed(f)
      BY <2>1 DEF Doomed
    <2>3. Kept'
      BY <2>1, <2>2 DEF Kept, InManifests
    <2>4. InHand'
      BY <2>1 DEF InHand, InManifests
    <2>5. QED
      BY <2>3, <2>4
  <1>10. ASSUME NEW d \in Stores, TakeOrphan(d) PROVE InHand' /\ Kept'
    BY <1>10, Frame DEF TakeOrphan, files, locks, pass, history, TypeOK, Procs
  <1>11. ASSUME NEW d \in Stores, OrphansDone(d) PROVE InHand' /\ Kept'
    BY <1>11, Frame DEF OrphansDone, files, locks, pass, history, TypeOK, Procs
  <1>12. ASSUME NEW d \in Stores, ClaimLock(d) PROVE InHand' /\ Kept'
    BY <1>12, Frame DEF ClaimLock, files, locks, pass, history, TypeOK, Procs
  <1>13. ASSUME NEW d \in Stores, ClaimTimeout(d) PROVE InHand' /\ Kept'
    BY <1>13, Frame DEF ClaimTimeout, files, locks, pass, history, TypeOK, Procs
  <1>14. ASSUME NEW d \in Stores, Replace(d) PROVE InHand' /\ Kept'
    BY <1>14, Frame DEF Replace, files, locks, pass, history, TypeOK, Procs
  <1>15. ASSUME NEW d \in Stores, ReplaceMissing(d) PROVE InHand' /\ Kept'
    BY <1>15, Frame DEF ReplaceMissing, files, locks, pass, history, TypeOK, Procs
  <1>16. ASSUME NEW d \in Stores, ReplaceFails(d) PROVE InHand' /\ Kept'
    BY <1>16, Frame DEF ReplaceFails, files, locks, pass, history, TypeOK, Procs
  <1>17. ASSUME NEW d \in Stores, ClaimUnlock(d) PROVE InHand' /\ Kept'
    BY <1>17, Frame DEF ClaimUnlock, files, locks, pass, history, TypeOK, Procs
  <1>18. ASSUME NEW d \in Stores, ReadFile(d) PROVE InHand' /\ Kept'
    <2>1. PICK f \in unread[d] : /\ readable' = [readable EXCEPT ![d] = @ \cup {f}]
                                /\ buf' = [buf EXCEPT ![d] = LinesOf(f)]
      BY <1>18 DEF ReadFile
    <2>2. /\ UNCHANGED <<text, manifests, recorded, retry>> /\ pc[d] = "read"
          /\ pc' = [pc EXCEPT ![d] = "line"]
      BY <1>18 DEF ReadFile, files, history
    <2>3. f \in Files /\ Holds(buf[d]) = {} /\ Holds(buf'[d]) = Holds(text[f])
      BY <1>0, <2>1, <2>2, LinesText, NoTextType DEF Struct, Phases, TypeOK
    <2>4. \A g : Doomed(g)' => Doomed(g)
      BY <2>1, <2>2 DEF Doomed, TypeOK, Procs
    <2>5. Kept'
      BY <2>2, <2>4 DEF Kept, InManifests
    <2>6. \A e \in Stores \ {d} : /\ pc'[e] = pc[e] /\ readable'[e] = readable[e] /\ buf'[e] = buf[e]
      BY <2>1, <2>2 DEF TypeOK, Procs
    <2>7. readable'[d] = readable[d] \cup {f}
      BY <2>1 DEF TypeOK
    <2>8. InHand'
      BY <2>2, <2>3, <2>6, <2>7 DEF InHand, InManifests
    <2>9. QED
      BY <2>5, <2>8
  <1>19. ASSUME NEW d \in Stores, ReadFails(d) PROVE InHand' /\ Kept'
    BY <1>19, Frame DEF ReadFails, files, locks, pass, history, TypeOK, Procs
  <1>20. ASSUME NEW d \in Stores, LineRecorded(d) PROVE InHand' /\ Kept'
    <2>1. PICK r \in buf[d].whole :
            /\ buf' = [buf EXCEPT ![d] = Minus(@, Good(r))]
            /\ manifests' = [manifests EXCEPT ![d] = @ \cup {r}]
      BY <1>20 DEF LineRecorded
    <2>2. UNCHANGED <<text, recorded, readable, pc>> /\ pc[d] = "line"
      BY <1>20 DEF LineRecorded, files
    <2>3. InManifests \cup {r} \subseteq InManifests'
      BY <1>20, <2>1 DEF LineRecorded, InManifests, TypeOK
    <2>4. Holds(buf[d]) \cup Holds(retry[d]) \subseteq Holds(buf'[d]) \cup Holds(retry'[d]) \cup InManifests'
      BY <1>20, <2>1, <2>3, GoodLine, LineTypes DEF LineRecorded, TypeOK
    <2>5. \A e \in Stores \ {d} : buf'[e] = buf[e] /\ retry'[e] = retry[e]
      BY <1>20, <2>1 DEF LineRecorded, TypeOK
    <2>6. Kept'
      BY <2>2, <2>3 DEF Kept, Doomed
    <2>7. InHand'
      BY <2>2, <2>3, <2>4, <2>5 DEF InHand
    <2>8. QED
      BY <2>6, <2>7
  <1>21. ASSUME NEW d \in Stores, LineFails(d) PROVE InHand' /\ Kept'
    <2>1. PICK r \in buf[d].whole :
            /\ buf' = [buf EXCEPT ![d] = Minus(@, Good(r))]
            /\ retry' = [retry EXCEPT ![d] = Plus(@, Good(r))]
      BY <1>21 DEF LineFails
    <2>2. UNCHANGED <<text, recorded, readable, pc>> /\ pc[d] = "line"
      BY <1>21 DEF LineFails, files
    <2>3. InManifests \subseteq InManifests'
      BY <1>21, <2>1 DEF LineFails, InManifests, TypeOK
    <2>4. Holds(buf[d]) \cup Holds(retry[d]) \subseteq Holds(buf'[d]) \cup Holds(retry'[d]) \cup InManifests'
      BY <1>21, <2>1, <2>3, GoodLine, LineTypes DEF TypeOK
    <2>5. \A e \in Stores \ {d} : buf'[e] = buf[e] /\ retry'[e] = retry[e]
      BY <1>21, <2>1 DEF LineFails, TypeOK
    <2>6. Kept'
      BY <2>2, <2>3 DEF Kept, Doomed
    <2>7. InHand'
      BY <2>2, <2>3, <2>4, <2>5 DEF InHand
    <2>8. QED
      BY <2>6, <2>7
  <1>22. ASSUME NEW d \in Stores, LineTorn(d) PROVE InHand' /\ Kept'
    <2>1. PICK x \in buf[d].torn :
            /\ buf' = [buf EXCEPT ![d] = Minus(@, Bad(x))]
            /\ retry' = [retry EXCEPT ![d] = Plus(@, Bad(x))]
      BY <1>22 DEF LineTorn
    <2>2. UNCHANGED <<text, recorded, readable, pc>> /\ pc[d] = "line"
      BY <1>22 DEF LineTorn, files, history
    <2>3. InManifests \subseteq InManifests'
      BY <1>22, <2>1 DEF LineTorn, InManifests, TypeOK, history
    <2>4. Holds(buf[d]) \cup Holds(retry[d]) \subseteq Holds(buf'[d]) \cup Holds(retry'[d]) \cup InManifests'
      BY <1>22, <2>1, <2>3, BadLine, LineTypes DEF TypeOK
    <2>5. \A e \in Stores \ {d} : buf'[e] = buf[e] /\ retry'[e] = retry[e]
      BY <1>22, <2>1 DEF LineTorn, TypeOK
    <2>6. Kept'
      BY <2>2, <2>3 DEF Kept, Doomed
    <2>7. InHand'
      BY <2>2, <2>3, <2>4, <2>5 DEF InHand
    <2>8. QED
      BY <2>6, <2>7
  <1>23. ASSUME NEW d \in Stores, LinesDone(d) PROVE InHand' /\ Kept'
    BY <1>23, Frame DEF LinesDone, files, locks, pass, history, TypeOK, Procs
  <1>24. ASSUME NEW d \in Stores, ReadDone(d) PROVE InHand' /\ Kept'
    <2>1. /\ UNCHANGED <<text, manifests, recorded, buf, retry, readable>> /\ pc[d] = "read"
          /\ pc' = [pc EXCEPT ![d] = IF retry[d] = NoText THEN "unlink" ELSE "wait"]
      BY <1>24 DEF ReadDone, files, pass, history
    <2>2. CASE retry[d] # NoText
      BY <2>1, <2>2, Frame DEF TypeOK, Procs
    <2>3. CASE retry[d] = NoText
      <3>1. Holds(buf[d]) = {} /\ Holds(retry[d]) = {}
        BY <1>0, <2>1, <2>3, NoTextType DEF Struct, Phases
      <3>2. \A f \in readable[d] : Holds(text[f]) \subseteq InManifests
        BY <2>1, <3>1 DEF InHand
      <3>3. \A f : Doomed(f)' => Doomed(f) \/ f \in readable[d]
        BY <2>1 DEF Doomed, TypeOK, Procs
      <3>4. Kept'
        BY <2>1, <3>2, <3>3 DEF Kept, InManifests
      <3>5. InHand'
        BY <2>1, <2>3 DEF InHand, InManifests, TypeOK, Procs
      <3>6. QED
        BY <3>4, <3>5
    <2>4. QED
      BY <2>2, <2>3
  <1>25. ASSUME NEW d \in Stores, Unlink(d) PROVE InHand' /\ Kept'
    <2>1. PICK f \in readable[d] :
            /\ readable' = [readable EXCEPT ![d] = @ \ {f}]
            /\ text' = [text EXCEPT ![f] = NoText]
      BY <1>25 DEF Unlink
    <2>2. UNCHANGED <<pc, buf, retry, manifests, recorded>> /\ pc[d] = "unlink"
      BY <1>25 DEF Unlink, history
    <2>3. Doomed(f) /\ f \in Files
      BY <2>2 DEF Doomed, TypeOK
    <2>4. \A g : Doomed(g)' => Doomed(g)
      BY <2>1, <2>2 DEF Doomed, TypeOK
    <2>5. \A g \in Files \ {f} : text'[g] = text[g]
      BY <2>1 DEF TypeOK
    <2>6. Kept'
      BY <2>2, <2>3, <2>4, <2>5 DEF Kept, InManifests
    <2>7. \A e \in Stores \ {d} : f \notin readable[e]
      BY <1>0 DEF Struct, Claims
    <2>8. InHand'
      BY <2>1, <2>2, <2>5, <2>7 DEF InHand, InManifests, TypeOK
    <2>9. QED
      BY <2>6, <2>8
  <1>26. ASSUME NEW d \in Stores, UnlinkFails(d) PROVE InHand' /\ Kept'
    BY <1>26, Frame DEF UnlinkFails, files, locks, pass, history, TypeOK, Procs
  <1>27. ASSUME NEW d \in Stores, UnlinkDone(d) PROVE InHand' /\ Kept'
    BY <1>27, Frame DEF UnlinkDone, files, locks, pass, history, TypeOK, Procs
  <1>28. ASSUME NEW d \in Stores, ReleaseClaims(d) PROVE InHand' /\ Kept'
    BY <1>28, Frame DEF ReleaseClaims, files, locks, pass, history, TypeOK, Procs
  <1>29. ASSUME NEW p \in Procs, Die(p) PROVE InHand' /\ Kept'
    <2>1. CASE p \in Recs
      <3>1. UNCHANGED <<text, manifests, recorded, buf, retry, readable>>
        BY <1>29, <2>1 DEF Die, files, pass, history
      <3>2. \A d \in Stores : pc'[d] = pc[d]
        BY <1>29, <2>1 DEF Die, TypeOK, Procs
      <3>3. QED
        BY <3>1, <3>2, Frame
    <2>2. CASE p \in Stores
      <3>1. /\ UNCHANGED <<text, manifests, recorded>>
            /\ readable'[p] = {}
            /\ \A e \in Stores \ {p} : /\ pc'[e] = pc[e] /\ readable'[e] = readable[e]
                                         /\ buf'[e] = buf[e] /\ retry'[e] = retry[e]
        BY <1>29, <2>2 DEF Die, files, history, TypeOK, Procs
      <3>2. \A f : Doomed(f)' => Doomed(f)
        BY <2>2, <3>1 DEF Doomed
      <3>3. Kept'
        BY <3>1, <3>2 DEF Kept, InManifests
      <3>4. InHand'
        BY <2>2, <3>1 DEF InHand, InManifests
      <3>5. QED
        BY <3>3, <3>4
    <2>3. QED
      BY <2>1, <2>2 DEF Procs
  <1>30. CASE UNCHANGED vars
    BY <1>30, Frame DEF vars, files, locks, pass, history
  <1> QED
    BY <1>1, <1>2, <1>3, <1>4, <1>5, <1>6, <1>7, <1>8, <1>9, <1>10, <1>11, <1>12, <1>13, <1>14, <1>15, <1>16, <1>17, <1>18, <1>19, <1>20, <1>21, <1>22, <1>23, <1>24, <1>25, <1>26, <1>27, <1>28, <1>29, <1>30 DEF Next, AppendStep, DrainStep, FaultStep

LEMMA StepPendInv == PendInv /\ [Next]_vars => PendInv'
  BY StepStruct, StepData DEF PendInv, Struct

\* Types hold in every reachable state.
THEOREM TypeCorrect == Spec => []TypeOK
  BY InitPendInv, StepPendInv, PTL DEF Spec, PendInv

(* No recorded failure is ever lost, for any number of starts, of stores    *)
(* draining the shared file at once, and of deaths and failed calls.        *)
THEOREM NothingLost == Spec => []NoLoss
  <1>1. PendInv => NoLoss
    BY DEF PendInv, Kept, NoLoss, OnDisk
  <1>2. QED
    BY <1>1, InitPendInv, StepPendInv, PTL DEF Spec

-----------------------------------------------------------------------------
Fresh(r) == pc[r] \in {"idle", "wait", "open", "write"}

\* While nothing failed no line is torn and nothing is put back.
Clean ==
    /\ \A f \in Files : f \notin ragged /\ text[f].torn = {}
    /\ \A d \in Stores : /\ retry[d] = NoText /\ buf[d].torn = {}
                         /\ pc[d] \notin Appending

\* A record is on one line of one file, and once it is recorded that file is
\* one the same drain is about to unlink.
Single ==
    /\ \A r \in Recs : Fresh(r) =>
          /\ \A f \in Files : r \notin text[f].whole
          /\ \A d \in Stores : r \notin manifests[d]
    /\ \A r \in Recs, f, g \in Files : r \in text[f].whole /\ r \in text[g].whole => f = g
    /\ \A d \in Stores : \A r \in buf[d].whole : \E f \in readable[d] : r \in text[f].whole
    /\ \A d \in Stores, f \in Files :
          manifests[d] \cap text[f].whole # {} => f \in readable[d]
    /\ \A d, e \in Stores : d # e => manifests[d] \cap manifests[e] = {}

Calm == faults = 0 => Clean /\ Single

LEMMA InitCalm == Init => Calm
  BY DEF Init, Calm, Clean, Single, NoText, Appending, Procs

\* Steps that touch no line.
LEMMA CalmFrame ==
    ASSUME Struct, Clean, Single, UNCHANGED <<text, ragged, manifests, buf, retry, readable>>,
           \A r \in Recs : Fresh(r)' => Fresh(r),
           \A d \in Stores : pc'[d] \notin Appending
    PROVE  Clean' /\ Single'
  <1>1. Clean'
    BY DEF Clean
  <1>2. \A r \in Recs : Fresh(r)' =>
           /\ \A f \in Files : r \notin text'[f].whole
           /\ \A d \in Stores : r \notin manifests'[d]
    BY DEF Single
  <1>3. \A r \in Recs, f, g \in Files : r \in text'[f].whole /\ r \in text'[g].whole => f = g
    BY DEF Single
  <1>4. \A d \in Stores : \A r \in buf'[d].whole : \E f \in readable'[d] : r \in text'[f].whole
    BY DEF Single
  <1>5. \A d \in Stores, f \in Files :
           manifests'[d] \cap text'[f].whole # {} => f \in readable'[d]
    BY DEF Single
  <1>6. \A d, e \in Stores : d # e => manifests'[d] \cap manifests'[e] = {}
    BY DEF Single
  <1>7. Single'
    BY <1>2, <1>3, <1>4, <1>5, <1>6 DEF Single
  <1>8. QED
    BY <1>1, <1>7

\* Every step keeps it while nothing has failed.
LEMMA StepCalm ==
    ASSUME Struct, Struct', Calm, [Next]_vars PROVE Calm'
  <1> SUFFICES ASSUME faults' = 0 PROVE Clean' /\ Single'
    BY DEF Calm
  <1> USE DEF files, locks, pass, history
  <1>T. TypeOK /\ TypeOK' /\ Claims /\ Phases
    BY DEF Struct
  <1>F. ~ Fault
    BY <1>T DEF Fault, TypeOK
  <1>P. \A q \in Recs : q \in Procs /\ q \notin Stores
    BY DEF Procs
  <1>Q. \A d \in Stores : d \in Procs /\ d \notin Recs
    BY DEF Procs
  <1>0. faults = 0 /\ Clean /\ Single
    <2>1. faults' = faults \/ Fault
      BY DEF Next, AppendStep, DrainStep, FaultStep, vars, Record, AppendLock, OpenPend, WriteLines,
             AppendUnlock, AppendFailed, BeginDrain, TakeOrphan, OrphansDone, ClaimLock, Replace,
             ReplaceMissing, ClaimUnlock, ReadFile, LineRecorded, LineTorn, LinesDone, ReadDone, Unlink,
             UnlinkDone, ReleaseClaims, AppendTimeout, WriteShort, Die, ClaimTimeout, ReplaceFails,
             ReadFails, LineFails, UnlinkFails
    <2>2. QED
      BY <2>1, <1>F DEF Calm
  <1>1. ASSUME NEW r \in Recs, Record(r) PROVE Clean' /\ Single'
    BY <1>1, <1>0, <1>T, <1>P, <1>Q, CalmFrame DEF Record, Fresh, Clean, TypeOK
  <1>2. ASSUME NEW p \in Procs, AppendLock(p) PROVE Clean' /\ Single'
    <2>1. p \in Recs
      BY <1>2, <1>0 DEF AppendLock, Clean, Appending, Procs
    <2>2. QED
      BY <1>2, <2>1, <1>0, <1>T, <1>P, <1>Q, CalmFrame DEF AppendLock, Fresh, Clean, TypeOK
  <1>3. ASSUME NEW p \in Procs, OpenPend(p) PROVE Clean' /\ Single'
    <2>1. p \in Recs
      BY <1>3, <1>0 DEF OpenPend, Clean, Appending, Procs
    <2>2. QED
      BY <1>3, <2>1, <1>0, <1>T, <1>P, <1>Q, CalmFrame DEF OpenPend, Fresh, Clean, TypeOK
  <1>4. ASSUME NEW p \in Procs, WriteLines(p) PROVE Clean' /\ Single'
    <2>1. p \in Recs /\ p \in Procs
      BY <1>4, <1>0 DEF WriteLines, Clean, Appending, Procs
    <2>2. fd[p] \in Files
      BY <1>4 DEF WriteLines, Struct, Writers
    <2>3. text' = [text EXCEPT ![fd[p]] = Plus(text[fd[p]], Good(p))]
      BY <1>4, <1>0, <2>1, <2>2 DEF WriteLines, Glued, Payload, Clean
    <2>4. /\ text'[fd[p]].whole = text[fd[p]].whole \cup {p}
          /\ text'[fd[p]].torn = text[fd[p]].torn
          /\ \A f \in Files \ {fd[p]} : text'[f] = text[f]
      BY <2>2, <2>3, <1>T DEF Plus, Good, TypeOK
    <2>5. /\ UNCHANGED <<manifests, buf, retry, readable>> /\ ragged' \subseteq ragged
          /\ pc' = [pc EXCEPT ![p] = "unlock"]
      BY <1>4 DEF WriteLines
    <2>6. /\ \A f \in Files : p \notin text[f].whole
          /\ \A d \in Stores : p \notin manifests[d]
      BY <1>4, <1>0, <2>1 DEF WriteLines, Single, Fresh
    <2>7. Clean'
      <3>1. \A d \in Stores : pc'[d] = pc[d]
        BY <1>P, <1>Q, <1>T, <2>1, <2>5 DEF TypeOK
      <3>2. \A f \in Files : f \notin ragged' /\ text'[f].torn = {}
        BY <1>0, <2>2, <2>4, <2>5 DEF Clean
      <3>3. \A d \in Stores : retry'[d] = NoText /\ buf'[d].torn = {}
        BY <1>0, <2>5 DEF Clean
      <3>4. QED
        BY <1>0, <3>1, <3>2, <3>3 DEF Clean
    <2>8. \A r \in Recs : Fresh(r)' => r # p /\ Fresh(r)
      BY <2>1, <2>5, <1>T, <1>P DEF Fresh, TypeOK
    <2>9. \A r \in Recs, f \in Files : r \in text'[f].whole => r \in text[f].whole \/ (r = p /\ f = fd[p])
      BY <2>2, <2>4
    <2>10. \A f \in Files : text[f].whole \subseteq text'[f].whole
      BY <2>2, <2>4
    <2>11. \A d \in Stores : readable[d] \subseteq Files /\ manifests[d] \subseteq Recs
      BY <1>T DEF TypeOK
    <2>12. Single'
      <3>1. \A r \in Recs : Fresh(r)' =>
               /\ \A f \in Files : r \notin text'[f].whole
               /\ \A d \in Stores : r \notin manifests'[d]
        BY <1>0, <2>5, <2>8, <2>9 DEF Single
      <3>2. \A r \in Recs, f, g \in Files : r \in text'[f].whole /\ r \in text'[g].whole => f = g
        BY <1>0, <2>6, <2>9 DEF Single
      <3>3. \A d \in Stores : \A r \in buf'[d].whole : \E f \in readable'[d] : r \in text'[f].whole
        BY <1>0, <2>5, <2>10, <2>11 DEF Single
      <3>4. \A d \in Stores, f \in Files :
               manifests'[d] \cap text'[f].whole # {} => f \in readable'[d]
        BY <1>0, <2>5, <2>6, <2>9, <2>11 DEF Single
      <3>5. QED
        BY <1>0, <2>5, <3>1, <3>2, <3>3, <3>4 DEF Single
    <2>13. QED
      BY <2>7, <2>12
  <1>5. ASSUME NEW p \in Procs, AppendUnlock(p) \/ AppendFailed(p) PROVE Clean' /\ Single'
    <2>1. p \in Recs
      BY <1>5, <1>0 DEF AppendUnlock, AppendFailed, Clean, Appending, Procs
    <2>2. readable' = readable
      BY <1>5, <2>1, <1>P DEF AppendUnlock, AppendFailed, GiveUp
    <2>3. pc' = [pc EXCEPT ![p] = "pending"] \/ pc' = [pc EXCEPT ![p] = "lost"]
      BY <1>5, <2>1 DEF AppendUnlock, AppendFailed, GiveUp
    <2>4. UNCHANGED <<text, ragged, manifests, buf, retry>>
      BY <1>5 DEF AppendUnlock, AppendFailed
    <2>5. QED
      BY <2>1, <2>2, <2>3, <2>4, <1>0, <1>T, <1>P, <1>Q, CalmFrame DEF Fresh, Clean, TypeOK
  <1>6. ASSUME NEW d \in Stores, BeginDrain(d) PROVE Clean' /\ Single'
    <2>1. retry' = retry
      BY <1>6, <1>0, <1>T DEF BeginDrain, Clean, TypeOK
    <2>2. QED
      BY <1>6, <2>1, <1>0, <1>T, <1>P, <1>Q, CalmFrame DEF BeginDrain, Fresh, Clean, TypeOK, Appending
  <1>7. ASSUME NEW d \in Stores,
               \/ TakeOrphan(d) \/ OrphansDone(d) \/ ClaimLock(d) \/ Replace(d) \/ ReplaceMissing(d)
               \/ ClaimUnlock(d) \/ LinesDone(d) \/ UnlinkDone(d) \/ ReleaseClaims(d)
        PROVE  Clean' /\ Single'
    <2>1. UNCHANGED <<text, ragged, manifests, buf, retry, readable>>
      BY <1>7 DEF TakeOrphan, OrphansDone, ClaimLock, Replace, ReplaceMissing, ClaimUnlock, LinesDone,
                  UnlinkDone, ReleaseClaims
    <2>2. \/ pc' = pc
          \/ \E s \in {"read", "claimwait", "replace", "claimunlock", "release", "idle"} :
                pc' = [pc EXCEPT ![d] = s]
      BY <1>7 DEF TakeOrphan, OrphansDone, ClaimLock, Replace, ReplaceMissing, ClaimUnlock, LinesDone,
                  UnlinkDone, ReleaseClaims
    <2>3. QED
      BY <2>1, <2>2, <1>0, <1>T, <1>P, <1>Q, CalmFrame DEF Fresh, Clean, TypeOK, Appending
  <1>8. ASSUME NEW d \in Stores, ReadDone(d) PROVE Clean' /\ Single'
    <2>1. pc' = [pc EXCEPT ![d] = "unlink"]
      BY <1>8, <1>0 DEF ReadDone, Clean
    <2>2. QED
      BY <1>8, <2>1, <1>0, <1>T, <1>P, <1>Q, CalmFrame DEF ReadDone, Fresh, Clean, TypeOK, Appending
  <1>9. ASSUME NEW d \in Stores, ReadFile(d) PROVE Clean' /\ Single'
    <2>1. PICK f \in unread[d] : /\ readable' = [readable EXCEPT ![d] = @ \cup {f}]
                                 /\ buf' = [buf EXCEPT ![d] = LinesOf(f)]
      BY <1>9 DEF ReadFile
    <2>2. f \in Files /\ LinesOf(f) = text[f]
      BY <1>0, <1>T DEF TypeOK, Clean, LinesOf
    <2>3. /\ UNCHANGED <<text, ragged, manifests, retry>> /\ pc' = [pc EXCEPT ![d] = "line"]
      BY <1>9 DEF ReadFile
    <2>4. /\ buf'[d] = text[f] /\ readable'[d] = readable[d] \cup {f}
          /\ \A e \in Stores \ {d} : buf'[e] = buf[e] /\ readable'[e] = readable[e]
      BY <2>1, <2>2, <1>T DEF TypeOK
    <2>5. Clean'
      BY <1>0, <1>T, <1>Q, <2>2, <2>3, <2>4 DEF Clean, TypeOK, Appending
    <2>6. \A r \in Recs : Fresh(r)' <=> Fresh(r)
      BY <2>3, <1>P, <1>T DEF Fresh, TypeOK
    <2>7. Single'
      BY <1>0, <2>2, <2>3, <2>4, <2>6 DEF Single
    <2>8. QED
      BY <2>5, <2>7
  <1>10. ASSUME NEW d \in Stores, LineRecorded(d) PROVE Clean' /\ Single'
    <2>1. PICK r \in buf[d].whole : /\ buf' = [buf EXCEPT ![d] = Minus(@, Good(r))]
                                    /\ manifests' = [manifests EXCEPT ![d] = @ \cup {r}]
      BY <1>10 DEF LineRecorded
    <2>2. UNCHANGED <<text, ragged, retry, readable, pc>>
      BY <1>10 DEF LineRecorded
    <2>3. /\ buf'[d].whole \subseteq buf[d].whole /\ buf'[d].torn \subseteq buf[d].torn
          /\ manifests'[d] = manifests[d] \cup {r}
          /\ \A e \in Stores \ {d} : buf'[e] = buf[e] /\ manifests'[e] = manifests[e]
      BY <2>1, <1>T DEF TypeOK, Minus, Good
    <2>4. PICK f \in readable[d] : r \in text[f].whole
      BY <1>0 DEF Single
    <2>5. f \in Files /\ r \in Recs
      BY <1>T, LineTypes DEF TypeOK
    <2>6. \A e \in Stores \ {d} : f \notin readable[e]
      BY <1>T DEF Claims
    <2>7. \A e \in Stores \ {d} : r \notin manifests[e]
      BY <1>0, <2>4, <2>5, <2>6 DEF Single
    <2>8. ~ Fresh(r)
      BY <1>0, <2>4, <2>5 DEF Single
    <2>9. Clean'
      BY <1>0, <2>2, <2>3 DEF Clean
    <2>10. Single'
      <3>1. \A q \in Recs : Fresh(q)' =>
               /\ \A g \in Files : q \notin text'[g].whole
               /\ \A e \in Stores : q \notin manifests'[e]
        BY <1>0, <2>2, <2>3, <2>8 DEF Single, Fresh
      <3>2. \A e \in Stores : \A q \in buf'[e].whole : \E g \in readable'[e] : q \in text'[g].whole
        BY <1>0, <2>2, <2>3 DEF Single
      <3>3. \A e \in Stores, g \in Files :
               manifests'[e] \cap text'[g].whole # {} => g \in readable'[e]
        BY <1>0, <2>2, <2>3, <2>4, <2>5 DEF Single
      <3>4. \A e, c \in Stores : e # c => manifests'[e] \cap manifests'[c] = {}
        BY <1>0, <2>3, <2>7 DEF Single
      <3>5. QED
        BY <1>0, <2>2, <3>1, <3>2, <3>3, <3>4 DEF Single
    <2>11. QED
      BY <2>9, <2>10
  <1>11. ASSUME NEW d \in Stores, LineTorn(d) PROVE FALSE
    BY <1>11, <1>0 DEF LineTorn, Clean
  <1>12. ASSUME NEW d \in Stores, Unlink(d) PROVE Clean' /\ Single'
    <2>1. PICK f \in readable[d] : /\ readable' = [readable EXCEPT ![d] = @ \ {f}]
                                   /\ text' = [text EXCEPT ![f] = NoText]
                                   /\ ragged' = ragged \ {f}
      BY <1>12 DEF Unlink
    <2>2. f \in Files /\ buf[d].whole = {} /\ UNCHANGED <<manifests, buf, retry, pc>>
      BY <1>12, <1>T DEF Unlink, TypeOK, Phases, NoText
    <2>3. \A e \in Stores \ {d} : f \notin readable[e] /\ readable'[e] = readable[e]
      BY <2>1, <1>T DEF Claims, TypeOK
    <2>4. /\ text'[f].whole = {} /\ text'[f].torn = {}
          /\ \A g \in Files \ {f} : text'[g] = text[g]
      BY <2>1, <2>2, <1>T DEF TypeOK, NoText
    <2>5. readable'[d] = readable[d] \ {f}
      BY <2>1, <1>T DEF TypeOK
    <2>6. \A e \in Stores : readable[e] \subseteq Files
      BY <1>T DEF TypeOK
    <2>7. Clean'
      BY <1>0, <2>1, <2>2, <2>4 DEF Clean
    <2>8. Single'
      <3>1. \A q \in Recs : Fresh(q)' =>
               /\ \A g \in Files : q \notin text'[g].whole
               /\ \A e \in Stores : q \notin manifests'[e]
        BY <1>0, <2>2, <2>4 DEF Single, Fresh
      <3>2. \A q \in Recs, g, h \in Files : q \in text'[g].whole /\ q \in text'[h].whole => g = h
        BY <1>0, <2>2, <2>4 DEF Single
      <3>3. \A e \in Stores : \A q \in buf'[e].whole : \E g \in readable'[e] : q \in text'[g].whole
        BY <1>0, <2>2, <2>3, <2>4, <2>6 DEF Single
      <3>4. \A e \in Stores, g \in Files :
               manifests'[e] \cap text'[g].whole # {} => g \in readable'[e]
        BY <1>0, <2>2, <2>3, <2>4, <2>5 DEF Single
      <3>5. QED
        BY <1>0, <2>2, <3>1, <3>2, <3>3, <3>4 DEF Single
    <2>9. QED
      BY <2>7, <2>8
  <1>13. CASE UNCHANGED vars
    BY <1>13, <1>0, CalmFrame DEF vars, Fresh, Clean
  <1>14. ~ FaultStep
    BY <1>F DEF FaultStep, AppendTimeout, WriteShort, Die, ClaimTimeout, ReplaceFails, ReadFails, LineFails,
                UnlinkFails
  <1>15. QED
    BY <1>1, <1>2, <1>3, <1>4, <1>5, <1>6, <1>7, <1>8, <1>9, <1>10, <1>11, <1>12, <1>13, <1>14
       DEF Next, AppendStep, DrainStep

(* While nothing dies or fails, no two stores record the same failure: a    *)
(* file another drain holds is not taken over (pipeline.py:457-460).        *)
THEOREM OneStoreRecords == Spec => []RecordedByOneStore
  <1>1. PendInv /\ Calm /\ [Next]_vars => PendInv' /\ Calm'
    BY StepPendInv, StepCalm DEF PendInv, Struct
  <1>2. Calm => RecordedByOneStore
    BY DEF Calm, Single, RecordedByOneStore
  <1>3. QED
    BY <1>1, <1>2, InitPendInv, InitCalm, PTL DEF Spec

-----------------------------------------------------------------------------
\* A file that is gone holds nothing.
FreeEmpty == \A f \in Files : where[f] = "free" => text[f] = NoText

LEMMA StepFree == Struct /\ FreeEmpty /\ [Next]_vars => FreeEmpty'
  <1> SUFFICES ASSUME Struct, FreeEmpty, [Next]_vars PROVE FreeEmpty'
    OBVIOUS
  <1>T. TypeOK /\ TypeOK'
    BY StepStruct DEF Struct
  <1>W. \A p \in Procs : pc[p] = "write" => fd[p] \in Files /\ where[fd[p]] = "pend"
    BY DEF Struct, Writers
  <1>1. ASSUME NEW p \in Procs, OpenPend(p) PROVE FreeEmpty'
    BY <1>1, <1>T DEF OpenPend, FreeEmpty, TypeOK
  <1>2. ASSUME NEW p \in Procs, WriteLines(p) PROVE FreeEmpty'
    <2>1. PICK t : text' = [text EXCEPT ![fd[p]] = t]
      BY <1>2 DEF WriteLines
    <2>2. UNCHANGED where /\ pc[p] = "write"
      BY <1>2 DEF WriteLines
    <2>3. QED
      BY <2>1, <2>2, <1>T, <1>W DEF FreeEmpty, TypeOK
  <1>3. ASSUME NEW p \in Procs, WriteShort(p) PROVE FreeEmpty'
    <2>1. UNCHANGED where /\ pc[p] = "write"
      BY <1>3 DEF WriteShort
    <2>2. \A f \in Files : f # fd[p] => text'[f] = text[f]
      BY <1>3, <1>T, <1>W, <2>1, ShortText
    <2>3. QED
      BY <2>1, <2>2, <1>W DEF FreeEmpty
  <1>4. ASSUME NEW d \in Stores, Replace(d) PROVE FreeEmpty'
    BY <1>4, <1>T DEF Replace, FreeEmpty, TypeOK
  <1>5. ASSUME NEW d \in Stores, Unlink(d) PROVE FreeEmpty'
    <2>1. PICK f \in readable[d] : /\ where' = [where EXCEPT ![f] = "free"]
                                   /\ text' = [text EXCEPT ![f] = NoText]
      BY <1>5 DEF Unlink
    <2>2. QED
      BY <2>1, <1>T DEF FreeEmpty, TypeOK
  <1>6. CASE UNCHANGED files
    BY <1>6 DEF files, FreeEmpty
  <1>7. QED
    BY <1>1, <1>2, <1>3, <1>4, <1>5, <1>6
       DEF Next, AppendStep, DrainStep, FaultStep, vars, Record, AppendLock, AppendUnlock, AppendFailed,
           BeginDrain, TakeOrphan, OrphansDone, ClaimLock, ReplaceMissing, ClaimUnlock, ReadFile,
           LineRecorded, LineTorn, LinesDone, ReadDone, UnlinkDone, ReleaseClaims, AppendTimeout, Die,
           ClaimTimeout, ReplaceFails, ReadFails, LineFails, UnlinkFails

\* A manifest stays.
LEMMA ManifestsGrow ==
  ASSUME TypeOK, [Next]_vars
  PROVE  \A d \in Stores : manifests[d] \subseteq manifests'[d]
  <1>1. ASSUME NEW d \in Stores, LineRecorded(d) PROVE \A e \in Stores : manifests[e] \subseteq manifests'[e]
    BY <1>1 DEF LineRecorded, TypeOK
  <1>2. ASSUME NEW d \in Stores, LineFails(d) PROVE \A e \in Stores : manifests[e] \subseteq manifests'[e]
    BY <1>2 DEF LineFails, TypeOK
  <1>3. CASE UNCHANGED manifests
    BY <1>3
  <1>4. QED
    BY <1>1, <1>2, <1>3
       DEF Next, AppendStep, DrainStep, FaultStep, vars, history, Record, AppendLock, OpenPend, WriteLines,
           AppendUnlock, AppendFailed, BeginDrain, TakeOrphan, OrphansDone, ClaimLock, Replace,
           ReplaceMissing, ClaimUnlock, ReadFile, LineTorn, LinesDone, ReadDone, Unlink, UnlinkDone,
           ReleaseClaims, AppendTimeout, WriteShort, Die, ClaimTimeout, ReplaceFails, ReadFails, UnlinkFails

-----------------------------------------------------------------------------
\* What the count has of a file, or will read.
Covered(f) ==
    \/ where[f] = "free"
    \/ where[f] = "work" /\ f \in listed
    \/ LinesOf(f).whole \subseteq counted /\ (LinesOf(f).torn # {} => problem)

Counting == step \in {"glob", "pend", "files"}

\* While nothing moves, the log is as it was when the count began.
Still ==
    /\ Quiet
    /\ onRecord = recorded
    /\ manifests[Own] \subseteq counted
    /\ step = "pend" => listed = {f \in Files : where[f] = "work"}
    /\ step = "files" => \A f \in Files : Covered(f)

CountInv == CTypeOK /\ (Counting /\ ~ moved => Still) /\ QuietCountComplete

LogInv == PendInv /\ FreeEmpty

LEMMA InitCount == CInit => LogInv /\ Calm /\ CountInv
  BY InitPendInv, InitCalm
     DEF CInit, Init, LogInv, FreeEmpty, CountInv, CTypeOK, Counting, QuietCountComplete

\* The lines of a file, once taken, are counted or reported.
LEMMA Taken ==
  ASSUME NEW f \in Files, Take(f), CTypeOK, TypeOK
  PROVE  /\ counted' = counted \cup LinesOf(f).whole /\ counted' \subseteq Recs
         /\ problem' \in BOOLEAN
         /\ LinesOf(f).torn # {} => problem'
         /\ problem => problem'
  <1>1. counted' = counted \cup LinesOf(f).whole
    BY DEF Take
  <1>2. LinesOf(f).whole \subseteq Recs
    BY LinesText DEF Texts
  <1>3. problem' = (problem \/ LinesOf(f).torn # {})
    BY DEF Take
  <1>4. problem' \in BOOLEAN /\ (LinesOf(f).torn # {} => problem') /\ (problem => problem')
    BY <1>3, Zenon
  <1>5. QED
    BY <1>1, <1>2, <1>4 DEF CTypeOK

\* A count that found nothing to report has all that was on record.
LEMMA Complete ==
  ASSUME LogInv, Quiet, \A f \in Files : Covered(f), listed = {}, manifests[Own] \subseteq counted, ~ problem
  PROVE  recorded \subseteq counted \cup UNION {manifests[s] : s \in Stores \ {Own}}
  <1> SUFFICES ASSUME NEW r \in recorded, r \notin counted
               PROVE  r \in UNION {manifests[s] : s \in Stores \ {Own}}
    OBVIOUS
  <1>1. CASE r \in InManifests
    BY <1>1 DEF InManifests
  <1>2. ASSUME NEW f \in Files, r \in Holds(text[f]) PROVE FALSE
    <2>1. where[f] # "free"
      BY <1>2 DEF LogInv, FreeEmpty, NoText, Holds
    <2>2. LinesOf(f).whole \subseteq counted /\ LinesOf(f).torn = {}
      BY <2>1 DEF Covered
    <2>3. r \in Holds(LinesOf(f))
      BY <1>2, LinesText DEF LogInv, PendInv
    <2>4. QED
      BY <2>2, <2>3 DEF Holds
  <1>3. QED
    BY <1>1, <1>2 DEF LogInv, PendInv, Kept

\* A step of the count.
LEMMA StepOfCount ==
  ASSUME LogInv, CountInv, CountStep
  PROVE  CountInv'
  <1>U. UNCHANGED vars
    BY DEF CountStep, CountManifests, ListDraining, CountPend, CountDraining, CountDone
  <1>V. UNCHANGED <<where, text, ragged, manifests, recorded, pc>>
    BY <1>U DEF vars, files, history
  <1>Q. (Quiet' <=> Quiet) /\ \A f \in Files : LinesOf(f)' = LinesOf(f)
    BY <1>V DEF Quiet, LinesOf
  <1>T. TypeOK /\ CTypeOK
    BY DEF LogInv, PendInv, CountInv
  <1>1. CASE CountManifests
    <2>1. /\ step' = "glob" /\ counted' = manifests[Own] /\ listed' = {} /\ onRecord' = recorded
          /\ problem' = FALSE
      BY <1>1 DEF CountManifests
    <2>2. moved' = ~ Quiet
      BY <1>1 DEF CountManifests
    <2>3. moved' \in BOOLEAN /\ (~ moved' => Quiet)
      BY <2>2, Zenon
    <2>4. CTypeOK'
      BY <1>T, <2>1, <2>3, OwnAssumption DEF CTypeOK, TypeOK
    <2>5. QED
      BY <1>V, <1>Q, <2>1, <2>3, <2>4 DEF CountInv, Still, QuietCountComplete
  <1>2. CASE ListDraining
    <2>1. /\ step = "glob" /\ step' = "pend" /\ listed' = {f \in Files : where[f] = "work"}
          /\ UNCHANGED <<counted, problem, onRecord, moved>>
      BY <1>2 DEF ListDraining
    <2>2. CTypeOK'
      BY <1>T, <2>1 DEF CTypeOK
    <2>3. ~ moved' => Still'
      BY <1>V, <1>Q, <2>1 DEF CountInv, Counting, Still
    <2>4. QED
      BY <2>1, <2>2, <2>3 DEF CountInv, QuietCountComplete
  <1>3. CASE CountPend
    <2>1. step = "pend" /\ step' = "files" /\ UNCHANGED <<listed, onRecord, moved>>
      BY <1>3 DEF CountPend
    <2>2. CASE Pend = {}
      <3>1. UNCHANGED <<counted, problem>>
        BY <1>3, <2>2 DEF CountPend
      <3>2. CTypeOK'
        BY <1>T, <2>1, <3>1 DEF CTypeOK
      <3>3. ASSUME ~ moved' PROVE Still'
        <4>1. Still
          BY <2>1, <3>3 DEF CountInv, Counting
        <4>2. \A f \in Files : Covered(f)'
          BY <1>T, <1>V, <2>1, <2>2, <4>1 DEF Still, Covered, Pend, TypeOK
        <4>3. QED
          BY <1>V, <1>Q, <2>1, <3>1, <4>1, <4>2 DEF Still
      <3>4. QED
        BY <2>1, <3>2, <3>3 DEF CountInv, QuietCountComplete
    <2>3. CASE Pend # {}
      <3>1. PICK f \in Pend : Take(f)
        BY <1>3, <2>3 DEF CountPend
      <3>2. f \in Files /\ where[f] = "pend"
        BY <3>1 DEF Pend
      <3>3. /\ counted' = counted \cup LinesOf(f).whole /\ counted' \subseteq Recs
            /\ problem' \in BOOLEAN
            /\ LinesOf(f).torn # {} => problem'
            /\ problem => problem'
        BY <1>T, <3>1, <3>2, Taken
      <3>4. CTypeOK'
        BY <1>T, <2>1, <3>3 DEF CTypeOK
      <3>5. ASSUME ~ moved' PROVE Still'
        <4>1. Still
          BY <2>1, <3>5 DEF CountInv, Counting
        <4>2. ASSUME NEW g \in Files PROVE Covered(g)'
          <5>1. CASE where[g] = "pend"
            <6>1. g = f
              BY <1>T, <3>1, <5>1 DEF TypeOK, Pend
            <6>2. QED
              BY <1>Q, <3>3, <6>1 DEF Covered
          <5>2. CASE where[g] # "pend"
            BY <1>T, <1>V, <2>1, <4>1, <5>2 DEF Covered, Still, TypeOK
          <5>3. QED
            BY <5>1, <5>2
        <4>3. QED
          BY <1>V, <1>Q, <2>1, <3>3, <4>1, <4>2 DEF Still
      <3>6. QED
        BY <2>1, <3>4, <3>5 DEF CountInv, QuietCountComplete
    <2>4. QED
      BY <2>2, <2>3
  <1>4. CASE CountDraining
    <2>1. step = "files" /\ UNCHANGED <<step, onRecord, moved>>
      BY <1>4 DEF CountDraining
    <2>2. PICK f \in listed : /\ listed' = listed \ {f}
                              /\ IF where[f] = "work" THEN Take(f) ELSE UNCHANGED <<counted, problem>>
      BY <1>4 DEF CountDraining
    <2>3. f \in Files
      BY <1>T, <2>2 DEF CTypeOK
    <2>4. /\ counted \subseteq counted' /\ counted' \subseteq Recs
          /\ problem' \in BOOLEAN /\ (problem => problem')
          /\ where[f] = "work" => LinesOf(f).whole \subseteq counted' /\ (LinesOf(f).torn # {} => problem')
      <3>1. CASE where[f] = "work"
        BY <1>T, <2>2, <2>3, <3>1, Taken
      <3>2. CASE where[f] # "work"
        BY <1>T, <2>2, <3>2 DEF CTypeOK
      <3>3. QED
        BY <3>1, <3>2
    <2>5. CTypeOK'
      BY <1>T, <2>1, <2>2, <2>4 DEF CTypeOK
    <2>6. ASSUME ~ moved' PROVE Still'
      <3>1. Still
        BY <2>1, <2>6 DEF CountInv, Counting
      <3>2. ASSUME NEW g \in Files PROVE Covered(g)'
        <4>1. CASE g = f /\ where[g] = "work"
          BY <1>Q, <2>4, <4>1 DEF Covered
        <4>2. CASE ~ (g = f /\ where[g] = "work")
          BY <1>V, <1>Q, <2>1, <2>2, <2>4, <3>1, <4>2 DEF Covered, Still
        <4>3. QED
          BY <4>1, <4>2
      <3>3. QED
        BY <1>V, <1>Q, <2>1, <2>4, <3>1, <3>2 DEF Still
    <2>7. QED
      BY <2>1, <2>5, <2>6 DEF CountInv, QuietCountComplete
  <1>5. CASE CountDone
    <2>1. /\ step = "files" /\ step' = "done" /\ listed = {}
          /\ UNCHANGED <<listed, counted, problem, onRecord, moved>>
      BY <1>5 DEF CountDone
    <2>2. CTypeOK'
      BY <1>T, <2>1 DEF CTypeOK
    <2>3. ASSUME ~ moved', ~ problem'
          PROVE  onRecord' \subseteq counted' \cup UNION {manifests'[s] : s \in Stores \ {Own}}
      <3>1. Still
        BY <2>1, <2>3 DEF CountInv, Counting
      <3>2. QED
        BY <1>V, <2>1, <2>3, <3>1, Complete DEF Still
    <2>4. QED
      BY <2>1, <2>2, <2>3 DEF CountInv, Counting, QuietCountComplete
  <1>6. QED
    BY <1>1, <1>2, <1>3, <1>4, <1>5 DEF CountStep

\* A step of a start or of a drain, seen by the count.
LEMMA StepBeside ==
  ASSUME LogInv, CountInv, Next, UNCHANGED <<step, listed, counted, problem, onRecord>>,
         moved' = (moved \/ step \notin {"idle", "done"})
  PROVE  CountInv'
  <1>1. moved' \in BOOLEAN /\ (moved => moved') /\ (step \notin {"idle", "done"} => moved')
    BY Zenon DEF CountInv, CTypeOK
  <1>2. CTypeOK'
    BY <1>1 DEF CountInv, CTypeOK
  <1>3. Counting' => moved'
    BY <1>1 DEF Counting
  <1>4. \A s \in Stores : manifests[s] \subseteq manifests'[s]
    BY ManifestsGrow DEF LogInv, PendInv
  <1>5. QuietCountComplete'
    <2> SUFFICES ASSUME step = "done", ~ moved, ~ problem
                 PROVE  onRecord \subseteq counted \cup UNION {manifests'[s] : s \in Stores \ {Own}}
      BY <1>1 DEF QuietCountComplete
    <2>1. onRecord \subseteq counted \cup UNION {manifests[s] : s \in Stores \ {Own}}
      BY DEF CountInv, QuietCountComplete
    <2>2. QED
      BY <1>4, <2>1
  <1>6. QED
    BY <1>2, <1>3, <1>5 DEF CountInv

LEMMA StepCount == LogInv /\ Calm /\ CountInv /\ [CNext]_<<vars, count>> => LogInv' /\ Calm' /\ CountInv'
  <1> SUFFICES ASSUME LogInv, Calm, CountInv, [CNext]_<<vars, count>> PROVE LogInv' /\ Calm' /\ CountInv'
    OBVIOUS
  <1>1. [Next]_vars
    BY DEF CNext, CountStep, CountManifests, ListDraining, CountPend, CountDraining, CountDone
  <1>2. LogInv' /\ Calm'
    BY <1>1, StepPendInv, StepFree, StepCalm DEF LogInv, PendInv, Struct
  <1>3. CASE CountStep
    BY <1>2, <1>3, StepOfCount
  <1>4. CASE Next /\ UNCHANGED <<step, listed, counted, problem, onRecord>>
             /\ moved' = (moved \/ step \notin {"idle", "done"})
    BY <1>2, <1>4, StepBeside
  <1>5. CASE UNCHANGED <<vars, count>>
    <2>1. UNCHANGED <<where, text, ragged, manifests, recorded, pc, count>>
      BY <1>5 DEF vars, files, history
    <2>2. CTypeOK' /\ QuietCountComplete'
      BY <2>1 DEF count, CountInv, CTypeOK, QuietCountComplete
    <2>3. Counting' /\ ~ moved' => Still'
      <3>1. \A f \in Files : LinesOf(f)' = LinesOf(f)
        BY <2>1 DEF LinesOf
      <3>2. \A f \in Files : Covered(f)' <=> Covered(f)
        BY <2>1, <3>1 DEF count, Covered
      <3>3. QED
        BY <2>1, <3>2 DEF count, CountInv, Counting, Still, Quiet
    <2>4. QED
      BY <1>2, <2>2, <2>3 DEF CountInv
  <1>6. QED
    BY <1>2, <1>3, <1>4, <1>5 DEF CNext

\* The count keeps to its types and, once it is finished, has read every file
\* it listed.
THEOREM CountTypeCorrect == CSpec => []CTypeOK
  BY InitCount, StepCount, PTL DEF CSpec, CountInv

(* A count during which nothing moved has every failure on record, those of *)
(* dead drains included, or says that it has not (pipeline.py:1077-1079):   *)
(* for any number of starts, stores, files and faults before it.            *)
THEOREM QuietCount == CSpec => []QuietCountComplete
  BY InitCount, StepCount, PTL DEF CSpec, CountInv
=============================================================================
