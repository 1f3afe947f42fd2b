--------------------------- MODULE Retention_proofs ---------------------------
(* Retention for any number of days and faults: type correctness, deletions *)
(* that are on record, and seals that hold.                                 *)
EXTENDS Retention, TLAPS

Removing == at # 0 /\ step = "remove"

\* Where a pass is, and what that says of the content it is at.
PassOK ==
    /\ at = 0 <=> step = "idle"
    /\ Removing => Present(Kind) /\ Due(Kind)
    /\ step = "log" => content[Kind] \in {"part", "gone"}
    /\ step = "note" => content[Kind] = "gone" /\ log[Kind] = "verified"

RecordInv == TypeOK /\ PassOK /\ DeletionRecorded

\* A sealed kind that was not due is whole, its seal lasts, and no pass is about
\* to remove it.
EarlyKept ==
    \A k \in early :
        /\ k # "causal" /\ content[k] = "whole" /\ seal[k] # Never /\ seal[k] > today
        /\ ~ (Removing /\ Kind = k)

\* The causal states have the snapshot's date until a removal of either began.
SameDate ==
    content["snapshots"] = "whole" /\ content["causal"] \in {"none", "whole"} =>
        expires["causal"] = expires["snapshots"]

\* Once they are taken, the snapshot is due or not whole: no seal comes early.
CausalTaken ==
    (Removing /\ Kind = "causal") \/ content["causal"] \in {"part", "gone"} =>
        /\ content["snapshots"] # "whole" \/ Due("snapshots")
        /\ "snapshots" \notin early

SealInv == EarlyKept /\ SameDate /\ CausalTaken

-----------------------------------------------------------------------------
LEMMA KindType == ASSUME TypeOK, at # 0 PROVE Kind \in Kinds
  <1>1. at = 1 \/ at = 2 \/ at = 3
    BY DEF TypeOK
  <1>2. QED
    BY <1>1 DEF Kind, Order, Kinds

LEMMA ForwardType ==
  ASSUME TypeOK, at # 0, Forward
  PROVE  at' \in 0 .. 3 /\ step' \in {"idle", "judge"} /\ (at' = 0 <=> step' = "idle")
  BY DEF TypeOK, Forward

LEMMA InitRecordInv == ASSUME ConstAssumption PROVE Init => RecordInv
  <1> SUFFICES ASSUME Init PROVE RecordInv
    OBVIOUS
  <1>1. today \in Day /\ faults \in 0 .. MaxFaults
    BY DEF Init, ConstAssumption, Day
  <1>2. content \in [Kinds -> {"none", "whole", "part", "gone"}]
    BY DEF Init
  <1>3. expires \in [Kinds -> Date] /\ seal \in [Kinds -> Date]
    BY DEF Init, Date, Day, ConstAssumption
  <1>4. log \in [Kinds -> {"none", "failed", "verified"}] /\ killed \in [Kinds -> BOOLEAN]
    BY DEF Init
  <1>5. manifest \in BOOLEAN
    BY Zenon DEF Init
  <1>6. TypeOK
    BY <1>1, <1>2, <1>3, <1>4, <1>5 DEF Init, TypeOK
  <1>7. PassOK
    BY DEF Init, PassOK, Removing
  <1>8. DeletionRecorded
    BY DEF Init, DeletionRecorded
  <1>9. QED
    BY <1>6, <1>7, <1>8 DEF RecordInv

LEMMA InitSealInv == ASSUME ConstAssumption PROVE Init => SealInv
  BY DEF Init, SealInv, EarlyKept, SameDate, CausalTaken, Removing, Kinds

-----------------------------------------------------------------------------
LEMMA StepType == ASSUME ConstAssumption, RecordInv, [Next]_vars PROVE TypeOK'
  <1> USE DEF RecordInv
  <1>1. CASE Begin
    BY <1>1 DEF Begin, Pass, TypeOK, Day
  <1>2. CASE Keep
    <2>1. at # 0
      BY <1>2 DEF Keep, PassOK
    <2>2. at' \in 0 .. 3 /\ step' \in {"idle", "judge"}
      BY <1>2, <2>1, ForwardType DEF Keep
    <2>3. QED
      BY <1>2, <2>2 DEF Keep, Pass, TypeOK, Day
  <1>3. CASE Take
    BY <1>3 DEF Take, Pass, TypeOK, Day
  <1>4. CASE Remove
    BY <1>4 DEF Remove, Pass, TypeOK, Day
  <1>5. CASE Append
    <2>1. at # 0
      BY <1>5 DEF Append, PassOK
    <2>2. at' \in 0 .. 3 /\ step' \in {"idle", "judge", "note"}
      BY <1>5, <2>1, ForwardType DEF Append, TypeOK
    <2>3. log' \in [Kinds -> {"none", "failed", "verified"}]
      BY <1>5 DEF Append, TypeOK
    <2>4. QED
      BY <1>5, <2>2, <2>3 DEF Append, Pass, TypeOK, Day
  <1>6. CASE Note
    <2>1. at # 0
      BY <1>6 DEF Note, PassOK
    <2>2. at' \in 0 .. 3 /\ step' \in {"idle", "judge"}
      BY <1>6, <2>1, ForwardType DEF Note
    <2>3. noted' \subseteq Kinds
      BY <1>6, <2>1, KindType DEF Note, TypeOK
    <2>4. QED
      BY <1>6, <2>2, <2>3 DEF Note, Pass, TypeOK, Day
  <1>7. CASE RemoveFails
    <2>1. faults' \in 0 .. MaxFaults
      BY <1>7 DEF RemoveFails, Fault, TypeOK, ConstAssumption
    <2>2. content' \in [Kinds -> {"none", "whole", "part", "gone"}]
      BY <1>7 DEF RemoveFails, TypeOK
    <2>3. at # 0
      BY <1>7 DEF RemoveFails, PassOK
    <2>4. expires[Kind] \in Date /\ Horizon \in Date /\ Never \in Date
      BY <2>3, KindType DEF TypeOK, Date, Day, ConstAssumption
    <2>5. expires' \in [Kinds -> Date]
      <3>1. PICK d \in {expires[Kind], IF Kind = "payloads" THEN Never ELSE Horizon} :
               expires' = IF manifest THEN expires ELSE [expires EXCEPT ![Kind] = d]
        BY <1>7 DEF RemoveFails
      <3>2. d \in Date
        BY <2>4
      <3>3. expires' = expires \/ expires' = [expires EXCEPT ![Kind] = d]
        BY <3>1, Zenon
      <3>4. QED
        BY <3>2, <3>3 DEF TypeOK
    <2>6. QED
      BY <1>7, <2>1, <2>2, <2>5 DEF RemoveFails, TypeOK, Day
  <1>8. CASE Die
    <2>1. faults' \in 0 .. MaxFaults
      BY <1>8 DEF Die, Fault, TypeOK, ConstAssumption
    <2>2. killed' \in [Kinds -> BOOLEAN]
      BY <1>8, Zenon DEF Die, TypeOK
    <2>3. QED
      BY <1>8, <2>1, <2>2 DEF Die, Pass, TypeOK, Day
  <1>9. CASE Tomorrow
    BY <1>9 DEF Tomorrow, TypeOK, Day, ConstAssumption
  <1>10. CASE \E k \in Kinds, d \in Date : SealUntil(k, d)
    <2>1. PICK k \in Kinds, d \in Date : SealUntil(k, d)
      BY <1>10
    <2>2. seal' \in [Kinds -> Date]
      BY <2>1 DEF SealUntil, TypeOK
    <2>3. early' \subseteq Kinds
      BY <2>1 DEF SealUntil, TypeOK
    <2>4. QED
      BY <2>1, <2>2, <2>3 DEF SealUntil, TypeOK, Day
  <1>11. CASE UNCHANGED vars
    BY <1>11 DEF vars, TypeOK, Day
  <1>12. QED
    BY <1>1, <1>2, <1>3, <1>4, <1>5, <1>6, <1>7, <1>8, <1>9, <1>10, <1>11 DEF Next, Work

\* Where a pass goes on to, nothing is removed or recorded yet.
LEMMA ForwardPass ==
  ASSUME TypeOK, at # 0, Forward
  PROVE  PassOK'
  BY DEF TypeOK, Forward, PassOK, Removing

LEMMA StepPass == ASSUME ConstAssumption, RecordInv, [Next]_vars PROVE PassOK'
  <1> USE DEF RecordInv
  <1>1. CASE Begin
    BY <1>1 DEF Begin, PassOK, Removing
  <1>2. CASE Keep
    BY <1>2, ForwardPass DEF Keep, PassOK
  <1>3. CASE Take
    BY <1>3 DEF Take, Pass, PassOK, Removing, Present, Due, Kind
  <1>4. CASE Remove
    <2>1. at # 0 /\ Kind \in Kinds
      BY <1>4, KindType DEF Remove, PassOK
    <2>2. content'[Kind] = "gone" /\ Kind' = Kind
      BY <1>4, <2>1 DEF Remove, TypeOK, Kind
    <2>3. QED
      BY <1>4, <2>1, <2>2 DEF Remove, PassOK, Removing
  <1>5. CASE Append
    <2>1. at # 0 /\ Kind \in Kinds
      BY <1>5, KindType DEF Append, PassOK
    <2>2. CASE content[Kind] = "gone"
      <3>1. log'[Kind] = "verified" /\ Kind' = Kind
        BY <1>5, <2>1, <2>2 DEF Append, TypeOK, Kind
      <3>2. QED
        BY <1>5, <2>1, <2>2, <3>1 DEF Append, Pass, PassOK, Removing
    <2>3. CASE content[Kind] # "gone"
      BY <1>5, <2>1, <2>3, ForwardPass DEF Append
    <2>4. QED
      BY <2>2, <2>3
  <1>6. CASE Note
    BY <1>6, ForwardPass DEF Note, PassOK
  <1>7. CASE RemoveFails
    <2>1. at # 0 /\ Kind \in Kinds
      BY <1>7, KindType DEF RemoveFails, PassOK
    <2>2. content'[Kind] = "part" /\ Kind' = Kind
      BY <1>7, <2>1 DEF RemoveFails, TypeOK, Kind
    <2>3. QED
      BY <1>7, <2>1, <2>2 DEF RemoveFails, PassOK, Removing
  <1>8. CASE Die
    BY <1>8 DEF Die, PassOK, Removing
  <1>9. CASE Tomorrow
    <2>1. Kind' = Kind
      BY <1>9 DEF Tomorrow, Kind
    <2>2. Removing => at # 0 /\ Kind \in Kinds
      BY KindType DEF Removing
    <2>3. Removing /\ Due(Kind) => Due(Kind)'
      BY <1>9, <2>1, <2>2 DEF Tomorrow, Due, TypeOK, Date, Day
    <2>4. QED
      BY <1>9, <2>1, <2>3 DEF Tomorrow, PassOK, Removing, Present
  <1>10. CASE \E k \in Kinds, d \in Date : SealUntil(k, d)
    BY <1>10 DEF SealUntil, PassOK, Removing, Present, Due, Kind
  <1>11. CASE UNCHANGED vars
    BY <1>11 DEF vars, PassOK, Removing, Present, Due, Kind
  <1>12. QED
    BY <1>1, <1>2, <1>3, <1>4, <1>5, <1>6, <1>7, <1>8, <1>9, <1>10, <1>11 DEF Next, Work

-----------------------------------------------------------------------------
\* No pass is removing or recording what the manifest has as deleted.
LEMMA NotNoted ==
  ASSUME RecordInv, at # 0, step = "remove" \/ (step = "log" /\ content[Kind] # "gone")
  PROVE  Kind \notin noted
  BY DEF RecordInv, PassOK, Removing, Present, DeletionRecorded

LEMMA StepRecorded ==
  ASSUME ConstAssumption, RecordInv, [Next]_vars PROVE DeletionRecorded'
  <1> USE DEF RecordInv
  <1>1. CASE Begin
    BY <1>1 DEF Begin, Pass, DeletionRecorded
  <1>2. CASE Keep
    BY <1>2 DEF Keep, Pass, DeletionRecorded
  <1>3. CASE Take
    BY <1>3 DEF Take, Pass, DeletionRecorded
  <1>4. CASE Remove
    <2>1. at # 0 /\ Kind \in Kinds /\ Kind \notin noted
      BY <1>4, KindType, NotNoted DEF Remove, PassOK
    <2>2. Kind' = Kind /\ at' # 0 /\ step' = "log"
      BY <1>4, <2>1 DEF Remove, Kind
    <2>3. \A k \in Kinds \ {Kind} : content'[k] = content[k]
      BY <1>4 DEF Remove, TypeOK
    <2>4. QED
      BY <1>4, <2>1, <2>2, <2>3 DEF Remove, Pass, DeletionRecorded, TypeOK
  <1>5. CASE Append
    <2>1. at # 0 /\ Kind \in Kinds
      BY <1>5, KindType DEF Append, PassOK
    <2>2. \A k \in Kinds \ {Kind} : log'[k] = log[k]
      BY <1>5 DEF Append, TypeOK
    <2>3. content[Kind] = "gone" => log'[Kind] = "verified"
      BY <1>5, <2>1 DEF Append, TypeOK
    <2>4. content[Kind] # "gone" => Kind \notin noted
      BY DEF DeletionRecorded
    <2>5. content' = content /\ killed' = killed /\ noted' = noted
      BY <1>5 DEF Append, Pass
    <2>6. QED
      BY <2>1, <2>2, <2>3, <2>4, <2>5 DEF DeletionRecorded, TypeOK
  <1>6. CASE Note
    <2>1. content[Kind] = "gone" /\ log[Kind] = "verified"
      BY <1>6 DEF Note, PassOK
    <2>2. noted' = noted \/ noted' = noted \cup {Kind}
      BY <1>6, Zenon DEF Note
    <2>3. QED
      BY <1>6, <2>1, <2>2 DEF Note, Pass, DeletionRecorded
  <1>7. CASE RemoveFails
    <2>1. at # 0 /\ Kind \in Kinds /\ Kind \notin noted
      BY <1>7, KindType, NotNoted DEF RemoveFails, PassOK
    <2>2. \A k \in Kinds \ {Kind} : content'[k] = content[k]
      BY <1>7 DEF RemoveFails, TypeOK
    <2>3. content'[Kind] = "part"
      BY <1>7, <2>1 DEF RemoveFails, TypeOK
    <2>4. QED
      BY <1>7, <2>1, <2>2, <2>3 DEF RemoveFails, DeletionRecorded, TypeOK
  <1>8. CASE Die
    <2>1. \A k \in Kinds : killed[k] => killed'[k]
      BY <1>8, Zenon DEF Die
    <2>2. step = "log" /\ content[Kind] = "gone" /\ Kind \in Kinds => killed'[Kind]
      BY <1>8, Zenon DEF Die
    <2>3. log' = log /\ content' = content /\ noted' = noted
      BY <1>8 DEF Die, Pass
    <2>4. QED
      BY <2>1, <2>2, <2>3 DEF DeletionRecorded
  <1>9. CASE Tomorrow
    BY <1>9 DEF Tomorrow, DeletionRecorded, Kind
  <1>10. CASE \E k \in Kinds, d \in Date : SealUntil(k, d)
    BY <1>10 DEF SealUntil, DeletionRecorded, Kind
  <1>11. CASE UNCHANGED vars
    BY <1>11 DEF vars, DeletionRecorded, Kind
  <1>12. QED
    BY <1>1, <1>2, <1>3, <1>4, <1>5, <1>6, <1>7, <1>8, <1>9, <1>10, <1>11 DEF Next, Work

-----------------------------------------------------------------------------
\* Each variable stays in its range.
THEOREM TypeCorrect == ASSUME ConstAssumption PROVE Spec => []TypeOK
  <1>1. Init => RecordInv
    BY InitRecordInv
  <1>2. RecordInv /\ [Next]_vars => RecordInv'
    BY StepType, StepPass, StepRecorded DEF RecordInv
  <1>3. RecordInv => TypeOK
    BY DEF RecordInv
  <1>4. QED
    BY <1>1, <1>2, <1>3, PTL DEF Spec

LEMMA RecordInvariant == ASSUME ConstAssumption PROVE Spec => []RecordInv
  <1>1. Init => RecordInv
    BY InitRecordInv
  <1>2. RecordInv /\ [Next]_vars => RecordInv'
    BY StepType, StepPass, StepRecorded DEF RecordInv
  <1>3. QED
    BY <1>1, <1>2, PTL DEF Spec

\* verified_delete: whatever is gone is in DELETIONS.log, unless a pass died
\* between the two, and the manifest notes only verified deletions.
THEOREM DeletionsRecorded == ASSUME ConstAssumption PROVE Spec => []DeletionRecorded
  <1>1. RecordInv => DeletionRecorded
    BY DEF RecordInv
  <1>2. QED
    BY <1>1, RecordInvariant, PTL

-----------------------------------------------------------------------------
\* A date that has come stays past.
LEMMA DueStays ==
  ASSUME TypeOK, NEW k \in Kinds, Due(k), today' = today \/ today' = today + 1,
         expires'[k] = expires[k]
  PROVE  Due(k)'
  BY DEF Due, TypeOK, Date, Day

LEMMA StepEarly ==
  ASSUME ConstAssumption, RecordInv, SealInv, [Next]_vars PROVE EarlyKept'
  <1> USE DEF RecordInv, SealInv
  <1>1. CASE Begin
    BY <1>1 DEF Begin, Pass, EarlyKept, Removing
  <1>2. CASE Keep
    <2>1. ~ Removing'
      BY <1>2 DEF Keep, Forward, Removing
    <2>2. QED
      BY <1>2, <2>1 DEF Keep, Pass, EarlyKept
  <1>3. CASE Take
    <2>1. Kind \in early => Kind # "causal" /\ content[Kind] = "whole"
                              /\ seal[Kind] # Never /\ seal[Kind] > today
      BY DEF EarlyKept
    <2>2. Kind \notin early
      BY <1>3, <2>1 DEF Take, Sealed, Sums
    <2>3. Kind' = Kind
      BY <1>3 DEF Take, Kind
    <2>4. QED
      BY <1>3, <2>2, <2>3 DEF Take, Pass, EarlyKept
  <1>4. CASE Remove
    <2>1. Kind \notin early
      BY <1>4 DEF Remove, EarlyKept, PassOK, Removing
    <2>2. \A k \in early : content'[k] = content[k]
      BY <1>4, <2>1 DEF Remove, TypeOK
    <2>3. QED
      BY <1>4, <2>2 DEF Remove, Pass, EarlyKept, Removing
  <1>5. CASE Append
    <2>1. ~ Removing'
      BY <1>5 DEF Append, Forward, Removing
    <2>2. QED
      BY <1>5, <2>1 DEF Append, Pass, EarlyKept
  <1>6. CASE Note
    <2>1. ~ Removing'
      BY <1>6 DEF Note, Forward, Removing
    <2>2. QED
      BY <1>6, <2>1 DEF Note, Pass, EarlyKept
  <1>7. CASE RemoveFails
    <2>1. Kind \notin early
      BY <1>7 DEF RemoveFails, EarlyKept, PassOK, Removing
    <2>2. \A k \in early : content'[k] = content[k]
      BY <1>7, <2>1 DEF RemoveFails, TypeOK
    <2>3. QED
      BY <1>7, <2>2 DEF RemoveFails, EarlyKept, Removing
  <1>8. CASE Die
    BY <1>8 DEF Die, Pass, EarlyKept, Removing
  <1>9. CASE Tomorrow
    BY <1>9 DEF Tomorrow, EarlyKept, Removing, Kind
  <1>10. CASE \E k \in Kinds, d \in Date : SealUntil(k, d)
    <2>1. PICK k \in Kinds, d \in Date : SealUntil(k, d)
      BY <1>10
    <2>2. Removing' <=> Removing
      BY <2>1 DEF SealUntil, Removing
    <2>3. Kind' = Kind
      BY <2>1 DEF SealUntil, Kind
    <2>4. \A j \in Kinds \ {k} : seal'[j] = seal[j]
      BY <2>1 DEF SealUntil, TypeOK
    <2>5. seal'[k] = d
      BY <2>1 DEF SealUntil, TypeOK
    <2>6. Removing /\ Kind = k => Due(k)
      BY DEF PassOK
    <2>7. k \in early' => d # Never /\ d > today /\ ~ (Removing /\ Kind = k)
      <3>1. d = Never \/ d <= today => k \notin early'
        BY <2>1 DEF SealUntil
      <3>2. d # Never => d \in Nat /\ today \in Nat
        BY DEF TypeOK, Date, Day
      <3>3. Due(k) /\ k \in early' => k \in early
        BY <2>1, <3>1 DEF SealUntil
      <3>4. QED
        BY <2>6, <3>1, <3>2, <3>3 DEF EarlyKept
    <2>8. \A j \in early' : j = k \/ j \in early
      BY <2>1 DEF SealUntil
    <2>9. early' \subseteq Kinds
      BY StepType DEF TypeOK
    <2>10. QED
      BY <2>1, <2>2, <2>3, <2>4, <2>5, <2>7, <2>8, <2>9 DEF SealUntil, EarlyKept
  <1>11. CASE UNCHANGED vars
    BY <1>11 DEF vars, EarlyKept, Removing, Kind
  <1>12. QED
    BY <1>1, <1>2, <1>3, <1>4, <1>5, <1>6, <1>7, <1>8, <1>9, <1>10, <1>11 DEF Next, Work

LEMMA StepDate ==
  ASSUME ConstAssumption, RecordInv, SealInv, [Next]_vars PROVE SameDate'
  <1> USE DEF RecordInv, SealInv
  <1>1. CASE Remove
    <2>1. \A k \in Kinds : content'[k] = content[k] \/ content'[k] = "gone"
      BY <1>1 DEF Remove, TypeOK
    <2>2. QED
      BY <1>1, <2>1 DEF Remove, Pass, SameDate, Kinds
  <1>2. CASE RemoveFails
    <2>1. Kind \in Kinds
      BY <1>2, KindType DEF RemoveFails, PassOK
    <2>2. content'[Kind] = "part"
      BY <1>2, <2>1 DEF RemoveFails, TypeOK
    <2>3. \A k \in Kinds \ {Kind} : content'[k] = content[k]
      BY <1>2 DEF RemoveFails, TypeOK
    <2>4. \A k \in Kinds \ {Kind} : expires'[k] = expires[k]
      <3>1. PICK d : expires' = IF manifest THEN expires ELSE [expires EXCEPT ![Kind] = d]
        BY <1>2 DEF RemoveFails
      <3>2. expires' = expires \/ expires' = [expires EXCEPT ![Kind] = d]
        BY <3>1, Zenon
      <3>3. QED
        BY <3>2 DEF TypeOK
    <2>5. QED
      BY <2>1, <2>2, <2>3, <2>4 DEF SameDate, Kinds
  <1>3. CASE ~ Remove /\ ~ RemoveFails
    <2>1. UNCHANGED <<content, expires>>
      BY <1>3 DEF Next, Work, Begin, Keep, Take, Append, Note, Die, Tomorrow, SealUntil, Pass, vars
    <2>2. QED
      BY <2>1 DEF SameDate
  <1>4. QED
    BY <1>1, <1>2, <1>3

LEMMA StepCausal ==
  ASSUME ConstAssumption, RecordInv, SealInv, [Next]_vars PROVE CausalTaken'
  <1> USE DEF RecordInv, SealInv
  <1> DEFINE Taken == (Removing /\ Kind = "causal") \/ content["causal"] \in {"part", "gone"}
             Free == (content["snapshots"] # "whole" \/ Due("snapshots")) /\ "snapshots" \notin early
  <1>0. CausalTaken <=> (Taken => Free)
    BY DEF CausalTaken
  <1>1. CASE Take
    <2>1. Kind' = Kind /\ at # 0 /\ Kind \in Kinds
      BY <1>1, KindType DEF Take, Kind, PassOK
    <2>2. Free' <=> Free
      BY <1>1 DEF Take, Pass, Due
    <2>3. ASSUME Kind = "causal" PROVE Free
      <3>1. Present("causal") /\ Due("causal") /\ ~ Sealed("causal")
        BY <1>1, <2>3 DEF Take
      <3>2. "snapshots" \notin early
        BY <3>1 DEF Sealed, Sums, EarlyKept
      <3>3. CASE content["causal"] = "whole"
        BY <3>1, <3>2, <3>3 DEF SameDate, Due
      <3>4. CASE content["causal"] = "part"
        BY <3>4, <1>0
      <3>5. QED
        BY <3>1, <3>3, <3>4 DEF Present
    <2>4. Taken' => Taken \/ Kind = "causal"
      BY <1>1, <2>1 DEF Take
    <2>5. QED
      BY <1>0, <2>2, <2>3, <2>4 DEF CausalTaken
  <1>2. CASE Remove \/ RemoveFails
    <2>1. Kind \in Kinds /\ Removing /\ Kind' = Kind
      BY <1>2, KindType DEF Remove, RemoveFails, PassOK, Removing, Kind
    <2>2. \A k \in Kinds \ {Kind} : content'[k] = content[k]
      BY <1>2 DEF Remove, RemoveFails, TypeOK
    <2>3. content'[Kind] # "whole"
      BY <1>2, <2>1 DEF Remove, RemoveFails, TypeOK
    <2>4. Taken' => Taken
      BY <1>2, <2>1, <2>2 DEF Remove, RemoveFails, Removing, Kinds
    <2>5. today' = today /\ early' = early
      BY <1>2 DEF Remove, RemoveFails, Pass
    <2>6. Kind # "snapshots" => expires'["snapshots"] = expires["snapshots"]
      <3>1. CASE Remove
        BY <3>1 DEF Remove, Pass
      <3>2. CASE RemoveFails
        <4>1. PICK d : expires' = IF manifest THEN expires ELSE [expires EXCEPT ![Kind] = d]
          BY <3>2 DEF RemoveFails
        <4>2. expires' = expires \/ expires' = [expires EXCEPT ![Kind] = d]
          BY <4>1, Zenon
        <4>3. QED
          BY <4>2 DEF TypeOK, Kinds
      <3>3. QED
        BY <1>2, <3>1, <3>2
    <2>7. Free => Free'
      BY <2>2, <2>3, <2>5, <2>6 DEF Due, Kinds
    <2>8. QED
      BY <1>0, <2>4, <2>7 DEF CausalTaken
  <1>3. CASE \E k \in Kinds, d \in Date : SealUntil(k, d)
    <2>1. PICK k \in Kinds, d \in Date : SealUntil(k, d)
      BY <1>3
    <2>2. Taken' <=> Taken
      BY <2>1 DEF SealUntil, Removing, Kind
    <2>3. Due("snapshots")' <=> Due("snapshots")
      BY <2>1 DEF SealUntil, Due
    <2>4. content' = content /\ content[k] = "whole"
      BY <2>1 DEF SealUntil
    <2>5. "snapshots" \in early' => "snapshots" \in early \/ (k = "snapshots" /\ ~ Due(k))
      BY <2>1 DEF SealUntil
    <2>6. Free => Free'
      BY <2>3, <2>4, <2>5
    <2>7. QED
      BY <1>0, <2>2, <2>6 DEF CausalTaken
  <1>4. CASE Tomorrow
    <2>1. Taken' <=> Taken
      BY <1>4 DEF Tomorrow, Removing, Kind
    <2>2. Due("snapshots") => Due("snapshots")'
      BY <1>4, DueStays DEF Tomorrow, Kinds
    <2>3. Free => Free'
      BY <1>4, <2>2 DEF Tomorrow
    <2>4. QED
      BY <1>0, <2>1, <2>3 DEF CausalTaken
  <1>5. CASE Begin \/ Keep \/ Append \/ Note \/ Die
    <2>1. UNCHANGED <<content, expires, today, early>>
      BY <1>5 DEF Begin, Keep, Append, Note, Die, Pass
    <2>2. ~ Removing'
      BY <1>5 DEF Begin, Keep, Append, Note, Die, Forward, Removing
    <2>3. QED
      BY <1>0, <2>1, <2>2 DEF CausalTaken, Due
  <1>6. CASE UNCHANGED vars
    BY <1>6 DEF vars, CausalTaken, Removing, Kind, Due
  <1>7. QED
    BY <1>1, <1>2, <1>3, <1>4, <1>5, <1>6 DEF Next, Work

\* review.py:774: what was sealed before it was due stays whole while the seal
\* lasts, and the causal states with their episode's snapshot.
THEOREM SealsHold == ASSUME ConstAssumption PROVE Spec => []SealHolds
  <1>1. Init => RecordInv /\ SealInv
    BY InitRecordInv, InitSealInv
  <1>2. RecordInv /\ SealInv /\ [Next]_vars => RecordInv' /\ SealInv'
    BY StepType, StepPass, StepRecorded, StepEarly, StepDate, StepCausal DEF RecordInv, SealInv
  <1>3. RecordInv /\ SealInv => SealHolds
    BY DEF RecordInv, TypeOK, SealInv, EarlyKept, CausalTaken, SealHolds, Kinds
  <1>4. QED
    BY <1>1, <1>2, <1>3, PTL DEF Spec
===============================================================================
