----------------------------- MODULE Replay_proofs ----------------------------
(* What stands behind a replay, for any values of the constants: the one     *)
(* registered predicate, the sealed states and their admission, the          *)
(* start-only clone, the audit that admits episodes, the backstop that       *)
(* watches over the captures, and the twin harness that replays and counts.  *)
EXTENDS Registration, Causal, Clone, Twin, Audit, Backstop, FiniteSetTheorems, WellFoundedInduction, TLAPS

-----------------------------------------------------------------------------
(* Registration for any number of registrars, launchers and faults: type    *)
(* correctness, and one predicate for all replays of an episode.            *)

\* The file is being made by one registrar at a time, and is there meanwhile.
Making(r) == reg[r] \in {"write", "commit", "unlink"}
OneMaker ==
    \A r \in Registrars : Making(r) =>
        file # Nothing /\ \A q \in Registrars : Making(q) => q = r

\* The version that git had first.
First(v) == commits # <<>> /\ commits[1] = v

\* A file read and not yet compared with HEAD is still there, unless it changed.
Reads ==
    \A l \in Launchers \ raced :
        /\ run[l] = "compare" => seen[l] = file
        /\ run[l] = "recompare" => checked[l] = file

\* A verification past its comparison has read a version that git had, and one
\* that has counted has read the first.
Had(v) == \E i \in 1 .. Len(commits) : commits[i] = v
VerifiedOnce(l) == run[l] \in {"admit", "recompare", "recount", "launch", "done"}
VerifiedTwice(l) == run[l] \in {"launch", "done"}
Verifications ==
    \A l \in Launchers :
        /\ run[l] \in {"count", "recount"} => commits # <<>>
        /\ l \notin raced /\ run[l] = "count" => Had(seen[l])
        /\ l \notin raced /\ run[l] = "recount" => Had(checked[l])
        /\ VerifiedOnce(l) => commits # <<>> /\ (l \notin raced => First(seen[l]))
        /\ VerifiedTwice(l) /\ l \notin raced => First(checked[l])

RegInv == TypeOK /\ OneMaker /\ Reads /\ Verifications

-----------------------------------------------------------------------------
\* The history is only ever extended, so the versions it has stay.
LEMMA HistoryStays ==
  ASSUME TypeOK, Record \/ UNCHANGED commits
  PROVE  /\ commits # <<>> => commits' # <<>>
         /\ \A v : (First(v) => First(v)') /\ (Had(v) => Had(v)')
  <1>1. \/ commits' = commits
        \/ /\ commits \in Seq(Version) /\ commits' = Append(commits, file)
    BY DEF TypeOK, Record
  <1>2. QED
    BY <1>1 DEF First, Had

LEMMA RecordType ==
  ASSUME TypeOK, file # Nothing, Record
  PROVE  commits' \in Seq(Version)
  BY DEF TypeOK, Record

LEMMA InitRegInv == ASSUME ConstAssumption PROVE Init => RegInv
  <1> SUFFICES ASSUME Init PROVE RegInv
    OBVIOUS
  <1>1. commits \in Seq(Version)
    BY DEF Init
  <1>2. /\ file \in Version \cup {Nothing} /\ replays \in BOOLEAN
        /\ raced \subseteq Launchers /\ faults \in 0 .. MaxFaults
    <2>1. file = Nothing /\ replays = FALSE /\ raced = {} /\ faults = 0
      BY DEF Init
    <2>2. replays \in BOOLEAN
      BY <2>1, Zenon
    <2>3. faults \in 0 .. MaxFaults
      BY <2>1 DEF ConstAssumption
    <2>4. QED
      BY <2>1, <2>2, <2>3
  <1>3. reg \in [Registrars -> {"idle", "create", "write", "commit", "unlink",
                               "registered", "refused", "dead"}]
    BY DEF Init
  <1>4. /\ run \in [Launchers -> {"idle", "compare", "count", "admit", "recompare", "recount",
                                  "launch", "refused", "done"}]
        /\ seen \in [Launchers -> Registrars \cup {Nothing}]
        /\ checked \in [Launchers -> Registrars \cup {Nothing}]
    BY DEF Init
  <1>5. TypeOK
    BY <1>1, <1>2, <1>3, <1>4 DEF TypeOK
  <1>6. OneMaker /\ Reads /\ Verifications
    BY DEF Init, OneMaker, Making, Reads, Verifications, VerifiedOnce, VerifiedTwice
  <1>7. QED
    BY <1>5, <1>6 DEF RegInv

\* A step of a registrar, or by hand: the launchers keep what they verified.
LEMMA VerifiedKept ==
  ASSUME RegInv, UNCHANGED <<run, seen, checked>>, Record \/ UNCHANGED commits,
         UNCHANGED <<file, raced>> \/ \E v : Change(v)
  PROVE  Reads' /\ Verifications'
  <1>1. /\ commits # <<>> => commits' # <<>>
        /\ \A v : (First(v) => First(v)') /\ (Had(v) => Had(v)')
    BY HistoryStays DEF RegInv
  <1>2. /\ raced \subseteq raced'
        /\ file' # file => \A l \in Launchers : run[l] \in Comparing => l \in raced'
    BY DEF Change
  <1>3. Reads'
    BY <1>2 DEF RegInv, Reads, Comparing
  <1>4. Verifications'
    <2> SUFFICES ASSUME NEW l \in Launchers PROVE
          /\ run[l] \in {"count", "recount"} => commits' # <<>>
          /\ l \notin raced' /\ run[l] = "count" => Had(seen[l])'
          /\ l \notin raced' /\ run[l] = "recount" => Had(checked[l])'
          /\ VerifiedOnce(l) => commits' # <<>> /\ (l \notin raced' => First(seen[l])')
          /\ VerifiedTwice(l) /\ l \notin raced' => First(checked[l])'
      BY DEF Verifications, VerifiedOnce, VerifiedTwice
    <2>1. /\ First(seen[l]) => First(seen[l])'
          /\ First(checked[l]) => First(checked[l])'
          /\ Had(seen[l]) => Had(seen[l])'
          /\ Had(checked[l]) => Had(checked[l])'
      BY <1>1 DEF First, Had
    <2>2. QED
      BY <1>1, <1>2, <2>1 DEF RegInv, Verifications
  <1>5. QED
    BY <1>3, <1>4

\* A step of a launcher leaves the others as they are.
LEMMA OthersKept ==
  ASSUME RegInv, NEW l \in Launchers, NEW q \in Launchers, q # l,
         run'[q] = run[q], seen'[q] = seen[q], checked'[q] = checked[q],
         UNCHANGED <<file, commits>>, q \in raced' <=> q \in raced
  PROVE  /\ q \notin raced' /\ run'[q] = "compare" => seen'[q] = file'
         /\ q \notin raced' /\ run'[q] = "recompare" => checked'[q] = file'
         /\ run'[q] \in {"count", "recount"} => commits' # <<>>
         /\ q \notin raced' /\ run'[q] = "count" => Had(seen[q])'
         /\ q \notin raced' /\ run'[q] = "recount" => Had(checked[q])'
         /\ VerifiedOnce(q)' => commits' # <<>> /\ (q \notin raced' => First(seen[q])')
         /\ VerifiedTwice(q)' /\ q \notin raced' => First(checked[q])'
  BY DEF RegInv, Reads, Verifications, VerifiedOnce, VerifiedTwice, First, Had

LEMMA LaunchersKept ==
  ASSUME ConstAssumption, RegInv, NEW l \in Launchers,
         ReadEntry(l) \/ RereadEntry(l) \/ Compare(l) \/ Count(l) \/ Launch(l) \/ Retry(l)
  PROVE  Reads' /\ Verifications'
  <1>0. TypeOK /\ Reads /\ Verifications
    BY DEF RegInv
  <1>1. UNCHANGED <<file, commits>>
    BY DEF ReadEntry, RereadEntry, Compare, Count, Launch, Retry, kept
  <1>2. \A q \in Launchers : q # l =>
          /\ run'[q] = run[q] /\ seen'[q] = seen[q] /\ checked'[q] = checked[q]
          /\ q \in raced' <=> q \in raced
    BY <1>0 DEF ReadEntry, RereadEntry, Compare, Count, Launch, Retry, kept, Step, TypeOK
  <1> DEFINE Own ==
         /\ l \notin raced' /\ run'[l] = "compare" => seen'[l] = file
         /\ l \notin raced' /\ run'[l] = "recompare" => checked'[l] = file
         /\ run'[l] \in {"count", "recount"} => commits # <<>>
         /\ l \notin raced' /\ run'[l] = "count" => Had(seen'[l])
         /\ l \notin raced' /\ run'[l] = "recount" => Had(checked'[l])
         /\ VerifiedOnce(l)' => commits # <<>> /\ (l \notin raced' => First(seen'[l]))
         /\ VerifiedTwice(l)' /\ l \notin raced' => First(checked'[l])
  <1>3. Own
    <2> USE <1>0 DEF TypeOK, Step, kept, VerifiedOnce, VerifiedTwice, Verifications, Reads
    <2>1. CASE ReadEntry(l)
      <3>1. Entry \in {file, Nothing}
        BY DEF Entry
      <3>2. QED
        BY <2>1, <3>1 DEF ReadEntry
    <2>2. CASE RereadEntry(l)
      <3>1. Entry \in {file, Nothing}
        BY DEF Entry
      <3>2. QED
        BY <2>2, <3>1 DEF RereadEntry
    <2>3. CASE Compare(l)
      <3>1. Unmodified => commits # <<>> /\ Had(file)
        BY DEF Unmodified, Had
      <3>2. QED
        BY <2>3, <3>1 DEF Compare
    <2>4. CASE Count(l)
      <3>1. ASSUME NEW v, Once, Had(v) PROVE First(v)
        <4>1. Len(commits) = 1 /\ \E i \in 1 .. 1 : commits[i] = v
          BY <3>1 DEF Once, Had
        <4>2. commits # <<>> /\ commits[1] = v
          BY <4>1
        <4>3. QED
          BY <4>2 DEF First
      <3>2. QED
        BY <2>4, <3>1 DEF Count
    <2>5. CASE Launch(l)
      BY <2>5 DEF Launch
    <2>6. CASE Retry(l)
      BY <2>6 DEF Retry
    <2>7. QED
      BY <2>1, <2>2, <2>3, <2>4, <2>5, <2>6
  <1>4. \A q \in Launchers :
          /\ q \notin raced' /\ run'[q] = "compare" => seen'[q] = file'
          /\ q \notin raced' /\ run'[q] = "recompare" => checked'[q] = file'
          /\ run'[q] \in {"count", "recount"} => commits' # <<>>
          /\ q \notin raced' /\ run'[q] = "count" => Had(seen[q])'
          /\ q \notin raced' /\ run'[q] = "recount" => Had(checked[q])'
          /\ VerifiedOnce(q)' => commits' # <<>> /\ (q \notin raced' => First(seen[q])')
          /\ VerifiedTwice(q)' /\ q \notin raced' => First(checked[q])'
    <2> TAKE q \in Launchers
    <2>1. CASE q = l
      BY <1>1, <1>3, <2>1 DEF First, Had
    <2>2. CASE q # l
      BY <1>1, <1>2, <2>2, OthersKept
    <2>3. QED
      BY <2>1, <2>2
  <1> HIDE DEF Own
  <1>5. QED
    BY <1>4 DEF Reads, Verifications

LEMMA StepRegInv == ASSUME ConstAssumption PROVE RegInv /\ [Next]_vars => RegInv'
  <1> SUFFICES ASSUME RegInv, [Next]_vars PROVE RegInv'
    OBVIOUS
  <1> USE DEF ConstAssumption, Fault, Go, rest, Change
  <1>0. TypeOK /\ OneMaker
    BY DEF RegInv
  <1>1. ASSUME NEW r \in Registrars, Check(r) PROVE RegInv'
    <2>1. TypeOK'
      BY <1>0, <1>1 DEF Check, TypeOK
    <2>2. OneMaker'
      BY <1>0, <1>1 DEF Check, TypeOK, OneMaker, Making
    <2>3. QED
      BY <1>1, <2>1, <2>2, VerifiedKept DEF Check, RegInv
  <1>2. ASSUME NEW r \in Registrars, Create(r) PROVE RegInv'
    <2>1. TypeOK'
      BY <1>0, <1>2 DEF Create, TypeOK, Version
    <2>2. OneMaker'
      BY <1>0, <1>2 DEF Create, TypeOK, OneMaker, Making
    <2>3. QED
      BY <1>2, <2>1, <2>2, VerifiedKept DEF Create, RegInv
  <1>3. ASSUME NEW r \in Registrars, Write(r) PROVE RegInv'
    <2>1. TypeOK'
      BY <1>0, <1>3 DEF Write, TypeOK, Version
    <2>2. OneMaker'
      BY <1>0, <1>3 DEF Write, TypeOK, OneMaker, Making
    <2>3. QED
      BY <1>3, <2>1, <2>2, VerifiedKept DEF Write, RegInv
  <1>4. ASSUME NEW r \in Registrars, Commit(r) PROVE RegInv'
    <2>1. file # Nothing
      BY <1>0, <1>4 DEF Commit, OneMaker, Making
    <2>2. TypeOK'
      BY <1>0, <1>4, <2>1, RecordType DEF Commit, TypeOK
    <2>3. OneMaker'
      BY <1>0, <1>4 DEF Commit, TypeOK, OneMaker, Making
    <2>4. QED
      BY <1>4, <2>2, <2>3, VerifiedKept DEF Commit, RegInv
  <1>5. ASSUME NEW r \in Registrars, CommitFails(r) PROVE RegInv'
    <2>1. file # Nothing
      BY <1>0, <1>5 DEF CommitFails, OneMaker, Making
    <2>2. TypeOK'
      BY <1>0, <1>5, <2>1, RecordType DEF CommitFails, TypeOK
    <2>3. OneMaker'
      BY <1>0, <1>5 DEF CommitFails, TypeOK, OneMaker, Making
    <2>4. QED
      BY <1>5, <2>2, <2>3, VerifiedKept DEF CommitFails, RegInv
  <1>6. ASSUME NEW r \in Registrars, Unlink(r) PROVE RegInv'
    <2>1. TypeOK'
      BY <1>0, <1>6 DEF Unlink, TypeOK
    <2>2. OneMaker'
      BY <1>0, <1>6 DEF Unlink, TypeOK, OneMaker, Making
    <2>3. QED
      BY <1>6, <2>1, <2>2, VerifiedKept DEF Unlink, RegInv
  <1>7. ASSUME NEW r \in Registrars, DieRegistering(r) PROVE RegInv'
    <2>1. TypeOK'
      BY <1>0, <1>7 DEF DieRegistering, TypeOK
    <2>2. OneMaker'
      BY <1>0, <1>7 DEF DieRegistering, TypeOK, OneMaker, Making
    <2>3. QED
      BY <1>7, <2>1, <2>2, VerifiedKept DEF DieRegistering, RegInv
  <1>8. CASE Edit
    <2>1. TypeOK'
      BY <1>0, <1>8 DEF Edit, TypeOK, Version
    <2>2. OneMaker'
      BY <1>0, <1>8 DEF Edit, TypeOK, OneMaker, Making
    <2>3. QED
      BY <1>8, <2>1, <2>2, VerifiedKept DEF Edit, RegInv
  <1>9. CASE CommitByHand
    <2>1. TypeOK'
      BY <1>0, <1>9, RecordType DEF CommitByHand, TypeOK
    <2>2. OneMaker'
      BY <1>0, <1>9 DEF CommitByHand, OneMaker, Making
    <2>3. QED
      BY <1>9, <2>1, <2>2, VerifiedKept DEF CommitByHand, RegInv
  <1>10. ASSUME NEW l \in Launchers,
                ReadEntry(l) \/ RereadEntry(l) \/ Compare(l) \/ Count(l) \/ Launch(l) \/ Retry(l)
         PROVE  RegInv'
    <2>1. TypeOK'
      <3> USE <1>0 DEF Step, TypeOK, kept
      <3>1. Entry \in Registrars \cup {Nothing}
        BY DEF Entry
      <3>2. CASE ReadEntry(l)
        BY <3>1, <3>2 DEF ReadEntry
      <3>3. CASE RereadEntry(l)
        BY <3>1, <3>3 DEF RereadEntry
      <3>4. CASE Compare(l)
        BY <3>4 DEF Compare
      <3>5. CASE Count(l)
        BY <3>5 DEF Count
      <3>6. CASE Launch(l)
        BY <3>6 DEF Launch
      <3>7. CASE Retry(l)
        BY <3>7 DEF Retry
      <3>8. QED
        BY <1>10, <3>2, <3>3, <3>4, <3>5, <3>6, <3>7
    <2>2. OneMaker'
      BY <1>0, <1>10 DEF ReadEntry, RereadEntry, Compare, Count, Launch, Retry, kept, OneMaker, Making
    <2>3. QED
      BY <1>10, <2>1, <2>2, LaunchersKept DEF RegInv
  <1>11. CASE UNCHANGED vars
    BY <1>11 DEF vars, RegInv, TypeOK, OneMaker, Making, Reads, Verifications, VerifiedOnce, VerifiedTwice,
       First, Had
  <1>12. QED
    BY <1>1, <1>2, <1>3, <1>4, <1>5, <1>6, <1>7, <1>8, <1>9, <1>10, <1>11 DEF Next

LEMMA Inductive == ASSUME ConstAssumption PROVE Spec => []RegInv
  <1>1. Init => RegInv
    BY InitRegInv
  <1>2. RegInv /\ [Next]_vars => RegInv'
    BY StepRegInv
  <1>3. QED
    BY <1>1, <1>2, PTL DEF Spec

-----------------------------------------------------------------------------
\* Each variable stays in its range; in particular nothing is committed while
\* there is no file.
THEOREM TypeCorrect == ASSUME ConstAssumption PROVE Spec => []TypeOK
  <1>1. RegInv => TypeOK
    BY DEF RegInv
  <1>2. QED
    BY <1>1, Inductive, PTL

\* All replays of an episode are launched with the one predicate that git first
\* had, which is the one whose checks admitted the episode, unless the file
\* changed between the first read of a verification and its second.
THEOREM RegistrationNeverReplaced == ASSUME ConstAssumption PROVE Spec => []OnePredicate
  <1>1. RegInv => OnePredicate
    BY DEF RegInv, OnePredicate, Verifications, VerifiedOnce, VerifiedTwice, First
  <1>2. QED
    BY <1>1, Inductive, PTL

-----------------------------------------------------------------------------
(* Clone for any number of moves of the source: types, and a clone that may  *)
(* be used holds the start's objects alone.                                  *)

Clones ==
    [pack : SUBSET Objects, loose : SUBSET Objects, borrowed : SUBSET Objects,
     refs : SUBSET (Names \cup {"start", "leftover"}), remote : SUBSET (Names \cup {"start"}),
     origin : BOOLEAN, log : BOOLEAN, detached : BOOLEAN, linked : BOOLEAN, hook : BOOLEAN]

Made == step \notin {"fetch", "clone"}

\* The start is in the pack, and a loose copy is of what the source had then.
CloneMade ==
    Made => /\ clone \in Clones /\ Start \subseteq clone.pack
            /\ step = "strip" => clone.loose = {}
            /\ moves = 0 => clone.loose \subseteq Post

\* What was proved of the clone holds of it, as long as it is about the clone
\* alone; P5 holds as long as the source has not moved.
ProofsHold ==
    /\ step \notin {"rebuild", "record"} => proofs = {}
    /\ step \in {"rebuild", "record"} =>
          /\ 2 \in proofs => P2(clone)
          /\ 3 \in proofs => P3(clone)
          /\ 4 \in proofs => P4(clone)
          /\ 5 \in proofs /\ moves = 0 => P5(clone)
          /\ 7 \in proofs => P7(clone)
          /\ 8 \in proofs => P8(clone)
          /\ 9 \in proofs => given = "whole"
          /\ 10 \in proofs => P10(clone)

Recorded == record # Nil /\ ~ record.error => step = "record" /\ record.failed = (1 .. 10) \ proofs

CloneInv ==
    /\ source \subseteq Names /\ packed \subseteq Names /\ store \subseteq Names /\ proofs \subseteq 1 .. 10
    /\ moves \in Nat
    /\ step \in {"fetch", "clone"} => clone = Nil
    /\ CloneMade /\ ProofsHold /\ Recorded

LEMMA ReachedObjects == ASSUME NEW S \in SUBSET Names PROVE Reached(S) \subseteq Objects
  BY DEF Reached, Objects

LEMMA InitCloneInv == ASSUME CloneAssumption PROVE CloneInit => CloneInv
  BY DEF CloneInit, CloneInv, CloneMade, ProofsHold, Recorded, Made

LEMMA StepCloneInv == ASSUME CloneAssumption PROVE CloneInv /\ [CloneNext]_cloneVars => CloneInv'
  <1> SUFFICES ASSUME CloneInv, [CloneNext]_cloneVars PROVE CloneInv'
    OBVIOUS
  <1>I. /\ source \subseteq Names /\ packed \subseteq Names /\ store \subseteq Names /\ moves \in Nat
        /\ CloneMade /\ ProofsHold /\ Recorded
    BY DEF CloneInv
  <1>1. CASE UNCHANGED cloneVars
    BY <1>1 DEF cloneVars, CloneInv, CloneMade, ProofsHold, Recorded, Made, P2, P3, P4, P5, P7, P8, P10, Post, Holds
  <1>2. CASE Move
    <2>1. moves' = moves + 1 /\ record = Nil /\ source' \subseteq Names
          /\ UNCHANGED <<packed, wrong, given, secrets, step, store, clone, proofs, record>>
      BY <1>2, <1>I DEF Move
    <2>2. moves' # 0 /\ moves' \in Nat
      BY <2>1, <1>I
    <2>3. CloneMade'
      BY <1>I, <2>1, <2>2 DEF CloneMade, Made
    <2>4. ProofsHold'
      BY <1>I, <2>1, <2>2 DEF ProofsHold, P2, P3, P4, P7, P8, P10
    <2>5. QED
      BY <1>I, <2>1, <2>2, <2>3, <2>4 DEF CloneInv, Recorded
  <1>3. CASE Fetch
    <2>1. step = "fetch" /\ step' = "clone" /\ store' \subseteq Names /\ record = Nil
          /\ UNCHANGED <<source, packed, wrong, given, secrets, moves, clone, proofs, record>>
      BY <1>3, <1>I DEF Fetch, At, Rest, Asked
    <2>2. QED
      BY <1>I, <2>1 DEF CloneInv, CloneMade, ProofsHold, Recorded, Made
  <1>4. CASE CloneStore
    <2>1. step = "clone" /\ step' = "strip" /\ record = Nil
          /\ UNCHANGED <<source, packed, wrong, given, secrets, moves, store, proofs, record>>
          /\ clone' = [pack |-> Start \cup Reached(store), loose |-> {}, borrowed |-> {},
                       refs |-> {"start"} \cup (store \cap {"tag"}), remote |-> store \cup {"start"},
                       origin |-> TRUE, log |-> TRUE, detached |-> FALSE, linked |-> FALSE, hook |-> FALSE]
      BY <1>4 DEF CloneStore, At, Rest
    <2>2. Reached(store) \subseteq Objects /\ Start \subseteq Objects
      BY <1>I, ReachedObjects DEF Objects
    <2>3. clone' \in Clones /\ Start \subseteq clone'.pack /\ clone'.loose = {}
      BY <1>I, <2>1, <2>2 DEF Clones
    <2>4. QED
      BY <1>I, <2>1, <2>3 DEF CloneInv, CloneMade, ProofsHold, Recorded, Made
  <1>5. CASE Strip
    <2>1. step = "strip" /\ step' = "break" /\ record = Nil /\ store' = {}
          /\ UNCHANGED <<source, packed, wrong, given, secrets, moves, proofs, record>>
          /\ clone' = [clone EXCEPT !.origin = "leave_remote" \in wrong,
                              !.remote = IF "leave_remote" \in wrong THEN @ ELSE {},
                              !.detached = TRUE, !.refs = @ \ {"start"}, !.log = "keep_reflog" \in wrong]
      BY <1>5 DEF Strip, At, Rest
    <2>2. clone \in Clones /\ Start \subseteq clone.pack /\ clone.loose = {}
      BY <1>I, <2>1 DEF CloneMade, Made
    <2>3. ("leave_remote" \in wrong) \in BOOLEAN /\ ("keep_reflog" \in wrong) \in BOOLEAN
      OBVIOUS
    <2>4. clone' \in Clones /\ clone'.pack = clone.pack /\ clone'.loose = {}
      BY <2>1, <2>2, <2>3 DEF Clones
    <2>5. QED
      BY <1>I, <2>1, <2>2, <2>4 DEF CloneInv, CloneMade, ProofsHold, Recorded, Made
  <1>6. CASE Break
    <2>1. step = "break" /\ step' = "prove" /\ record = Nil
          /\ UNCHANGED <<source, packed, wrong, given, secrets, moves, store, proofs, record>>
      BY <1>6 DEF Break, At, Rest
    <2>2. clone \in Clones /\ Start \subseteq clone.pack /\ (moves = 0 => clone.loose \subseteq Post)
      BY <1>I, <2>1 DEF CloneMade, Made
    <2> DEFINE refs == IF "keep_tag" \in wrong THEN clone.refs \cup {"leftover"} ELSE clone.refs
               borrowed == IF "add_alternates" \in wrong THEN Objects ELSE {}
               hook == "add_hook" \in wrong
               linked == "hardlink_pack" \in wrong /\ packed # {}
               pack == IF "hardlink_pack" \in wrong THEN clone.pack \cup Reached(packed) ELSE clone.pack
               loose == IF "copy_post_start_blob" \in wrong THEN Post \cap Blobs ELSE clone.loose
    <2>3. clone' = [clone EXCEPT !.refs = refs, !.borrowed = borrowed, !.hook = hook, !.linked = linked,
                                 !.pack = pack, !.loose = loose]
      BY <1>6 DEF Break
    <2>4. /\ refs \in SUBSET (Names \cup {"start", "leftover"}) /\ borrowed \in SUBSET Objects
          /\ hook \in BOOLEAN /\ pack \in SUBSET Objects /\ Start \subseteq pack /\ loose \in SUBSET Objects
          /\ (moves = 0 => loose \subseteq Post)
      BY <1>I, <2>2, ReachedObjects DEF Clones, Blobs
    <2>5. linked \in BOOLEAN
      BY Zenon
    <2> HIDE DEF refs, borrowed, hook, linked, pack, loose
    <2>6. clone' \in Clones /\ clone'.pack = pack /\ clone'.loose = loose
      BY <2>2, <2>3, <2>4, <2>5 DEF Clones
    <2>7. Post' = Post
      BY <2>1 DEF Post
    <2>8. CloneMade'
      BY <2>1, <2>4, <2>6, <2>7 DEF CloneMade, Made
    <2>9. QED
      BY <1>I, <2>1, <2>8 DEF CloneInv, ProofsHold, Recorded
  <1>7. CASE Prove
    <2>1. step = "prove" /\ step' = "rebuild" /\ record = Nil /\ proofs' = Passed(clone)
          /\ UNCHANGED <<source, packed, wrong, given, secrets, moves, store, clone, record>>
      BY <1>7 DEF Prove, At, Rest
    <2>2. /\ Passed(clone) \subseteq 1 .. 10 /\ 9 \notin Passed(clone)
          /\ 2 \in Passed(clone) => P2(clone)
          /\ 3 \in Passed(clone) => P3(clone)
          /\ 4 \in Passed(clone) => P4(clone)
          /\ 5 \in Passed(clone) => P5(clone)
          /\ 7 \in Passed(clone) => P7(clone)
          /\ 8 \in Passed(clone) => P8(clone)
          /\ 10 \in Passed(clone) => P10(clone)
      <3>0. Passed(clone) \subseteq 1 .. 10 /\ 9 \notin Passed(clone)
        BY DEF Passed
      <3>2. 2 \in Passed(clone) => P2(clone)
        BY DEF Passed
      <3>3. 3 \in Passed(clone) => P3(clone)
        BY DEF Passed
      <3>4. 4 \in Passed(clone) => P4(clone)
        BY DEF Passed
      <3>5. 5 \in Passed(clone) => P5(clone)
        BY DEF Passed
      <3>7. 7 \in Passed(clone) => P7(clone)
        BY DEF Passed
      <3>8. 8 \in Passed(clone) => P8(clone)
        BY DEF Passed
      <3>10. 10 \in Passed(clone) => P10(clone)
        BY DEF Passed
      <3>11. QED
        BY <3>0, <3>2, <3>3, <3>4, <3>5, <3>7, <3>8, <3>10
    <2>3. CloneMade'
      BY <1>I, <2>1 DEF CloneMade, Made, Post
    <2>4. /\ P2(clone)' = P2(clone) /\ P3(clone)' = P3(clone) /\ P4(clone)' = P4(clone)
          /\ P5(clone)' = P5(clone) /\ P7(clone)' = P7(clone) /\ P8(clone)' = P8(clone)
          /\ P10(clone)' = P10(clone)
      BY <2>1 DEF P2, P3, P4, P5, P7, P8, P10, Post, Holds
    <2>5. ProofsHold'
      BY <2>1, <2>2, <2>4 DEF ProofsHold
    <2>6. QED
      BY <1>I, <2>1, <2>2, <2>3, <2>5 DEF CloneInv, Recorded
  <1>8. CASE Rebuild
    <2>1. step = "rebuild" /\ step' = "record" /\ record = Nil
          /\ UNCHANGED <<source, packed, wrong, given, secrets, moves, store, clone, record>>
      BY <1>8 DEF Rebuild, At, Rest
    <2>2. proofs' \subseteq proofs \cup {9} /\ (9 \in proofs' => 9 \in proofs \/ given = "whole")
      BY <1>8 DEF Rebuild
    <2>3. CloneMade'
      BY <1>I, <2>1 DEF CloneMade, Made, Post
    <2>4. /\ P2(clone)' = P2(clone) /\ P3(clone)' = P3(clone) /\ P4(clone)' = P4(clone)
          /\ P5(clone)' = P5(clone) /\ P7(clone)' = P7(clone) /\ P8(clone)' = P8(clone)
          /\ P10(clone)' = P10(clone)
      BY <2>1 DEF P2, P3, P4, P5, P7, P8, P10, Post, Holds
    <2>5. ProofsHold'
      BY <1>I, <2>1, <2>2, <2>4 DEF ProofsHold
    <2>6. proofs' \subseteq 1 .. 10
      BY <2>2 DEF CloneInv
    <2>7. QED
      BY <1>I, <2>1, <2>3, <2>5, <2>6 DEF CloneInv, Recorded
  <1>9. CASE CloneRecord \/ Error
    <2>1. UNCHANGED <<source, packed, wrong, given, secrets, moves, step, store, clone, proofs>>
      BY <1>9 DEF CloneRecord, Error, Rest
    <2>2. ~ record'.error => step = "record" /\ record'.failed = (1 .. 10) \ proofs
      BY <1>9 DEF CloneRecord, Error, At
    <2>3. CloneMade' /\ ProofsHold'
      BY <1>I, <2>1 DEF CloneMade, Made, ProofsHold, P2, P3, P4, P5, P7, P8, P10, Post, Holds
    <2>4. QED
      BY <2>1, <2>2, <2>3 DEF CloneInv, Recorded
  <1>10. QED
    BY <1>1, <1>2, <1>3, <1>4, <1>5, <1>6, <1>7, <1>8, <1>9 DEF CloneNext

-----------------------------------------------------------------------------
\* Types, and that a clone holds nothing that the source never had.
THEOREM CloneTypeCorrect == ASSUME CloneAssumption PROVE CloneSpec => []CloneTypeOK
  <1>1. CloneInv => CloneTypeOK
    BY DEF CloneInv, CloneMade, Made, CloneTypeOK, Clones, Holds
  <1>2. QED
    BY <1>1, InitCloneInv, StepCloneInv, PTL DEF CloneSpec

\* A clone whose record says reconstructed holds the start's objects alone, is
\* detached from the source and was rebuilt from a whole snapshot, whatever
\* was wrong in its making and however often the source moved (clone_lab).
THEOREM HoldsStartOnly == ASSUME CloneAssumption PROVE CloneSpec => []StartOnly
  <1>1. CloneInv => StartOnly
    <2> SUFFICES ASSUME CloneInv, Reconstructed PROVE
              /\ clone.pack = Start /\ clone.borrowed = {} /\ given = "whole"
              /\ clone.refs = {} /\ clone.remote = {} /\ ~ clone.origin
              /\ ~ clone.log /\ ~ clone.hook /\ ~ clone.linked
              /\ moves = 0 => clone.loose = {}
      BY DEF StartOnly
    <2>1. step = "record" /\ (1 .. 10) \ proofs = {}
      BY DEF Reconstructed, CloneInv, Recorded
    <2>2. P2(clone) /\ P3(clone) /\ P4(clone) /\ P7(clone) /\ P8(clone) /\ P10(clone) /\ given = "whole"
          /\ (moves = 0 => P5(clone))
      BY <2>1 DEF CloneInv, ProofsHold
    <2>3. Start \subseteq clone.pack /\ (moves = 0 => clone.loose \subseteq Post)
      BY <2>1 DEF CloneInv, CloneMade, Made
    <2>4. QED
      BY <2>2, <2>3 DEF P2, P3, P4, P5, P7, P8, P10, Holds
  <1>2. QED
    BY <1>1, InitCloneInv, StepCloneInv, PTL DEF CloneSpec

-----------------------------------------------------------------------------
(* Audit for any number of episodes, sheets, saves and deaths: types, and    *)
(* what an admitted episode stands on.                                       *)

Results == [hash : LabelFiles \cup {Unwritten}, amend : SUBSET Amending, amended : BOOLEAN, raced : BOOLEAN]

\* The misses that a result counts are those of the labels it is a hash of.
ResultOK(r, k) ==
    /\ r \in Results
    /\ r.raced \/ (r.hash.sealed /\ r.amend = Missed(r.hash.label, shown[k]) \cap Amending)

Files ==
    /\ sheet \in [Sheets -> LabelFiles \cup {Unwritten}] /\ shown \in [Sheets -> Screens \cup {Unwritten}]
    /\ result \in [Sheets -> Results \cup {Unwritten}]
    /\ \E n \in 0 .. MaxSheets : Numbers = 1 .. n
    /\ saves \in 0 .. MaxSaves /\ auditFaults \in 0 .. MaxAuditFaults

There(k) == k \in Sheets /\ sheet[k] # Unwritten /\ shown[k] # Unwritten

Commands ==
    /\ builder # Unwritten => builder.k \in Sheets /\ sheet[builder.k] # Unwritten /\ builder.show \in Screens
    /\ scorer # Unwritten =>
          /\ scorer \in [k : Sheets, label : Labellings \cup {Unwritten}, raced : BOOLEAN] /\ There(scorer.k)
          /\ scorer.raced \/ (/\ sheet[scorer.k].sealed
                              /\ scorer.label # Unwritten => scorer.label = sheet[scorer.k].label)
    /\ amender # Unwritten => There(amender.k) /\ ResultOK(amender.result, amender.k)

AllScored == \A k \in Sheets : result[k] # Unwritten => There(k) /\ ResultOK(result[k], k)

AuditInv == Files /\ Commands /\ AllScored

-----------------------------------------------------------------------------
\* A non-empty set of numbers up to a bound has a greatest.
LEMMA MaxIn ==
  ASSUME NEW n \in Nat, NEW S \in SUBSET (1 .. n), S # {}
  PROVE  Max(S) \in S
  <1> DEFINE T == {n - x : x \in S}
  <1>1. T \subseteq Nat /\ T # {}
    <2>1. \A x \in S : n - x \in Nat
      OBVIOUS
    <2>2. PICK x \in S : TRUE
      OBVIOUS
    <2>3. n - x \in T
      BY <2>2
    <2>4. QED
      BY <2>1, <2>3
  <1>2. PICK m \in T : \A y \in T : ~ (<<y, m>> \in OpToRel(<, Nat))
    BY <1>1, NatLessThanWellFounded, WFMin
  <1>3. \A y \in T : ~ (y < m)
    BY <1>1, <1>2 DEF OpToRel
  <1>4. PICK x \in S : m = n - x
    OBVIOUS
  <1>5. \A y \in S : x >= y
    <2>1. TAKE y \in S
    <2>2. n - y \in T /\ ~ (n - y < n - x)
      BY <1>3, <1>4
    <2>3. QED
      BY <2>2
  <1>6. QED
    BY <1>5 DEF Max

LEMMA InitAuditInv == ASSUME AuditAssumption PROVE AuditInit => AuditInv
  <1> SUFFICES ASSUME AuditInit PROVE AuditInv
    OBVIOUS
  <1>1. Numbers = 1 .. 0
    BY DEF AuditInit, Numbers
  <1>2. Files
    BY <1>1 DEF AuditInit, Files, AuditAssumption
  <1>3. QED
    BY <1>2 DEF AuditInit, AuditInv, Commands, AllScored

-----------------------------------------------------------------------------
\* The sheets are numbered from one, so the next number is free.
LEMMA NextSheet ==
  ASSUME AuditAssumption, Files, Cardinality(Numbers) < MaxSheets
  PROVE  /\ Cardinality(Numbers) + 1 \in Sheets /\ sheet[Cardinality(Numbers) + 1] = Unwritten
         /\ Cardinality(Numbers) + 1 \in 0 .. MaxSheets
         /\ Numbers = 1 .. Cardinality(Numbers)
  <1>1. PICK n \in 0 .. MaxSheets : Numbers = 1 .. n
    BY DEF Files
  <1>2. Cardinality(1 .. n) = n
    BY <1>1, FS_Interval DEF AuditAssumption
  <1>3. n < MaxSheets /\ Cardinality(Numbers) = n /\ MaxSheets \in Nat
    BY <1>1, <1>2 DEF AuditAssumption
  <1>4. n + 1 \in Sheets /\ n + 1 \notin Numbers
    BY <1>1, <1>3 DEF Sheets
  <1>5. sheet[n + 1] = Unwritten
    BY <1>4 DEF Numbers
  <1>6. QED
    BY <1>1, <1>3, <1>4, <1>5

\* What a file of a sheet holds.
LEMMA BlankType == ASSUME NEW eps \in SUBSET Episodes PROVE Blank(eps) \in LabelFiles
  <1>1. [e \in eps |-> [c \in Categories |-> Unwritten]] \in [eps -> [Categories -> Labels \cup {Unwritten}]]
    OBVIOUS
  <1>2. QED
    BY <1>1 DEF Blank, LabelFiles, Labellings

LEMMA SavedType ==
  ASSUME NEW s \in LabelFiles, NEW l \in [DOMAIN s.label -> [Categories -> Labels]]
  PROVE  [sealed |-> TRUE, label |-> l] \in LabelFiles /\ [s EXCEPT !.sealed = FALSE] \in LabelFiles
  <1>1. DOMAIN s.label \in SUBSET Episodes
    BY DEF LabelFiles, Labellings
  <1>2. l \in [DOMAIN s.label -> [Categories -> Labels \cup {Unwritten}]]
    OBVIOUS
  <1>3. l \in Labellings
    BY <1>1, <1>2 DEF Labellings
  <1>4. QED
    BY <1>3 DEF LabelFiles

\* A result goes on being right while the sheets and screens stay.
LEMMA ResultStays ==
  ASSUME NEW k, NEW s, There(k), ResultOK(s, k), UNCHANGED <<sheet, shown>>, result'[k] = s
  PROVE  There(k)' /\ ResultOK(result[k], k)'
  BY DEF There, ResultOK

LEMMA StepSheet ==
  ASSUME AuditAssumption, AuditInv, BuildSheet PROVE AuditInv'
  <1>I. Files /\ Commands /\ AllScored
    BY DEF AuditInv
  <1> DEFINE k == Cardinality(Numbers) + 1
  <1>1. PICK candidates \in SUBSET (Episodes \ Covered), screen \in [Episodes -> Values] :
           /\ sheet' = [sheet EXCEPT ![k] = Blank(AuditFirst(candidates))]
           /\ builder' = [k |-> k, show |-> [e \in AuditFirst(candidates) |-> screen[e]]]
    BY DEF BuildSheet
  <1>2. UNCHANGED <<head, shown, result, scorer, amender, saves, auditFaults>> /\ Cardinality(Numbers) < MaxSheets
    BY DEF BuildSheet
  <1>3. k \in Sheets /\ sheet[k] = Unwritten /\ k \in 0 .. MaxSheets /\ Numbers = 1 .. k - 1
    <2>1. k \in Sheets /\ sheet[k] = Unwritten /\ k \in 0 .. MaxSheets /\ Numbers = 1 .. Cardinality(Numbers)
      BY <1>I, <1>2, NextSheet
    <2>2. Cardinality(Numbers) = k - 1
      <3>1. PICK n \in 0 .. MaxSheets : Numbers = 1 .. n
        BY <1>I DEF Files
      <3>2. Cardinality(1 .. n) = n
        BY <3>1, FS_Interval DEF AuditAssumption
      <3>3. QED
        BY <3>1, <3>2 DEF AuditAssumption
    <2>3. QED
      BY <2>1, <2>2
  <1> HIDE DEF k
  <1>4. AuditFirst(candidates) \in SUBSET Episodes
    BY <1>1 DEF AuditFirst
  <1>5. Blank(AuditFirst(candidates)) \in LabelFiles /\ Blank(AuditFirst(candidates)) # Unwritten
    BY <1>4, BlankType DEF AuditAssumption
  <1>6. [e \in AuditFirst(candidates) |-> screen[e]] \in Screens
    <2>1. [e \in AuditFirst(candidates) |-> screen[e]] \in [AuditFirst(candidates) -> Values]
      BY <1>1, <1>4
    <2>2. QED
      BY <1>4, <2>1 DEF Screens
  <1>7. /\ sheet' \in [Sheets -> LabelFiles \cup {Unwritten}] /\ sheet'[k] # Unwritten
        /\ \A j \in Sheets : j # k => sheet'[j] = sheet[j]
    BY <1>I, <1>1, <1>3, <1>5 DEF Files
  <1>8. Numbers' = 1 .. k
    BY <1>3, <1>7 DEF Numbers, Sheets, AuditAssumption
  <1>9. Files'
    BY <1>I, <1>2, <1>3, <1>7, <1>8 DEF Files
  <1>10. Commands'
    <2>1. \A j \in Sheets : There(j) => There(j)' /\ sheet'[j] = sheet[j]
      BY <1>2, <1>3, <1>7 DEF There
    <2>2. builder'.k = k /\ builder'.show \in Screens
      BY <1>1, <1>6
    <2>0. scorer # Unwritten => There(scorer.k)
      BY <1>I, Zenon DEF Commands
    <2>3. scorer # Unwritten => scorer.k \in Sheets /\ sheet'[scorer.k] = sheet[scorer.k] /\ There(scorer.k)'
      <3>1. SUFFICES ASSUME scorer # Unwritten
                     PROVE  scorer.k \in Sheets /\ sheet'[scorer.k] = sheet[scorer.k] /\ There(scorer.k)'
        OBVIOUS
      <3>2. There(scorer.k) /\ scorer.k \in Sheets
        BY <2>0, <3>1 DEF There
      <3>3. QED
        BY <1>2, <2>1, <3>2
    <2>4. amender # Unwritten => There(amender.k)' /\ ResultOK(amender.result, amender.k)'
      BY <1>I, <1>2, <2>1 DEF Commands, There, ResultOK
    <2>5. QED
      BY <1>I, <1>2, <1>3, <1>7, <2>2, <2>3, <2>4 DEF Commands
  <1>11. AllScored'
    BY <1>I, <1>2, <1>3, <1>7 DEF AllScored, There, ResultOK
  <1>12. QED
    BY <1>9, <1>10, <1>11 DEF AuditInv

LEMMA StepShow ==
  ASSUME AuditAssumption, AuditInv, ShowScreen PROVE AuditInv'
  <1>I. Files /\ Commands /\ AllScored
    BY DEF AuditInv
  <1>1. /\ builder # Unwritten /\ shown[builder.k] = Unwritten /\ shown' = [shown EXCEPT ![builder.k] = builder.show]
        /\ UNCHANGED <<sheet, head, result, builder, scorer, amender, saves, auditFaults>>
    BY DEF ShowScreen
  <1>2. builder.k \in Sheets /\ builder.show \in Screens /\ builder.show # Unwritten
    BY <1>I, <1>1 DEF Commands, AuditAssumption
  <1>3. /\ shown' \in [Sheets -> Screens \cup {Unwritten}]
        /\ \A j \in Sheets : There(j) => There(j)' /\ shown'[j] = shown[j]
    BY <1>I, <1>1, <1>2 DEF Files, There
  <1>4. Files'
    BY <1>I, <1>1, <1>3 DEF Files, Numbers
  <1>5. Commands'
    <2>0. scorer # Unwritten => There(scorer.k)
      BY <1>I, Zenon DEF Commands
    <2>1. scorer # Unwritten => There(scorer.k)'
      BY <1>1, <1>3, <2>0 DEF There
    <2>2. amender # Unwritten => There(amender.k)' /\ ResultOK(amender.result, amender.k)'
      BY <1>I, <1>1, <1>3 DEF Commands, There, ResultOK
    <2>3. QED
      BY <1>I, <1>1, <2>1, <2>2 DEF Commands
  <1>6. AllScored'
    BY <1>I, <1>1, <1>3 DEF AllScored, ResultOK
  <1>7. QED
    BY <1>4, <1>5, <1>6 DEF AuditInv

\* A save while a sheet is scored is noted; labels that are scored are hashed.
LEMMA StepSave ==
  ASSUME AuditAssumption, AuditInv, NEW k \in Sheets, Save(k) PROVE AuditInv'
  <1>I. Files /\ Commands /\ AllScored
    BY DEF AuditInv
  <1>1. k \in Numbers /\ saves' \in 0 .. MaxSaves /\ UNCHANGED <<head, shown, result, builder, amender, auditFaults>>
    BY <1>I DEF Save, Files, AuditAssumption
  <1>2. sheet[k] # Unwritten /\ sheet[k] \in LabelFiles
    BY <1>I, <1>1 DEF Numbers, Files
  <1>3. PICK saved \in LabelFiles : sheet' = [sheet EXCEPT ![k] = saved]
    <2>1. PICK saved \in {[sealed |-> TRUE, label |-> l] : l \in [DOMAIN sheet[k].label -> [Categories -> Labels]]}
                         \cup {[sheet[k] EXCEPT !.sealed = FALSE]} : sheet' = [sheet EXCEPT ![k] = saved]
      BY DEF Save
    <2>2. CASE saved = [sheet[k] EXCEPT !.sealed = FALSE]
      <3>1. [sheet[k] EXCEPT !.sealed = FALSE] \in LabelFiles
        BY <1>2 DEF LabelFiles
      <3>2. QED
        BY <2>1, <2>2, <3>1
    <2>3. CASE saved \in {[sealed |-> TRUE, label |-> l] : l \in [DOMAIN sheet[k].label -> [Categories -> Labels]]}
      BY <1>2, <2>1, <2>3, SavedType
    <2>4. QED
      BY <2>1, <2>2, <2>3
  <1>4. /\ sheet' \in [Sheets -> LabelFiles \cup {Unwritten}] /\ sheet'[k] # Unwritten
        /\ \A j \in Sheets : j # k => sheet'[j] = sheet[j]
    BY <1>I, <1>3 DEF Files, AuditAssumption
  <1>5. scorer' = IF scorer # Unwritten /\ scorer.k = k THEN [scorer EXCEPT !.raced = TRUE] ELSE scorer
    BY DEF Save
  <1>6. Files'
    <2>1. Numbers' = Numbers
      BY <1>1, <1>4 DEF Numbers
    <2>2. QED
      BY <1>I, <1>1, <1>4, <2>1 DEF Files
  <1>7. \A j \in Sheets : There(j) => There(j)'
    BY <1>1, <1>4 DEF There
  <1>8. AllScored'
    BY <1>I, <1>1, <1>7 DEF AllScored, ResultOK
  <1>9. Commands'
    <2>1. amender # Unwritten => There(amender.k)' /\ ResultOK(amender.result, amender.k)'
      BY <1>I, <1>1, <1>7 DEF Commands, There, ResultOK
    <2>2. builder # Unwritten => sheet'[builder.k] # Unwritten
      BY <1>I, <1>4 DEF Commands
    <2>3. CASE scorer # Unwritten /\ scorer.k = k
      <3>1. /\ scorer \in [k : Sheets, label : Labellings \cup {Unwritten}, raced : BOOLEAN]
            /\ scorer' = [scorer EXCEPT !.raced = TRUE] /\ There(scorer.k)'
        BY <1>I, <1>5, <1>7, <2>3 DEF Commands
      <3>2. /\ scorer' \in [k : Sheets, label : Labellings \cup {Unwritten}, raced : BOOLEAN]
            /\ scorer'.k = scorer.k /\ scorer'.raced
        BY <3>1
      <3>3. QED
        BY <1>I, <1>1, <2>1, <2>2, <3>1, <3>2 DEF Commands, There
    <2>4. CASE ~ (scorer # Unwritten /\ scorer.k = k)
      <3>1. scorer' = scorer
        BY <1>5, <2>4
      <3>0. scorer # Unwritten => There(scorer.k)
        BY <1>I, Zenon DEF Commands
      <3>2. scorer # Unwritten => scorer.k \in Sheets /\ sheet'[scorer.k] = sheet[scorer.k] /\ There(scorer.k)'
        <4>1. SUFFICES ASSUME scorer # Unwritten
                       PROVE  scorer.k \in Sheets /\ sheet'[scorer.k] = sheet[scorer.k] /\ There(scorer.k)'
          OBVIOUS
        <4>2. There(scorer.k) /\ scorer.k \in Sheets /\ scorer.k # k
          BY <2>4, <3>0, <4>1 DEF There
        <4>3. There(scorer.k)'
          BY <1>4, <1>1, <3>1, <4>2 DEF There
        <4>4. QED
          BY <1>4, <4>2, <4>3
      <3>3. QED
        BY <1>I, <1>1, <2>1, <2>2, <3>1, <3>2 DEF Commands
    <2>5. QED
      BY <2>3, <2>4
  <1>10. QED
    BY <1>6, <1>8, <1>9 DEF AuditInv

-----------------------------------------------------------------------------
\* Commits, and the commands that begin, read on or die, leave the files.
LEMMA FilesStay ==
  ASSUME AuditInv, UNCHANGED <<sheet, shown, result, saves>>, auditFaults' \in 0 .. MaxAuditFaults
  PROVE  Files' /\ AllScored' /\ \A k : There(k) = There(k)'
  BY DEF AuditInv, Files, AllScored, Numbers, There, ResultOK

LEMMA StepCommit ==
  ASSUME AuditAssumption, AuditInv, CommitSheet \/ \E k \in Sheets : AuditCommit(k) PROVE AuditInv'
  <1>1. /\ UNCHANGED <<sheet, shown, result, saves, auditFaults, scorer, amender>> /\ builder' \in {builder, Unwritten}
    BY DEF CommitSheet, AuditCommit
  <1>2. Commands /\ auditFaults \in 0 .. MaxAuditFaults
    BY DEF AuditInv, Files
  <1>3. Files' /\ AllScored' /\ \A k : There(k) = There(k)'
    BY <1>1, <1>2, FilesStay
  <1>4. Commands'
    BY <1>1, <1>2 DEF Commands, There, ResultOK
  <1>5. QED
    BY <1>3, <1>4 DEF AuditInv

LEMMA StepScore ==
  ASSUME AuditAssumption, AuditInv, NEW k \in Sheets, Score(k) PROVE AuditInv'
  <1>1. /\ scorer' = [k |-> k, label |-> Unwritten, raced |-> FALSE] /\ LabelsSealed(k)
        /\ UNCHANGED <<sheet, shown, result, saves, auditFaults, builder, amender>>
    BY DEF Score, files
  <1>2. Commands /\ auditFaults \in 0 .. MaxAuditFaults
    BY DEF AuditInv, Files
  <1>3. Files' /\ AllScored'
    BY <1>1, <1>2, FilesStay
  <1>4. scorer' \in [k : Sheets, label : Labellings \cup {Unwritten}, raced : BOOLEAN] /\ There(scorer'.k)
        /\ sheet[scorer'.k].sealed /\ scorer'.label = Unwritten
    BY <1>1 DEF LabelsSealed, There
  <1>5. There(scorer.k)'
    BY <1>1, <1>4 DEF There
  <1>6. Commands'
    BY <1>1, <1>2, <1>4, <1>5 DEF Commands, There, ResultOK
  <1>7. QED
    BY <1>3, <1>6 DEF AuditInv

LEMMA StepRead ==
  ASSUME AuditAssumption, AuditInv, ReadSheet PROVE AuditInv'
  <1>1. /\ scorer # Unwritten /\ scorer' = [scorer EXCEPT !.label = sheet[scorer.k].label]
        /\ UNCHANGED <<sheet, shown, result, saves, auditFaults, builder, amender>>
    BY DEF ReadSheet, files
  <1>2. Commands /\ Files /\ auditFaults \in 0 .. MaxAuditFaults
    BY DEF AuditInv, Files
  <1>3. Files' /\ AllScored'
    BY <1>1, <1>2, FilesStay
  <1>4. /\ scorer \in [k : Sheets, label : Labellings \cup {Unwritten}, raced : BOOLEAN] /\ There(scorer.k)
        /\ scorer.raced \/ sheet[scorer.k].sealed
    BY <1>1, <1>2 DEF Commands
  <1>5. sheet[scorer.k] \in LabelFiles
    BY <1>2, <1>4 DEF Files, There
  <1>6. sheet[scorer.k].label \in Labellings
    BY <1>5 DEF LabelFiles
  <1>7. /\ scorer' \in [k : Sheets, label : Labellings \cup {Unwritten}, raced : BOOLEAN]
        /\ scorer'.k = scorer.k /\ scorer'.label = sheet[scorer.k].label /\ scorer'.raced = scorer.raced
    BY <1>1, <1>4, <1>6
  <1>8. There(scorer.k)'
    BY <1>1, <1>4, <1>7 DEF There
  <1>9. Commands'
    BY <1>1, <1>2, <1>4, <1>7, <1>8 DEF Commands, There, ResultOK
  <1>10. QED
    BY <1>3, <1>9 DEF AuditInv

\* The misses of a result that is not raced are of the labels that are hashed.
LEMMA StepWrite ==
  ASSUME AuditAssumption, AuditInv, WriteResult PROVE AuditInv'
  <1>I. Files /\ Commands /\ AllScored
    BY DEF AuditInv
  <1> DEFINE k == scorer.k
             r == [hash |-> sheet[k], amend |-> Missed(scorer.label, shown[k]) \cap Amending,
                   amended |-> FALSE, raced |-> scorer.raced]
  <1>1. /\ scorer # Unwritten /\ scorer.label # Unwritten /\ scorer' = Unwritten
        /\ result' = [result EXCEPT ![k] = r]
        /\ UNCHANGED <<sheet, shown, saves, auditFaults, builder, amender>>
    BY DEF WriteResult
  <1>2. /\ scorer \in [k : Sheets, label : Labellings \cup {Unwritten}, raced : BOOLEAN] /\ There(k)
        /\ scorer.raced \/ (sheet[k].sealed /\ scorer.label = sheet[k].label)
    BY <1>I, <1>1 DEF Commands
  <1>3. k \in Sheets /\ scorer.raced \in BOOLEAN /\ sheet[k] \in LabelFiles \cup {Unwritten}
    BY <1>I, <1>2 DEF Files, There
  <1>4. ResultOK(r, k)
    BY <1>2, <1>3 DEF ResultOK, Results
  <1>5. r \in Results
    BY <1>4 DEF ResultOK
  <1> HIDE DEF r, k
  <1>6. Files'
    BY <1>I, <1>1, <1>3, <1>5 DEF Files, Numbers
  <1>7. ASSUME NEW j \in Sheets, result'[j] # Unwritten PROVE There(j)' /\ ResultOK(result[j], j)'
    <2>0. PICK s : s = result'[j]
      OBVIOUS
    <2>1. CASE j = k
      <3>1. s = r
        BY <1>I, <1>1, <1>3, <2>0, <2>1 DEF Files
      <3>2. There(j) /\ ResultOK(s, j)
        BY <1>2, <1>4, <2>1, <3>1
      <3>3. QED
        BY <1>1, <2>0, <3>2, ResultStays
    <2>2. CASE j # k
      <3>1. s = result[j]
        BY <1>I, <1>1, <1>3, <2>0, <2>2 DEF Files
      <3>2. There(j) /\ ResultOK(s, j)
        BY <1>I, <1>7, <2>0, <3>1 DEF AllScored
      <3>3. QED
        BY <1>1, <2>0, <3>2, ResultStays
    <2>3. QED
      BY <2>1, <2>2
  <1>8. AllScored'
    BY <1>7 DEF AllScored
  <1>9. Commands'
    BY <1>I, <1>1 DEF Commands, There, ResultOK
  <1>10. QED
    BY <1>6, <1>8, <1>9 DEF AuditInv

\* An amendment may be written over a newer result, and is true of its own.
LEMMA StepAmend ==
  ASSUME AuditAssumption, AuditInv, WriteAmendment \/ \E k \in Sheets : RecordAmendment(k)
  PROVE  AuditInv'
  <1>I. Files /\ Commands /\ AllScored
    BY DEF AuditInv
  <1>1. CASE WriteAmendment
    <2>1. /\ amender # Unwritten /\ amender' = Unwritten /\ result' = [result EXCEPT ![amender.k] = amender.result]
          /\ UNCHANGED <<sheet, shown, saves, auditFaults, builder, scorer>>
      BY <1>1 DEF WriteAmendment
    <2>2. There(amender.k) /\ ResultOK(amender.result, amender.k)
      BY <1>I, <2>1 DEF Commands
    <2>3. amender.k \in Sheets /\ amender.result \in Results
      BY <2>2 DEF There, ResultOK
    <2>4. Files'
      BY <1>I, <2>1, <2>3 DEF Files, Numbers
    <2>5. ASSUME NEW j \in Sheets, result'[j] # Unwritten PROVE There(j)' /\ ResultOK(result[j], j)'
      <3>0. PICK s : s = result'[j]
        OBVIOUS
      <3>1. CASE j = amender.k
        <4>1. s = amender.result
          BY <1>I, <2>1, <2>3, <3>0, <3>1 DEF Files
        <4>2. There(j) /\ ResultOK(s, j)
          BY <2>2, <3>1, <4>1
        <4>3. QED
          BY <2>1, <3>0, <4>2, ResultStays
      <3>2. CASE j # amender.k
        <4>1. s = result[j]
          BY <1>I, <2>1, <2>3, <3>0, <3>2 DEF Files
        <4>2. There(j) /\ ResultOK(s, j)
          BY <1>I, <2>5, <3>0, <4>1 DEF AllScored
        <4>3. QED
          BY <2>1, <3>0, <4>2, ResultStays
      <3>3. QED
        BY <3>1, <3>2
    <2>6. AllScored'
      BY <2>5 DEF AllScored
    <2>7. Commands'
      BY <1>I, <2>1 DEF Commands, There, ResultOK
    <2>8. QED
      BY <2>4, <2>6, <2>7 DEF AuditInv
  <1>2. ASSUME NEW k \in Sheets, RecordAmendment(k) PROVE AuditInv'
    <2>1. /\ result[k] # Unwritten /\ amender' = [k |-> k, result |-> [result[k] EXCEPT !.amended = TRUE]]
          /\ UNCHANGED <<sheet, shown, result, saves, auditFaults, builder, scorer>>
      BY <1>2 DEF RecordAmendment, files
    <2>2. There(k) /\ ResultOK(result[k], k)
      BY <1>I, <2>1 DEF AllScored
    <2>3. ResultOK([result[k] EXCEPT !.amended = TRUE], k)
      BY <2>2 DEF ResultOK, Results
    <2>4. There(amender.k)' /\ ResultOK(amender.result, amender.k)'
      BY <2>1, <2>2, <2>3 DEF There, ResultOK
    <2>5. auditFaults \in 0 .. MaxAuditFaults
      BY <1>I DEF Files
    <2>6. Files' /\ AllScored'
      BY <2>1, <2>5, FilesStay
    <2>7. Commands'
      BY <1>I, <2>1, <2>4 DEF Commands, There
    <2>8. QED
      BY <2>6, <2>7 DEF AuditInv
  <1>3. QED
    BY <1>1, <1>2

LEMMA StepDie == ASSUME AuditAssumption, AuditInv, AuditDie PROVE AuditInv'
  <1>1. /\ UNCHANGED <<sheet, shown, result, saves>> /\ auditFaults < MaxAuditFaults /\ auditFaults' = auditFaults + 1
        /\ builder' \in {builder, Unwritten} /\ scorer' \in {scorer, Unwritten} /\ amender' \in {amender, Unwritten}
    BY DEF AuditDie, files
  <1>2. auditFaults' \in 0 .. MaxAuditFaults /\ Commands
    BY <1>1 DEF AuditInv, Files, AuditAssumption
  <1>3. Files' /\ AllScored'
    BY <1>1, <1>2, FilesStay
  <1>4. builder' # Unwritten => builder'.k \in Sheets /\ sheet'[builder'.k] # Unwritten /\ builder'.show \in Screens
    BY <1>1, <1>2 DEF Commands
  <1>5. amender' # Unwritten => There(amender.k)' /\ ResultOK(amender.result, amender.k)'
    BY <1>1, <1>2 DEF Commands, There, ResultOK
  <1>6. scorer' # Unwritten => scorer' = scorer
    BY <1>1
  <1>7. Commands'
    BY <1>1, <1>2, <1>4, <1>5, <1>6 DEF Commands, There
  <1>8. QED
    BY <1>3, <1>7 DEF AuditInv

LEMMA StepAuditInv == ASSUME AuditAssumption PROVE AuditInv /\ [AuditNext]_auditVars => AuditInv'
  <1> SUFFICES ASSUME AuditInv, [AuditNext]_auditVars PROVE AuditInv'
    OBVIOUS
  <1>1. CASE UNCHANGED auditVars
    BY <1>1 DEF auditVars, files, AuditInv, Files, Commands, AllScored, Numbers, There, ResultOK
  <1>2. QED
    BY <1>1, StepSheet, StepShow, StepSave, StepCommit, StepScore, StepRead, StepWrite, StepAmend, StepDie
    DEF AuditNext

-----------------------------------------------------------------------------
\* Types: an audit that was scored has its sheet and its screen.
THEOREM AuditTypeCorrect == ASSUME AuditAssumption PROVE AuditSpec => []AuditTypeOK
  <1>1. AuditInv => AuditTypeOK
    BY DEF AuditInv, Files, AllScored, There, AuditTypeOK
  <1>2. QED
    BY <1>1, InitAuditInv, StepAuditInv, PTL DEF AuditSpec

\* An admitted episode stands on labels that are sealed and, where they name a
\* miss that demands it, on an amendment, for any number of sheets and of
\* saves, commits, scores, amendments and deaths between them; a save while
\* the score itself is read is the exception (screen_audit.py).
THEOREM OnLabels == ASSUME AuditAssumption PROVE AuditSpec => []AdmittedOnLabels
  <1>1. AuditInv => AdmittedOnLabels
    <2> SUFFICES ASSUME AuditInv, NEW e \in Episodes, Admitted(e)
                 PROVE  LET k == Max(Audits(e)) IN
                            \/ result[k].raced
                            \/ /\ sheet[k].sealed
                               /\ \/ Missed(sheet[k].label, shown[k]) \cap Amending = {}
                                  \/ result[k].amended
      BY DEF AdmittedOnLabels
    <2> DEFINE k == Max(Audits(e))
    <2>1. Audits(e) # {} /\ ~ Pending(result[k]) /\ result[k].hash = sheet[k]
      BY DEF Admitted
    <2>2. PICK n \in 0 .. MaxSheets : Numbers = 1 .. n
      BY DEF AuditInv, Files
    <2>3. n \in Nat /\ Audits(e) \in SUBSET (1 .. n)
      BY <2>2 DEF Audits, AuditAssumption
    <2>4. k \in Audits(e)
      BY <2>1, <2>3, MaxIn
    <2>5. k \in Sheets /\ result[k] # Unwritten
      BY <2>4 DEF Audits, Numbers
    <2>6. ResultOK(result[k], k)
      BY <2>5 DEF AuditInv, AllScored
    <2>7. result[k].raced \/ (sheet[k].sealed /\ result[k].amend = Missed(sheet[k].label, shown[k]) \cap Amending)
      BY <2>1, <2>6, Zenon DEF ResultOK
    <2>8. result[k].amend = {} \/ result[k].amended
      BY <2>1, Zenon DEF Pending
    <2>9. CASE result[k].raced
      BY <2>9
    <2>10. CASE /\ sheet[k].sealed
                /\ result[k].amend = Missed(sheet[k].label, shown[k]) \cap Amending
      <3>1. CASE result[k].amended
        BY <2>10, <3>1
      <3>2. CASE result[k].amend = {}
        BY <2>10, <3>2
      <3>3. QED
        BY <2>8, <3>1, <3>2
    <2>11. QED
      BY <2>7, <2>9, <2>10
  <1>2. QED
    BY <1>1, InitAuditInv, StepAuditInv, PTL DEF AuditSpec

-----------------------------------------------------------------------------
(* Backstop for any passes, captures and times: types, and a standing of ok. *)

Steps == {"check", "maintain", "overdue", "record"}

StartRecord == [at : 0 .. MaxTime, failed : BOOLEAN, on : BOOLEAN]

PassRecord ==
    [at : 0 .. MaxTime, problem : BOOLEAN, warning : BOOLEAN, seen : SUBSET Nat, step : Steps]

\* What a pass is recorded under is when it began, and no hook begins later
\* than now.
BackstopInv ==
    /\ now \in 0 .. MaxTime /\ runs \in 0 .. MaxRuns
    /\ starts \in Seq(StartRecord)
    /\ DOMAIN pass = Passes /\ \A p \in Passes : pass[p] # Never => pass[p] \in PassRecord
    /\ status.is \in {"none", "unreadable", "ok", "warn", "fail"}
    /\ status.run \in 0 .. MaxTime /\ status.run = status.began

LEMMA InitBackstopInv == ASSUME BackstopAssumption PROVE BackstopInit => BackstopInv
  BY DEF BackstopInit, BackstopInv, BackstopAssumption

LEMMA StartsTyped == BackstopInv => \A i \in DOMAIN starts : starts[i] \in StartRecord
  BY DEF BackstopInv

\* A step of one pass to another record leaves the rest of the invariant.
LEMMA PassMoves ==
  ASSUME BackstopInv, NEW p \in Passes, NEW r \in PassRecord,
         pass' = [pass EXCEPT ![p] = r], UNCHANGED <<now, starts, status, runs>>
  PROVE  BackstopInv'
  BY DEF BackstopInv, PassRecord

LEMMA FoundMoves ==
  ASSUME BackstopInv, NEW p \in Passes, pass[p] # Never, NEW problem \in BOOLEAN, NEW next \in Steps,
         Found(p, problem, next), UNCHANGED <<now, starts, status, runs>>
  PROVE  BackstopInv'
  <1> DEFINE r == [pass[p] EXCEPT !.step = next, !.problem = @ \/ problem]
  <1>1. pass[p] \in PassRecord /\ p \in DOMAIN pass
    BY DEF BackstopInv
  <1>2. r \in PassRecord
    <2>1. pass[p].problem \in BOOLEAN
      BY <1>1 DEF PassRecord
    <2>2. (pass[p].problem \/ problem) \in BOOLEAN
      BY Zenon
    <2>3. QED
      BY <1>1, <2>2 DEF PassRecord
  <1>3. pass' = [pass EXCEPT ![p] = r]
    BY <1>1 DEF Found, PassRecord
  <1> HIDE DEF r
  <1>4. QED
    BY <1>2, <1>3, PassMoves

LEMMA StepBackstopInv == ASSUME BackstopAssumption PROVE BackstopInv /\ [BackstopNext]_backstopVars => BackstopInv'
  <1> SUFFICES ASSUME BackstopInv, [BackstopNext]_backstopVars PROVE BackstopInv'
    OBVIOUS
  <1>1. CASE UNCHANGED backstopVars
    BY <1>1 DEF BackstopInv, backstopVars
  <1>2. ASSUME NEW failed \in BOOLEAN, StartHook(failed) PROVE BackstopInv'
    <2>1. [at |-> now, failed |-> failed, on |-> FALSE] \in StartRecord
      BY DEF BackstopInv, StartRecord
    <2>2. starts' \in Seq(StartRecord)
      BY <1>2, <2>1 DEF StartHook, BackstopInv
    <2>3. QED
      BY <1>2, <2>2 DEF StartHook, BackstopInv
  <1>3. ASSUME NEW i \in DOMAIN starts, OnRecord(i) PROVE BackstopInv'
    <2>1. starts \in Seq(StartRecord) /\ starts[i] \in StartRecord
      BY StartsTyped DEF BackstopInv
    <2> DEFINE r == [starts[i] EXCEPT !.on = TRUE]
    <2>2. r \in StartRecord /\ starts' = [starts EXCEPT ![i] = r]
      BY <1>3, <2>1 DEF OnRecord, StartRecord
    <2> HIDE DEF r
    <2>3. starts' \in Seq(StartRecord)
      BY <2>1, <2>2
    <2>4. QED
      BY <1>3, <2>3 DEF OnRecord, BackstopInv
  <1>4. CASE Tick
    BY <1>4 DEF Tick, BackstopInv, BackstopAssumption
  <1>5. CASE Damage
    <2>1. /\ UNCHANGED <<now, starts, pass, runs>> /\ status' = [status EXCEPT !.is = "unreadable"]
      BY <1>5 DEF Damage
    <2>2. status'.run = status.run /\ status'.began = status.began
      BY <2>1
    <2>3. status'.is \in {"none", "unreadable", "ok", "warn", "fail"}
      BY <2>1 DEF BackstopInv
    <2>4. QED
      BY <2>1, <2>2, <2>3 DEF BackstopInv
  <1>6. ASSUME NEW p \in Passes, Begin(p) PROVE BackstopInv'
    BY <1>6 DEF Begin, BackstopInv, PassRecord, Steps, BackstopAssumption
  <1>7. ASSUME NEW p \in Passes, CheckStores(p) PROVE BackstopInv'
    <2>1. PICK stores \in {"ok", "refusing", "missing"} :
             Found(p, stores # "ok", IF stores = "missing" THEN "record" ELSE "maintain")
      BY <1>7 DEF CheckStores
    <2>2. (stores # "ok") \in BOOLEAN
      BY Zenon
    <2>3. (IF stores = "missing" THEN "record" ELSE "maintain") \in Steps
      BY DEF Steps
    <2>4. QED
      BY <1>7, <2>1, <2>2, <2>3, FoundMoves DEF CheckStores, PassAt
  <1>8. ASSUME NEW p \in Passes, Maintain(p) PROVE BackstopInv'
    <2>1. pass[p] \in PassRecord /\ p \in DOMAIN pass
      BY <1>8 DEF Maintain, PassAt, BackstopInv
    <2>2. PICK error \in BOOLEAN :
          pass' = [pass EXCEPT ![p].step = "overdue", ![p].problem = @ \/ error,
                               ![p].warning = ~ error /\ FailedStreak,
                               ![p].seen = IF error THEN {} ELSE {i \in DOMAIN starts : starts[i].on}]
      BY <1>8 DEF Maintain
    <2> DEFINE looked == IF error THEN {} ELSE {i \in DOMAIN starts : starts[i].on}
               r == [pass[p] EXCEPT !.step = "overdue", !.problem = @ \/ error,
                                    !.warning = ~ error /\ FailedStreak, !.seen = looked]
    <2>3. looked \in SUBSET Nat
      BY DEF BackstopInv
    <2>4. (pass[p].problem \/ error) \in BOOLEAN /\ (~ error /\ FailedStreak) \in BOOLEAN
      BY Zenon
    <2>5. r \in PassRecord
      BY <2>1, <2>3, <2>4 DEF PassRecord, Steps
    <2>6. pass' = [pass EXCEPT ![p] = r]
      BY <2>1, <2>2 DEF PassRecord
    <2> HIDE DEF r
    <2>7. QED
      BY <1>8, <2>5, <2>6, PassMoves DEF Maintain
  <1>9. ASSUME NEW p \in Passes, GiveUp(p) PROVE BackstopInv'
    BY <1>9, FoundMoves DEF GiveUp, PassAt, Steps
  <1>10. ASSUME NEW p \in Passes, Overdue(p) PROVE BackstopInv'
    BY <1>10, FoundMoves DEF Overdue, PassAt, Steps
  <1>11. ASSUME NEW p \in Passes, RecordPass(p) PROVE BackstopInv'
    <2>1. pass[p] \in PassRecord
      BY <1>11 DEF RecordPass, PassAt, BackstopInv
    <2>2. TimeOf(p) \in 0 .. MaxTime /\ TimeOf(p) = pass[p].at
      BY <2>1 DEF TimeOf, PassRecord
    <2>3. Outcome(p) \in {"ok", "warn", "fail"}
      BY DEF Outcome
    <2>4. status'.run = TimeOf(p) /\ status'.began = pass[p].at /\ status'.is = Outcome(p)
      BY <1>11 DEF RecordPass
    <2>5. QED
      BY <1>11, <2>2, <2>3, <2>4 DEF RecordPass, BackstopInv
  <1>12. ASSUME NEW p \in Passes, PassDies(p) PROVE BackstopInv'
    BY <1>12 DEF PassDies, BackstopInv
  <1>13. QED
    BY <1>1, <1>2, <1>3, <1>4, <1>5, <1>6, <1>7, <1>8, <1>9, <1>10, <1>11, <1>12 DEF BackstopNext

-----------------------------------------------------------------------------
LEMMA BackstopInvariant == ASSUME BackstopAssumption PROVE BackstopSpec => []BackstopInv
  BY InitBackstopInv, StepBackstopInv, PTL DEF BackstopSpec

\* Each variable stays in its range, and a standing is one of the five.
THEOREM BackstopTypeCorrect == ASSUME BackstopAssumption PROVE BackstopSpec => []BackstopTypeOK
  <1>1. BackstopInv => BackstopTypeOK
    BY DEF BackstopInv, BackstopTypeOK, Health, Worse
  <1>2. QED
    BY <1>1, BackstopInvariant, PTL

\* A standing of ok is that of a status which is ok, and no failure on record
\* began after its pass.
THEOREM NothingHidden == ASSUME BackstopAssumption PROVE BackstopSpec => []OkHidesNothing
  <1>1. BackstopInv => OkHidesNothing
    <2> SUFFICES ASSUME BackstopInv, Health = "ok", NEW i \in OnFile
                 PROVE  starts[i].at <= status.began
      BY DEF OkHidesNothing
    <2>1. Unseen = {}
      BY DEF Health, Worse
    <2>2. ~ starts[i].at > status.run
      BY <2>1 DEF Unseen
    <2>3. starts[i].at \in 0 .. MaxTime
      BY StartsTyped DEF OnFile, StartRecord
    <2>4. QED
      BY <2>2, <2>3 DEF BackstopInv
  <1>2. QED
    BY <1>1, BackstopInvariant, PTL

-----------------------------------------------------------------------------
(* Causal for any paths, contents, commits and changes: what was sealed can  *)
(* be rebuilt, and what an admitted episode changed the agent wrote.         *)

\* What a sealed state is.
StateOK(t) ==
    /\ t.conv = conv /\ t.head \in Commits
    /\ DOMAIN t.files \subseteq Path /\ t.deleted \subseteq Path /\ DOMAIN t.files \cap t.deleted = {}
    /\ \A p \in DOMAIN t.files : t.files[p] \in Content
    /\ t.bytes = Unsealed \/ t.bytes \in [Path -> Content]
    /\ t.bytes # Unsealed => \A p \in DOMAIN t.files : t.bytes[p] = t.files[p]

CheckoutOK ==
    /\ tip \in Commits /\ work \in [Path -> Content] /\ conv \in Conversion
    /\ side \in Side /\ same \in BOOLEAN /\ cand \subseteq Path /\ written \subseteq Path
    /\ hookStep \in {"head", "list", "read", "hash", "manifest", "relist",
                    "reread", "third", "seal", "turn", "done"}
    /\ verdict \in {Unsealed, "admitted", "refused"}
    /\ calm \in [Side -> BOOLEAN] /\ state = [s \in Side |-> state[s]]

DraftOK ==
    /\ draft = [head |-> draft.head, files |-> draft.files, oid |-> draft.oid,
                deleted |-> draft.deleted, bytes |-> draft.bytes]
    /\ DOMAIN draft.files \subseteq Path /\ draft.deleted \subseteq Path /\ DOMAIN draft.files \cap draft.deleted = {}
    /\ \A p \in DOMAIN draft.files : draft.files[p] \in Content
    /\ draft.bytes = Unsealed \/ draft.bytes \in [Path -> Content]
    /\ hookStep \notin {"head", "turn", "done"} => draft.head \in Commits

\* While nothing changes, what the hook has read is the checkout.
CalmDraft ==
    Sealing /\ calm[side] =>
        /\ hookStep # "head" => draft.head = tip
        /\ hookStep \notin {"head", "list"} => cand = Candidates
        /\ hookStep \in {"hash", "manifest", "relist", "reread", "third", "seal"} =>
              draft.files = ReadFiles /\ draft.deleted = Gone
        /\ hookStep \in {"relist", "reread", "third", "seal"} => draft.bytes \in {Unsealed, work}

\* An admission is the last step.
AdmittedStays ==
    verdict = "admitted" =>
        /\ hookStep = "done" /\ state["start"] # Unsealed /\ state["end"] # Unsealed
        /\ Faithful(state["start"]) /\ Faithful(state["end"])
        /\ Unattributed(state["start"], state["end"]) = {}

StatesOK == \A s \in Side : state[s] # Unsealed => StateOK(state[s])

CausalInv == CheckoutOK /\ DraftOK /\ CalmDraft /\ StatesOK /\ Restorable /\ AdmittedStays

LEMMA InitCausalInv == ASSUME CausalAssumption PROVE CausalInit => CausalInv
  <1> SUFFICES ASSUME CausalInit PROVE CausalInv
    OBVIOUS
  <1>1. CheckoutOK /\ DraftOK
    BY DEF CausalInit, CheckoutOK, DraftOK, NoDraft, Side
  <1>2. CalmDraft
    BY DEF CausalInit, CalmDraft
  <1>3. StatesOK /\ Restorable
    BY DEF CausalInit, StatesOK, Restorable
  <1>4. AdmittedStays
    BY DEF CausalInit, AdmittedStays, CausalAssumption
  <1>5. QED
    BY <1>1, <1>2, <1>3, <1>4 DEF CausalInv

\* What a step that leaves the settings and the sealed states alone keeps.
LEMMA SealedKept ==
  ASSUME StatesOK, Restorable, conv' = conv, state' = state,
         \A s \in Side : calm'[s] => calm[s]
  PROVE  StatesOK' /\ Restorable'
  BY DEF StatesOK, StateOK, Restorable, Faithful, SeesOverlay, Unchanged

LEMMA ReadHeadKept == ASSUME CausalAssumption, CausalInv, ReadHead PROVE CausalInv'
  <1> USE DEF CausalInv, ReadHead, Advance, World, checkout
  <1>1. CheckoutOK'
    BY DEF CheckoutOK, Candidates
  <1>2. DraftOK'
    <2>1. draft' = [head |-> tip, files |-> <<>>, oid |-> <<>>, deleted |-> {}, bytes |-> Unsealed]
      BY DEF NoDraft
    <2>2. DOMAIN <<>> = {} /\ tip \in Commits
      BY DEF CheckoutOK
    <2> HIDE DEF CausalInv, ReadHead, Advance
    <2>3. /\ draft'.head = tip /\ draft'.files = <<>> /\ draft'.deleted = {} /\ draft'.bytes = Unsealed
          /\ draft' = [head |-> draft'.head, files |-> draft'.files, oid |-> draft'.oid,
                       deleted |-> draft'.deleted, bytes |-> draft'.bytes]
      BY <2>1
    <2>4. QED
      BY <2>2, <2>3 DEF DraftOK
  <1>3. CalmDraft'
    BY DEF CheckoutOK, DraftOK, CalmDraft, Sealing, Candidates, Unchanged, ReadFiles, Gone, Present
  <1>4. StatesOK' /\ Restorable'
    BY SealedKept
  <1>5. AdmittedStays'
    BY DEF AdmittedStays
  <1>6. QED
    BY <1>1, <1>2, <1>3, <1>4, <1>5

LEMMA ListKept == ASSUME CausalAssumption, CausalInv, List PROVE CausalInv'
  <1> USE DEF CausalInv, List, Advance, World, checkout
  <1>1. CheckoutOK'
    BY DEF CheckoutOK, Candidates
  <1>2. DraftOK'
    BY DEF CheckoutOK, DraftOK, NoDraft, ReadFiles, Gone, Present
  <1>3. CalmDraft'
    <2>1. Candidates' = Candidates /\ cand' = Candidates
      BY DEF Candidates, Unchanged
    <2>2. CASE hookStep = "list"
      BY <2>1, <2>2 DEF CalmDraft, Sealing
    <2>3. CASE hookStep = "relist"
      <3>1. Sealing /\ (calm[side] => cand' = cand)
        BY <2>1, <2>3 DEF CalmDraft, Sealing
      <3>2. calm[side] => ReadFiles' = ReadFiles /\ Gone' = Gone
        BY <3>1 DEF ReadFiles, Gone, Present
      <3>3. QED
        BY <2>1, <2>3, <3>1, <3>2 DEF CalmDraft, Sealing
    <2>4. QED
      BY <2>2, <2>3
  <1>4. StatesOK' /\ Restorable'
    BY SealedKept
  <1>5. AdmittedStays'
    BY DEF AdmittedStays
  <1>6. QED
    BY <1>1, <1>2, <1>3, <1>4, <1>5

LEMMA ReadKept == ASSUME CausalAssumption, CausalInv, Read PROVE CausalInv'
  <1> USE DEF CausalInv, Read, Advance, World, checkout
  <1>1. CheckoutOK'
    BY DEF CheckoutOK, Candidates
  <1>2. DraftOK'
    BY DEF CheckoutOK, DraftOK, NoDraft, ReadFiles, Gone, Present
  <1>3. CalmDraft'
    BY DEF CheckoutOK, DraftOK, CalmDraft, Sealing, Candidates, Unchanged, ReadFiles, Gone, Present
  <1>4. StatesOK' /\ Restorable'
    BY SealedKept
  <1>5. AdmittedStays'
    BY DEF AdmittedStays
  <1>6. QED
    BY <1>1, <1>2, <1>3, <1>4, <1>5

LEMMA HashKept == ASSUME CausalAssumption, CausalInv, Hash PROVE CausalInv'
  <1> USE DEF CausalInv, Hash, Advance, World, checkout
  <1>1. CheckoutOK'
    BY DEF CheckoutOK, Candidates
  <1>2. DraftOK'
    BY DEF CheckoutOK, DraftOK, NoDraft, ReadFiles, Gone, Present
  <1>3. CalmDraft'
    BY DEF CheckoutOK, DraftOK, CalmDraft, Sealing, Candidates, Unchanged, ReadFiles, Gone, Present
  <1>4. StatesOK' /\ Restorable'
    BY SealedKept
  <1>5. AdmittedStays'
    BY DEF AdmittedStays
  <1>6. QED
    BY <1>1, <1>2, <1>3, <1>4, <1>5

LEMMA ManifestKept == ASSUME CausalAssumption, CausalInv, Manifest PROVE CausalInv'
  <1> USE DEF CausalInv, Manifest, Advance, World, checkout
  <1>1. CheckoutOK'
    BY DEF CheckoutOK, Candidates
  <1>2. DraftOK'
    BY DEF CheckoutOK, DraftOK, NoDraft, ReadFiles, Gone, Present
  <1>3. CalmDraft'
    BY DEF CheckoutOK, DraftOK, CalmDraft, Sealing, Candidates, Unchanged, ReadFiles, Gone, Present
  <1>4. StatesOK' /\ Restorable'
    BY SealedKept
  <1>5. AdmittedStays'
    BY DEF AdmittedStays
  <1>6. QED
    BY <1>1, <1>2, <1>3, <1>4, <1>5

LEMMA ReadAgainKept == ASSUME CausalAssumption, CausalInv, ReadAgain PROVE CausalInv'
  <1> USE DEF CausalInv, ReadAgain, Advance, World, checkout
  <1>1. CheckoutOK'
    BY DEF CheckoutOK, Candidates
  <1>2. DraftOK'
    BY DEF CheckoutOK, DraftOK, NoDraft, ReadFiles, Gone, Present
  <1>3. CalmDraft'
    BY DEF CheckoutOK, DraftOK, CalmDraft, Sealing, Candidates, Unchanged, ReadFiles, Gone, Present
  <1>4. StatesOK' /\ Restorable'
    BY SealedKept
  <1>5. AdmittedStays'
    BY DEF AdmittedStays
  <1>6. QED
    BY <1>1, <1>2, <1>3, <1>4, <1>5

LEMMA ReadThirdKept == ASSUME CausalAssumption, CausalInv, ReadThird PROVE CausalInv'
  <1> USE DEF CausalInv, ReadThird, Advance, World, checkout
  <1>1. CheckoutOK'
    BY DEF CheckoutOK, Candidates
  <1>2. DraftOK'
    BY DEF CheckoutOK, DraftOK, NoDraft, ReadFiles, Gone, Present
  <1>3. CalmDraft'
    BY DEF CheckoutOK, DraftOK, CalmDraft, Sealing, Candidates, Unchanged, ReadFiles, Gone, Present
  <1>4. StatesOK' /\ Restorable'
    BY SealedKept
  <1>5. AdmittedStays'
    BY DEF AdmittedStays
  <1>6. QED
    BY <1>1, <1>2, <1>3, <1>4, <1>5

LEMMA FailKept == ASSUME CausalAssumption, CausalInv, Fail PROVE CausalInv'
  <1> USE DEF CausalInv, Fail, Advance, World, checkout, Sealing, After, Forget, NoDraft
  <1>1. CheckoutOK'
    BY DEF CheckoutOK, Candidates
  <1>2. DraftOK'
    BY DEF CheckoutOK, DraftOK, NoDraft, ReadFiles, Gone, Present
  <1>3. CalmDraft'
    BY DEF CheckoutOK, DraftOK, CalmDraft, Sealing, Candidates, Unchanged, ReadFiles, Gone, Present
  <1>4. StatesOK' /\ Restorable'
    BY SealedKept
  <1>5. AdmittedStays'
    BY DEF AdmittedStays
  <1>6. QED
    BY <1>1, <1>2, <1>3, <1>4, <1>5

LEMMA StopKept == ASSUME CausalAssumption, CausalInv, Stop PROVE CausalInv'
  <1> USE DEF CausalInv, Stop, Advance, World, checkout
  <1>1. CheckoutOK'
    BY DEF CheckoutOK, Side
  <1>2. DraftOK'
    BY DEF CheckoutOK, DraftOK, NoDraft, ReadFiles, Gone, Present
  <1>3. CalmDraft'
    BY DEF CheckoutOK, DraftOK, CalmDraft, Sealing, Candidates, Unchanged, ReadFiles, Gone, Present
  <1>4. StatesOK' /\ Restorable'
    BY SealedKept
  <1>5. AdmittedStays'
    BY DEF AdmittedStays
  <1>6. QED
    BY <1>1, <1>2, <1>3, <1>4, <1>5

\* A clean file's bytes are what a checkout of its commit writes, or that or
\* the committed content with other line endings, unless they are mixed.
LEMMA CleanBytes ==
  ASSUME CausalAssumption, conv \in Conversion, NEW h \in Content, NEW w \in Content, Unchanged(h, w),
         w # Absent => w.eol # "mixed"
  PROVE  \/ w = Checkout(conv, h)
         \/ Checkout(conv, h) # Absent /\ h # Absent /\ w # Absent /\ w \in {h, Crlf(h)}
  <1>1. CASE h = w
    <2>1. CASE Checkout(conv, h) = h
      BY <1>1, <2>1
    <2>2. CASE conv = "true" /\ h # Absent /\ h.eol = "lf"
      <3>1. h \in [text : Text, eol : Eol]
        BY <2>2 DEF Content
      <3>2. Crlf(h) \in [text : Text, eol : Eol]
        BY <2>2, <3>1 DEF Crlf, Eol
      <3>3. QED
        BY <1>1, <2>2, <3>2 DEF Checkout, CausalAssumption
    <2>3. QED
      BY <2>1, <2>2 DEF Checkout
  <1>2. CASE conv # "false" /\ h # Absent /\ h.eol = "lf" /\ Lf(w) = h
    <2>1. w # Absent /\ w \in [text : Text, eol : Eol] /\ h \in [text : Text, eol : Eol]
      BY <1>2 DEF Lf, Content
    <2>2. w.eol \in {"lf", "crlf"} /\ w = [text |-> w.text, eol |-> w.eol] /\ h = [text |-> h.text, eol |-> "lf"]
      BY <1>2, <2>1 DEF Eol
    <2>3. h.text = w.text
      BY <1>2, <2>1, <2>2 DEF Lf
    <2>4. w \in {h, Crlf(h)}
      BY <1>2, <2>2, <2>3 DEF Crlf
    <2>5. Crlf(h) # Absent
      BY <1>2, <2>1 DEF Crlf, CausalAssumption, Eol
    <2>6. QED
      BY <1>2, <2>1, <2>4, <2>5 DEF Checkout
  <1>3. QED
    BY <1>1, <1>2 DEF Unchanged

LEMMA Rebuilds ==
  ASSUME CausalAssumption, CheckoutOK, NEW t, t.head = tip, t.conv = conv, cand = Candidates,
         t.files = ReadFiles, t.deleted = Gone, t.bytes = work, t.bytes # Unsealed,
         t.raw = [p \in {q \in Path \ DOMAIN ReadFiles : work[q] # Absent /\ work[q].eol = "mixed"} |-> work[p]]
  PROVE  Faithful(t)
  <1>1. /\ tip \in Commits /\ work \in [Path -> Content] /\ conv \in Conversion
        /\ TreeOf[tip] \in [Path -> Content] /\ cand \subseteq Path
    BY DEF CheckoutOK, CausalAssumption
  <1>2. \A p \in Path : p \in cand <=> ~ Unchanged(TreeOf[tip][p], work[p])
    BY DEF Candidates
  <1>3. /\ DOMAIN t.files = {p \in cand : work[p] # Absent} /\ t.deleted = {p \in cand : work[p] = Absent}
        /\ \A p \in DOMAIN t.files : t.files[p] = work[p]
    BY DEF ReadFiles, Present, Gone
  <1>4. /\ DOMAIN t.raw = {p \in Path \ DOMAIN t.files : work[p] # Absent /\ work[p].eol = "mixed"}
        /\ \A p \in DOMAIN t.raw : t.raw[p] = work[p]
    OBVIOUS
  <1>5. Materialized(t) = work
    <2> DEFINE h == TreeOf[t.head]
               laid(p) == IF p \in DOMAIN t.raw THEN t.raw[p]
                          ELSE IF p \in DOMAIN t.files THEN t.files[p]
                          ELSE IF p \in t.deleted THEN Absent
                          ELSE Checkout(t.conv, h[p])
               stale(p) == /\ p \notin DOMAIN t.files /\ laid(p) # Absent /\ h[p] # Absent
                           /\ t.bytes[p] # Absent
                           /\ t.bytes[p] # laid(p) /\ t.bytes[p] \in {h[p], Crlf(h[p])}
    <2>1. Materialized(t) = [p \in Path |-> IF stale(p) THEN t.bytes[p] ELSE laid(p)]
      BY DEF Materialized
    <2>2. ASSUME NEW p \in Path PROVE (IF stale(p) THEN t.bytes[p] ELSE laid(p)) = work[p]
      <3>1. CASE p \in DOMAIN t.raw \/ p \in DOMAIN t.files \/ p \in t.deleted
        BY <1>3, <1>4, <3>1
      <3>2. CASE p \notin DOMAIN t.raw /\ p \notin DOMAIN t.files /\ p \notin t.deleted
        <4>1. Unchanged(h[p], work[p]) /\ (work[p] # Absent => work[p].eol # "mixed")
          BY <1>2, <1>3, <1>4, <3>2
        <4>2. h[p] \in Content /\ work[p] \in Content
          BY <1>1
        <4>3. \/ work[p] = Checkout(conv, h[p])
              \/ Checkout(conv, h[p]) # Absent /\ h[p] # Absent /\ work[p] # Absent /\ work[p] \in {h[p], Crlf(h[p])}
          BY <1>1, <4>1, <4>2, CleanBytes
        <4>4. laid(p) = Checkout(conv, h[p])
          BY <3>2
        <4>5. QED
          BY <3>2, <4>3, <4>4
      <3>3. QED
        BY <3>1, <3>2
    <2>3. QED
      BY <1>1, <2>1, <2>2
  <1>6. SeesOverlay(t, work)
    BY <1>1, <1>2, <1>3 DEF SeesOverlay
  <1>7. QED
    BY <1>5, <1>6 DEF Faithful

LEMMA SealKept == ASSUME CausalAssumption, CausalInv, Seal PROVE CausalInv'
  <1> DEFINE t == [head |-> draft.head, conv |-> conv, files |-> draft.files, oid |-> draft.oid,
                   deleted |-> draft.deleted, bytes |-> draft.bytes,
                   raw |-> IF draft.bytes = Unsealed THEN <<>> ELSE KeptBytes]
  <1>1. /\ hookStep = "seal" /\ hookStep' \in {"turn", "done"} /\ side' = side /\ side \in Side
        /\ tip = draft.head /\ (draft.bytes # Unsealed => \A p \in DOMAIN draft.files : draft.bytes[p] = draft.files[p])
        /\ UNCHANGED <<tip, work, conv, written, writes, verdict, calm, stateMoves>>
        /\ cand' = {} /\ draft' = NoDraft /\ same' = TRUE
        /\ CheckoutOK /\ DraftOK /\ CalmDraft /\ StatesOK /\ Restorable
    BY DEF Seal, Advance, World, After, Forget, checkout, CausalInv, CheckoutOK
  <1>2. state' = [state EXCEPT ![side] = t]
    BY DEF Seal
  <1>3. /\ state' = [s \in Side |-> state'[s]] /\ state'[side] = t
        /\ \A s \in Side \ {side} : state'[s] = state[s]
    BY <1>1, <1>2 DEF CheckoutOK
  <1>4. StateOK(t)
    BY <1>1 DEF StateOK, DraftOK
  <1>5. calm[side] => t.bytes = Unsealed \/ Faithful(t)
    <2> SUFFICES ASSUME calm[side], t.bytes # Unsealed PROVE Faithful(t)
      OBVIOUS
    <2>1. cand = Candidates /\ draft.files = ReadFiles /\ draft.deleted = Gone /\ draft.bytes = work
      BY <1>1 DEF CalmDraft, Sealing
    <2>2. t.raw = [p \in {q \in Path \ DOMAIN ReadFiles : work[q] # Absent /\ work[q].eol = "mixed"} |-> work[p]]
      BY <2>1 DEF KeptBytes
    <2>3. t.head = tip /\ t.conv = conv /\ t.files = ReadFiles /\ t.deleted = Gone /\ t.bytes = work
      BY <1>1, <2>1
    <2> HIDE DEF t
    <2>4. QED
      BY <1>1, <2>1, <2>2, <2>3, Rebuilds
  <1> HIDE DEF t
  <1>6. CheckoutOK'
    BY <1>1, <1>3 DEF CheckoutOK
  <1>7. DraftOK' /\ CalmDraft'
    BY <1>1 DEF DraftOK, NoDraft, CalmDraft, Sealing
  <1>8. ASSUME NEW s \in Side, state'[s] # Unsealed
        PROVE  /\ StateOK(state'[s])
               /\ calm[s] => state'[s].bytes = Unsealed \/ Faithful(state'[s])
    BY <1>1, <1>3, <1>4, <1>5, <1>8 DEF StatesOK, Restorable
  <1>9. StatesOK' /\ Restorable'
    BY <1>1, <1>8 DEF StatesOK, StateOK, Restorable, Faithful, SeesOverlay, Unchanged
  <1>10. AdmittedStays'
    BY <1>1 DEF AdmittedStays, CausalInv
  <1>11. QED
    BY <1>6, <1>7, <1>9, <1>10 DEF CausalInv

LEMMA AdmitKept == ASSUME CausalAssumption, CausalInv, CausalAdmit PROVE CausalInv'
  <1>1. hookStep = "done" /\ UNCHANGED <<checkout, hookVars, written, writes, calm, stateMoves>>
    BY DEF CausalAdmit
  <1>2. CheckoutOK' /\ DraftOK' /\ CalmDraft'
    BY <1>1 DEF CausalInv, CheckoutOK, DraftOK, CalmDraft, Sealing, CausalAdmit, checkout, hookVars
  <1>3. StatesOK' /\ Restorable'
    BY <1>1, SealedKept DEF CausalInv, checkout, hookVars
  <1>4. AdmittedStays'
    BY <1>1 DEF CausalAdmit, AdmittedStays, checkout, hookVars, Faithful, SeesOverlay, Unchanged,
       Unattributed, Compared, EffectiveOid, CausalAssumption
  <1>5. QED
    BY <1>2, <1>3, <1>4 DEF CausalInv

LEMMA AgentKept == ASSUME CausalAssumption, CausalInv, NEW p \in Path, NEW c \in Content, AgentWrites(p, c) PROVE CausalInv'
  <1> USE DEF CausalInv, AgentWrites, hookVars
  <1>1. CheckoutOK'
    BY DEF CheckoutOK
  <1>2. DraftOK' /\ CalmDraft'
    BY DEF DraftOK, CalmDraft, Sealing
  <1>3. StatesOK' /\ Restorable'
    BY SealedKept
  <1>4. AdmittedStays'
    BY DEF AdmittedStays
  <1>5. QED
    BY <1>1, <1>2, <1>3, <1>4

LEMMA DisturbKept ==
  ASSUME CausalAssumption, CausalInv, Disturb, tip' \in Commits, work' \in [Path -> Content]
  PROVE  CausalInv'
  <1> USE DEF CausalInv, Disturb, hookVars
  <1>1. CheckoutOK'
    BY DEF CheckoutOK
  <1>2. DraftOK' /\ CalmDraft'
    BY DEF DraftOK, CalmDraft, Sealing, CheckoutOK
  <1>3. \A s \in Side : calm'[s] => calm[s]
    BY DEF CheckoutOK
  <1>4. StatesOK' /\ Restorable'
    BY <1>3, SealedKept
  <1>5. AdmittedStays'
    BY DEF AdmittedStays
  <1>6. QED
    BY <1>1, <1>2, <1>4, <1>5

LEMMA CausalInvKept == ASSUME CausalAssumption, CausalInv, [CausalNext]_causalVars PROVE CausalInv'
  <1>1. ASSUME NEW p \in Path, NEW c \in Content, ChangeFile(p, c) PROVE CausalInv'
    <2>1. Disturb /\ tip' \in Commits /\ work' \in [Path -> Content]
      BY <1>1 DEF ChangeFile, CausalInv, CheckoutOK
    <2>2. QED
      BY <2>1, DisturbKept
  <1>2. ASSUME NEW c \in Commits, MoveHead(c) PROVE CausalInv'
    <2>1. Disturb /\ tip' \in Commits /\ work' \in [Path -> Content]
      BY <1>2 DEF MoveHead, CausalInv, CheckoutOK
    <2>2. QED
      BY <2>1, DisturbKept
  <1>3. CASE UNCHANGED causalVars
    <2> USE <1>3 DEF causalVars, checkout, hookVars, CausalInv
    <2>1. CheckoutOK' /\ DraftOK'
      BY DEF CheckoutOK, DraftOK
    <2>2. CalmDraft'
      BY DEF CalmDraft, Sealing, Candidates, Unchanged, ReadFiles, Gone, Present
    <2>3. AdmittedStays'
      BY DEF AdmittedStays, Faithful, SeesOverlay, Unchanged, Unattributed, Compared, EffectiveOid
    <2>4. StatesOK' /\ Restorable'
      BY SealedKept
    <2>5. QED
      BY <2>1, <2>2, <2>3, <2>4
  <1>4. QED
    BY <1>1, <1>2, <1>3, ReadHeadKept, ListKept, ReadKept, HashKept, ManifestKept, ReadAgainKept, ReadThirdKept,
       SealKept, FailKept, StopKept, AdmitKept, AgentKept DEF CausalNext

\* CausalTypeOK, for any paths, contents, commits and changes.
THEOREM CausalTypeCorrect == ASSUME CausalAssumption PROVE CausalSpec => []CausalTypeOK
  <1>1. CausalInv => CausalTypeOK
    BY DEF CausalInv, CheckoutOK, StatesOK, StateOK, CausalTypeOK
  <1>2. QED
    BY <1>1, InitCausalInv, CausalInvKept, PTL DEF CausalSpec

\* What was sealed with its manifest while nothing changed can be rebuilt byte
\* for byte.
THEOREM SealedRestores == ASSUME CausalAssumption PROVE CausalSpec => []Restorable
  <1>1. CausalInv => Restorable
    BY DEF CausalInv
  <1>2. QED
    BY <1>1, InitCausalInv, CausalInvKept, PTL DEF CausalSpec

\* On a side that can be rebuilt, the object id that is compared is that of
\* the bytes, up to the line endings that git converts.
LEMMA ComparedAsRebuilt ==
  ASSUME CausalAssumption, conv \in Conversion, NEW t, StateOK(t), Faithful(t), NEW p \in Path,
         p \in DOMAIN t.files => t.oid[p] = (IF t.conv = "false" THEN t.files[p] ELSE Lf(t.files[p])),
         p \in t.deleted => t.bytes[p] = Absent
  PROVE  ~ Differ(t.bytes[p], EffectiveOid(t, p))
  <1>1. /\ t.bytes \in [Path -> Content] /\ t.conv = conv /\ t.bytes[p] \in Content
        /\ p \in DOMAIN t.files => t.bytes[p] = t.files[p]
        /\ TreeOf[t.head][p] \in Content
    BY DEF StateOK, Faithful, CausalAssumption
  <1>2. \A c \in Content : Lf(c) \in Content /\ Lf(Lf(c)) = Lf(c)
    BY DEF Lf, Content, Eol, CausalAssumption
  <1>3. CASE p \in DOMAIN t.files
    BY <1>1, <1>2, <1>3 DEF EffectiveOid, Differ
  <1>4. CASE p \notin DOMAIN t.files /\ p \in t.deleted
    BY <1>4 DEF EffectiveOid, Differ
  <1>5. CASE p \notin DOMAIN t.files /\ p \notin t.deleted
    <2>1. Unchanged(TreeOf[t.head][p], t.bytes[p])
      BY <1>5 DEF Faithful, SeesOverlay
    <2>2. EffectiveOid(t, p) = TreeOf[t.head][p]
      BY <1>5 DEF EffectiveOid
    <2>3. CASE TreeOf[t.head][p] = t.bytes[p]
      BY <2>2, <2>3 DEF Differ
    <2>4. CASE conv # "false" /\ Lf(t.bytes[p]) = TreeOf[t.head][p]
      BY <1>1, <1>2, <2>2, <2>4 DEF Differ
    <2>5. QED
      BY <2>1, <2>3, <2>4 DEF Unchanged
  <1>6. QED
    BY <1>3, <1>4, <1>5

\* All that an admitted episode changed, the agent wrote.
THEOREM AdmittedIsTheAgents == ASSUME CausalAssumption PROVE CausalSpec => []AdmittedAttributed
  <1>1. CausalInv => AdmittedAttributed
    <2> SUFFICES ASSUME CausalInv, verdict = "admitted", OidsOfBytes, DeletedGone, NEW p \in Path, p \notin written
                 PROVE  ~ Differ(state["start"].bytes[p], state["end"].bytes[p])
      BY DEF AdmittedAttributed
    <2> DEFINE s == state["start"]
               e == state["end"]
    <2>1. /\ conv \in Conversion /\ s # Unsealed /\ e # Unsealed /\ StateOK(s) /\ StateOK(e)
          /\ Faithful(s) /\ Faithful(e) /\ Unattributed(s, e) = {}
      BY DEF CausalInv, CheckoutOK, AdmittedStays, StatesOK, Side
    <2>2. \A t \in {s, e} :
             /\ p \in DOMAIN t.files => t.oid[p] = (IF t.conv = "false" THEN t.files[p] ELSE Lf(t.files[p]))
             /\ p \in t.deleted => t.bytes[p] = Absent
      BY <2>1 DEF OidsOfBytes, DeletedGone, Side, Faithful
    <2> HIDE DEF s, e
    <2>3. ~ Differ(s.bytes[p], EffectiveOid(s, p)) /\ ~ Differ(e.bytes[p], EffectiveOid(e, p))
      BY <2>1, <2>2, ComparedAsRebuilt
    <2>4. EffectiveOid(s, p) = EffectiveOid(e, p)
      BY <2>1 DEF Unattributed, Compared, EffectiveOid
    <2>5. ~ Differ(s.bytes[p], e.bytes[p])
      BY <2>3, <2>4 DEF Differ
    <2>6. QED
      BY <2>5 DEF s, e
  <1>2. QED
    BY <1>1, InitCausalInv, CausalInvKept, PTL DEF CausalSpec

-----------------------------------------------------------------------------
(* Sums and other folds over a finite set, which the library defines by a    *)
(* function that is recursive on the subsets.                                *)

LEMMA LeastNat ==
  ASSUME NEW S \in SUBSET Nat, S # {}
  PROVE  \E m \in S : \A x \in S : m <= x
  <1>1. PICK m \in S : \A x \in S : ~ (<<x, m>> \in OpToRel(<, Nat))
    BY NatLessThanWellFounded, WFMin
  <1>2. \A x \in S : ~ (x < m)
    BY <1>1 DEF OpToRel
  <1>3. QED
    BY <1>2

LEMMA SubsetSize ==
  ASSUME NEW S, IsFiniteSet(S), NEW s \in SUBSET S
  PROVE  /\ IsFiniteSet(s) /\ Cardinality(s) \in Nat /\ Cardinality(s) <= Cardinality(S)
         /\ Cardinality(s) = 0 <=> s = {}
         /\ \A x \in s : Cardinality(s \ {x}) = Cardinality(s) - 1
  BY FS_Subset, FS_CardinalityType, FS_EmptySet, FS_RemoveElement

\* Of some subsets of a finite set, one is smallest.
LEMMA Smallest ==
  ASSUME NEW S, IsFiniteSet(S), NEW B \in SUBSET (SUBSET S), B # {}
  PROVE  \E s \in B : \A x \in s : s \ {x} \notin B
  <1> DEFINE Sizes == {Cardinality(s) : s \in B}
  <1>1. Sizes \in SUBSET Nat /\ Sizes # {}
    BY SubsetSize
  <1>2. PICK m \in Sizes : \A x \in Sizes : m <= x
    BY <1>1, LeastNat
  <1>3. PICK s \in B : Cardinality(s) = m
    BY <1>2
  <1>4. ASSUME NEW x \in s, s \ {x} \in B PROVE FALSE
    <2>1. m <= Cardinality(s \ {x})
      BY <1>2, <1>4
    <2>2. Cardinality(s \ {x}) = Cardinality(s) - 1 /\ Cardinality(s) \in Nat
      BY SubsetSize
    <2>3. QED
      BY <1>3, <2>1, <2>2
  <1>5. QED
    BY <1>4

\* A fold: P takes an element out of a set, G adds it to the fold of the rest.
FoldOf(S, base, P, G, it) ==
    \A s \in SUBSET S : it[s] = IF s = {} THEN base ELSE G[<<s, it[s \ {P[s]}]>>]

LEMMA FoldExists ==
  ASSUME NEW S, IsFiniteSet(S), NEW V, NEW base \in V,
         NEW P, \A s \in SUBSET S : s # {} => P[s] \in s,
         NEW G, \A s \in SUBSET S : \A v \in V : s # {} => G[<<s, v>>] \in V
  PROVE  \E it \in [SUBSET S -> V] : FoldOf(S, base, P, G, it)
  <1> DEFINE Upto(n, g) == \A s \in SUBSET S : Cardinality(s) <= n =>
                              g[s] = IF s = {} THEN base ELSE G[<<s, g[s \ {P[s]}]>>]
             Done == {n \in Nat : \E g \in [SUBSET S -> V] : Upto(n, g)}
  <1>1. 0 \in Done
    <2> DEFINE g == [s \in SUBSET S |-> base]
    <2>1. g \in [SUBSET S -> V]
      OBVIOUS
    <2>2. ASSUME NEW s \in SUBSET S, Cardinality(s) <= 0 PROVE s = {} /\ g[s] = base
      BY <2>2, SubsetSize
    <2>3. Upto(0, g)
      BY <2>2
    <2>4. QED
      BY <2>1, <2>3
  <1>2. ASSUME NEW n \in Done PROVE n + 1 \in Done
    <2>1. PICK g \in [SUBSET S -> V] : Upto(n, g)
      OBVIOUS
    <2> DEFINE Less(s) == s \ {P[s]}
               h == [s \in SUBSET S |-> IF Cardinality(s) <= n \/ s = {} THEN g[s] ELSE G[<<s, g[Less(s)]>>]]
    <2>2. n \in Nat
      OBVIOUS
    <2>3. ASSUME NEW s \in SUBSET S, s # {}
          PROVE  Less(s) \in SUBSET S /\ Cardinality(Less(s)) = Cardinality(s) - 1 /\ Cardinality(s) \in Nat
      BY <2>3, SubsetSize
    <2>4. h \in [SUBSET S -> V]
      <3>1. ASSUME NEW s \in SUBSET S PROVE (IF Cardinality(s) <= n \/ s = {} THEN g[s] ELSE G[<<s, g[Less(s)]>>]) \in V
        <4>1. g[s] \in V
          OBVIOUS
        <4>2. CASE Cardinality(s) <= n \/ s = {}
          BY <4>1, <4>2
        <4>3. CASE ~ (Cardinality(s) <= n \/ s = {})
          <5>1. g[Less(s)] \in V
            BY <2>3, <4>3
          <5>2. QED
            BY <4>3, <5>1
        <4>4. QED
          BY <4>2, <4>3
      <3>2. QED
        BY <3>1
    <2>5. ASSUME NEW s \in SUBSET S, Cardinality(s) <= n + 1
          PROVE  h[s] = IF s = {} THEN base ELSE G[<<s, h[Less(s)]>>]
      <3>1. CASE s = {}
        <4>1. Cardinality(s) <= n
          BY <2>2, <3>1, FS_EmptySet
        <4>2. QED
          BY <2>1, <3>1, <4>1
      <3>2. CASE s # {}
        <4>1. h[Less(s)] = g[Less(s)]
          BY <2>2, <2>3, <2>5, <3>2
        <4>2. h[s] = G[<<s, g[Less(s)]>>]
          BY <2>1, <3>2
        <4>3. QED
          BY <3>2, <4>1, <4>2
      <3>3. QED
        BY <3>1, <3>2
    <2>6. Upto(n + 1, h)
      BY <2>5
    <2> HIDE DEF h, Upto
    <2>7. QED
      BY <2>2, <2>4, <2>6
  <1>3. Cardinality(S) \in Done
    <2>1. SUFFICES ASSUME Nat \ Done # {} PROVE FALSE
      BY FS_CardinalityType
    <2>2. PICK m \in Nat \ Done : \A x \in Nat \ Done : m <= x
      BY <2>1, LeastNat
    <2>3. m # 0
      BY <1>1
    <2> HIDE DEF Done
    <2>4. m - 1 \in Nat /\ ~ (m <= m - 1)
      BY <2>3
    <2>5. m - 1 \in Done
      BY <2>2, <2>4
    <2>6. (m - 1) + 1 \in Done
      BY <1>2, <2>5
    <2>7. QED
      BY <2>2, <2>6
  <1>4. PICK g \in [SUBSET S -> V] : Upto(Cardinality(S), g)
    BY <1>3
  <1>5. \A s \in SUBSET S : Cardinality(s) <= Cardinality(S)
    BY SubsetSize
  <1>6. FoldOf(S, base, P, G, g)
    BY <1>4, <1>5 DEF FoldOf
  <1>7. QED
    BY <1>6

-----------------------------------------------------------------------------
(* Sums of natural numbers.                                                *)

OneOf(s) == CHOOSE x \in s : TRUE
Sums(b, S) == CHOOSE it : it = [s \in SUBSET S |-> IF s = {} THEN 0 ELSE b[OneOf(s)] + it[s \ {OneOf(s)}]]
SumOf(b, S) == Sums(b, S)[S]
Counts(b, S) == IsFiniteSet(S) /\ \A x \in S : b[x] \in Nat

LEMMA TotalIs == ASSUME NEW b PROVE Total(b) = SumOf(b, DOMAIN b)
  BY DEF Total, SumOf, Sums, OneOf, MapThenSumSet, MapThenFoldSet

LEMMA TokensIs == ASSUME NEW s PROVE Tokens(s) = SumOf(s.usage, DOMAIN s.usage)
  BY DEF Tokens, SumOf, Sums, OneOf, FoldSeq, FoldFunction, FoldFunctionOnSet, MapThenFoldSet

LEMMA OneOfIs == ASSUME NEW s, s # {} PROVE OneOf(s) \in s
  BY DEF OneOf

\* The recursive function is there.
LEMMA SumsAre ==
  ASSUME NEW S, NEW b, Counts(b, S)
  PROVE  \A s \in SUBSET S : Sums(b, S)[s] = IF s = {} THEN 0 ELSE b[OneOf(s)] + Sums(b, S)[s \ {OneOf(s)}]
  <1> DEFINE P == [s \in SUBSET S |-> OneOf(s)]
             G == [y \in (SUBSET S) \X Nat |-> b[OneOf(y[1])] + y[2]]
             Is(it) == it = [s \in SUBSET S |-> IF s = {} THEN 0 ELSE b[OneOf(s)] + it[s \ {OneOf(s)}]]
  <1>1. IsFiniteSet(S) /\ 0 \in Nat
    BY DEF Counts
  <1>2. \A s \in SUBSET S : s # {} => P[s] \in s /\ OneOf(s) \in S
    BY OneOfIs
  <1>3. ASSUME NEW s \in SUBSET S, NEW v \in Nat, s # {} PROVE G[<<s, v>>] = b[OneOf(s)] + v /\ G[<<s, v>>] \in Nat
    <2>1. <<s, v>> \in (SUBSET S) \X Nat /\ <<s, v>>[1] = s /\ <<s, v>>[2] = v
      OBVIOUS
    <2>2. G[<<s, v>>] = b[OneOf(s)] + v
      BY <2>1
    <2>3. b[OneOf(s)] \in Nat
      BY <1>2, <1>3 DEF Counts
    <2>4. QED
      BY <2>2, <2>3
  <1> HIDE DEF G
  <1>4. \E it \in [SUBSET S -> Nat] : FoldOf(S, 0, P, G, it)
    <2> HIDE DEF P
    <2>1. \A s \in SUBSET S : s # {} => P[s] \in s
      BY <1>2
    <2>2. \A s \in SUBSET S : \A v \in Nat : s # {} => G[<<s, v>>] \in Nat
      BY <1>3
    <2>3. QED
      BY <1>1, <2>1, <2>2, FoldExists
  <1>5. PICK it \in [SUBSET S -> Nat] : FoldOf(S, 0, P, G, it)
    BY <1>4
  <1>6. ASSUME NEW s \in SUBSET S PROVE it[s] = IF s = {} THEN 0 ELSE b[OneOf(s)] + it[s \ {OneOf(s)}]
    <2>1. s \ {P[s]} \in SUBSET S /\ it[s \ {P[s]}] \in Nat
      OBVIOUS
    <2>2. P[s] = OneOf(s)
      OBVIOUS
    <2>3. s # {} => it[s] = G[<<s, it[s \ {P[s]}]>>]
      BY <1>5 DEF FoldOf
    <2>4. s # {} => G[<<s, it[s \ {P[s]}]>>] = b[OneOf(s)] + it[s \ {P[s]}]
      BY <1>3, <2>1
    <2>5. s = {} => it[s] = 0
      BY <1>5 DEF FoldOf
    <2>6. QED
      BY <2>2, <2>3, <2>4, <2>5
  <1>7. Is(it)
    BY <1>6
  <1>8. Sums(b, S) = CHOOSE i : Is(i)
    BY DEF Sums
  <1> HIDE DEF Is
  <1>9. Is(Sums(b, S))
    BY <1>7, <1>8
  <1>10. QED
    BY <1>9 DEF Is

LEMMA SumsAreCounts ==
  ASSUME NEW S, NEW b, Counts(b, S)
  PROVE  \A s \in SUBSET S : Sums(b, S)[s] \in Nat
  <1> DEFINE B == {s \in SUBSET S : Sums(b, S)[s] \notin Nat}
  <1>1. SUFFICES ASSUME B # {} PROVE FALSE
    OBVIOUS
  <1>2. PICK s \in B : \A x \in s : s \ {x} \notin B
    BY <1>1, Smallest DEF Counts
  <1>3. s # {}
    <2>1. Sums(b, S)[s] \notin Nat /\ s \in SUBSET S
      BY <1>2
    <2>2. s = {} => Sums(b, S)[s] = 0
      BY <2>1, SumsAre
    <2>3. QED
      BY <2>1, <2>2
  <1>4. OneOf(s) \in s /\ b[OneOf(s)] \in Nat
    BY <1>3, OneOfIs DEF Counts
  <1>5. Sums(b, S)[s \ {OneOf(s)}] \in Nat
    BY <1>2, <1>4
  <1>6. Sums(b, S)[s] = b[OneOf(s)] + Sums(b, S)[s \ {OneOf(s)}]
    BY <1>3, SumsAre
  <1>7. QED
    BY <1>4, <1>5, <1>6

\* Any element may be taken out first.
LEMMA SumsOrder ==
  ASSUME NEW S, NEW b, Counts(b, S)
  PROVE  \A s \in SUBSET S : \A x \in s : Sums(b, S)[s] = b[x] + Sums(b, S)[s \ {x}]
  <1> DEFINE it == Sums(b, S)
             B == {s \in SUBSET S : \E x \in s : it[s] # b[x] + it[s \ {x}]}
  <1>1. SUFFICES ASSUME B # {} PROVE FALSE
    OBVIOUS
  <1>2. PICK s \in B : \A x \in s : s \ {x} \notin B
    BY <1>1, Smallest DEF Counts
  <1>3. PICK x \in s : it[s] # b[x] + it[s \ {x}]
    BY <1>2
  <1> DEFINE c == OneOf(s)
  <1>4. c \in s /\ it[s] = b[c] + it[s \ {c}]
    BY <1>3, OneOfIs, SumsAre
  <1>5. c # x
    BY <1>3, <1>4
  <1> HIDE DEF c
  <1>6. it[s \ {c}] = b[x] + it[(s \ {c}) \ {x}]
    BY <1>2, <1>4, <1>5
  <1>7. it[s \ {x}] = b[c] + it[(s \ {x}) \ {c}]
    BY <1>2, <1>4, <1>5
  <1>8. (s \ {c}) \ {x} = (s \ {x}) \ {c}
    OBVIOUS
  <1>0. it[(s \ {c}) \ {x}] = it[(s \ {x}) \ {c}]
    BY <1>8
  <1>9. /\ b[c] \in Nat /\ b[x] \in Nat /\ it[(s \ {x}) \ {c}] \in Nat
    BY <1>4, SumsAreCounts DEF Counts
  <1>10. it[s] = b[c] + (b[x] + it[(s \ {x}) \ {c}])
    BY <1>4, <1>6, <1>0
  <1>11. b[c] + (b[x] + it[(s \ {x}) \ {c}]) = b[x] + (b[c] + it[(s \ {x}) \ {c}])
    BY <1>9
  <1>12. QED
    BY <1>3, <1>7, <1>10, <1>11

\* A sum is of the values in the set alone.
LEMMA SumsAgree ==
  ASSUME NEW S, NEW T, NEW b, NEW c, Counts(b, S), Counts(c, T), S \subseteq T, \A x \in S : b[x] = c[x]
  PROVE  \A s \in SUBSET S : Sums(b, S)[s] = Sums(c, T)[s]
  <1> DEFINE B == {s \in SUBSET S : Sums(b, S)[s] # Sums(c, T)[s]}
  <1>1. SUFFICES ASSUME B # {} PROVE FALSE
    OBVIOUS
  <1>2. PICK s \in B : \A x \in s : s \ {x} \notin B
    BY <1>1, Smallest DEF Counts
  <1>3. /\ Sums(b, S)[s] = IF s = {} THEN 0 ELSE b[OneOf(s)] + Sums(b, S)[s \ {OneOf(s)}]
        /\ Sums(c, T)[s] = IF s = {} THEN 0 ELSE c[OneOf(s)] + Sums(c, T)[s \ {OneOf(s)}]
    BY SumsAre
  <1>4. s # {}
    BY <1>3
  <1>5. OneOf(s) \in s /\ b[OneOf(s)] = c[OneOf(s)]
    BY <1>4, OneOfIs
  <1>6. Sums(b, S)[s \ {OneOf(s)}] = Sums(c, T)[s \ {OneOf(s)}]
    BY <1>2, <1>5
  <1>7. QED
    BY <1>3, <1>4, <1>5, <1>6

\* What the proofs below use.
LEMMA SumEmpty == ASSUME NEW b PROVE SumOf(b, {}) = 0
  <1>1. Counts(b, {})
    BY FS_EmptySet DEF Counts
  <1>2. QED
    BY <1>1, SumsAre DEF SumOf

LEMMA SumIsCount == ASSUME NEW S, NEW b, Counts(b, S) PROVE SumOf(b, S) \in Nat
  BY SumsAreCounts DEF SumOf

LEMMA SumAdds ==
  ASSUME NEW S, NEW b, NEW c, NEW x, x \notin S, Counts(b, S), c[x] \in Nat, \A y \in S : b[y] = c[y]
  PROVE  Counts(c, S \cup {x}) /\ SumOf(c, S \cup {x}) = c[x] + SumOf(b, S)
  <1>1. Counts(c, S \cup {x})
    BY FS_AddElement DEF Counts
  <1>2. SumOf(c, S \cup {x}) = c[x] + Sums(c, S \cup {x})[(S \cup {x}) \ {x}]
    BY <1>1, SumsOrder DEF SumOf
  <1>3. (S \cup {x}) \ {x} = S
    OBVIOUS
  <1>4. Sums(b, S)[S] = Sums(c, S \cup {x})[S]
    BY <1>1, SumsAgree
  <1>5. QED
    BY <1>1, <1>2, <1>3, <1>4 DEF SumOf

LEMMA SumSame ==
  ASSUME NEW S, NEW b, NEW c, Counts(b, S), \A y \in S : b[y] = c[y]
  PROVE  Counts(c, S) /\ SumOf(c, S) = SumOf(b, S)
  <1>1. Counts(c, S)
    BY DEF Counts
  <1>2. QED
    BY <1>1, SumsAgree DEF SumOf

-----------------------------------------------------------------------------
(* Twin for any plan, tokens, scripts and number of faults: types, what was  *)
(* spent when a run is started, and what a sighted bench rests on.           *)

RunRecord == [task : DOMAIN Tasks, rep : Nat, arm : Arms]

StreamRecord ==
    [usage : Seq(Nat), hit : Nat \cup {None}, planted : BOOLEAN,
     result : [type : {"result"}, failed : BOOLEAN, n : Nat] \cup {None}, killed : {None, "cap", "wall"}]

Streams == {s \in StreamRecord : s.hit # None => s.hit \in 1 .. Len(s.usage)}

LEMMA FreshIs == Fresh \in Streams
  BY DEF Fresh, Streams, StreamRecord

LEMMA Fed ==
  ASSUME NEW s \in Streams, NEW e \in Event
  PROVE  Feed(s, e) \in Streams
  <1>1. CASE e.type = "result"
    <2>1. e \in [type : {"result"}, failed : BOOLEAN, n : Nat]
      BY <1>1 DEF Event
    <2>2. Feed(s, e) = [s EXCEPT !.result = e]
      BY <1>1 DEF Feed
    <2>3. QED
      BY <2>1, <2>2 DEF Streams, StreamRecord
  <1>2. CASE e.type # "result"
    <2> DEFINE u == IF e.mid > Len(s.usage) THEN Append(s.usage, e.n)
                    ELSE [s.usage EXCEPT ![e.mid] = MaxOf(s.usage[e.mid], e.n)]
               h == IF s.hit = None /\ e.call = "target" THEN Place(s, e) ELSE s.hit
               b == s.planted \/ e.call = "planted"
    <2>1. e.mid \in Nat \ {0} /\ e.n \in Nat
      BY <1>2 DEF Event
    <2>2. s.usage \in Seq(Nat) /\ Len(s.usage) \in Nat
      BY DEF Streams, StreamRecord
    <2>3. u \in Seq(Nat) /\ Len(s.usage) <= Len(u) /\ Place(s, e) \in 1 .. Len(u)
      <3>1. CASE e.mid > Len(s.usage)
        <4>1. u = Append(s.usage, e.n) /\ Place(s, e) = Len(s.usage) + 1
          BY <3>1 DEF Place
        <4>2. u \in Seq(Nat) /\ Len(u) = Len(s.usage) + 1
          BY <2>1, <2>2, <4>1
        <4>3. QED
          BY <2>2, <4>1, <4>2
      <3>2. CASE ~ (e.mid > Len(s.usage))
        <4>1. e.mid \in 1 .. Len(s.usage)
          BY <2>1, <2>2, <3>2
        <4>2. s.usage[e.mid] \in Nat
          BY <2>2, <4>1
        <4>3. MaxOf(s.usage[e.mid], e.n) \in Nat
          BY <2>1, <4>2 DEF MaxOf
        <4>4. u = [s.usage EXCEPT ![e.mid] = MaxOf(s.usage[e.mid], e.n)] /\ Place(s, e) = e.mid
          BY <3>2 DEF Place
        <4>5. u \in Seq(Nat) /\ Len(u) = Len(s.usage)
          BY <2>2, <4>1, <4>3, <4>4
        <4>6. QED
          BY <2>2, <4>1, <4>4, <4>5
      <3>3. QED
        BY <3>1, <3>2
    <2>4. h \in Nat \cup {None} /\ (h # None => h \in 1 .. Len(u))
      <3>1. s.hit \in Nat \cup {None} /\ (s.hit # None => s.hit \in 1 .. Len(s.usage))
        BY DEF Streams, StreamRecord
      <3>2. Len(u) \in Nat
        BY <2>3
      <3> HIDE DEF u
      <3>3. QED
        BY <2>2, <2>3, <3>1, <3>2
    <2>5. b \in BOOLEAN
      BY Zenon
    <2>6. Feed(s, e) = [s EXCEPT !.usage = u, !.hit = h, !.planted = b]
      BY <1>2 DEF Feed
    <2> HIDE DEF u, h, b
    <2>7. QED
      BY <2>3, <2>4, <2>5, <2>6 DEF Streams, StreamRecord
  <1>3. QED
    BY <1>1, <1>2

LEMMA SpendIs == ASSUME NEW s \in Streams PROVE Spend(s) \in Nat
  <1>1. s.usage \in Seq(Nat) /\ (s.result # None => s.result.n \in Nat)
    BY DEF Streams, StreamRecord
  <1>2. Counts(s.usage, DOMAIN s.usage)
    BY <1>1, FS_Interval DEF Counts
  <1>3. Tokens(s) \in Nat
    BY <1>2, TokensIs, SumIsCount
  <1>4. QED
    BY <1>1, <1>3 DEF Spend, MaxOf

\* All that the client has written is a stream, too.
FedAll(st, p) ==
    CHOOSE it : it = [s \in SUBSET DOMAIN p |-> IF s = {} THEN st ELSE Feed(it[s \ {Max(s)}], p[Max(s)])]

LEMMA WrittenIs ==
  ASSUME stream \in Streams, pipe \in Seq(Event)
  PROVE  Written \in Streams
  <1> DEFINE D == DOMAIN pipe
             P == [s \in SUBSET D |-> Max(s)]
             G == [y \in (SUBSET D) \X Streams |-> Feed(y[2], pipe[Max(y[1])])]
             Is(it) == it = [s \in SUBSET D |-> IF s = {} THEN stream ELSE Feed(it[s \ {Max(s)}], pipe[Max(s)])]
  <1>1. IsFiniteSet(D) /\ Len(pipe) \in Nat /\ D = 1 .. Len(pipe) /\ \A i \in D : pipe[i] \in Event
    BY FS_Interval
  <1>2. ASSUME NEW s \in SUBSET D, s # {} PROVE Max(s) \in s /\ P[s] \in s /\ P[s] = Max(s)
    <2>1. s \in SUBSET (1 .. Len(pipe))
      BY <1>1
    <2>2. QED
      BY <1>1, <1>2, <2>1, MaxIn
  <1>3. ASSUME NEW s \in SUBSET D, NEW v \in Streams, s # {}
        PROVE  G[<<s, v>>] = Feed(v, pipe[Max(s)]) /\ Feed(v, pipe[Max(s)]) \in Streams
    <2>1. <<s, v>> \in (SUBSET D) \X Streams /\ <<s, v>>[1] = s /\ <<s, v>>[2] = v
      OBVIOUS
    <2>2. G[<<s, v>>] = Feed(v, pipe[Max(s)])
      BY <2>1
    <2>3. pipe[Max(s)] \in Event
      BY <1>1, <1>2, <1>3
    <2>4. QED
      BY <2>2, <2>3, Fed
  <1> HIDE DEF G
  <1>4. \E it \in [SUBSET D -> Streams] : FoldOf(D, stream, P, G, it)
    <2> HIDE DEF P, D
    <2>1. \A s \in SUBSET D : s # {} => P[s] \in s
      BY <1>2
    <2>2. \A s \in SUBSET D : \A v \in Streams : s # {} => G[<<s, v>>] \in Streams
      BY <1>3
    <2>3. QED
      BY <1>1, <2>1, <2>2, FoldExists
  <1>5. PICK it \in [SUBSET D -> Streams] : FoldOf(D, stream, P, G, it)
    BY <1>4
  <1>6. ASSUME NEW s \in SUBSET D PROVE it[s] = IF s = {} THEN stream ELSE Feed(it[s \ {Max(s)}], pipe[Max(s)])
    <2>1. it[s \ {P[s]}] \in Streams
      OBVIOUS
    <2>2. P[s] = Max(s)
      OBVIOUS
    <2> HIDE DEF P
    <2>3. s # {} => it[s] = G[<<s, it[s \ {P[s]}]>>]
      BY <1>5 DEF FoldOf
    <2>4. s # {} => G[<<s, it[s \ {P[s]}]>>] = Feed(it[s \ {P[s]}], pipe[Max(s)])
      BY <1>3, <2>1
    <2>5. s = {} => it[s] = stream
      BY <1>5 DEF FoldOf
    <2>6. QED
      BY <2>2, <2>3, <2>4, <2>5
  <1>7. Is(it)
    BY <1>6
  <1>8. FedAll(stream, pipe) = CHOOSE i : Is(i)
    BY DEF FedAll
  <1>9. Is(FedAll(stream, pipe))
    <2> HIDE DEF Is
    <2>1. QED
      BY <1>7, <1>8
  <1> DEFINE all == FedAll(stream, pipe)
             B == {s \in SUBSET D : all[s] \notin Streams}
  <1>10. B = {}
    <2>1. SUFFICES ASSUME B # {} PROVE FALSE
      OBVIOUS
    <2>2. PICK s \in B : \A x \in s : s \ {x} \notin B
      BY <1>1, <2>1, Smallest
    <2>3. all[s] = IF s = {} THEN stream ELSE Feed(all[s \ {Max(s)}], pipe[Max(s)])
      BY <1>9
    <2> HIDE DEF all
    <2>4. s # {}
      BY <2>3
    <2>5. Max(s) \in s /\ pipe[Max(s)] \in Event
      BY <1>1, <1>2, <2>4
    <2>6. all[s \ {Max(s)}] \in Streams
      BY <2>2, <2>5
    <2>7. QED
      BY <2>3, <2>4, <2>5, <2>6, Fed
  <1>11. Written = FedAll(stream, pipe)[DOMAIN pipe]
    BY DEF Written, FedAll, FoldLeft, MapThenFoldSet
  <1>12. QED
    BY <1>10, <1>11

LEMMA ThroughIs ==
  ASSUME NEW s \in Streams, s.hit # None
  PROVE  TokensThrough(s, s.hit) \in Nat
  <1> DEFINE q == SubSeq(s.usage, 1, s.hit)
  <1>1. s.usage \in Seq(Nat) /\ s.hit \in 1 .. Len(s.usage)
    BY DEF Streams, StreamRecord
  <1>2. q \in Seq(Nat)
    BY <1>1
  <1>3. TokensThrough(s, s.hit) = SumOf(q, DOMAIN q)
    BY DEF TokensThrough, SumOf, Sums, OneOf, FoldSeq, FoldFunction, FoldFunctionOnSet, MapThenFoldSet
  <1> HIDE DEF q
  <1>4. Counts(q, DOMAIN q)
    BY <1>2, FS_Interval DEF Counts
  <1>5. QED
    BY <1>3, <1>4, SumIsCount

LEMMA InvalidIs == ASSUME NEW s \in Streams PROVE Invalid(s) \in BOOLEAN
  BY Zenon DEF Invalid

-----------------------------------------------------------------------------
Busy == twinStep \in {"running", "meta", "book", "aside"}

Archived ==
    /\ plan \in Seq(RunRecord)
    /\ dir \in [Runs -> Meta \cup {None, Torn}] /\ aside \in [Runs -> Seq(Meta)]
    /\ stuck \subseteq Runs

Client == cli \in Seq(Event) /\ pipe \in Seq(Event) /\ stream \in Streams

\* A batch has a copy of the ledger, and a place in the plan.
BatchOK ==
    /\ twinStep \in {"idle", "next", "running", "meta", "book", "aside"}
    /\ twinStep = "idle" => batch = None
    /\ twinStep # "idle" =>
          /\ batch = [book |-> batch.book, pos |-> batch.pos, kind |-> batch.kind, left |-> batch.left]
          /\ batch.pos \in Nat \ {0}
    /\ Busy => batch.pos \in 1 .. Len(plan)

\* What the run at work has in the archive.
RunOK ==
    /\ twinStep \in {"running", "meta"} => dir[Run] = None
    /\ twinStep = "running" => Room
    /\ twinStep = "book" => dir[Run] \in Meta /\ dir[Run].spent = Spend(stream)
    /\ twinStep = "aside" => dir[Run] \in Meta /\ dir[Run].invalid

\* A run on file as invalid is about to be set aside, or its batch has died.
InvalidKnown ==
    \A r \in Runs : dir[r] \in Meta /\ dir[r].invalid =>
        r \in stuck \/ (twinStep \in {"book", "aside"} /\ r = Run)

\* What was spent is in the archive, or about to be, or lost with its batch.
Shelved == {k \in DOMAIN Kept : Kept[k] \in Meta}
Worth == [k \in Shelved |-> Kept[k].spent]
Filed == SumOf(Worth, Shelved)
Unfiled == IF twinStep = "meta" THEN Spend(stream) ELSE 0
Behind == [file : Nat, copy : Nat, rebuild : Nat]
Money ==
    /\ spent \in Nat /\ unsaved \in Nat /\ behind \in Behind
    /\ spent = unsaved + Unfiled + Filed

\* A ledger has all that is in the archive, but for n tokens: the file, the
\* batch's copy, which is about to get what its run spent, and a rebuilt one.
Covers(w, b, n) == Counts(b, DOMAIN b) /\ w <= SumOf(b, DOMAIN b) + n
Owed == IF twinStep = "book" THEN Spend(stream) ELSE 0
Ledgers ==
    /\ book # Torn => Covers(Filed, book, behind.file)
    /\ twinStep # "idle" => Covers(Filed, batch.book, behind.copy + Owed)
    /\ rebuild # None => Covers(Filed, rebuild, behind.rebuild)

TwinInv == Archived /\ Client /\ BatchOK /\ RunOK /\ InvalidKnown /\ Money /\ Ledgers

-----------------------------------------------------------------------------
LEMMA RunsFinite == ASSUME Archived PROVE IsFiniteSet(Runs)
  <1>1. plan \in Seq(RunRecord)
    BY DEF Archived
  <1>2. IsFiniteSet(1 .. Len(plan)) /\ DOMAIN plan = 1 .. Len(plan)
    BY <1>1, FS_Interval
  <1> DEFINE f == [i \in 1 .. Len(plan) |-> plan[i]]
  <1>3. f \in Surjection(1 .. Len(plan), Runs)
    BY <1>2 DEF Surjection, Runs, Range
  <1>4. QED
    BY <1>2, <1>3, FS_Surjection

\* The keys of the archive.
Keys(r) == {<<r, i, 1>> : i \in 0 .. Len(aside[r])}
Places == UNION {Keys(r) : r \in Runs}

LEMMA PlaceOf ==
  ASSUME NEW k \in Places
  PROVE  /\ k = <<k[1], k[2], 1>> /\ k[1] \in Runs /\ k[2] \in 0 .. Len(aside[k[1]])
  BY DEF Places, Keys

LEMMA PlaceIs ==
  ASSUME NEW r \in Runs, NEW i \in 0 .. Len(aside[r])
  PROVE  <<r, i, 1>> \in Places /\ <<r, i, 1>>[1] = r /\ <<r, i, 1>>[2] = i
  BY DEF Places, Keys

LEMMA KeptIs ==
  /\ DOMAIN Kept = Places
  /\ \A k \in Places : Kept[k] = IF k[2] = 0 THEN dir[k[1]] ELSE aside[k[1]][k[2]]
  BY DEF Kept, Places, Keys

LEMMA KeptThen ==
  /\ DOMAIN Kept' = Places'
  /\ \A k \in Places' : Kept'[k] = IF k[2] = 0 THEN dir'[k[1]] ELSE aside'[k[1]][k[2]]
  BY DEF Kept, Places, Keys

LEMMA KeysFinite == ASSUME NEW r, Len(aside[r]) \in Nat PROVE IsFiniteSet(Keys(r))
  <1> DEFINE f == [i \in 0 .. Len(aside[r]) |-> <<r, i, 1>>]
  <1>1. IsFiniteSet(0 .. Len(aside[r]))
    BY FS_Interval
  <1>2. f \in Surjection(0 .. Len(aside[r]), Keys(r))
    BY DEF Surjection, Keys
  <1>3. QED
    BY <1>1, <1>2, FS_Surjection

LEMMA ShelfCounts == ASSUME Archived PROVE IsFiniteSet(Shelved) /\ Counts(Worth, Shelved)
  <1> DEFINE K == {Keys(r) : r \in Runs}
             f == [r \in Runs |-> Keys(r)]
  <1>1. \A r \in Runs : IsFiniteSet(Keys(r))
    <2>1. \A r \in Runs : Len(aside[r]) \in Nat
      BY DEF Archived
    <2>2. QED
      BY <2>1, KeysFinite
  <1>2. f \in Surjection(Runs, K)
    BY DEF Surjection
  <1>3. IsFiniteSet(K)
    BY <1>2, RunsFinite, FS_Surjection
  <1>4. \A T \in K : IsFiniteSet(T)
    BY <1>1
  <1>5. IsFiniteSet(Places)
    BY <1>3, <1>4, FS_UNION DEF Places
  <1>6. IsFiniteSet(Shelved)
    BY <1>5, KeptIs, FS_Subset DEF Shelved
  <1>7. \A k \in Shelved : Worth[k] \in Nat
    BY DEF Worth, Shelved, Meta
  <1>8. QED
    BY <1>6, <1>7 DEF Counts

LEMMA FiledIs == ASSUME Archived PROVE Filed \in Nat
  BY ShelfCounts, SumIsCount DEF Filed

LEMMA ShelfRests ==
  ASSUME UNCHANGED <<plan, dir, aside>>
  PROVE  Runs' = Runs /\ Shelved' = Shelved /\ Worth' = Worth /\ Filed' = Filed
  BY DEF Runs, Shelved, Worth, Filed, Kept, SumOf, Sums

\* The three ledgers after a step.
LEMMA LedgersThen ==
  ASSUME book' # Torn => Covers(Filed', book', behind'.file),
         twinStep' # "idle" => Covers(Filed', batch'.book, behind'.copy + Owed'),
         rebuild' # None => Covers(Filed', rebuild', behind'.rebuild)
  PROVE  Ledgers'
  BY DEF Ledgers, Covers, SumOf, Sums, Counts

LEMMA RunIn == ASSUME Archived, BatchOK, Busy PROVE Run \in Runs /\ batch.pos \in 1 .. Len(plan)
  BY DEF Archived, BatchOK, Run, Runs, Range

-----------------------------------------------------------------------------
LEMMA PairsAre ==
  ASSUME NEW units, NEW l \in PlansOf(units)
  PROVE  \E o \in SetToSeqs(units), f \in [1 .. Cardinality(units) -> Arms] :
            l = [i \in 1 .. 2 * Len(o) |-> LET j == (i + 1) \div 2 IN Pair(o[j], f[j])[IF i = 2 * j THEN 2 ELSE 1]]
  BY DEF PlansOf

LEMMA JoinOf ==
  ASSUME NEW A, NEW B, NEW x \in {l \o r : l \in A, r \in B}
  PROVE  \E l \in A, r \in B : x = l \o r
  OBVIOUS

LEMMA PlanIs == ASSUME TwinAssumption, TwinInit PROVE plan \in Seq(RunRecord)
  <1>1. PICK names \in SUBSET DOMAIN Tasks, reps \in 1 .. 2 : plan \in Plans(names, reps)
    BY DEF TwinInit
  <1>2. ASSUME NEW k, NEW l \in PlansOf(Units(names, reps, k)) PROVE l \in Seq(RunRecord)
    <2> DEFINE U == Units(names, reps, k)
    <2>1. IsFiniteSet(U) /\ Cardinality(U) \in Nat
      <3>1. IsFiniteSet({t \in names : Tasks[t].kind = k})
        BY FS_Subset DEF TwinAssumption
      <3>2. IsFiniteSet(1 .. reps)
        BY FS_Interval
      <3>3. QED
        BY <3>1, <3>2, FS_Product, FS_CardinalityType DEF Units
    <2>2. \A u \in U : u[1] \in DOMAIN Tasks /\ u[2] \in Nat
      BY DEF Units
    <2> HIDE DEF U
    <2> DEFINE c == Cardinality(U)
    <2>3. PICK o \in SetToSeqs(U), f \in [1 .. c -> Arms] :
             l = [i \in 1 .. 2 * Len(o) |-> LET j == (i + 1) \div 2 IN Pair(o[j], f[j])[IF i = 2 * j THEN 2 ELSE 1]]
      <3>1. l \in PlansOf(U)
        BY <1>2 DEF U
      <3>2. QED
        BY <3>1, PairsAre
    <2>4. c \in Nat /\ o \in [1 .. c -> U]
      BY <2>1 DEF SetToSeqs
    <2> HIDE DEF c
    <2>5. Len(o) = c
      BY <2>4
    <2>6. ASSUME NEW i \in 1 .. 2 * c
          PROVE  (LET j == (i + 1) \div 2 IN Pair(o[j], f[j])[IF i = 2 * j THEN 2 ELSE 1]) \in RunRecord
      <3> DEFINE j == (i + 1) \div 2
      <3>1. j \in 1 .. c
        BY <2>4
      <3>2. o[j] \in U /\ f[j] \in Arms
        BY <2>4, <3>1
      <3> HIDE DEF j
      <3>3. Pair(o[j], f[j])[1] \in RunRecord /\ Pair(o[j], f[j])[2] \in RunRecord
        BY <2>2, <3>2 DEF Pair, RunRecord, Arms
      <3>4. QED
        BY <3>3 DEF j
    <2>7. QED
      BY <2>3, <2>4, <2>5, <2>6
  <1> DEFINE A == PlansOf(Units(names, reps, "lab"))
             B == PlansOf(Units(names, reps, "real"))
  <1>3. plan \in {l \o r : l \in A, r \in B}
    BY <1>1 DEF Plans
  <1>4. \A l \in A, r \in B : l \in Seq(RunRecord) /\ r \in Seq(RunRecord)
    BY <1>2
  <1> HIDE DEF A, B
  <1>5. PICK l \in A, r \in B : plan = l \o r
    BY <1>3, JoinOf
  <1>6. QED
    BY <1>4, <1>5

LEMMA InitTwinInv == ASSUME TwinAssumption PROVE TwinInit => TwinInv
  <1> SUFFICES ASSUME TwinInit PROVE TwinInv
    OBVIOUS
  <1>1. Archived
    <2>1. plan \in Seq(RunRecord)
      BY PlanIs
    <2>2. QED
      BY <2>1 DEF TwinInit, Archived
  <1>2. Client
    BY FreshIs DEF TwinInit, Client
  <1>3. BatchOK /\ RunOK
    BY DEF TwinInit, BatchOK, RunOK, Busy
  <1>4. ASSUME NEW k \in DOMAIN Kept PROVE Kept[k] = None
    <2>1. k \in Places /\ k[1] \in Runs /\ k[2] \in 0 .. Len(aside[k[1]])
      BY <1>4, KeptIs, PlaceOf
    <2>2. dir[k[1]] = None /\ aside[k[1]] = <<>>
      BY <2>1 DEF TwinInit
    <2>3. k[2] = 0
      BY <2>1, <2>2
    <2>4. QED
      BY <2>1, <2>2, <2>3, KeptIs
  <1>5. Shelved = {}
    BY <1>4 DEF Shelved, TwinAssumption
  <1>6. InvalidKnown
    BY DEF TwinInit, InvalidKnown, TwinAssumption
  <1>7. Filed = 0
    BY <1>5, SumEmpty DEF Filed
  <1>8. Money
    BY <1>7 DEF Money, Behind, Unfiled, TwinInit
  <1>9. Ledgers
    <2>1. book = <<>> /\ DOMAIN book = {} /\ twinStep = "idle" /\ rebuild = None /\ behind.file = 0
      BY DEF TwinInit
    <2>2. Counts(book, DOMAIN book) /\ SumOf(book, DOMAIN book) = 0
      BY <2>1, SumEmpty, FS_EmptySet DEF Counts
    <2>3. QED
      BY <1>7, <2>1, <2>2 DEF Ledgers, Covers
  <1>10. QED
    BY <1>1, <1>2, <1>3, <1>6, <1>8, <1>9 DEF TwinInv

-----------------------------------------------------------------------------
\* Steps that leave the archive, or the money, alone.
LEMMA ArchiveRests ==
  ASSUME Archived, UNCHANGED <<plan, dir, aside, stuck>>
  PROVE  Archived'
  BY DEF Archived, Runs

LEMMA MoneyRests ==
  ASSUME Money, Ledgers, UNCHANGED <<plan, dir, aside, book, rebuild, spent, unsaved>>, behind' \in Behind,
         behind'.file = behind.file, behind'.rebuild = behind.rebuild, Owed' = Owed, Unfiled' = Unfiled,
         twinStep' # "idle" => twinStep # "idle" /\ batch'.book = batch.book /\ behind'.copy = behind.copy
  PROVE  Money' /\ Ledgers'
  <1>1. Filed' = Filed
    BY ShelfRests
  <1>2. Money'
    BY <1>1 DEF Money
  <1>3. Ledgers'
    <2> HIDE DEF Owed
    <2>1. /\ book # Torn => Covers(Filed, book, behind.file)
          /\ twinStep # "idle" => Covers(Filed, batch.book, behind.copy + Owed)
          /\ rebuild # None => Covers(Filed, rebuild, behind.rebuild)
      BY DEF Ledgers
    <2>2. QED
      BY <1>1, <2>1, LedgersThen
  <1>4. QED
    BY <1>2, <1>3

\* A batch that is over has no copy of the ledger.
LEMMA CopyGone ==
  ASSUME behind \in Behind, behind' = [behind EXCEPT !.copy = 0]
  PROVE  behind' \in Behind /\ behind'.file = behind.file /\ behind'.rebuild = behind.rebuild
  BY DEF Behind

LEMMA StepBegin ==
  ASSUME TwinAssumption, TwinInv, NEW kind, NEW limit, BeginBatch(kind, limit)
  PROVE  TwinInv'
  <1> USE DEF TwinInv
  <1>1. /\ twinStep = "idle" /\ twinStep' = "next" /\ book # Torn
        /\ batch' = [book |-> book, pos |-> 1, kind |-> kind, left |-> limit]
        /\ behind' = [behind EXCEPT !.copy = behind.file]
        /\ UNCHANGED <<plan, dir, aside, book, rebuild, cli, pipe, stream, spent, unsaved, stuck>>
    BY DEF BeginBatch
  <1>2. Archived' /\ Client'
    BY <1>1, ArchiveRests DEF Client
  <1>3. BatchOK' /\ RunOK' /\ InvalidKnown'
    BY <1>1, ShelfRests DEF BatchOK, Busy, RunOK, InvalidKnown
  <1>4. /\ behind' \in Behind /\ behind'.file = behind.file /\ behind'.rebuild = behind.rebuild
        /\ behind'.copy = behind.file /\ behind.file \in Nat
    BY <1>1 DEF Money, Behind
  <1>5. Owed' = 0 /\ Unfiled' = Unfiled /\ Filed' = Filed
    BY <1>1, ShelfRests DEF Owed, Unfiled
  <1>6. Money'
    BY <1>1, <1>4, <1>5 DEF Money
  <1>7. Ledgers'
    <2>1. Covers(Filed, book, behind.file) /\ (rebuild # None => Covers(Filed, rebuild, behind.rebuild))
      BY <1>1 DEF Ledgers
    <2>2. batch'.book = book /\ behind'.copy + Owed' = behind.file
      BY <1>1, <1>4, <1>5
    <2>3. QED
      BY <1>1, <1>4, <1>5, <2>1, <2>2, LedgersThen
  <1>8. QED
    BY <1>2, <1>3, <1>6, <1>7

LEMMA StepSkip ==
  ASSUME TwinInv, Skip
  PROVE  TwinInv'
  <1> USE DEF TwinInv
  <1>1. /\ twinStep = "next" /\ twinStep' = "next" /\ batch' = [batch EXCEPT !.pos = @ + 1]
        /\ UNCHANGED <<plan, dir, aside, book, rebuild, cli, pipe, stream, spent, unsaved, behind, stuck>>
    BY DEF Skip, More
  <1>2. Archived' /\ Client'
    BY <1>1, ArchiveRests DEF Client
  <1>3. BatchOK' /\ RunOK' /\ InvalidKnown'
    BY <1>1, ShelfRests DEF BatchOK, Busy, RunOK, InvalidKnown
  <1>4. Owed' = Owed /\ Unfiled' = Unfiled
    BY <1>1 DEF Owed, Unfiled
  <1>5. Money' /\ Ledgers'
    <2>1. batch'.book = batch.book /\ behind \in Behind
      BY <1>1 DEF BatchOK, Money
    <2>2. QED
      BY <1>1, <1>4, <2>1, MoneyRests
  <1>6. QED
    BY <1>2, <1>3, <1>5

\* A batch that ends with no run at work.
LEMMA StepEnd ==
  ASSUME TwinInv, twinStep = "next", Leave,
         UNCHANGED <<plan, dir, aside, book, rebuild, spent, unsaved, stuck>>
  PROVE  TwinInv'
  <1> USE DEF TwinInv
  <1>1. twinStep' = "idle" /\ batch' = None /\ cli' = <<>> /\ pipe' = <<>> /\ stream' = Fresh
        /\ behind' = [behind EXCEPT !.copy = 0]
    BY DEF Leave
  <1>2. Archived' /\ Client'
    BY <1>1, ArchiveRests, FreshIs DEF Client
  <1>3. BatchOK' /\ RunOK' /\ InvalidKnown'
    BY <1>1, ShelfRests DEF BatchOK, Busy, RunOK, InvalidKnown
  <1>4. Owed' = Owed /\ Unfiled' = Unfiled
    BY <1>1 DEF Owed, Unfiled
  <1>5. Money' /\ Ledgers'
    <2>1. behind' \in Behind /\ behind'.file = behind.file /\ behind'.rebuild = behind.rebuild
      BY <1>1, CopyGone DEF Money
    <2>2. QED
      BY <1>1, <1>4, <2>1, MoneyRests
  <1>6. QED
    BY <1>2, <1>3, <1>5

LEMMA StepLaunch ==
  ASSUME TwinAssumption, TwinInv, LaunchRun
  PROVE  TwinInv'
  <1> USE DEF TwinInv
  <1>1. /\ twinStep = "next" /\ twinStep' = "running" /\ stream' = Fresh /\ cli' \in Scripts(Run.task)
        /\ UNCHANGED <<plan, dir, aside, book, rebuild, batch, pipe, spent, unsaved, behind, stuck>>
    BY DEF LaunchRun, Launchable, Open, More
  <1>2. batch.pos <= Len(plan) /\ dir[Run] = None /\ Room
    BY DEF LaunchRun, Launchable, Open, More
  <1>3. batch.pos \in 1 .. Len(plan) /\ Run.task \in DOMAIN Tasks
    <2>1. batch.pos \in Nat \ {0} /\ plan \in Seq(RunRecord)
      BY <1>1 DEF BatchOK, Archived
    <2>2. batch.pos \in 1 .. Len(plan)
      BY <1>2, <2>1
    <2>3. Run \in RunRecord
      BY <2>1, <2>2 DEF Run
    <2>4. QED
      BY <2>2, <2>3 DEF RunRecord
  <1>4. Archived' /\ Client'
    BY <1>1, <1>3, ArchiveRests, FreshIs DEF Client, TwinAssumption
  <1>5. BatchOK' /\ InvalidKnown'
    BY <1>1, <1>3, ShelfRests DEF BatchOK, Busy, InvalidKnown
  <1>6. Room' /\ dir'[Run'] = None
    BY <1>1, <1>2 DEF Room, Run, Total, MapThenSumSet, MapThenFoldSet
  <1>7. RunOK'
    BY <1>1, <1>6 DEF RunOK
  <1>8. Owed' = Owed /\ Unfiled' = Unfiled /\ behind \in Behind
    BY <1>1 DEF Owed, Unfiled, Money
  <1>9. Money' /\ Ledgers'
    BY <1>1, <1>8, MoneyRests
  <1>10. QED
    BY <1>4, <1>5, <1>7, <1>9

\* The client, the reading loop and the timer.
LEMMA StreamRests ==
  ASSUME TwinInv, Client', twinStep = "running", twinStep' = "running",
         UNCHANGED <<plan, dir, aside, book, rebuild, batch, spent, unsaved, behind, stuck>>
  PROVE  TwinInv'
  <1> USE DEF TwinInv
  <1>1. Archived'
    BY ArchiveRests
  <1>2. BatchOK' /\ InvalidKnown'
    BY ShelfRests DEF BatchOK, Busy, InvalidKnown
  <1>3. Room /\ dir[Run] = None
    BY DEF RunOK
  <1>4. Room' /\ dir'[Run'] = None
    BY <1>3 DEF Room, Run, Total, MapThenSumSet, MapThenFoldSet
  <1>5. RunOK'
    BY <1>4 DEF RunOK
  <1>6. Owed' = Owed /\ Unfiled' = Unfiled /\ behind \in Behind
    BY DEF Owed, Unfiled, Money
  <1>7. Money' /\ Ledgers'
    BY <1>6, MoneyRests
  <1>8. QED
    BY <1>1, <1>2, <1>5, <1>7

LEMMA StepStream ==
  ASSUME TwinInv, WriteEvent \/ ReadEvent \/ Wall
  PROVE  TwinInv'
  <1> USE DEF TwinInv
  <1>1. /\ twinStep = "running" /\ twinStep' = "running"
        /\ UNCHANGED <<plan, dir, aside, book, rebuild, batch, spent, unsaved, behind, stuck>>
    BY DEF WriteEvent, ReadEvent, Wall
  <1>2. cli \in Seq(Event) /\ pipe \in Seq(Event) /\ stream \in Streams
    BY DEF Client
  <1>3. CASE WriteEvent
    <2>1. cli # <<>> /\ pipe' = Append(pipe, Head(cli)) /\ cli' = Tail(cli) /\ stream' = stream
      BY <1>3 DEF WriteEvent
    <2>2. Head(cli) \in Event /\ Tail(cli) \in Seq(Event)
      BY <1>2, <2>1
    <2>3. Client'
      BY <1>2, <2>1, <2>2 DEF Client
    <2>4. QED
      BY <2>3, <1>1, StreamRests
  <1>4. CASE ReadEvent
    <2> DEFINE s == Feed(stream, Head(pipe))
    <2>1. pipe # <<>> /\ pipe' = Tail(pipe)
      BY <1>4 DEF ReadEvent
    <2>2. Head(pipe) \in Event /\ Tail(pipe) \in Seq(Event)
      BY <1>2, <2>1
    <2>3. s \in Streams
      BY <1>2, <2>2, Fed
    <2>4. stream' \in {s, [s EXCEPT !.killed = "cap"]} /\ cli' \in {cli, <<>>}
      BY <1>4 DEF ReadEvent
    <2> HIDE DEF s
    <2>5. [s EXCEPT !.killed = "cap"] \in Streams
      BY <2>3 DEF Streams, StreamRecord
    <2>6. stream' \in Streams
      BY <2>3, <2>4, <2>5
    <2>7. cli' \in Seq(Event)
      <3>1. <<>> \in Seq(Event)
        OBVIOUS
      <3>2. QED
        BY <1>2, <2>4, <3>1
    <2>8. Client'
      BY <2>1, <2>2, <2>6, <2>7 DEF Client
    <2>9. QED
      BY <2>8, <1>1, StreamRests
  <1>5. CASE Wall
    <2>1. stream' = [stream EXCEPT !.killed = "wall"] /\ cli' = <<>> /\ pipe' = pipe
      BY <1>5 DEF Wall
    <2>2. stream' \in Streams
      BY <1>2, <2>1 DEF Streams, StreamRecord
    <2>3. Client'
      BY <1>2, <2>1, <2>2 DEF Client
    <2>4. QED
      BY <2>3, <1>1, StreamRests
  <1>6. QED
    BY <1>3, <1>4, <1>5

\* The client's tokens become spent, and are owed to the ledger.
LEMMA StepEof ==
  ASSUME TwinAssumption, TwinInv, Eof
  PROVE  TwinInv'
  <1> USE DEF TwinInv
  <1>1. /\ twinStep = "running" /\ twinStep' = "meta" /\ spent' = spent + Spend(stream)
        /\ UNCHANGED <<plan, dir, aside, book, rebuild, batch, cli, pipe, stream, unsaved, behind, stuck>>
    BY DEF Eof
  <1>2. Archived' /\ Client'
    BY <1>1, ArchiveRests DEF Client
  <1>3. BatchOK' /\ InvalidKnown' /\ dir'[Run'] = None
    BY <1>1, ShelfRests DEF BatchOK, Busy, InvalidKnown, Run, RunOK
  <1>4. RunOK'
    BY <1>1, <1>3 DEF RunOK
  <1> DEFINE v == Spend(stream)
  <1>5. v \in Nat
    BY SpendIs DEF Client
  <1>6. Owed' = Owed /\ Unfiled = 0 /\ Unfiled' = v /\ Filed' = Filed /\ Filed \in Nat
    BY <1>1, ShelfRests, FiledIs DEF Owed, Unfiled
  <1>7. spent' = spent + v
    BY <1>1
  <1> HIDE DEF v
  <1>8. Money'
    <2>1. spent \in Nat /\ unsaved \in Nat /\ behind \in Behind /\ spent = unsaved + 0 + Filed
      BY <1>6 DEF Money
    <2>2. spent' \in Nat /\ spent' = unsaved + v + Filed
      BY <1>5, <1>6, <1>7, <2>1
    <2>3. QED
      BY <1>1, <1>6, <2>1, <2>2 DEF Money
  <1>9. Ledgers'
    BY <1>1, <1>6, LedgersThen DEF Ledgers
  <1>10. QED
    BY <1>2, <1>3, <1>4, <1>8, <1>9

LEMMA MetaIs ==
  ASSUME NEW s \in Streams
  PROVE  [spent |-> Spend(s), killed |-> s.killed # None, invalid |-> Invalid(s), planted |-> s.planted,
          toTarget |-> IF s.hit = None THEN None ELSE TokensThrough(s, s.hit)] \in Meta
  <1>1. Spend(s) \in Nat
    BY SpendIs
  <1>2. Invalid(s) \in BOOLEAN
    BY InvalidIs
  <1>3. (s.killed # None) \in BOOLEAN
    BY Zenon
  <1>4. s.planted \in BOOLEAN
    BY DEF Streams, StreamRecord
  <1> DEFINE t == IF s.hit = None THEN None ELSE TokensThrough(s, s.hit)
             c == s.killed # None
             i == Invalid(s)
             n == Spend(s)
  <1>5. t \in Nat \cup {None}
    BY ThroughIs
  <1> HIDE DEF t, c, i, n
  <1>6. [spent |-> n, killed |-> c, invalid |-> i, planted |-> s.planted, toTarget |-> t] \in Meta
    <2>1. n \in Nat /\ c \in BOOLEAN /\ i \in BOOLEAN
      BY <1>1, <1>2, <1>3 DEF n, c, i
    <2>2. QED
      BY <1>4, <1>5, <2>1 DEF Meta
  <1>7. QED
    BY <1>6 DEF t, c, i, n

\* A meta.json that is written where none was adds its tokens.
LEMMA ShelfAdds ==
  ASSUME TwinAssumption, Archived, NEW r \in Runs, NEW m \in Meta, dir[r] = None,
         dir' = [dir EXCEPT ![r] = m], UNCHANGED <<plan, aside>>
  PROVE  Filed' = m.spent + Filed
  <1> DEFINE x == <<r, 0, 1>>
  <1>1. Runs' = Runs /\ Places' = Places
    BY DEF Runs, Places, Keys
  <1>2. dir' \in [Runs -> Meta \cup {None, Torn}] /\ dir'[r] = m /\ \A q \in Runs : q # r => dir'[q] = dir[q]
    BY DEF Archived
  <1>3. x \in Places /\ x[1] = r /\ x[2] = 0
    <2>1. aside[r] \in Seq(Meta)
      BY DEF Archived
    <2>2. 0 \in 0 .. Len(aside[r])
      BY <2>1
    <2>3. QED
      BY <2>2, PlaceIs
  <1>4. Kept[x] = None /\ Kept'[x] = m
    BY <1>1, <1>2, <1>3, KeptIs, KeptThen
  <1>5. ASSUME NEW k \in Places, k # x PROVE Kept'[k] = Kept[k]
    <2>1. k[2] = 0 => k[1] # r
      BY <1>5, PlaceOf
    <2>2. k[1] \in Runs
      BY PlaceOf
    <2>3. QED
      BY <1>1, <1>2, <2>1, <2>2, KeptIs, KeptThen
  <1> HIDE DEF x
  <1>6. Shelved' = Shelved \cup {x} /\ x \notin Shelved
    <2>1. Shelved = {k \in Places : Kept[k] \in Meta} /\ Shelved' = {k \in Places : Kept'[k] \in Meta}
      BY <1>1, KeptIs, KeptThen DEF Shelved
    <2>2. QED
      BY <1>3, <1>4, <1>5, <2>1 DEF TwinAssumption
  <1>7. Counts(Worth, Shelved)
    BY ShelfCounts
  <1>8. \A k \in Shelved : Worth[k] = Worth'[k]
    BY <1>3, <1>5, <1>6, KeptIs DEF Worth, Shelved
  <1>9. Worth'[x] = m.spent /\ m.spent \in Nat
    BY <1>4, <1>6 DEF Worth, Meta
  <1>10. SumOf(Worth', Shelved \cup {x}) = Worth'[x] + SumOf(Worth, Shelved)
    BY <1>6, <1>7, <1>8, <1>9, SumAdds
  <1>11. Filed' = SumOf(Worth', Shelved') /\ Filed = SumOf(Worth, Shelved)
    BY DEF Filed, SumOf, Sums
  <1>12. QED
    BY <1>6, <1>9, <1>10, <1>11

\* A ledger lags by as much as the archive grows.
LEMMA CoversMore ==
  ASSUME NEW w \in Nat, NEW b, NEW n \in Nat, NEW v \in Nat, Covers(w, b, n)
  PROVE  Covers(v + w, b, n + v)
  <1> DEFINE t == SumOf(b, DOMAIN b)
  <1>1. Counts(b, DOMAIN b) /\ w <= t + n
    BY DEF Covers
  <1>2. t \in Nat
    BY <1>1, SumIsCount
  <1> HIDE DEF t
  <1>3. v + w <= t + (n + v)
    BY <1>1, <1>2
  <1>4. QED
    BY <1>1, <1>3 DEF Covers, t

LEMMA StepSaveMeta ==
  ASSUME TwinAssumption, TwinInv, SaveMeta
  PROVE  TwinInv'
  <1> USE DEF TwinInv
  <1> DEFINE m == [spent |-> Spend(stream), killed |-> stream.killed # None, invalid |-> Invalid(stream),
                   planted |-> stream.planted,
                   toTarget |-> IF stream.hit = None THEN None ELSE TokensThrough(stream, stream.hit)]
  <1>1. /\ twinStep = "meta" /\ twinStep' = "book" /\ dir' = [dir EXCEPT ![Run] = m]
        /\ behind' = [behind EXCEPT !.file = @ + Spend(stream),
                                    !.rebuild = IF rebuild = None THEN 0 ELSE @ + Spend(stream)]
        /\ UNCHANGED <<plan, aside, book, rebuild, batch, cli, pipe, stream, spent, unsaved, stuck>>
    BY DEF SaveMeta
  <1>2. m \in Meta /\ m.spent = Spend(stream)
    BY MetaIs DEF Client
  <1> HIDE DEF m
  <1>3. Run \in Runs /\ Runs' = Runs /\ Run' = Run /\ dir[Run] = None
    BY <1>1, RunIn DEF Busy, Run, Runs, RunOK
  <1>4. dir' \in [Runs -> Meta \cup {None, Torn}] /\ dir'[Run] = m /\ \A q \in Runs : q # Run => dir'[q] = dir[q]
    BY <1>1, <1>2, <1>3 DEF Archived
  <1>5. Archived' /\ Client'
    BY <1>1, <1>3, <1>4 DEF Archived, Client
  <1>6. BatchOK' /\ RunOK'
    BY <1>1, <1>2, <1>3, <1>4 DEF BatchOK, Busy, RunOK
  <1>7. InvalidKnown'
    BY <1>1, <1>3, <1>4 DEF InvalidKnown
  <1> DEFINE v == Spend(stream)
  <1>8. v \in Nat /\ Filed \in Nat /\ behind \in Behind
    BY SpendIs, FiledIs DEF Client, Money
  <1>9. Owed = 0 /\ Owed' = v /\ Unfiled = v /\ Unfiled' = 0
    BY <1>1 DEF Owed, Unfiled
  <1>10. Filed' = v + Filed
    BY <1>1, <1>2, <1>3, ShelfAdds
  <1>11. behind' = [behind EXCEPT !.file = @ + v, !.rebuild = IF rebuild = None THEN 0 ELSE @ + v]
    BY <1>1
  <1> HIDE DEF v
  <1>12. /\ behind' \in Behind /\ behind'.file = behind.file + v /\ behind'.copy = behind.copy
         /\ rebuild # None => behind'.rebuild = behind.rebuild + v
         /\ behind.file \in Nat /\ behind.copy \in Nat /\ behind.rebuild \in Nat
    <2>1. behind = [file |-> behind.file, copy |-> behind.copy, rebuild |-> behind.rebuild]
          /\ behind.file \in Nat /\ behind.copy \in Nat /\ behind.rebuild \in Nat
      BY <1>8 DEF Behind
    <2> DEFINE n == IF rebuild = None THEN 0 ELSE behind.rebuild + v
    <2>2. n \in Nat /\ (rebuild # None => n = behind.rebuild + v)
      BY <1>8, <2>1
    <2>3. behind' = [behind EXCEPT !.file = behind.file + v, !.rebuild = n]
      BY <1>11
    <2> HIDE DEF n
    <2>4. behind' = [file |-> behind.file + v, copy |-> behind.copy, rebuild |-> n]
      BY <2>1, <2>3
    <2>5. QED
      BY <1>8, <2>1, <2>2, <2>4 DEF Behind
  <1>13. Money'
    <2>1. spent \in Nat /\ unsaved \in Nat /\ spent = unsaved + v + Filed
      BY <1>9 DEF Money
    <2>2. spent' = unsaved' + 0 + Filed'
      BY <1>1, <1>8, <1>10, <2>1
    <2>3. QED
      BY <1>1, <1>9, <1>12, <2>1, <2>2 DEF Money
  <1>14. Ledgers'
    <2>1. /\ book # Torn => Covers(Filed, book, behind.file)
          /\ Covers(Filed, batch.book, behind.copy + 0)
          /\ rebuild # None => Covers(Filed, rebuild, behind.rebuild)
      BY <1>1, <1>9 DEF Ledgers
    <2>2. behind.copy + 0 = behind.copy
      BY <1>12
    <2>3. /\ book # Torn => Covers(v + Filed, book, behind.file + v)
          /\ Covers(v + Filed, batch.book, behind.copy + v)
          /\ rebuild # None => Covers(v + Filed, rebuild, behind.rebuild + v)
      BY <1>8, <1>12, <2>1, <2>2, CoversMore
    <2>4. QED
      BY <1>1, <1>9, <1>10, <1>12, <2>3, LedgersThen
  <1>15. QED
    BY <1>5, <1>6, <1>7, <1>13, <1>14

-----------------------------------------------------------------------------
\* The attempt's key is a new one: of as many keys as there are attempts, and
\* one more, some is free.
LEMMA KeyIsNew ==
  ASSUME NEW b, IsFiniteSet(DOMAIN b), NEW r
  PROVE  AttemptKey(b, r) \notin DOMAIN b
  <1> DEFINE D == DOMAIN b
             c == Cardinality(D)
             Free == {n \in 1 .. c + 1 : <<r, 0, n>> \notin D}
             IsKey(n) == <<r, 0, n>> \notin D /\ \A m \in 1 .. n - 1 : <<r, 0, m>> \in D
  <1>1. c \in Nat
    BY FS_CardinalityType
  <1> HIDE DEF c, D
  <1>2. Free # {}
    <2>1. SUFFICES ASSUME \A n \in 1 .. c + 1 : <<r, 0, n>> \in D PROVE FALSE
      OBVIOUS
    <2> DEFINE f == [n \in 1 .. c + 1 |-> <<r, 0, n>>]
    <2>2. f \in [1 .. c + 1 -> D]
      BY <2>1
    <2>3. IsFiniteSet(1 .. c + 1) /\ Cardinality(1 .. c + 1) = c + 1
      BY <1>1, FS_Interval
    <2>4. IsFiniteSet(D) /\ Cardinality(D) < Cardinality(1 .. c + 1)
      BY <1>1, <2>3 DEF c, D
    <2>5. \A m, n \in 1 .. c + 1 : f[m] = f[n] => m = n
      OBVIOUS
    <2> HIDE DEF f
    <2>6. PICK m \in 1 .. c + 1, n \in 1 .. c + 1 : m # n /\ f[m] = f[n]
      BY <2>2, <2>3, <2>4, FS_PigeonHole, Zenon
    <2>7. QED
      BY <2>5, <2>6
  <1>3. Free \in SUBSET Nat
    BY <1>1
  <1>4. PICK n \in Free : \A x \in Free : n <= x
    BY <1>2, <1>3, LeastNat
  <1>5. n \in 1 .. c + 1 /\ IsKey(n)
    BY <1>1, <1>4
  <1> DEFINE k == CHOOSE m \in 1 .. c + 1 : IsKey(m)
  <1>6. AttemptKey(b, r) = <<r, 0, k>>
    BY DEF AttemptKey, c, D
  <1>7. IsKey(k)
    <2> HIDE DEF IsKey
    <2>1. QED
      BY <1>5
  <1>8. QED
    BY <1>6, <1>7 DEF D

LEMMA BookAdds ==
  ASSUME NEW b, NEW k, NEW v \in Nat, Counts(b, DOMAIN b), k \notin DOMAIN b
  PROVE  LET c == [x \in DOMAIN b \cup {k} |-> IF x = k THEN v ELSE b[x]]
         IN  Counts(c, DOMAIN c) /\ SumOf(c, DOMAIN c) = v + SumOf(b, DOMAIN b)
  <1> DEFINE c == [x \in DOMAIN b \cup {k} |-> IF x = k THEN v ELSE b[x]]
  <1>1. DOMAIN c = DOMAIN b \cup {k} /\ c[k] = v /\ \A x \in DOMAIN b : b[x] = c[x]
    OBVIOUS
  <1> HIDE DEF c
  <1>2. Counts(c, DOMAIN b \cup {k}) /\ SumOf(c, DOMAIN b \cup {k}) = c[k] + SumOf(b, DOMAIN b)
    BY <1>1, SumAdds
  <1>3. QED
    BY <1>1, <1>2 DEF c

\* What a run spent goes from what a ledger lags to what it has.
LEMMA CoversAdds ==
  ASSUME NEW w \in Nat, NEW b, NEW k, NEW v \in Nat, NEW n \in Nat, k \notin DOMAIN b, Covers(w, b, n + v),
         NEW c, c = [x \in DOMAIN b \cup {k} |-> IF x = k THEN v ELSE b[x]]
  PROVE  Covers(w, c, n)
  <1> DEFINE t == SumOf(b, DOMAIN b)
             u == SumOf(c, DOMAIN c)
  <1>1. Counts(b, DOMAIN b) /\ w <= t + (n + v)
    BY DEF Covers
  <1>2. t \in Nat
    BY <1>1, SumIsCount
  <1>3. Counts(c, DOMAIN c) /\ u = v + t
    BY <1>1, BookAdds
  <1>4. w <= u + n
    <2> HIDE DEF t, u
    <2>1. QED
      BY <1>1, <1>2, <1>3
  <1>5. QED
    BY <1>3, <1>4 DEF Covers, u

LEMMA StepBook ==
  ASSUME TwinAssumption, TwinInv, Book
  PROVE  TwinInv'
  <1> USE DEF TwinInv
  <1> DEFINE v == dir[Run].spent
             b == [x \in DOMAIN batch.book \cup {AttemptKey(batch.book, Run)} |->
                     IF x = AttemptKey(batch.book, Run) THEN v ELSE batch.book[x]]
  <1>1. /\ twinStep = "book" /\ book' = b /\ stream' = Fresh
        /\ behind' = [behind EXCEPT !.file = behind.copy]
        /\ UNCHANGED <<plan, dir, aside, rebuild, cli, pipe, spent, unsaved, stuck>>
    BY DEF Book
  <1>2. IF dir[Run].invalid
        THEN twinStep' = "aside" /\ batch' = [batch EXCEPT !.book = b]
        ELSE twinStep' = "next" /\ batch' = [batch EXCEPT !.book = b, !.pos = @ + 1, !.left = @ - 1]
    BY DEF Book
  <1>3. /\ dir[Run] \in Meta /\ v = Spend(stream) /\ v \in Nat
        /\ Covers(Filed, batch.book, behind.copy + Owed) /\ Counts(batch.book, DOMAIN batch.book)
    BY <1>1 DEF RunOK, Ledgers, Covers, Meta
  <1>4. AttemptKey(batch.book, Run) \notin DOMAIN batch.book
    BY <1>3, KeyIsNew DEF Counts
  <1>5. /\ Owed = v /\ Owed' = 0 /\ Unfiled' = Unfiled /\ Filed' = Filed /\ Filed \in Nat
        /\ behind \in Behind /\ behind.copy \in Nat
    BY <1>1, <1>2, <1>3, ShelfRests, FiledIs DEF Owed, Unfiled, Money, Behind
  <1>6. Covers(Filed, b, behind.copy)
    <2> DEFINE k == AttemptKey(batch.book, Run)
               n == behind.copy
               c == batch.book
               w == Filed
    <2>1. b = [x \in DOMAIN c \cup {k} |-> IF x = k THEN v ELSE c[x]]
      OBVIOUS
    <2>2. Covers(w, c, n + v) /\ n \in Nat /\ v \in Nat /\ w \in Nat
      BY <1>3, <1>5
    <2>3. k \notin DOMAIN c
      BY <1>4
    <2> HIDE DEF k, n, v, b, c, w
    <2>4. Covers(w, b, n)
      BY <2>1, <2>2, <2>3, CoversAdds
    <2>5. QED
      BY <2>1, <2>4 DEF n, w
  <1> HIDE DEF b
  <1>7. Archived' /\ Client'
    BY <1>1, ArchiveRests, FreshIs DEF Client
  <1>8. batch = [book |-> batch.book, pos |-> batch.pos, kind |-> batch.kind, left |-> batch.left]
        /\ batch.pos \in Nat \ {0} /\ batch.pos \in 1 .. Len(plan) /\ Run \in Runs
    BY <1>1, RunIn DEF BatchOK, Busy
  <1>9. ASSUME dir[Run].invalid PROVE BatchOK' /\ RunOK' /\ InvalidKnown'
    <2>1. twinStep' = "aside" /\ batch' = [batch EXCEPT !.book = b]
      BY <1>2, <1>9
    <2>2. BatchOK' /\ Run' = Run
      BY <1>1, <1>8, <2>1 DEF BatchOK, Busy, Run
    <2>3. RunOK'
      BY <1>1, <1>3, <1>9, <2>1, <2>2 DEF RunOK
    <2>4. InvalidKnown'
      BY <1>1, <2>1, <2>2, ShelfRests DEF InvalidKnown
    <2>5. QED
      BY <2>1, <2>2, <2>3, <2>4
  <1>10. ASSUME ~ dir[Run].invalid PROVE BatchOK' /\ RunOK' /\ InvalidKnown'
    <2>1. twinStep' = "next" /\ batch' = [batch EXCEPT !.book = b, !.pos = @ + 1, !.left = @ - 1]
      BY <1>2, <1>10
    <2>2. BatchOK'
      <3>1. batch' = [book |-> b, pos |-> batch.pos + 1, kind |-> batch.kind, left |-> batch.left - 1]
        BY <1>8, <2>1
      <3>2. batch.pos + 1 \in Nat \ {0}
        BY <1>8
      <3>3. /\ batch'.book = b /\ batch'.pos = batch.pos + 1 /\ batch'.kind = batch.kind
            /\ batch'.left = batch.left - 1
        BY <3>1
      <3>4. QED
        BY <1>1, <2>1, <3>1, <3>2, <3>3 DEF BatchOK, Busy
    <2>3. RunOK'
      BY <2>1 DEF RunOK
    <2>4. InvalidKnown'
      BY <1>1, <1>10, <2>1, ShelfRests DEF InvalidKnown
    <2>5. QED
      BY <2>1, <2>2, <2>3, <2>4
  <1>11. /\ behind' \in Behind /\ behind'.file = behind.copy /\ behind'.copy = behind.copy
         /\ behind'.rebuild = behind.rebuild /\ batch'.book = b
    BY <1>1, <1>2, <1>5, <1>8 DEF Behind
  <1>12. Money'
    BY <1>1, <1>5, <1>11 DEF Money
  <1>13. Ledgers'
    <2>1. rebuild # None => Covers(Filed, rebuild, behind.rebuild)
      BY DEF Ledgers
    <2>2. behind'.copy + Owed' = behind.copy
      BY <1>5, <1>11
    <2>3. QED
      BY <1>1, <1>5, <1>6, <1>11, <2>1, <2>2, LedgersThen
  <1>14. QED
    BY <1>7, <1>9, <1>10, <1>12, <1>13

-----------------------------------------------------------------------------
LEMMA SumDrops ==
  ASSUME NEW S, NEW b, NEW x \in S, Counts(b, S)
  PROVE  Counts(b, S \ {x}) /\ SumOf(b, S) = b[x] + SumOf(b, S \ {x})
  <1>1. Counts(b, S \ {x})
    BY FS_Subset DEF Counts
  <1>2. (S \ {x}) \cup {x} = S /\ x \notin S \ {x} /\ b[x] \in Nat
    BY DEF Counts
  <1>3. SumOf(b, (S \ {x}) \cup {x}) = b[x] + SumOf(b, S \ {x})
    BY <1>1, <1>2, SumAdds
  <1>4. QED
    BY <1>1, <1>2, <1>3

\* Setting an attempt aside keeps its tokens.
LEMMA ShelfMoves ==
  ASSUME TwinAssumption, Archived, NEW r \in Runs, dir[r] \in Meta,
         dir' = [dir EXCEPT ![r] = None], aside' = [aside EXCEPT ![r] = Append(@, dir[r])], UNCHANGED plan
  PROVE  Filed' = Filed
  <1> DEFINE n == Len(aside[r]) + 1
             x == <<r, 0, 1>>
             y == <<r, n, 1>>
             m == dir[r]
             T == Shelved \ {x}
  <1>1. Runs' = Runs
    BY DEF Runs
  <1>2. aside[r] \in Seq(Meta) /\ n \in Nat \ {0} /\ Len(aside[r]) = n - 1
    BY DEF Archived
  <1>3. /\ dir'[r] = None /\ \A q \in Runs : q # r => dir'[q] = dir[q] /\ aside'[q] = aside[q]
        /\ aside'[r] = Append(aside[r], m)
    BY DEF Archived
  <1>4. Len(aside'[r]) = n /\ aside'[r][n] = m /\ \A i \in 1 .. n - 1 : aside'[r][i] = aside[r][i]
    BY <1>2, <1>3
  <1> HIDE DEF n, m
  <1>5. Places' = Places \cup {y} /\ y \notin Places /\ y[1] = r /\ y[2] = n
    <2>1. \A q \in Runs : q # r => Keys(q)' = Keys(q)
      BY <1>1, <1>3 DEF Keys
    <2>2. Keys(r)' = Keys(r) \cup {y}
      <3>1. Keys(r) = {<<r, i, 1>> : i \in 0 .. n - 1} /\ Keys(r)' = {<<r, i, 1>> : i \in 0 .. n}
        BY <1>2, <1>4 DEF Keys
      <3>2. 0 .. n = (0 .. n - 1) \cup {n}
        BY <1>2
      <3> HIDE DEF y
      <3>3. y = <<r, n, 1>>
        BY DEF y
      <3>4. QED
        BY <3>1, <3>2, <3>3
    <2>3. Places = UNION {Keys(q) : q \in Runs} /\ Places' = UNION {Keys(q)' : q \in Runs}
      BY <1>1 DEF Places, Keys
    <2> HIDE DEF y
    <2>4. Places' = Places \cup {y}
      BY <2>1, <2>2, <2>3
    <2>5. y \notin Places
      <3>1. SUFFICES ASSUME y \in Places PROVE FALSE
        OBVIOUS
      <3>2. y[1] \in Runs /\ y[2] \in 0 .. Len(aside[y[1]])
        BY <3>1, PlaceOf
      <3>3. QED
        BY <1>2, <3>2 DEF y
    <2>6. QED
      BY <2>4, <2>5 DEF y
  <1>6. x \in Places /\ x[1] = r /\ x[2] = 0
    <2>1. 0 \in 0 .. Len(aside[r])
      BY <1>2
    <2>2. QED
      BY <2>1, PlaceIs
  <1>7. Kept[x] = m /\ Kept'[x] = None /\ Kept'[y] = m
    <2>1. Kept[x] = m
      BY <1>6, KeptIs DEF m
    <2>2. Kept'[x] = None
      BY <1>3, <1>5, <1>6, KeptThen
    <2>3. n # 0
      BY <1>2
    <2>4. y \in Places'
      BY <1>5
    <2>5. Kept'[y] = m
      BY <1>4, <1>5, <2>3, <2>4, KeptThen
    <2>6. QED
      BY <2>1, <2>2, <2>5
  <1>8. ASSUME NEW k \in Places, k # x PROVE Kept'[k] = Kept[k]
    <2>1. k = <<k[1], k[2], 1>> /\ k[1] \in Runs /\ k[2] \in 0 .. Len(aside[k[1]]) /\ k \in Places'
      BY <1>5, PlaceOf
    <2>2. CASE k[1] # r
      BY <1>3, <2>1, <2>2, KeptIs, KeptThen
    <2>3. CASE k[1] = r
      <3>1. k[2] \in 1 .. n - 1
        BY <1>2, <1>8, <2>1, <2>3
      <3>2. k[2] # 0 /\ aside'[r][k[2]] = aside[r][k[2]]
        BY <1>2, <1>4, <3>1
      <3>3. QED
        BY <2>1, <2>3, <3>2, KeptIs, KeptThen
    <2>4. QED
      BY <2>2, <2>3
  <1>9. m \in Meta /\ None \notin Meta
    BY DEF TwinAssumption, m
  <1> HIDE DEF x, y
  <1>10. /\ Shelved = {k \in Places : Kept[k] \in Meta} /\ Shelved' = {k \in Places' : Kept'[k] \in Meta}
    BY KeptIs, KeptThen DEF Shelved
  <1>11. x \in Shelved /\ y \notin T /\ Shelved' = T \cup {y}
    BY <1>5, <1>6, <1>7, <1>8, <1>9, <1>10
  <1>12. Counts(Worth, Shelved)
    BY ShelfCounts
  <1>13. Counts(Worth, T) /\ SumOf(Worth, Shelved) = Worth[x] + SumOf(Worth, T) /\ Worth[x] = m.spent
    BY <1>7, <1>11, <1>12, SumDrops DEF Worth
  <1>14. m.spent \in Nat /\ Worth'[y] = m.spent
    BY <1>7, <1>9, <1>11 DEF Meta, Worth
  <1>15. \A k \in T : Worth[k] = Worth'[k]
    BY <1>8, <1>10, <1>11 DEF Worth
  <1> HIDE DEF T
  <1> DEFINE b == Worth
             c == Worth'
  <1>16. c[y] \in Nat /\ Counts(b, T) /\ \A k \in T : b[k] = c[k]
    BY <1>13, <1>14, <1>15
  <1> HIDE DEF b, c
  <1>17. SumOf(c, T \cup {y}) = c[y] + SumOf(b, T)
    BY <1>11, <1>16, SumAdds
  <1>18. SumOf(Worth', Shelved') = m.spent + SumOf(Worth, T)
    BY <1>11, <1>14, <1>17 DEF b, c
  <1>19. Filed' = SumOf(Worth', Shelved') /\ Filed = SumOf(Worth, Shelved)
    BY DEF Filed, SumOf, Sums
  <1>20. QED
    BY <1>13, <1>18, <1>19

LEMMA StepAside ==
  ASSUME TwinAssumption, TwinInv, SetAside
  PROVE  TwinInv'
  <1> USE DEF TwinInv
  <1>1. /\ twinStep = "aside" /\ twinStep' = "idle" /\ batch' = None
        /\ cli' = <<>> /\ pipe' = <<>> /\ stream' = Fresh
        /\ aside' = [aside EXCEPT ![Run] = Append(@, dir[Run])] /\ dir' = [dir EXCEPT ![Run] = None]
        /\ behind' = [behind EXCEPT !.copy = 0] /\ UNCHANGED <<plan, book, rebuild, spent, unsaved, stuck>>
    BY DEF SetAside, Leave
  <1>2. Run \in Runs /\ dir[Run] \in Meta /\ Runs' = Runs
    BY <1>1, RunIn DEF Busy, RunOK, Runs
  <1>3. /\ dir' \in [Runs -> Meta \cup {None, Torn}]
        /\ dir'[Run] = None /\ \A q \in Runs : q # Run => dir'[q] = dir[q]
    BY <1>1, <1>2 DEF Archived
  <1>4. aside' \in [Runs -> Seq(Meta)]
    <2>1. Append(aside[Run], dir[Run]) \in Seq(Meta)
      BY <1>2 DEF Archived
    <2>2. QED
      BY <1>1, <1>2, <2>1 DEF Archived
  <1>5. Archived' /\ Client'
    BY <1>1, <1>2, <1>3, <1>4, FreshIs DEF Archived, Client
  <1>6. BatchOK' /\ RunOK'
    BY <1>1 DEF BatchOK, Busy, RunOK
  <1>7. InvalidKnown'
    BY <1>1, <1>2, <1>3 DEF InvalidKnown, TwinAssumption
  <1>8. Filed' = Filed /\ Unfiled' = Unfiled
    BY <1>1, <1>2, ShelfMoves DEF Unfiled
  <1>9. behind' \in Behind /\ behind'.file = behind.file /\ behind'.rebuild = behind.rebuild
    BY <1>1, CopyGone DEF Money
  <1>10. Money'
    BY <1>1, <1>8, <1>9 DEF Money
  <1>11. Ledgers'
    BY <1>1, <1>8, <1>9, LedgersThen DEF Ledgers
  <1>12. QED
    BY <1>5, <1>6, <1>7, <1>10, <1>11

-----------------------------------------------------------------------------
\* A meta.json that is cut off is worth nothing.
LEMMA ShelfTorn ==
  ASSUME TwinAssumption, Archived, NEW r \in Runs, dir[r] = None,
         dir' = [dir EXCEPT ![r] = Torn], UNCHANGED <<plan, aside>>
  PROVE  Filed' = Filed
  <1>1. Runs' = Runs /\ Places' = Places
    BY DEF Runs, Places, Keys
  <1>2. dir'[r] = Torn /\ \A q \in Runs : q # r => dir'[q] = dir[q]
    BY DEF Archived
  <1>3. ASSUME NEW k \in Places
        PROVE  (Kept'[k] \in Meta <=> Kept[k] \in Meta) /\ (Kept[k] \in Meta => Kept'[k] = Kept[k])
    <2>1. k[1] \in Runs
      BY PlaceOf
    <2>2. CASE k[2] = 0 /\ k[1] = r
      <3>1. Kept[k] = None /\ Kept'[k] = Torn
        BY <1>1, <1>2, <2>2, KeptIs, KeptThen
      <3>2. QED
        BY <3>1 DEF TwinAssumption
    <2>3. CASE ~ (k[2] = 0 /\ k[1] = r)
      <3>1. Kept'[k] = Kept[k]
        BY <1>1, <1>2, <2>1, <2>3, KeptIs, KeptThen
      <3>2. QED
        BY <3>1
    <2>4. QED
      BY <2>2, <2>3
  <1>4. Shelved = {k \in Places : Kept[k] \in Meta} /\ Shelved' = {k \in Places : Kept'[k] \in Meta}
    BY <1>1, KeptIs, KeptThen DEF Shelved
  <1>5. Shelved' = Shelved
    BY <1>3, <1>4
  <1>6. Worth' = Worth
    BY <1>3, <1>4, <1>5 DEF Worth
  <1>7. QED
    BY <1>5, <1>6 DEF Filed, SumOf, Sums

LEMMA StepBatchDies ==
  ASSUME TwinAssumption, TwinInv, Die
  PROVE  TwinInv'
  <1> USE DEF TwinInv
  <1>1. /\ twinStep # "idle" /\ twinStep' = "idle" /\ batch' = None
        /\ cli' = <<>> /\ pipe' = <<>> /\ stream' = Fresh /\ UNCHANGED <<plan, aside, rebuild>>
        /\ behind' = [behind EXCEPT !.copy = 0]
    BY DEF Die, Leave
  <1>2. /\ dir' = dir \/ (twinStep = "meta" /\ dir' = [dir EXCEPT ![Run] = Torn])
        /\ book' = book \/ book' = Torn
        /\ stuck' = IF twinStep \in {"book", "aside"} /\ dir[Run].invalid THEN stuck \cup {Run} ELSE stuck
    BY DEF Die
  <1>3. Runs' = Runs /\ (twinStep # "next" => Run \in Runs)
    BY <1>1, RunIn DEF Busy, BatchOK, Runs
  <1>4. /\ dir' \in [Runs -> Meta \cup {None, Torn}]
        /\ \A q \in Runs : dir'[q] = dir[q] \/ dir'[q] = Torn
    BY <1>2, <1>3 DEF Archived
  <1>5. Archived' /\ Client'
    <2>1. stuck' \subseteq Runs
      BY <1>2, <1>3 DEF Archived
    <2>2. QED
      BY <1>1, <1>3, <1>4, <2>1, FreshIs DEF Archived, Client
  <1>6. BatchOK' /\ RunOK'
    BY <1>1 DEF BatchOK, Busy, RunOK
  <1>7. InvalidKnown'
    <2>1. SUFFICES ASSUME NEW r \in Runs, dir'[r] \in Meta, dir'[r].invalid PROVE r \in stuck'
      BY <1>3 DEF InvalidKnown
    <2>2. dir'[r] = dir[r]
      BY <1>4, <2>1 DEF TwinAssumption
    <2>3. r \in stuck \/ (twinStep \in {"book", "aside"} /\ r = Run)
      BY <2>1, <2>2 DEF InvalidKnown
    <2>4. QED
      BY <1>2, <2>1, <2>2, <2>3
  <1>8. Filed' = Filed /\ Unfiled' = 0 /\ Filed \in Nat
    <2>1. CASE dir' = dir
      BY <1>1, <2>1, ShelfRests, FiledIs DEF Unfiled
    <2>2. CASE twinStep = "meta" /\ dir' = [dir EXCEPT ![Run] = Torn]
      <3>1. Run \in Runs /\ dir[Run] = None
        BY <1>3, <2>2 DEF RunOK
      <3>2. QED
        BY <1>1, <2>2, <3>1, ShelfTorn, FiledIs DEF Unfiled
    <2>3. QED
      BY <1>2, <2>1, <2>2
  <1>9. PICK d \in Nat : spent' = spent + d /\ unsaved' = unsaved + Unfiled + d
    <2>1. spent \in Nat /\ unsaved \in Nat
      BY DEF Money
    <2>2. CASE twinStep = "running"
      <3> DEFINE v == Spend(Written)
      <3>1. v \in Nat /\ Written \in Streams
        BY WrittenIs, SpendIs DEF Client
      <3>2. spent' = spent + v /\ unsaved' = unsaved + v /\ Unfiled = 0
        BY <2>2 DEF Die, Unfiled
      <3> HIDE DEF v
      <3>3. unsaved' = unsaved + Unfiled + v
        BY <2>1, <3>1, <3>2
      <3>4. QED
        BY <3>1, <3>2, <3>3
    <2>3. CASE twinStep = "meta"
      <3> DEFINE v == Spend(stream)
      <3>1. spent' = spent /\ unsaved' = unsaved + v /\ Unfiled = v
        BY <2>3 DEF Die, Unfiled
      <3>2. v \in Nat
        BY SpendIs DEF Client
      <3> HIDE DEF v
      <3>3. spent' = spent + 0 /\ unsaved' = unsaved + Unfiled + 0
        BY <2>1, <3>1, <3>2
      <3>4. QED
        BY <3>3
    <2>4. CASE twinStep \in {"next", "book", "aside"}
      <3>1. spent' = spent /\ unsaved' = unsaved /\ Unfiled = 0
        BY <2>4 DEF Die, Unfiled
      <3>2. spent' = spent + 0 /\ unsaved' = unsaved + Unfiled + 0
        BY <2>1, <3>1
      <3>3. QED
        BY <3>2
    <2>5. QED
      BY <1>1, <2>2, <2>3, <2>4 DEF BatchOK
  <1>10. Unfiled \in Nat
    BY SpendIs DEF Unfiled, Client
  <1>11. behind' \in Behind /\ behind'.file = behind.file /\ behind'.rebuild = behind.rebuild
    BY <1>1, CopyGone DEF Money
  <1>12. Money'
    <2> DEFINE u == Unfiled
    <2>1. spent \in Nat /\ unsaved \in Nat /\ spent = unsaved + u + Filed
      BY DEF Money
    <2>2. u \in Nat /\ spent' = spent + d /\ unsaved' = unsaved + u + d
      BY <1>9, <1>10
    <2> HIDE DEF u
    <2>3. spent' \in Nat /\ unsaved' \in Nat /\ spent' = unsaved' + 0 + Filed'
      BY <1>8, <2>1, <2>2
    <2>4. QED
      BY <1>8, <1>11, <2>3 DEF Money
  <1>13. Ledgers'
    BY <1>1, <1>2, <1>8, <1>11, LedgersThen DEF Ledgers
  <1>14. QED
    BY <1>5, <1>6, <1>7, <1>12, <1>13

\* What is read of the archive is all that it has.
LEMMA StepReadArchive ==
  ASSUME TwinAssumption, TwinInv, ReadArchive
  PROVE  TwinInv'
  <1> USE DEF TwinInv
  <1> DEFINE b == [k \in {x \in DOMAIN Kept : Kept[x] # None} |-> Kept[k].spent]
  <1>1. /\ rebuild = None /\ (\A r \in Runs : dir[r] # Torn) /\ rebuild' = b
        /\ UNCHANGED <<plan, dir, aside, book, batch, twinStep, cli, pipe, stream, spent, unsaved, behind, stuck>>
    BY DEF ReadArchive
  <1>2. ASSUME NEW k \in Places PROVE Kept[k] # None <=> Kept[k] \in Meta
    <2>1. k[1] \in Runs /\ k[2] \in 0 .. Len(aside[k[1]])
      BY PlaceOf
    <2>2. aside[k[1]] \in Seq(Meta) /\ dir[k[1]] \in Meta \cup {None}
      BY <1>1, <2>1 DEF Archived
    <2>3. k[2] # 0 => aside[k[1]][k[2]] \in Meta
      BY <2>1, <2>2
    <2>4. Kept[k] \in Meta \cup {None}
      BY <2>2, <2>3, KeptIs
    <2>5. QED
      BY <2>4 DEF TwinAssumption
  <1>3. {x \in DOMAIN Kept : Kept[x] # None} = Shelved
    BY <1>2, KeptIs DEF Shelved
  <1>4. b = Worth /\ DOMAIN b = Shelved
    BY <1>3 DEF Worth
  <1> HIDE DEF b
  <1>5. Covers(Filed, b, behind.rebuild)
    <2>1. Counts(b, DOMAIN b) /\ SumOf(b, DOMAIN b) = Filed
      BY <1>4, ShelfCounts DEF Filed
    <2>2. Filed \in Nat /\ behind.rebuild \in Nat
      BY FiledIs DEF Money, Behind
    <2>3. QED
      BY <2>1, <2>2 DEF Covers
  <1>6. Archived' /\ Client'
    BY <1>1, ArchiveRests DEF Client
  <1>7. BatchOK' /\ InvalidKnown'
    BY <1>1, ShelfRests DEF BatchOK, Busy, InvalidKnown, Run
  <1>8. RunOK'
    BY <1>1 DEF RunOK, Run, Room, Total, MapThenSumSet, MapThenFoldSet
  <1>9. Owed' = Owed /\ Unfiled' = Unfiled /\ Filed' = Filed
    BY <1>1, ShelfRests DEF Owed, Unfiled
  <1>10. Money'
    BY <1>1, <1>9 DEF Money
  <1>11. Ledgers'
    <2> HIDE DEF Owed
    <2>1. /\ book # Torn => Covers(Filed, book, behind.file)
          /\ twinStep # "idle" => Covers(Filed, batch.book, behind.copy + Owed)
      BY DEF Ledgers
    <2>2. QED
      BY <1>1, <1>5, <1>9, <2>1, LedgersThen
  <1>12. QED
    BY <1>6, <1>7, <1>8, <1>10, <1>11

\* What was read becomes the ledger, whole or cut off.
LEMMA StepRebuild ==
  ASSUME TwinAssumption, TwinInv, RebuildLedger \/ RebuildDies
  PROVE  TwinInv'
  <1> USE DEF TwinInv
  <1>1. /\ rebuild # None /\ rebuild' = None
        /\ UNCHANGED <<plan, dir, aside, batch, twinStep, cli, pipe, stream, spent, unsaved, stuck>>
    BY DEF RebuildLedger, RebuildDies, Rebuilt
  <1>2. \/ book' = rebuild /\ behind' = [behind EXCEPT !.file = behind.rebuild, !.rebuild = 0]
        \/ book' = Torn /\ behind' = [behind EXCEPT !.rebuild = 0]
    BY DEF RebuildLedger, RebuildDies
  <1>3. behind \in Behind
    BY DEF Money
  <1>4. /\ behind' \in Behind /\ behind'.copy = behind.copy
        /\ book' # Torn => book' = rebuild /\ behind'.file = behind.rebuild
    <2>1. CASE book' = rebuild /\ behind' = [behind EXCEPT !.file = behind.rebuild, !.rebuild = 0]
      BY <1>3, <2>1 DEF Behind
    <2>2. CASE book' = Torn /\ behind' = [behind EXCEPT !.rebuild = 0]
      BY <1>3, <2>2 DEF Behind
    <2>3. QED
      BY <1>2, <2>1, <2>2
  <1>5. Archived' /\ Client'
    BY <1>1, ArchiveRests DEF Client
  <1>6. BatchOK' /\ InvalidKnown'
    BY <1>1, ShelfRests DEF BatchOK, Busy, InvalidKnown, Run
  <1>7. RunOK'
    BY <1>1 DEF RunOK, Run, Room, Total, MapThenSumSet, MapThenFoldSet
  <1>8. Owed' = Owed /\ Unfiled' = Unfiled /\ Filed' = Filed
    BY <1>1, ShelfRests DEF Owed, Unfiled
  <1>9. Money'
    BY <1>1, <1>4, <1>8 DEF Money
  <1>10. Ledgers'
    <2> HIDE DEF Owed
    <2>1. /\ twinStep # "idle" => Covers(Filed, batch.book, behind.copy + Owed)
          /\ Covers(Filed, rebuild, behind.rebuild)
      BY <1>1 DEF Ledgers
    <2>2. QED
      BY <1>1, <1>4, <1>8, <2>1, LedgersThen
  <1>11. QED
    BY <1>5, <1>6, <1>7, <1>9, <1>10

LEMMA StepTwinInv == ASSUME TwinAssumption PROVE TwinInv /\ [TwinNext]_twinVars => TwinInv'
  <1> SUFFICES ASSUME TwinInv, [TwinNext]_twinVars PROVE TwinInv'
    OBVIOUS
  <1>1. ASSUME NEW kind, NEW limit, BeginBatch(kind, limit) PROVE TwinInv'
    BY <1>1, StepBegin
  <1>2. CASE Skip
    BY <1>2, StepSkip
  <1>3. CASE StopBatch
    BY <1>3, StepEnd DEF StopBatch
  <1>4. CASE LaunchRun
    BY <1>4, StepLaunch
  <1>5. CASE Refuse
    BY <1>5, StepEnd DEF Refuse, Launchable, Open, More
  <1>6. CASE WriteEvent \/ ReadEvent \/ Wall
    BY <1>6, StepStream
  <1>7. CASE Eof
    BY <1>7, StepEof
  <1>8. CASE SaveMeta
    BY <1>8, StepSaveMeta
  <1>9. CASE Book
    BY <1>9, StepBook
  <1>10. CASE SetAside
    BY <1>10, StepAside
  <1>11. CASE Die
    BY <1>11, StepBatchDies
  <1>12. CASE ReadArchive
    BY <1>12, StepReadArchive
  <1>15. CASE RebuildLedger \/ RebuildDies
    BY <1>15, StepRebuild
  <1>13. CASE UNCHANGED twinVars
    <2> USE DEF twinVars, TwinInv
    <2>1. Owed' = Owed /\ Unfiled' = Unfiled /\ behind \in Behind
      BY <1>13 DEF Owed, Unfiled, Money
    <2>2. Archived' /\ Client'
      BY <1>13, ArchiveRests DEF Client
    <2>3. Room' = Room
      BY <1>13 DEF Room, Total, MapThenSumSet, MapThenFoldSet
    <2>4. BatchOK' /\ RunOK' /\ InvalidKnown'
      BY <1>13, <2>3, ShelfRests DEF BatchOK, Busy, RunOK, InvalidKnown, Run
    <2>5. Money' /\ Ledgers'
      BY <1>13, <2>1, MoneyRests
    <2>6. QED
      BY <2>2, <2>4, <2>5
  <1>14. QED
    BY <1>1, <1>2, <1>3, <1>4, <1>5, <1>6, <1>7, <1>8, <1>9, <1>10, <1>11, <1>12, <1>13, <1>15 DEF TwinNext

-----------------------------------------------------------------------------
LEMMA TwinInvHolds == ASSUME TwinAssumption PROVE TwinSpec => []TwinInv
  <1>1. TwinInit => TwinInv
    BY InitTwinInv
  <1>2. TwinInv /\ [TwinNext]_twinVars => TwinInv'
    BY StepTwinInv
  <1>3. QED
    BY <1>1, <1>2, PTL DEF TwinSpec

LEMMA InvTwinTypeOK == TwinInv => TwinTypeOK
  <1> SUFFICES ASSUME TwinInv PROVE TwinTypeOK
    OBVIOUS
  <1>1. /\ spent \in Nat /\ unsaved \in Nat /\ behind \in Behind
        /\ spent = unsaved + Unfiled + Filed
    BY DEF TwinInv, Money
  <1>2. Unfiled \in Nat /\ Filed \in Nat
    BY SpendIs, FiledIs DEF TwinInv, Unfiled, Client
  <1>3. unsaved \in 0 .. spent
    <2> HIDE DEF Unfiled, Filed
    <2>1. QED
      BY <1>1, <1>2
  <1>4. QED
    BY <1>1, <1>3 DEF TwinTypeOK, TwinInv, Archived, Client, BatchOK, Behind

\* The twin harness stays in its types: its archive, its ledger, the stream
\* of a run and the histories (evidence-twin/twin.py).
THEOREM TwinTypeCorrect == ASSUME TwinAssumption PROVE TwinSpec => []TwinTypeOK
  BY TwinInvHolds, InvTwinTypeOK, PTL

\* run_batch starts a run only when what was really spent leaves room for it
\* under the ceiling, for any plan, scripts of the client and faults, and
\* whenever a ledger is rebuilt from the archive: the ledger in use has all of
\* it, but for attempts that died before their meta.json was whole and for
\* what came on file after that ledger was made.
THEOREM CeilingHolds == ASSUME TwinAssumption PROVE TwinSpec => []CeilingKept
  <1>1. TwinInv => CeilingKept
    <2>1. SUFFICES ASSUME TwinInv, twinStep = "running" PROVE spent - unsaved - behind.copy + Cap <= Ceiling
      BY DEF CeilingKept
    <2> DEFINE t == SumOf(batch.book, DOMAIN batch.book)
    <2>2. Covers(Filed, batch.book, behind.copy + 0)
      BY <2>1 DEF TwinInv, Ledgers, Owed
    <2>3. Counts(batch.book, DOMAIN batch.book) /\ Filed <= t + (behind.copy + 0)
      BY <2>2 DEF Covers
    <2>4. t \in Nat /\ Cap \in Nat /\ Ceiling \in Nat /\ Filed \in Nat /\ behind.copy \in Nat
      BY <2>1, <2>3, SumIsCount, FiledIs DEF TwinAssumption, TwinInv, Money, Behind
    <2>5. spent \in Nat /\ unsaved \in Nat /\ spent = unsaved + 0 + Filed
      BY <2>1 DEF TwinInv, Money, Unfiled
    <2>6. t + Cap <= Ceiling
      <3>1. Room
        BY <2>1 DEF TwinInv, RunOK
      <3>2. QED
        BY <3>1, TotalIs DEF Room
    <2> HIDE DEF t
    <2>7. QED
      BY <2>3, <2>4, <2>5, <2>6
  <1>2. QED
    BY <1>1, TwinInvHolds, PTL

\* bench_blind calls the bench sighted only with every run of every positive
\* control in the archive, and each of them executed, or about to be set
\* aside, or of a batch that ended before that.
THEOREM SightEarned == ASSUME TwinAssumption PROVE TwinSpec => []SightIsEarned
  <1>1. TwinInv => SightIsEarned
    <2>1. SUFFICES ASSUME TwinInv, \A r \in Runs : dir[r] # Torn, BenchBlind = "sighted",
                          NEW r \in Runs, r.task \in Positives
                   PROVE  /\ dir[r] # None
                          /\ dir[r].invalid => r \in stuck \/ (twinStep \in {"book", "aside"} /\ r = Run)
      BY DEF SightIsEarned
    <2>2. Incomplete = {}
      BY <2>1 DEF BenchBlind
    <2>3. dir[r] # None
      BY <2>1, <2>2 DEF Incomplete, Missing
    <2>4. dir[r] \in Meta
      BY <2>1, <2>3 DEF TwinInv, Archived
    <2>5. QED
      BY <2>1, <2>3, <2>4 DEF TwinInv, InvalidKnown
  <1>2. QED
    BY <1>1, TwinInvHolds, PTL
==============================================================================
