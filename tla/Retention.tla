------------------------------ MODULE Retention -----------------------------
(* Expiry of one episode's content: the pass goes over payloads, snapshots  *)
(* and causal states, takes each one's expiry date and any seal that        *)
(* extends it, deletes what is due, verifies the deletion, appends it to    *)
(* DELETIONS.log and notes it in the manifest.  Removing a directory may    *)
(* stop half way, and the pass may die at every step.  Episode has the same *)
(* deletion as one step, among the other things that happen to an episode.  *)
EXTENDS Naturals

CONSTANTS
    Never,       \* no date
    Horizon,     \* the last day of the model
    MaxFaults    \* bound on half deletions, unreadable dates and deaths

Kinds == {"payloads", "snapshots", "causal"}
Order == <<"payloads", "snapshots", "causal">>
Day == 0 .. Horizon
Date == Day \cup {Never}

ConstAssumption ==
    Never \notin Nat /\ Horizon \in Nat \ {0} /\ MaxFaults \in Nat

VARIABLES
    today,
    content,   \* kind -> "none", "whole", "part" of it left, or "gone"
    expires,   \* kind -> the date in retention.json or the manifest
    manifest,  \* there is a manifest that can be read
    seal,      \* kind -> the last day a committed seal retains its SHA256SUMS to
    at,        \* which kind the pass is at, 0 when no pass runs
    step,      \* and what it does with it
    log,       \* DELETIONS.log: kind -> "none", "failed" or "verified"
    noted,     \* the deletions the manifest has
    early,     \* history: the kinds sealed, without a break, since before they were due
    killed,    \* history: kind -> a pass died between a removal and its record
    faults

vars == <<today, content, expires, manifest, seal, at, step, log, noted, early, killed, faults>>

Kind == Order[at]

\* Content is under snapshots/ until a review moves it into payloads/; none is
\* due yet.
Init ==
    /\ today = 0
    /\ content \in [Kinds -> {"none", "whole"}]
    /\ content["payloads"] = "none" \/ content["snapshots"] = "none"
    /\ expires \in [Kinds -> {1, Never}]
    /\ expires["causal"] = expires["snapshots"]
    /\ manifest \in BOOLEAN
    /\ seal = [k \in Kinds |-> Never]
    /\ at = 0 /\ step = "idle"
    /\ log = [k \in Kinds |-> "none"] /\ noted = {}
    /\ early = {} /\ killed = [k \in Kinds |-> FALSE]
    /\ faults = 0

Fault == faults < MaxFaults /\ faults' = faults + 1

-----------------------------------------------------------------------------
\* Mutant: a directory without its sums file is not taken again.
BugPresent(k) == content[k] = "whole"

\* The directories the pass goes over: what a removal left of one, too.
Present(k) == content[k] \in {"whole", "part"}

\* What SHA256SUMS a seal of this content must name: its own, and for causal
\* states those of the snapshot, if they are still under snapshots/.  A half
\* deleted directory may have lost its own.
Sums(k) == IF k = "causal" THEN "snapshots" ELSE k

\* Mutant: causal states are looked up by their own sums.
BugSealed(k) ==
    content[k] = "whole" /\ seal[k] # Never /\ seal[k] > today

Sealed(k) ==
    content[Sums(k)] = "whole" /\ seal[Sums(k)] # Never /\ seal[Sums(k)] > today

\* _expiry_of: a payload's date is in its retention.json, else in the manifest;
\* the others' is in the manifest, or their directory's age without one.
Due(k) == expires[k] # Never /\ today >= expires[k]

Pass == UNCHANGED <<today, expires, manifest, seal, early>>

Begin ==
    /\ at = 0
    /\ at' = 1 /\ step' = "judge"
    /\ Pass /\ UNCHANGED <<content, log, noted, killed, faults>>

Forward == IF at = 3 THEN at' = 0 /\ step' = "idle" ELSE at' = at + 1 /\ step' = "judge"

\* Not there, undated (kept and flagged), not yet due, or sealed.
Keep ==
    /\ step = "judge"
    /\ ~ (Present(Kind) /\ Due(Kind) /\ ~ Sealed(Kind))
    /\ Forward
    /\ Pass /\ UNCHANGED <<content, log, noted, killed, faults>>

Take ==
    /\ step = "judge"
    /\ Present(Kind) /\ Due(Kind) /\ ~ Sealed(Kind)
    /\ step' = "remove" /\ at' = at
    /\ Pass /\ UNCHANGED <<content, log, noted, killed, faults>>

Remove ==
    /\ step = "remove"
    /\ step' = "log" /\ at' = at
    /\ content' = [content EXCEPT ![Kind] = "gone"]
    /\ Pass /\ UNCHANGED <<log, noted, killed, faults>>

\* What is left of a payload may have lost its retention.json, and a snapshot
\* without a manifest is dated by its directory, which the removal touches.
RemoveFails ==
    /\ Fault
    /\ step = "remove"
    /\ step' = "log" /\ at' = at
    /\ content' = [content EXCEPT ![Kind] = "part"]
    /\ \E d \in {expires[Kind], IF Kind = "payloads" THEN Never ELSE Horizon} :
          expires' = IF manifest THEN expires ELSE [expires EXCEPT ![Kind] = d]
    /\ UNCHANGED <<today, manifest, seal, early, log, noted, killed>>

\* Mutant: the deletion is recorded as verified without looking.
BugAppend ==
    /\ step = "log"
    /\ log' = [log EXCEPT ![Kind] = "verified"]
    /\ step' = "note" /\ at' = at
    /\ Pass /\ UNCHANGED <<content, noted, killed, faults>>

\* verified_delete appends its record whether or not the content is gone, and
\* raises if it is not: the pass goes on without noting it in the manifest.
Append ==
    /\ step = "log"
    /\ log' = [log EXCEPT ![Kind] = IF content[Kind] = "gone" THEN "verified" ELSE "failed"]
    /\ IF content[Kind] = "gone" THEN step' = "note" /\ at' = at ELSE Forward
    /\ Pass /\ UNCHANGED <<content, noted, killed, faults>>

Note ==
    /\ step = "note"
    /\ noted' = IF manifest THEN noted \cup {Kind} ELSE noted
    /\ Forward
    /\ Pass /\ UNCHANGED <<content, log, killed, faults>>

Die ==
    /\ Fault
    /\ at # 0
    /\ at' = 0 /\ step' = "idle"
    /\ killed' = [k \in Kinds |-> killed[k] \/ (k = Kind /\ step = "log" /\ content[k] = "gone")]
    /\ Pass /\ UNCHANGED <<content, log, noted>>

-----------------------------------------------------------------------------
\* Seals are committed, extended or withdrawn, and time passes, at any time.
SealUntil(k, d) ==
    /\ content[k] = "whole" /\ k # "causal"
    /\ seal' = [seal EXCEPT ![k] = d]
    /\ early' = IF d = Never \/ d <= today THEN early \ {k}
                ELSE IF Due(k) THEN early ELSE early \cup {k}
    /\ UNCHANGED <<today, content, expires, manifest, at, step, log, noted, killed, faults>>

Tomorrow ==
    /\ today < Horizon
    /\ today' = today + 1
    /\ early' = {k \in early : seal[k] > today'}
    /\ UNCHANGED <<content, expires, manifest, seal, at, step, log, noted, killed, faults>>

Work == Keep \/ Take \/ Remove \/ Append \/ Note

Next ==
    \/ Begin \/ Work \/ RemoveFails \/ Die \/ Tomorrow
    \/ \E k \in Kinds, d \in Date : SealUntil(k, d)

\* Time passes and passes are made; a pass goes on unless it dies.
Fairness == WF_vars(Begin) /\ WF_vars(Work) /\ WF_vars(Tomorrow)

Spec == Init /\ [][Next]_vars /\ Fairness

-----------------------------------------------------------------------------
\* Each variable stays in its range.
TypeOK ==
    /\ today \in Day /\ at \in 0 .. 3 /\ faults \in 0 .. MaxFaults
    /\ content \in [Kinds -> {"none", "whole", "part", "gone"}]
    /\ expires \in [Kinds -> Date] /\ seal \in [Kinds -> Date]
    /\ manifest \in BOOLEAN /\ noted \subseteq Kinds /\ early \subseteq Kinds
    /\ step \in {"idle", "judge", "remove", "log", "note"}
    /\ log \in [Kinds -> {"none", "failed", "verified"}] /\ killed \in [Kinds -> BOOLEAN]

\* Content sealed before it was due stays whole while the seal lasts, and the
\* causal states with the snapshot whose seal they share (review.py:774:
\* "causal states expire and are sealed with their episode's start snapshot"),
\* whatever else passes delete, half delete or die over.
SealHolds ==
    \A k \in early :
        /\ content[k] = "whole"
        /\ k = "snapshots" => content["causal"] \in {"none", "whole"}

\* Nothing is gone without its record in DELETIONS.log, unless a pass died
\* between the two (store.py:436-438), and the manifest notes only deletions
\* that were verified in the log.
DeletionRecorded ==
    /\ \A k \in Kinds : content[k] = "gone" =>
          \/ log[k] = "verified" \/ killed[k]
          \/ at # 0 /\ k = Kind /\ step = "log"
    /\ \A k \in noted : log[k] = "verified" /\ content[k] = "gone"

\* In the end nothing that is due is left in the store, also when a first
\* removal stopped half way: seals run out, and the next pass takes what is left.
ExpiredLeaves ==
    <>[](manifest => \A k \in Kinds : Due(k) => content[k] \in {"none", "gone"})
=============================================================================
