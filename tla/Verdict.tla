------------------------------- MODULE Verdict -------------------------------
(* What is made of one captured episode: the rules X1-X7 over the facts of  *)
(* its manifest and the owner's review file, the funnel, the decision of a  *)
(* review and the payload it stages, the class the report counts it in.     *)
(* Joins, rescreens, maintenance and the owner change what the decision     *)
(* rests on in any order.  What writes the manifest holds the episode's     *)
(* lock (Episode has the protocol), so each is one step.  The owner's file  *)
(* is edited by hand under no lock: a review reads it and acts on what it   *)
(* read, and the file may be another by then.  A review may die at any      *)
(* moment.  Expiry is left to Retention.                                    *)
EXTENDS Screen, Naturals, Sequences

CONSTANTS
    Unset,
    JoinedTurns,     \* the turns that a join may find
    OwnerFiles       \* what the owner's review file may say

Rules == {"X1", "X2", "X3", "X4", "X5", "X6", "X7"}
OwnerResolvable == {"X1", "X2", "X3", "X4", "X5"}

Facts == [origin : {Unset, "human", "other"}, edits : {"files", "shell", "none"}, sufficient : BOOLEAN,
          deps : [Categories -> Tri], prior : Tri, first : BOOLEAN]

VerdictAssumption ==
    /\ JoinedTurns \subseteq Turn
    /\ OwnerFiles \subseteq [OwnerResolvable -> {"yes", "no", Unset}]

\* What the screen makes of them.
Screenings == {Screened(t) : t \in JoinedTurns}

\* screen_root finds no checkout to hold the calls against: only the prompt's
\* origin is taken over.
Unscreened(f) == {[f EXCEPT !.origin = g.origin] : g \in Screenings}

Blank == [origin |-> Unset, edits |-> "none", sufficient |-> FALSE,
          deps |-> [c \in Categories |-> "unknown"], prior |-> "unknown", first |-> FALSE]

VARIABLES
    phase,      \* "begun", "started", "ended" or "killed"
    joined,     \* the last join found the prompt
    facts, capture, ended, link, trusted,
    complete,   \* the start snapshot is
    exclusions, funnel,   \* as the manifest has them
    review,     \* state and reason
    owner,      \* the owner's review file: rule -> "yes", "no" or Unset; Unset without one
    lockedBy,   \* the episode's lock: "free", "stop" by a Stop hook that lost the join
                \* and reviews next, "review" by a review that has read the owner's file
    word,       \* that file as the review read it
    place,      \* "snapshots", "payload", "broken" (a payload that does not verify), "gone"
    cleared     \* history: the payload was admissible when it was staged, by that word

verdictVars == <<phase, joined, facts, capture, ended, link, trusted, complete, exclusions, funnel,
          review, owner, lockedBy, word, place, cleared>>

-----------------------------------------------------------------------------
\* _tri_any_yes_all_no
AnyYesAllNo(ts) == IF "yes" \in ts THEN "yes" ELSE IF ts \subseteq {"no"} THEN "no" ELSE "unknown"

\* What the facts alone say of a rule.
Evidence(r, f, cap, snap) ==
    CASE r = "X1" -> IF f.origin = Unset THEN "unknown" ELSE IF f.origin = "human" THEN "no" ELSE "yes"
      [] r = "X2" -> IF f.edits = "files" THEN "no"
                     ELSE IF f.edits = "none" /\ f.sufficient THEN "yes" ELSE "unknown"
      [] r \in {"X3", "X4"} -> AnyYesAllNo({f.deps[c] : c \in CategoriesOf[r]})
      [] r = "X5" -> f.prior
      [] r = "X6" -> IF snap THEN "no" ELSE "yes"
      [] r = "X7" -> CASE cap = "complete" -> "no" [] cap = "failed" -> "yes" [] OTHER -> "unknown"

\* evaluate_rules: the owner resolves what is unknown, and never X6 or X7.
Evaluate(f, cap, snap, own) ==
    [r \in Rules |->
        LET e == Evidence(r, f, cap, snap)
        IN  IF e = "unknown" /\ r \in OwnerResolvable /\ own # Unset /\ own[r] # Unset THEN own[r] ELSE e]

Having(ex, t) == {r \in Rules : ex[r] = t}

Gates == {"packet_linked", "start_snapshot_complete", "dependency_screen_clear"}
Gated == <<"privacy_cleared", "payload_materialized", "start_state_reconstructed", "replay_verified">>

\* compute_funnel: a later stage keeps its recorded value while all before it hold.
Compute(ex, f, ln, snap, tr, recorded) ==
    LET gates == {g \in Gates :
            CASE g = "packet_linked" -> ln = "linked"
              [] g = "start_snapshot_complete" -> snap /\ tr
              [] g = "dependency_screen_clear" -> f.sufficient /\ Having(ex, "no") = Rules}
        kept == {i \in DOMAIN Gated : \A j \in 1 .. i : Gated[j] \in recorded}
    IN  gates \cup (IF gates = Gates THEN {Gated[i] : i \in kept} ELSE {})

\* refresh, of what the manifest is about to hold.
Refresh(own) ==
    /\ exclusions' = Evaluate(facts', capture', complete', own)
    /\ funnel' = Compute(exclusions', facts', link', complete', trusted', funnel)

Judgement == <<exclusions, funnel>>

VerdictInit ==
    /\ phase \in {"begun", "started"} /\ joined = FALSE
    /\ facts = Blank /\ capture = "partial" /\ ended = FALSE /\ link = "none" /\ trusted = FALSE
    /\ complete \in BOOLEAN
    /\ exclusions = [r \in Rules |-> "unknown"] /\ funnel = {}
    /\ review = <<Unset, {}>> /\ owner = Unset /\ lockedBy = "free" /\ word = Unset
    /\ place = (IF complete THEN "snapshots" ELSE "gone") /\ cleared = FALSE

-----------------------------------------------------------------------------
\* The lock is taken and given back within the step.
ReviewIdle == lockedBy = "free" /\ UNCHANGED <<owner, review, lockedBy, word, place, cleared>>

\* _mark_killed refreshes without the owner's file.
Kill ==
    /\ phase = "begun" /\ phase' = "killed"
    /\ complete' = FALSE /\ capture' = "failed" /\ trusted' = FALSE
    /\ UNCHANGED <<joined, facts, ended, link>>
    /\ Refresh(Unset)
    /\ ReviewIdle

\* finalize, of a Stop hook or a pass: by a Stop hook also after a pass's own.
Join ==
    /\ phase \in {"started", "ended"} /\ review[1] # "materialized"
    /\ phase' = "ended" /\ joined' = TRUE /\ ended' = TRUE
    /\ \/ facts' \in Screenings /\ capture' \in {"complete", "partial"}
       \/ facts' \in Unscreened(facts) /\ capture' = "partial"
    /\ link' \in IF link = "none" THEN {"none", "linked", "ambiguous", "mismatch"} ELSE {link}
    /\ trusted' \in BOOLEAN
    /\ UNCHANGED complete
    /\ Refresh(owner)
    /\ ReviewIdle

\* The prompt is not found.  A Stop hook reviews what it has all the same, of
\* an episode that stays open, and keeps the lock for it.
JoinLost ==
    /\ phase \in {"started", "ended"} /\ review[1] # "materialized"
    /\ joined' = FALSE /\ capture' = "partial"
    /\ UNCHANGED <<phase, facts, ended, link, trusted, complete>>
    /\ Refresh(owner)
    /\ lockedBy = "free" /\ lockedBy' \in {"free", "stop"}
    /\ UNCHANGED <<owner, review, word, place, cleared>>

RejoinExpired ==
    /\ phase = "started" /\ phase' = "ended"
    /\ joined' = FALSE /\ capture' = "partial"
    /\ UNCHANGED <<facts, ended, link, trusted, complete>>
    /\ Refresh(owner)
    /\ ReviewIdle

\* run_rescreen of a joined episode: its screen is repeated, or cannot be, and
\* what rested on a sufficient observation is withdrawn, if anything did; the
\* prompt's origin is kept from the repeated join.
Invalid(f) ==
    [f EXCEPT !.sufficient = FALSE,
              !.edits = IF f.edits = "shell" THEN "none" ELSE f.edits,
              !.deps = [c \in Categories |-> IF f.deps[c] = "no" THEN "unknown" ELSE f.deps[c]],
              !.prior = IF f.prior = "no" /\ ~ f.first THEN "unknown" ELSE f.prior]

Rescreen ==
    /\ joined
    /\ facts' \in Screenings \cup {facts} \cup {[Invalid(facts) EXCEPT !.origin = f.origin] : f \in Screenings \cup {facts}}
    /\ UNCHANGED <<phase, joined, capture, ended, link, trusted, complete>>
    /\ Refresh(owner)
    /\ ReviewIdle

\* A pass re-evaluates a boundary that is not trusted and a link that is not final.
Reidentified ==
    /\ phase = "ended" /\ ~ trusted
    /\ trusted' = TRUE
    /\ UNCHANGED <<phase, joined, facts, capture, ended, link, complete>>
    /\ Refresh(owner)
    /\ ReviewIdle

Relink ==
    /\ phase = "ended" /\ ended /\ link = "none"
    /\ link' \in {"linked", "ambiguous", "mismatch"}
    /\ UNCHANGED <<phase, joined, facts, capture, ended, trusted, complete>>
    /\ Refresh(owner)
    /\ ReviewIdle

\* The owner writes, changes or withdraws the review file.
OwnerDecides ==
    /\ owner' \in OwnerFiles \cup {Unset}
    /\ UNCHANGED <<phase, joined, facts, capture, ended, link, trusted, complete, Judgement, review,
                   lockedBy, word, place, cleared>>

-----------------------------------------------------------------------------
\* decide: what the inputs and the privacy check come to is one of these.
Checks == {"unverified", "no inputs", "mismatch", "privacy fails", "passes"}

Decide(ex, ln, tr, open, at, check) ==
    CASE Having(ex, "yes") # {} -> <<"excluded", Having(ex, "yes")>>
      [] Having(ex, "yes") = {} /\ ln \in {"ambiguous", "mismatch"} -> <<"excluded", {"link"}>>
      [] OTHER ->
         IF Having(ex, "unknown") # {} THEN <<"held", Having(ex, "unknown")>>
         ELSE IF ln # "linked" THEN <<"held", {"link_pending"}>>
         ELSE IF ~ tr THEN <<"held", {"boundary_untrusted"}>>
         ELSE IF open THEN <<"held", {"episode_open"}>>
         ELSE IF at # "snapshots" THEN <<"excluded", {"snapshot_missing"}>>
         ELSE IF check = "unverified" THEN <<"excluded", {"snapshot_unverified"}>>
         ELSE IF check \in {"no inputs", "mismatch"} THEN <<"held", {check}>>
         ELSE IF check = "privacy fails" THEN <<"excluded", {"privacy_scope"}>>
         ELSE <<"cleared", {}>>

\* Mutant: a review trusts the exclusions that the manifest has.
BugFresh(own) == exclusions

\* The rules evaluated again, with what the owner's file says.
Fresh(own) == Evaluate(facts, capture, complete, own)

\* What the documents ask of a payload, said once more: a human task with
\* edits, nothing that it needs from outside, a complete start and capture,
\* the packet, the tested client; the owner may settle only what is open.
Settled(own, r) == own # Unset /\ own[r] = "no"
Admissible(own) ==
    /\ facts.origin = "human" \/ (facts.origin = Unset /\ Settled(own, "X1"))
    /\ \/ facts.edits = "files"
       \/ (facts.edits = "shell" \/ ~ facts.sufficient) /\ Settled(own, "X2")
    /\ \A r \in {"X3", "X4"} : \A c \in CategoriesOf[r] :
          facts.deps[c] = "no" \/ (facts.deps[c] = "unknown" /\ Settled(own, r))
    /\ facts.prior = "no" \/ (facts.prior = "unknown" /\ Settled(own, "X5"))
    /\ complete /\ capture = "complete" /\ link = "linked" /\ trusted /\ ended

Frame == UNCHANGED <<phase, joined, facts, capture, ended, link, trusted, complete, owner>>

\* review_episode begins: it reads the owner's file, once.
ReviewReads ==
    /\ lockedBy = "stop" \/ (lockedBy = "free" /\ phase \in {"ended", "killed"})
    /\ review[1] # "materialized"
    /\ lockedBy' = "review" /\ word' = owner
    /\ Frame /\ UNCHANGED <<Judgement, review, place, cleared>>

\* It goes on later, with what it read, and gives the lock back.
Reviewing == lockedBy = "review" /\ lockedBy' = "free" /\ word' = Unset /\ Frame

Decided(check) == Decide(Fresh(word), link, trusted, ~ ended, place, check)

ComputeWith(flags) ==
    Compute(Fresh(word), facts, link, complete, trusted, (funnel \ {Gated[1], Gated[2]}) \cup flags)

\* A decision that is not new writes nothing, unless it deleted something.
Conclude(result, flags, deleted) ==
    IF result = review /\ ~ deleted THEN UNCHANGED <<review, Judgement>>
    ELSE /\ review' = result
         /\ exclusions' = Fresh(word) /\ funnel' = ComputeWith(flags)

StagePayload == place' = "payload" /\ cleared' = Admissible(word)

Adopt ==
    /\ Reviewing /\ place \in {"payload", "broken"}
    /\ IF place = "payload" THEN Conclude(<<"materialized", {"payload_recovered"}>>, {Gated[1], Gated[2]}, FALSE)
       ELSE Conclude(<<"held", {"payload_conflict"}>>, {}, FALSE)
    /\ UNCHANGED <<place, cleared>>

Review(check) ==
    /\ Reviewing /\ place \in {"snapshots", "gone"}
    /\ LET d == Decided(check)
       IN  CASE d[1] = "held" -> Conclude(d, {}, FALSE) /\ UNCHANGED <<place, cleared>>
             [] d[1] = "excluded" ->
                  /\ place' \in {place, "gone"}
                  /\ Conclude(d, {}, place' # place)
                  /\ UNCHANGED cleared
             [] OTHER ->
                  \/ StagePayload /\ Conclude(<<"materialized", d[2]>>, {Gated[1], Gated[2]}, FALSE)
                  \/ /\ Conclude(<<"held", {"payload_write_failed"}>>, {Gated[1]}, FALSE)
                     /\ UNCHANGED <<place, cleared>>

\* It dies before the manifest is written: before it changed anything, with the
\* snapshot deleted or with the payload under its name.
ReviewDies ==
    /\ Reviewing /\ UNCHANGED <<Judgement, review>>
    /\ \/ UNCHANGED <<place, cleared>>
       \/ /\ place = "snapshots" /\ \E check \in Checks : Decided(check)[1] = "excluded"
          /\ place' = "gone" /\ UNCHANGED cleared
       \/ /\ place = "snapshots" /\ Decided("passes")[1] = "cleared"
          /\ StagePayload

Damage ==
    /\ place = "payload" /\ place' = "broken"
    /\ Frame /\ UNCHANGED <<Judgement, review, lockedBy, word, cleared>>

VerdictNext ==
    \/ Kill \/ Join \/ JoinLost \/ RejoinExpired \/ Rescreen \/ Reidentified \/ Relink \/ OwnerDecides
    \/ ReviewReads \/ Adopt \/ ReviewDies \/ Damage
    \/ \E check \in Checks : Review(check)

VerdictSpec == VerdictInit /\ [][VerdictNext]_verdictVars

-----------------------------------------------------------------------------
\* The report.
PrivacyStatus ==
    IF review[2] = {"privacy_scope"} THEN "failed"
    ELSE IF review = <<"materialized", {}>> \/ review[2] = {"payload_write_failed"} THEN "passed"
    ELSE "not_reached"

Candidate(f) == (Gates \cup {Gated[1]}) \subseteq f

Unresolved(ex) ==
    \/ \E r \in OwnerResolvable : ex[r] = "unknown"
    \/ \E r \in Rules \ OwnerResolvable : ex[r] # "no"
    \/ ~ facts.sufficient \/ link # "linked" \/ ~ complete

\* blocker_partition, of the manifest refreshed with the owner's file of now.
Class ==
    LET ex == Fresh(owner)
        scope == \E r \in OwnerResolvable : ex[r] = "yes"
    IN  IF Candidate(Compute(ex, facts, link, complete, trusted, funnel)) THEN "candidate"
        ELSE IF ~ trusted THEN
             IF ~ scope /\ ~ Unresolved(ex) THEN "boundary_only"
             ELSE IF scope THEN "boundary_plus_scope_excluded" ELSE "boundary_plus_unresolved"
        ELSE IF scope THEN "scope_excluded" ELSE IF Unresolved(ex) THEN "unresolved"
        ELSE [failed |-> "privacy_failed", passed |-> "privacy_passed",
              not_reached |-> "privacy_not_reached"][PrivacyStatus]

\* human_yield counts human prompts whose capture is complete.
Counted == facts.origin = "human" /\ capture = "complete"

-----------------------------------------------------------------------------
\* Each variable stays in its range.
VerdictTypeOK ==
    /\ phase \in {"begun", "started", "ended", "killed"} /\ joined \in BOOLEAN
    /\ facts \in Facts /\ {owner, word} \subseteq OwnerFiles \cup {Unset}
    /\ lockedBy \in {"free", "stop", "review"}
    /\ capture \in {"partial", "complete", "failed"} /\ ended \in BOOLEAN /\ complete \in BOOLEAN
    /\ link \in {"none", "linked", "ambiguous", "mismatch"} /\ trusted \in BOOLEAN
    /\ exclusions \in [Rules -> Tri] /\ funnel \subseteq Gates \cup {Gated[i] : i \in DOMAIN Gated}
    /\ review[1] \in {Unset, "excluded", "held", "materialized"}
    /\ place \in {"snapshots", "payload", "broken", "gone"} /\ cleared \in BOOLEAN

\* A payload is staged only for an episode that is admissible at that moment,
\* by the owner's file as the review read it, whatever joins, rescreens, links
\* and owner decisions came before, between and after and in whatever order
\* (review.py:8-25): no stale rule, no owner's word against evidence, no X6 or
\* X7 resolved.  A word withdrawn after the read is not heard.
PayloadWasCleared == place \in {"payload", "broken"} => cleared

\* The report's classes are what a review begun now would do, be the manifest
\* written before the owner's last word or not.  "boundary_only": were the
\* boundary trusted, it would reach the snapshot and privacy checks
\* (report.py:101-105), which a "candidate" has done; "scope_excluded": it is
\* excluded.
PartitionAgrees ==
    (Counted /\ phase = "ended") =>
        /\ Class \in {"boundary_only", "candidate"} =>
              Decide(Fresh(owner), link, TRUE, ~ ended, "snapshots", "passes")[1] = "cleared"
        /\ Class \in {"scope_excluded", "boundary_plus_scope_excluded"} =>
              Decide(Fresh(owner), link, trusted, ~ ended, place, "passes")[1] = "excluded"

\* A payload was admissible when it was staged, and the report's classes agree
\* with what a review would decide.
VerdictStands == PayloadWasCleared /\ PartitionAgrees
=============================================================================
