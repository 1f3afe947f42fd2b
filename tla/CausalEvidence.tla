---------------------------- MODULE CausalEvidence ---------------------------
(* What the causal hooks leave in a manifest and what the admission makes   *)
(* of it.  Each hook is a row of stages; a stage may raise, which becomes   *)
(* an error of the manifest and skips the others of its row, and each stage *)
(* may find something that speaks against the episode.  The admission looks *)
(* at what is there.  Causal has the states the hooks seal and how changes  *)
(* are attributed; one other worktree and one tool stand for all.           *)

CONSTANT Missing      \* not recorded

-----------------------------------------------------------------------------
\* The record of another worktree: not listed, its directory gone, its status
\* failed or of some other repository (both unobservable), or one of two states.
Sightings == {"unlisted", "nodir", "failed", "elsewhere", "A", "B"}

WorktreeRecord(s) ==
    CASE s = "unlisted" -> Missing
      [] s = "nodir" -> [fp |-> "missing", paths |-> Missing]
      [] s \in {"failed", "elsewhere"} -> [fp |-> Missing, paths |-> Missing]
      [] OTHER -> [fp |-> s, paths |-> "listed"]

Records == {WorktreeRecord(s) : s \in Sightings}
Unobservable(r) == r # Missing /\ r.fp = Missing
Fp(r) == IF r = Missing THEN Missing ELSE r.fp

\* What the turn's tool calls say: they name the worktree, go up from the
\* checkout, install packages; Missing when a call or a subagent is missing.
Texts == {Missing} \cup SUBSET {"names", "parent", "install"}

\* classify_worktrees: unknown is never unrelated.
Classify(r, e, shared, texts) ==
    IF Unobservable(r) \/ Unobservable(e) THEN "unknown"
    ELSE IF Fp(r) = Fp(e) THEN "still"
    ELSE IF shared = "changed" THEN "contaminating"
    ELSE IF \/ r = Missing \/ e = Missing \/ shared = Missing \/ texts = Missing
            \/ r.paths = Missing \/ e.paths = Missing THEN "unknown"
    ELSE IF texts \cap {"names", "install"} # {} THEN "contaminating"
    ELSE IF "parent" \in texts THEN "unknown" ELSE "unrelated"

\* A tool's version ("absent" and an error code are versions, too); a probe
\* that does not end in time is unrecorded.
Version == {"v1", "v2", "unrecorded"}

\* tool_drift: an unknown is never assumed equal.
ToolDrift(a, b) == a = "unrecorded" \/ b = "unrecorded" \/ a # b

\* What a hook records of them: the other worktree, and the state that it shares.
Worktrees == [rec : Records, shared : {"start", "end"}]

EvidenceAssumption ==
    /\ \A s \in {"sealed", "missing", "listed", "A", "B", "eligible", "refused", "unknown", "still",
                "contaminating", "unrelated", "same", "changed"} \cup Version : Missing # s
    /\ \A s \in SUBSET {"reason", "path", "lockfile", "tool"} : Missing # s
    /\ \A r \in {WorktreeRecord(s) : s \in Sightings \ {"unlisted"}} : Missing # r
    /\ \A w \in Worktrees : Missing # w

-----------------------------------------------------------------------------
VARIABLES
    side, stage,   \* which hook runs and where it is
    probes,        \* its version probes were started
    got,           \* field of m["causal"], or Missing
    errors,        \* the stages that raised or were skipped
    verdict

evidenceVars == <<side, stage, probes, got, errors, verdict>>

Field == {"unsupported_start", "worktrees_start", "start", "tools_start",
          "unsupported_end", "worktrees_end", "end", "tools_end",
          "attribution", "worktrees", "drift"}

Following == [probes |-> "unsupported", unsupported |-> "worktrees", worktrees |-> "overlay",
          overlay |-> "attribution", attribution |-> "tools", tools |-> "drift"]

EvidenceInit ==
    /\ side = "start" /\ stage = "budget" /\ probes = FALSE
    /\ got = [f \in Field |-> Missing] /\ errors = {}
    /\ verdict = Missing

FieldOf ==
    [start |-> [unsupported |-> "unsupported_start", worktrees |-> "worktrees_start",
                overlay |-> "start", tools |-> "tools_start"],
     end |-> [unsupported |-> "unsupported_end", worktrees |-> "worktrees_end",
              overlay |-> "end", tools |-> "tools_end"]]
Of(k) == FieldOf[side][k]
At(s) == stage = s
Set(f, v) == got' = [got EXCEPT ![f] = v]
SameHook == UNCHANGED <<side, verdict>>

-----------------------------------------------------------------------------
\* A prompt hook with too little time left skips everything.
Budget ==
    /\ At("budget")
    /\ \/ stage' = "probes" /\ errors' = errors
       \/ side = "start" /\ stage' = "over" /\ errors' = errors \cup {"start"}
    /\ SameHook /\ UNCHANGED <<probes, got>>

Probe ==
    /\ At("probes")
    /\ probes' = TRUE /\ stage' = Following[stage]
    /\ SameHook /\ UNCHANGED <<got, errors>>

Unsupported ==
    /\ At("unsupported")
    /\ \E rs \in SUBSET {"reason"} : Set(Of("unsupported"), rs)
    /\ stage' = Following[stage]
    /\ SameHook /\ UNCHANGED <<probes, errors>>

\* The records and the shared git state are written together; the state at the
\* end may be that of the start or another one.
SaveWorktrees ==
    /\ At("worktrees")
    /\ \E s \in Sightings, g \in {"start", side} :
          Set(Of("worktrees"), [rec |-> WorktreeRecord(s), shared |-> g])
    /\ stage' = Following[stage]
    /\ SameHook /\ UNCHANGED <<probes, errors>>

Overlay ==
    /\ At("overlay")
    /\ Set(Of("overlay"), "sealed")
    /\ stage' = IF side = "start" THEN "tools" ELSE Following[stage]
    /\ SameHook /\ UNCHANGED <<probes, errors>>

Shared(a, b) == IF a = Missing \/ b = Missing THEN Missing
                ELSE IF a.shared = b.shared THEN "same" ELSE "changed"

\* Records of both sides are needed; a list of worktrees is missing on a side
\* only if its stage was not reached.
ClassOf(a, b, texts) ==
    IF a = Missing \/ b = Missing THEN "unknown"
    ELSE Classify(a.rec, b.rec, Shared(a, b), texts)

\* The end hook attributes the changes, classifies the worktree and compares
\* the lock files, once the end is sealed.
Attribute ==
    /\ At("attribution") /\ got["start"] # Missing
    /\ \E un \in BOOLEAN, lock \in BOOLEAN, texts \in Texts :
          got' = [got EXCEPT
              !["attribution"] = IF un THEN {"path"} ELSE {},
              !["worktrees"] = ClassOf(got["worktrees_start"], got["worktrees_end"], texts),
              !["drift"] = IF lock THEN {"lockfile"} ELSE {}]
    /\ stage' = "tools"
    /\ SameHook /\ UNCHANGED <<probes, errors>>

NoStart ==
    /\ At("attribution") /\ got["start"] = Missing
    /\ errors' = errors \cup {"attribution"}
    /\ stage' = "tools"
    /\ SameHook /\ UNCHANGED <<probes, got>>

\* Any stage may raise (or find too little time left for the overlay); the
\* versions are still collected if the probes started.
Raise ==
    /\ stage \in {"probes", "unsupported", "worktrees", "overlay", "attribution"}
    /\ errors' = errors \cup {side}
    /\ stage' = "tools"
    /\ \/ UNCHANGED got
       \/ At("attribution") /\ got["start"] # Missing /\ Set("attribution", {})
    /\ SameHook /\ UNCHANGED probes

After == IF side = "start" THEN "over" ELSE "drift"

CollectTools ==
    /\ At("tools")
    /\ IF probes THEN \E v \in Version : Set(Of("tools"), v) ELSE UNCHANGED got
    /\ stage' = After
    /\ SameHook /\ UNCHANGED <<probes, errors>>

ToolsRaise ==
    /\ At("tools") /\ probes
    /\ errors' = errors \cup {Of("tools")}
    /\ stage' = After
    /\ SameHook /\ UNCHANGED <<probes, got>>

Drift ==
    /\ At("drift")
    /\ LET a == got["tools_start"]
           b == got["tools_end"]
           old == IF got["drift"] = Missing THEN {} ELSE got["drift"]
       IN  IF a # Missing /\ b # Missing
           THEN Set("drift", old \cup IF ToolDrift(a, b) THEN {"tool"} ELSE {})
           ELSE UNCHANGED got
    /\ stage' = "over"
    /\ SameHook /\ UNCHANGED <<probes, errors>>

\* Stop: an end that is sealed or that failed is not tried again.
Stop ==
    /\ stage = "over"
    /\ got["end"] = Missing /\ "end" \notin errors
    /\ side' = "end" /\ stage' = "probes" /\ probes' = FALSE
    /\ UNCHANGED <<got, errors, verdict>>

-----------------------------------------------------------------------------
\* What the admission finds: problems of the stored states and the history
\* (Missing: there is none), whether each side materializes faithfully, and the
\* problems of the registration.
Problems == {Missing, {}, {"problem"}}
Passed == {"yes", "no", "not evaluable"}

\* All in order, or one of them not.
Fine == [identity |-> TRUE, base |-> TRUE, start |-> {}, end |-> {}, history |-> {},
         rebuilt_start |-> {}, rebuilt_end |-> {}, registration |-> {},
         checks_start |-> "no", checks_end |-> "yes"]
ValuesOf(k) == IF k \in {"identity", "base"} THEN BOOLEAN
            ELSE IF k \in {"checks_start", "checks_end"} THEN Passed ELSE Problems
Findings == UNION {{[Fine EXCEPT ![k] = v] : v \in ValuesOf(k)} : k \in DOMAIN Fine}

\* The states are rebuilt and the checks run on them only if all verify.
BothRebuilt(f) == got["start"] # Missing /\ got["end"] # Missing /\ f.start = {} /\ f.end = {} /\ f.history = {}
Ran(f) == BothRebuilt(f) /\ f.registration = {} /\ f.rebuilt_start = {} /\ f.rebuilt_end = {}

If(c, r) == IF c THEN {r} ELSE {}

\* Mutant: the hooks' errors are not reasons.
BugErrorsOf(es) == {}

ErrorsOf(es) == es

\* What speaks against the states and the registration of the pair.
OfPair(f) ==
    If(~ f.identity, "identity_not_accepted") \cup If(~ f.base, "base")
    \cup If(got["start"] = Missing \/ f.start # {}, "start")
    \cup If(got["end"] = Missing \/ f.end # {}, "end")
    \cup If(f.history # {}, "history")
    \cup If(~ BothRebuilt(f) \/ f.rebuilt_start # {} \/ f.rebuilt_end # {}, "fidelity")
    \cup If(f.registration # {}, "registration")
    \cup If(~ Ran(f) \/ f.checks_end # "yes" \/ f.checks_start # "no", "checks")

OfUnsupported == UNION {got[u] : u \in {v \in {"unsupported_start", "unsupported_end"} : got[v] # Missing}}

OfWorktrees ==
    If(got["worktrees"] \in {Missing, "contaminating", "unknown"}, "other_worktree")
    \cup If(got["worktrees_start"] # Missing /\ got["worktrees_end"] # Missing /\ got["worktrees"] # Missing
            /\ Shared(got["worktrees_start"], got["worktrees_end"]) = "changed", "shared_git_state_changed")

OfDrift == IF got["drift"] = Missing THEN {} ELSE got["drift"]

\* causal.admit and what causal_admit.admit adds to it.
Reasons(f) ==
    UNION {OfPair(f), OfUnsupported, If(got["attribution"] # {}, "attribution"), OfWorktrees, OfDrift, ErrorsOf(errors)}

Admit ==
    /\ stage = "over" /\ side = "end" /\ verdict = Missing
    /\ \E f \in Findings : verdict' = IF Reasons(f) = {} THEN "eligible" ELSE "refused"
    /\ UNCHANGED <<side, stage, probes, got, errors>>

EvidenceNext ==
    \/ Budget \/ Probe \/ Unsupported \/ SaveWorktrees \/ Overlay \/ Attribute \/ NoStart
    \/ Raise \/ CollectTools \/ ToolsRaise \/ Drift \/ Stop \/ Admit

EvidenceSpec == EvidenceInit /\ [][EvidenceNext]_evidenceVars

-----------------------------------------------------------------------------
\* Each variable stays in its range.
EvidenceTypeOK ==
    /\ side \in {"start", "end"} /\ probes \in BOOLEAN
    /\ stage \in {"budget", "over"} \cup DOMAIN Following \cup {"drift"}
    /\ DOMAIN got = Field
    /\ errors \subseteq {"start", "end", "attribution", "tools_start", "tools_end"}
    /\ verdict \in {Missing, "eligible", "refused"}

\* Nothing missing is inferred as satisfied (causal_admit.py:17-18): in an
\* eligible episode every piece of evidence was recorded on both sides,
\* whichever stages of the hooks raised or were skipped, and the tools and
\* every other worktree were seen on both sides and did not move, or no call
\* could have reached them.
NothingInferred ==
    verdict = "eligible" =>
        /\ \A f \in Field : got[f] # Missing
        /\ got["tools_start"] = got["tools_end"] /\ got["tools_start"] # "unrecorded"
        /\ got["unsupported_start"] = {} /\ got["unsupported_end"] = {}
        /\ LET a == got["worktrees_start"]
               b == got["worktrees_end"]
           IN  /\ a.shared = b.shared
               /\ ~ Unobservable(a.rec) /\ ~ Unobservable(b.rec)
               /\ a.rec # b.rec => got["worktrees"] = "unrelated" /\ a.rec # Missing /\ b.rec # Missing
=============================================================================
