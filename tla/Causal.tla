------------------------------- MODULE Causal -------------------------------
(* The causal capture of evidence-capture: the prompt hook and the Stop     *)
(* hook each seal an overlay, HEAD plus the bytes of every path git calls   *)
(* changed, read in several passes while others go on changing the          *)
(* checkout; the change from one to the other is attributed to the agent's  *)
(* recorded writes, and an episode is admitted for replay if both sides can *)
(* be rebuilt byte for byte and the agent made every change between them.   *)
(*                                                                          *)
(* A file's content is a text and its line endings.  Each pass over the     *)
(* paths (a listing, a read of the listed files, a byte manifest) is one    *)
(* step; modes, symlinks and ignored files are left out.  CausalEvidence has *)
(* the other reasons for a refusal.                                         *)
EXTENDS Naturals

CONSTANTS
    Path,       \* the paths of the checkout
    Text,       \* what a file may say
    Absent,     \* no such file
    Unsealed,   \* nothing recorded
    Commits,    \* the commits HEAD may be at
    TreeOf,     \* the content of each path in each commit's tree
    Before,     \* pairs of a commit and a descendant of it, or itself
    MaxDisturbs,  \* bound on what others change
    MaxWrites     \* bound on what the agent does

Eol == {"lf", "crlf", "mixed"}
Content == [text : Text, eol : Eol] \cup {Absent}
Conversion == {"false", "true", "input"}       \* core.autocrlf
Side == {"start", "end"}

CausalAssumption ==
    /\ Absent \notin [text : Text, eol : Eol]
    /\ TreeOf \in [Commits -> [Path -> Content]]
    /\ Before \subseteq Commits \X Commits
    /\ Unsealed \notin {"admitted", "refused"}
    /\ MaxDisturbs \in Nat /\ MaxWrites \in Nat

VARIABLES
    tip, work, conv,   \* HEAD, the worktree, the conversion setting
    side, hookStep,    \* which hook runs, and its next step
    cand,              \* the paths its listing names
    draft,             \* what it has read so far
    same,              \* no later pass read anything else
    state,             \* side -> the sealed state, or Unsealed
    written,           \* the paths of the agent's recorded writes
    verdict,
    calm,              \* history: side -> nothing changed while it was sealed
    stateMoves, writes

checkout == <<tip, work, conv>>
hookVars == <<side, hookStep, cand, draft, same, state>>
causalVars == <<checkout, hookVars, written, writes, verdict, calm, stateMoves>>

-----------------------------------------------------------------------------
Lf(c) == IF c = Absent THEN c ELSE [c EXCEPT !.eol = "lf"]
Crlf(c) == IF c = Absent THEN c ELSE [c EXCEPT !.eol = "crlf"]

\* A path in git diff HEAD: line endings do not count when git would convert
\* them; it does not when the committed file itself has CRLF.
Unchanged(h, w) ==
    \/ h = w
    \/ conv # "false" /\ h # Absent /\ h.eol = "lf" /\ Lf(w) = h

\* What git checks out for a committed content under a setting.
Checkout(setting, h) ==
    IF setting = "true" /\ h # Absent /\ h.eol = "lf" THEN Crlf(h) ELSE h

\* git hash-object of a file: converted by the setting alone.
Oid(w) == IF conv = "false" THEN w ELSE Lf(w)

\* The paths git reports as changed or untracked.
Candidates == {p \in Path : ~ Unchanged(TreeOf[tip][p], work[p])}

NoDraft == [head |-> Unsealed, files |-> <<>>, oid |-> <<>>, deleted |-> {}, bytes |-> Unsealed]

CausalInit ==
    /\ tip \in Commits /\ work \in [Path -> Content] /\ conv \in Conversion
    /\ side = "start" /\ hookStep = "head"
    /\ cand = {} /\ draft = NoDraft /\ same = TRUE
    /\ state = [s \in Side |-> Unsealed]
    /\ written = {} /\ verdict = Unsealed
    /\ calm = [s \in Side |-> TRUE]
    /\ stateMoves = 0 /\ writes = 0

-----------------------------------------------------------------------------
Sealing == hookStep \notin {"turn", "done"}
World == UNCHANGED <<checkout, written, writes, verdict, calm, stateMoves>>
Advance(from, to) == hookStep = from /\ hookStep' = to /\ World

ReadHead ==
    /\ Advance("head", "list")
    /\ draft' = [NoDraft EXCEPT !.head = tip] /\ same' = TRUE
    /\ UNCHANGED <<side, cand, state>>

List ==
    /\ \/ Advance("list", "read")
       \/ Advance("relist", "reread")
    /\ cand' = Candidates
    /\ UNCHANGED <<side, draft, same, state>>

\* One pass over the listed files.  A listed file that is gone is a deletion
\* if the commit has it, else the pass fails.
Present == {p \in cand : work[p] # Absent}
Gone == cand \ Present
Vanished == \E p \in Gone : TreeOf[tip][p] = Absent

\* Mutant: a file that is gone is recorded as if it had been read.
BugReadFiles == [p \in cand |-> work[p]]

ReadFiles == [p \in Present |-> work[p]]

Read ==
    /\ Advance("read", "hash")
    /\ ~ Vanished
    /\ draft' = [draft EXCEPT !.files = ReadFiles, !.deleted = Gone]
    /\ UNCHANGED <<side, cand, same, state>>

\* git reads the files once more for their object ids.
Hash ==
    /\ Advance("hash", "manifest")
    /\ \A p \in DOMAIN draft.files : work[p] # Absent
    /\ draft' = [draft EXCEPT !.oid = [p \in DOMAIN draft.files |-> Oid(work[p])]]
    /\ UNCHANGED <<side, cand, same, state>>

\* byte_manifest, or Unsealed when its deadline passes.
Manifest ==
    /\ Advance("manifest", "relist")
    /\ \E late \in BOOLEAN :
          draft' = [draft EXCEPT !.bytes = IF late THEN Unsealed ELSE work]
    /\ UNCHANGED <<side, cand, same, state>>

ReadAgain ==
    /\ Advance("reread", "third")
    /\ ~ Vanished
    /\ same' = (same /\ ReadFiles = draft.files /\ Gone = draft.deleted)
    /\ UNCHANGED <<side, cand, draft, state>>

ReadThird ==
    /\ Advance("third", "seal")
    /\ same' = (same /\ \A p \in DOMAIN draft.files : work[p] = draft.files[p])
    /\ UNCHANGED <<side, cand, draft, state>>

After == IF side = "start" THEN "turn" ELSE "done"
Forget == cand' = {} /\ draft' = NoDraft /\ same' = TRUE

\* Mutant: files with mixed line endings are not kept.
BugKeptBytes == <<>>

\* Clean files whose bytes no checkout writes.
KeptBytes == LET mixed == {p \in Path \ DOMAIN draft.files :
                         draft.bytes[p] # Absent /\ draft.bytes[p].eol = "mixed"}
        IN  [p \in mixed |-> draft.bytes[p]]

Seal ==
    /\ Advance("seal", After)
    /\ same /\ tip = draft.head
    /\ draft.bytes # Unsealed =>
          \A p \in DOMAIN draft.files : draft.bytes[p] = draft.files[p]
    /\ state' = [state EXCEPT ![side] =
          [head |-> draft.head, conv |-> conv, files |-> draft.files, oid |-> draft.oid,
           deleted |-> draft.deleted, bytes |-> draft.bytes,
           raw |-> IF draft.bytes = Unsealed THEN <<>> ELSE KeptBytes]]
    /\ Forget /\ UNCHANGED side

\* concurrent_change, a time-out, or any other error: the side stays without
\* a state, and an end is not tried again.
Fail ==
    /\ Sealing
    /\ hookStep' = After /\ World /\ Forget
    /\ UNCHANGED <<side, state>>

\* Stop: the end hook runs on the checkout the turn left.
Stop ==
    /\ hookStep = "turn"
    /\ side' = "end" /\ hookStep' = "head"
    /\ UNCHANGED <<checkout, cand, draft, same, state, written, writes, verdict, calm, stateMoves>>

-----------------------------------------------------------------------------
\* The agent works between the two hooks.
AgentWrites(p, c) ==
    /\ hookStep = "turn" /\ writes < MaxWrites
    /\ work' = [work EXCEPT ![p] = c]
    /\ written' = written \cup {p} /\ writes' = writes + 1
    /\ UNCHANGED <<tip, conv, hookVars, verdict, calm, stateMoves>>

\* Others change the checkout at any time, and HEAD moves, by a commit of the
\* agent's in the turn or by anyone.
Disturb ==
    /\ hookStep # "done" /\ stateMoves < MaxDisturbs
    /\ stateMoves' = stateMoves + 1
    /\ calm' = IF Sealing THEN [calm EXCEPT ![side] = FALSE] ELSE calm
    /\ UNCHANGED <<conv, hookVars, written, writes, verdict>>

ChangeFile(p, c) ==
    /\ Disturb
    /\ work' = [work EXCEPT ![p] = c]
    /\ UNCHANGED tip

MoveHead(c) ==
    /\ Disturb
    /\ tip' = c
    /\ UNCHANGED work

-----------------------------------------------------------------------------
\* materialize_overlay: check out the head of the state, apply the overlay and
\* the kept bytes; then give a path the unconverted blob, or that blob with
\* CRLF, if only that matches the manifest.
Materialized(s) ==
    LET h == TreeOf[s.head]
        laid(p) == IF p \in DOMAIN s.raw THEN s.raw[p]
                   ELSE IF p \in DOMAIN s.files THEN s.files[p]
                   ELSE IF p \in s.deleted THEN Absent
                   ELSE Checkout(s.conv, h[p])
        stale(p) == /\ p \notin DOMAIN s.files /\ laid(p) # Absent /\ h[p] # Absent
                    /\ s.bytes[p] # Absent
                    /\ s.bytes[p] # laid(p) /\ s.bytes[p] \in {h[p], Crlf(h[p])}
    IN  [p \in Path |-> IF stale(p) THEN s.bytes[p] ELSE laid(p)]

\* Its last check: git sees just the overlay as changed.
SeesOverlay(s, w) ==
    {p \in Path : ~ Unchanged(TreeOf[s.head][p], w[p])} = DOMAIN s.files \cup s.deleted

\* verify_fidelity finds no problem.
Faithful(s) ==
    /\ s.bytes # Unsealed
    /\ SeesOverlay(s, Materialized(s))
    /\ Materialized(s) = s.bytes

\* Mutant: a move of HEAD is not looked at.
BugCompared(s, e) ==
    DOMAIN s.files \cup s.deleted \cup DOMAIN e.files \cup e.deleted

\* effective_oids: the paths compared, and the object id of a path on a side.
Compared(s, e) ==
    DOMAIN s.files \cup s.deleted \cup DOMAIN e.files \cup e.deleted
    \cup {p \in Path : TreeOf[s.head][p] # TreeOf[e.head][p]}

EffectiveOid(s, p) ==
    IF p \in DOMAIN s.files THEN s.oid[p]
    ELSE IF p \in s.deleted THEN Absent
    ELSE TreeOf[s.head][p]

Unattributed(s, e) ==
    {p \in Compared(s, e) : EffectiveOid(s, p) # EffectiveOid(e, p)} \ written

\* causal-freeze and causal-admit, with every other condition met.
CausalAdmit ==
    /\ hookStep = "done" /\ verdict = Unsealed
    /\ LET s == state["start"]
           e == state["end"]
       IN  verdict' = IF /\ s # Unsealed /\ e # Unsealed
                         /\ <<s.head, e.head>> \in Before
                         /\ Faithful(s) /\ Faithful(e)
                         /\ Unattributed(s, e) = {}
                      THEN "admitted" ELSE "refused"
    /\ UNCHANGED <<checkout, hookVars, written, writes, calm, stateMoves>>

CausalNext ==
    \/ ReadHead \/ List \/ Read \/ Hash \/ Manifest
    \/ ReadAgain \/ ReadThird \/ Seal \/ Fail \/ Stop \/ CausalAdmit
    \/ \E p \in Path, c \in Content : AgentWrites(p, c) \/ ChangeFile(p, c)
    \/ \E c \in Commits : MoveHead(c)

CausalSpec == CausalInit /\ [][CausalNext]_causalVars

-----------------------------------------------------------------------------
\* Each variable stays in its range.
CausalTypeOK ==
    /\ tip \in Commits /\ work \in [Path -> Content] /\ conv \in Conversion
    /\ side \in Side
    /\ hookStep \in {"head", "list", "read", "hash", "manifest", "relist",
                 "reread", "third", "seal", "turn", "done"}
    /\ cand \subseteq Path /\ same \in BOOLEAN
    /\ written \subseteq Path /\ verdict \in {Unsealed, "admitted", "refused"}
    /\ \A s \in Side : state[s] # Unsealed =>
          /\ DOMAIN state[s].files \cup state[s].deleted \subseteq Path
          /\ DOMAIN state[s].files \cap state[s].deleted = {}

\* A state sealed with its manifest while nothing changed can be rebuilt byte
\* for byte, whatever line endings the clean files were left with
\* (materialize_overlay, causal.py:491-571).
Restorable ==
    \A s \in Side :
        state[s] # Unsealed /\ calm[s] => state[s].bytes = Unsealed \/ Faithful(state[s])

\* The object ids of a sealed state are those of its bytes (causal.py:278:
\* "Every entry also carries its git blob id").
OidsOfBytes ==
    \A s \in Side : state[s] # Unsealed =>
        LET t == state[s]
        IN  \A p \in DOMAIN t.files : t.oid[p] = IF t.conv = "false" THEN t.files[p] ELSE Lf(t.files[p])

\* The manifest has none of the deleted paths: like the ids, the later passes
\* do not compare this.
DeletedGone ==
    \A s \in Side : state[s] # Unsealed =>
        \A p \in state[s].deleted : state[s].bytes # Unsealed => state[s].bytes[p] = Absent

Differ(a, b) == IF conv = "false" THEN a # b ELSE Lf(a) # Lf(b)

\* In an admitted episode the agent wrote every path that differs between the
\* two states a replay is compared with, whatever HEAD did and whoever changed
\* the checkout while they were sealed (causal.py:24: "every start->end change
\* must be one the agent wrote").
AdmittedAttributed ==
    verdict = "admitted" /\ OidsOfBytes /\ DeletedGone =>
        \A p \in Path :
            Differ(state["start"].bytes[p], state["end"].bytes[p]) => p \in written
=============================================================================
