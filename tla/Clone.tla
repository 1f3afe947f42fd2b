--------------------------------- MODULE Clone ---------------------------------
(* The start-only clone of a repository that others go on working in.  It is  *)
(* fetched into an intermediate store, cloned, stripped, proved P1 to P10     *)
(* against the source as it is by then, and rebuilt from the snapshot; any of *)
(* the steps may be wrong in the way a SABOTAGE is, fail, or be the last.     *)
(* Trees, times, the machine's configuration and what reconstruct writes      *)
(* (module Snapshot) are left out.                                            *)
EXTENDS Integers

CONSTANTS
    Nil,
    MaxMoves    \* bound on the moves of the source

CloneAssumption == MaxMoves \in Nat

\* What names objects in the source, and the objects it adds to the start's.
Names == {"branch", "tag", "stash", "reflog"}
Of(n) == {<<n, "commit">>, <<n, "blob">>}
Start == Of("start")
Reached(names) == UNION {Of(n) : n \in names}
Objects == Start \cup Reached(Names)
Blobs == {o \in Objects : o[2] = "blob"}

Sabotages == {"keep_tag", "keep_reflog", "add_alternates", "leave_remote", "add_hook", "hardlink_pack",
              "copy_post_start_blob", "full_fetch", "fetch_stash", "fetch_orphan"}

VARIABLES
    source,     \* its names
    packed,     \* those whose objects are in its packs; all its objects stay
    wrong,      \* at most one sabotage
    given,      \* a snapshot: Nil, whole, or one that reconstruct refuses
    secrets,    \* the names whose sentinels are known
    step,
    store,      \* the names in the intermediate store
    clone,      \* Nil or what it is
    proofs,     \* the proofs that passed
    record,     \* Nil or the record
    moves

cloneVars == <<source, packed, wrong, given, secrets, step, store, clone, proofs, record, moves>>

CloneInit ==
    /\ source \in SUBSET Names /\ packed \in {{}, source}
    /\ wrong \in {{}} \cup {{s} : s \in Sabotages}
    /\ given \in {Nil, "whole", "refused"}
    /\ secrets \in SUBSET {"branch"}
    /\ step = "fetch" /\ store = {} /\ clone = Nil /\ proofs = {} /\ record = Nil /\ moves = 0

-----------------------------------------------------------------------------
(* The source (external).                                                  *)

\* Work goes on, or a branch is deleted and its reflog expires; the objects
\* that lost their name stay until they are pruned.
Move ==
    /\ moves < MaxMoves /\ moves' = moves + 1 /\ record = Nil
    /\ \E n \in Names : source' = IF n \in source THEN source \ {n} ELSE source \cup {n}
    /\ UNCHANGED <<packed, wrong, given, secrets, step, store, clone, proofs, record>>

-----------------------------------------------------------------------------
(* build_clone.                                                            *)

At(s) == step = s /\ record = Nil
Rest == UNCHANGED <<source, packed, wrong, given, secrets, moves>>

\* Which names the fetch asks for beside the start.
Asked ==
    source \cap ( (IF "full_fetch" \in wrong THEN {"branch", "tag"} ELSE {})
                  \cup (IF "fetch_stash" \in wrong THEN {"stash"} ELSE {})
                  \cup (IF "fetch_orphan" \in wrong THEN {"reflog"} ELSE {}) )

Fetch ==
    /\ At("fetch") /\ step' = "clone" /\ store' = Asked
    /\ Rest /\ UNCHANGED <<clone, proofs, record>>

\* clone: its own reflog, origin, and the heads and tags of the store.
CloneStore ==
    /\ At("clone") /\ step' = "strip"
    /\ clone' = [pack |-> Start \cup Reached(store), loose |-> {}, borrowed |-> {},
                 refs |-> {"start"} \cup (store \cap {"tag"}), remote |-> store \cup {"start"},
                 origin |-> TRUE, log |-> TRUE, detached |-> FALSE, linked |-> FALSE, hook |-> FALSE]
    /\ Rest /\ UNCHANGED <<store, proofs, record>>

\* remote remove, which takes its refs along, detach, update-ref -d, reflog
\* expire; the intermediate store goes.
Strip ==
    /\ At("strip") /\ step' = "break" /\ store' = {}
    /\ clone' = [clone EXCEPT !.origin = "leave_remote" \in wrong,
                              !.remote = IF "leave_remote" \in wrong THEN @ ELSE {},
                              !.detached = TRUE, !.refs = @ \ {"start"}, !.log = "keep_reflog" \in wrong]
    /\ Rest /\ UNCHANGED <<proofs, record>>

\* post_start_objects: what the source reaches now beyond the start.
Post == Reached(source)

\* _apply_post_sabotage.
Break ==
    /\ At("break") /\ step' = "prove"
    /\ clone' = [clone EXCEPT
           !.refs = IF "keep_tag" \in wrong THEN @ \cup {"leftover"} ELSE @,
           !.borrowed = IF "add_alternates" \in wrong THEN Objects ELSE {},
           !.hook = "add_hook" \in wrong,
           !.linked = "hardlink_pack" \in wrong /\ packed # {},
           !.pack = IF "hardlink_pack" \in wrong THEN @ \cup Reached(packed) ELSE @,
           !.loose = IF "copy_post_start_blob" \in wrong THEN Post \cap Blobs ELSE @]
    /\ Rest /\ UNCHANGED <<store, proofs, record>>

-----------------------------------------------------------------------------
(* The proofs.                                                             *)

Holds(c) == c.pack \cup c.loose \cup c.borrowed
Reachable(c) == Start \cup Reached((c.refs \cup c.remote) \cap Names)
Sentinels(names) == {<<n, "blob">> : n \in names}

P1(c) == Reachable(c) = Start
P2(c) == c.refs = {} /\ c.remote = {} /\ c.detached
P3(c) == ~ c.log
P4(c) == c.borrowed = {} /\ ~ c.linked
P5(c) == Post \cap Holds(c) = {}
P6(c) == Sentinels(secrets) \cap Holds(c) = {}
P7(c) == ~ c.origin
P8(c) == ~ c.hook

\* Mutant: it asks only that there is a pack.
BugP10(c) == c.pack # {}

P10(c) == c.pack # {} /\ c.pack \subseteq Start

\* prove_clone; P9 is for the rebuilt clone.
Passed(c) ==
    {p \in (1 .. 10) \ {9} :
        CASE p = 1 -> P1(c) [] p = 2 -> P2(c) [] p = 3 -> P3(c) [] p = 4 -> P4(c) [] p = 5 -> P5(c)
          [] p = 6 -> P6(c) [] p = 7 -> P7(c) [] p = 8 -> P8(c) [] p = 10 -> P10(c)}

Prove ==
    /\ At("prove") /\ step' = "rebuild" /\ proofs' = Passed(clone)
    /\ Rest /\ UNCHANGED <<store, clone, record>>

\* reconstruct and P9: no snapshot, a damaged one or one in the middle of a
\* merge, or a difference; what it writes may hold a sentinel.
Rebuild ==
    /\ At("rebuild") /\ step' = "record"
    /\ \E same, hit \in BOOLEAN :
          /\ (given # "whole" => ~ same /\ ~ hit) /\ (hit => secrets # {})
          /\ proofs' = (IF same THEN proofs \cup {9} ELSE proofs) \ (IF hit THEN {6} ELSE {})
    /\ Rest /\ UNCHANGED <<store, clone, record>>

CloneRecord ==
    /\ At("record") /\ record' = [failed |-> (1 .. 10) \ proofs, error |-> FALSE]
    /\ Rest /\ UNCHANGED <<step, store, clone, proofs>>

\* A git command fails or runs out of time, or the store cannot be removed.
Error ==
    /\ record = Nil /\ step # "record"
    /\ record' = [failed |-> (1 .. 10) \ proofs, error |-> TRUE]
    /\ Rest /\ UNCHANGED <<step, store, clone, proofs>>

CloneNext == Move \/ Fetch \/ CloneStore \/ Strip \/ Break \/ Prove \/ Rebuild \/ CloneRecord \/ Error

CloneSpec == CloneInit /\ [][CloneNext]_cloneVars

-----------------------------------------------------------------------------
Reconstructed == record # Nil /\ ~ record.error /\ record.failed = {}

\* Each variable stays in its range.
CloneTypeOK ==
    /\ source \subseteq Names /\ store \subseteq Names /\ proofs \subseteq 1 .. 10
    /\ clone # Nil => Holds(clone) \subseteq Objects

\* A clone that may be used holds the start's objects alone, whatever was
\* wrong in its making and however the source moved meanwhile; short of a
\* loose copy of what the source had lost by the time of the proofs.
StartOnly ==
    Reconstructed =>
        /\ clone.pack = Start /\ clone.borrowed = {} /\ given = "whole"
        /\ clone.refs = {} /\ clone.remote = {} /\ ~ clone.origin
        /\ ~ clone.log /\ ~ clone.hook /\ ~ clone.linked
        /\ moves = 0 => clone.loose = {}
=============================================================================
