-------------------------------- MODULE Trust --------------------------------
(* Whether an episode's boundary is trusted: the client it ran under has to  *)
(* be the executable that was tested, by hash, version and invocation mode.  *)
(* The start hook sees only the executable's path, size and time; the hash   *)
(* is taken later, by another process, and cached; the version comes from    *)
(* the session's transcript, which other clients may have continued; the     *)
(* client replaces its own executable; records are tested, accepted and      *)
(* tested again at any time.  One path and one session; a malformed mode, a  *)
(* missing process id and an unreadable record are the problem of any        *)
(* unidentified client.                                                      *)
EXTENDS Naturals, Sequences

CONSTANTS
    Builds, VersionOf, Modes, None,  \* VersionOf: build -> the version it reports
    MaxInstalls, MaxEpisodes         \* bounds

ConstAssumption ==
    /\ MaxInstalls \in Nat \ {0} /\ MaxEpisodes \in Nat
    /\ None \notin Builds \cup Nat /\ DOMAIN VersionOf = Builds

VARIABLES
    installed,   \* the executables that were at the path; the last is there now
    proc,        \* the running client, or None
    versions,    \* of the transcript, in the order they first appear in it
    eps,         \* the episodes' manifests
    cache,       \* identity-cache.json: which executables have been hashed
    record,      \* version, mode -> its boundary record, or None
    approved     \* what an owner ever accepted after a passed test

vars == <<installed, proc, versions, eps, cache, record, approved>>

There == Len(installed)
Names == {VersionOf[b] : b \in Builds} \X Modes

Init ==
    /\ \E b \in Builds : installed = <<b>>
    /\ proc = None /\ versions = <<>> /\ eps = <<>> /\ cache = {}
    /\ record = [n \in Names |-> None] /\ approved = {}

-----------------------------------------------------------------------------
\* The client: an update replaces the file under a running process.
Install(b) ==
    /\ There < MaxInstalls /\ installed' = Append(installed, b)
    /\ UNCHANGED <<proc, versions, eps, cache, record, approved>>

Launch(mode) ==
    /\ proc = None /\ proc' = [of |-> There, mode |-> mode]
    /\ UNCHANGED <<installed, versions, eps, cache, record, approved>>

Exit ==
    /\ proc # None /\ proc' = None
    /\ UNCHANGED <<installed, versions, eps, cache, record, approved>>

\* observe: the image of a process whose file was replaced cannot be read.
Observed(p) == IF p.of = There THEN p.of ELSE None

\* The start hook, whose snapshot the boundary held for or not; "ran" and
\* "delivered" are not in the manifest.
Start ==
    /\ proc # None /\ Len(eps) < MaxEpisodes
    /\ \E held \in BOOLEAN :
          eps' = Append(eps, [ran |-> proc.of, delivered |-> FALSE, held |-> held,
                              client |-> Observed(proc), mode |-> proc.mode,
                              sha |-> None, version |-> None, join |-> "open", trusted |-> FALSE])
    /\ UNCHANGED <<installed, proc, versions, cache, record, approved>>

\* The client writes the last prompt, and its version, to the transcript.
Deliver ==
    /\ proc # None /\ eps # <<>> /\ eps[Len(eps)].ran = proc.of
    /\ eps' = [eps EXCEPT ![Len(eps)].delivered = TRUE]
    /\ LET v == VersionOf[installed[proc.of]]
       IN  versions' = IF \E i \in DOMAIN versions : versions[i] = v THEN versions ELSE Append(versions, v)
    /\ UNCHANGED <<installed, proc, cache, record, approved>>

-----------------------------------------------------------------------------
\* Mutant: whatever executable is at the path by now.
BugSame(e, env) == env # None /\ Observed(env) # None

\* resolve: the running client's executable has the path, size and time that
\* the start hook saw, before and after it is hashed.
Same(e, env) == env # None /\ Observed(env) # None /\ Observed(env) = eps[e].client

\* client_for: the hash kept in the manifest, the cached one, or a new one.
Sha(e, env) ==
    IF eps[e].sha # None \/ eps[e].client = None THEN eps[e].sha
    ELSE IF eps[e].client \in cache THEN installed[eps[e].client]
    ELSE IF Same(e, env) THEN installed[There] ELSE None

Hashed(e, env) ==
    IF eps[e].sha = None /\ eps[e].client # None /\ Same(e, env) THEN cache \cup {eps[e].client} ELSE cache

\* load_boundary
Trusted(version, mode, sha) ==
    LET r == record[<<version, mode>>]
    IN  sha # None /\ r # None /\ r.sha = sha /\ r.accepted /\ r.passed

\* boundary_for: a failed capture or a dirty start overrides any record.
Bounded(e, version, env) ==
    LET sha == Sha(e, env)
    IN  [eps[e] EXCEPT !.version = version, !.sha = sha,
                       !.trusted = eps[e].held /\ Trusted(version, eps[e].mode, sha)]

\* finalize, by the Stop hook (also over a maintenance pass) or by a pass.
Finalize(e, by, env) ==
    /\ eps[e].delivered
    /\ eps[e].join = "open" \/ (by = "end" /\ eps[e].join = "maintain")
    /\ by = "end" => env # None
    /\ eps' = [eps EXCEPT ![e] = [Bounded(e, versions[Len(versions)], env) EXCEPT !.join = by]]
    /\ cache' = Hashed(e, env)
    /\ UNCHANGED <<installed, proc, versions, record, approved>>

\* A later pass evaluates an untrusted boundary again.
Rebound(e, env) ==
    /\ eps[e].join # "open" /\ ~ eps[e].trusted
    /\ eps' = [eps EXCEPT ![e] = Bounded(e, eps[e].version, env)]
    /\ cache' = Hashed(e, env)
    /\ UNCHANGED <<installed, proc, versions, record, approved>>

-----------------------------------------------------------------------------
\* The harness tests the executable at the path in one mode; its record takes
\* the place of the one of that version and mode.  An owner may accept it.
Test(mode, passed) ==
    /\ record' = [record EXCEPT ![<<VersionOf[installed[There]], mode>>] =
                     [sha |-> installed[There], accepted |-> FALSE, passed |-> passed]]
    /\ UNCHANGED <<installed, proc, versions, eps, cache, approved>>

Accept(n) ==
    /\ record[n] # None
    /\ record' = [record EXCEPT ![n].accepted = TRUE]
    /\ approved' = IF record[n].passed THEN approved \cup {<<record[n].sha, n[2]>>} ELSE approved
    /\ UNCHANGED <<installed, proc, versions, eps, cache>>

Next ==
    \/ \E b \in Builds : Install(b)
    \/ \E mode \in Modes : Launch(mode) \/ \E passed \in BOOLEAN : Test(mode, passed)
    \/ Exit \/ Start \/ Deliver
    \/ \E e \in DOMAIN eps, env \in {None, proc} :
          (\E by \in {"end", "maintain"} : Finalize(e, by, env)) \/ Rebound(e, env)
    \/ \E n \in Names : Accept(n)

Spec == Init /\ [][Next]_vars

-----------------------------------------------------------------------------
\* Each variable stays in its range.
TypeOK ==
    /\ There \in 1 .. MaxInstalls /\ cache \subseteq 1 .. There
    /\ \A e \in DOMAIN eps : eps[e].sha \in Builds \cup {None} /\ eps[e].mode \in Modes
    /\ approved \subseteq Builds \X Modes

\* A trusted episode ran under an executable, and in a mode, that was tested
\* and accepted, although whoever hashed it was another process, the file was
\* replaced meanwhile and the transcript names other clients' versions too.
TrustedIsTested ==
    \A e \in DOMAIN eps : eps[e].trusted => <<installed[eps[e].ran], eps[e].mode>> \in approved
=============================================================================
