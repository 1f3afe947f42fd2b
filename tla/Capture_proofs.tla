---------------------------- MODULE Capture_proofs ----------------------------
(* What is decided about one captured episode, for any values of the         *)
(* constants: its turn and packet, its client and trusted boundary, its      *)
(* verdict, its row, its snapshot and its causal evidence.                   *)
EXTENDS Turns, Trust, Verdict, Rows, Snapshot, CausalEvidence, FiniteSetTheorems, WellFoundedInduction, TLAPS

-----------------------------------------------------------------------------
(* Trust for any builds, versions, modes and number of updates: types, and   *)
(* trusted episodes ran under what was tested.                               *)

Reported == {VersionOf[b] : b \in Builds}

Episode ==
    [ran : Nat, delivered : BOOLEAN, held : BOOLEAN, client : Nat \cup {None}, mode : Modes,
     sha : Builds \cup {None}, version : Reported \cup {None},
     join : {"open", "end", "maintain"}, trusted : BOOLEAN]

Boundary == [sha : Builds, accepted : BOOLEAN, passed : BOOLEAN]

Typed ==
    /\ installed \in Seq(Builds) /\ There \in 1 .. MaxInstalls
    /\ proc = None \/ proc \in [of : 1 .. There, mode : Modes]
    /\ versions \in Seq(Reported)
    /\ eps \in Seq(Episode) /\ cache \subseteq 1 .. There
    /\ record \in [Names -> Boundary \cup {None}]
    /\ approved \subseteq Builds \X Modes

\* What an episode has of its client is the executable it ran under.
EpisodeOK(x) ==
    /\ x.ran \in 1 .. There /\ x.client \in {None, x.ran}
    /\ x.sha # None => x.sha = installed[x.ran]
    /\ x.trusted => <<installed[x.ran], x.mode>> \in approved
    /\ x.delivered => versions # <<>>
    /\ x.join # "open" => x.version \in Reported

RecordOK ==
    \A n \in Names :
        record[n] # None /\ record[n].accepted /\ record[n].passed => <<record[n].sha, n[2]>> \in approved

TrustInv == Typed /\ RecordOK /\ \A e \in DOMAIN eps : EpisodeOK(eps[e])

-----------------------------------------------------------------------------
LEMMA InitTrustInv == ASSUME ConstAssumption PROVE Init => TrustInv
  <1> SUFFICES ASSUME Init PROVE TrustInv
    OBVIOUS
  <1>1. installed \in Seq(Builds) /\ There = 1
    BY DEF Init, There
  <1>2. Typed
    BY <1>1 DEF Init, Typed, ConstAssumption
  <1>3. QED
    BY <1>2 DEF Init, TrustInv, RecordOK

\* The hash an episode gets, kept, cached or new, is that of what it ran under.
LEMMA ShaRight ==
  ASSUME ConstAssumption, TrustInv, NEW e \in DOMAIN eps, NEW env \in {None, proc}
  PROVE  Sha(e, env) \in Builds \cup {None} /\ (Sha(e, env) # None => Sha(e, env) = installed[eps[e].ran])
  <1>1. EpisodeOK(eps[e]) /\ eps[e] \in Episode /\ Typed
    BY DEF TrustInv, Typed
  <1>2. eps[e].ran \in 1 .. There /\ eps[e].client \in {None, eps[e].ran}
    BY <1>1 DEF EpisodeOK
  <1>3. installed[eps[e].ran] \in Builds
    BY <1>1, <1>2 DEF Typed, There
  <1>4. CASE eps[e].sha # None \/ eps[e].client = None
    BY <1>1, <1>3, <1>4 DEF Sha, EpisodeOK, Episode
  <1>6. CASE eps[e].sha = None /\ eps[e].client # None
    <2>1. Same(e, env) => There = eps[e].ran
      BY <1>2, <1>6 DEF Same, Observed
    <2>2. Sha(e, env) \in {None, installed[eps[e].ran]}
      BY <1>2, <1>6, <2>1 DEF Sha
    <2>3. QED
      BY <1>3, <2>2
  <1>7. QED
    BY <1>4, <1>6

\* What boundary_for makes of an episode.
LEMMA BoundedRight ==
  ASSUME ConstAssumption, TrustInv, NEW e \in DOMAIN eps, NEW env \in {None, proc}, NEW v \in Reported
  PROVE  /\ Bounded(e, v, env) \in Episode /\ EpisodeOK(Bounded(e, v, env))
         /\ Bounded(e, v, env).version = v
  <1> DEFINE sha == Sha(e, env)
             t == eps[e].held /\ Trusted(v, eps[e].mode, sha)
             b == [eps[e] EXCEPT !.version = v, !.sha = sha, !.trusted = t]
  <1>1. EpisodeOK(eps[e]) /\ eps[e] \in Episode /\ Typed /\ RecordOK
    BY DEF TrustInv, Typed
  <1>2. sha \in Builds \cup {None} /\ (sha # None => sha = installed[eps[e].ran])
    BY ShaRight
  <1>3. t \in BOOLEAN
    BY Zenon
  <1>4. t => Trusted(v, eps[e].mode, sha)
    BY Zenon
  <1>5. Trusted(v, eps[e].mode, sha) => <<sha, eps[e].mode>> \in approved /\ sha # None
    <2>1. <<v, eps[e].mode>> \in Names
      BY <1>1 DEF Names, Reported, Episode
    <2>2. QED
      BY <1>1, <2>1 DEF Trusted, RecordOK
  <1>6. Bounded(e, v, env) = b
    BY DEF Bounded
  <1> HIDE DEF sha, t
  <1>7. b \in Episode /\ b.version = v
    BY <1>1, <1>2, <1>3 DEF Episode
  <1>8. /\ b.ran = eps[e].ran /\ b.client = eps[e].client /\ b.mode = eps[e].mode /\ b.sha = sha
        /\ b.trusted = t /\ b.delivered = eps[e].delivered /\ b.join = eps[e].join
    BY <1>1 DEF Episode
  <1>9. EpisodeOK(b)
    BY <1>1, <1>2, <1>3, <1>4, <1>5, <1>7, <1>8 DEF EpisodeOK
  <1>10. QED
    BY <1>6, <1>7, <1>9

\* An episode nothing was written to stays as it should be: executables that
\* were there stay in the list, and names once read too.
LEMMA StillOK ==
  ASSUME NEW e \in DOMAIN eps, EpisodeOK(eps[e]), eps[e]' = eps[e],
         There \in Nat, There' \in Nat, There' >= There, \A i \in 1 .. There : installed'[i] = installed[i],
         versions # <<>> => versions' # <<>>, approved \subseteq approved'
  PROVE  EpisodeOK(eps[e])'
  <1>1. eps[e].ran \in 1 .. There' /\ installed'[eps[e].ran] = installed[eps[e].ran]
    BY DEF EpisodeOK
  <1>2. /\ eps'[e].ran \in 1 .. There' /\ eps'[e].client \in {None, eps'[e].ran}
        /\ eps'[e].sha # None => eps'[e].sha = installed'[eps'[e].ran]
        /\ eps'[e].trusted => <<installed'[eps'[e].ran], eps'[e].mode>> \in approved'
    BY <1>1 DEF EpisodeOK
  <1>3. /\ eps'[e].delivered => versions' # <<>>
        /\ eps'[e].join # "open" => eps'[e].version \in Reported
    BY DEF EpisodeOK
  <1>4. QED
    BY <1>2, <1>3 DEF EpisodeOK, Reported

\* Steps that write to one episode, an executable of which is known already.
LEMMA EpisodeStep ==
  ASSUME ConstAssumption, TrustInv, NEW e \in DOMAIN eps, NEW x \in Episode,
         eps' = [eps EXCEPT ![e] = x], cache' \subseteq 1 .. There,
         UNCHANGED <<installed, proc, record, approved>>,
         versions' \in Seq(Reported), versions # <<>> => versions' # <<>>,
         EpisodeOK(eps[e])'
  PROVE  TrustInv'
  <1>1. Typed /\ RecordOK
    BY DEF TrustInv
  <1>2. eps' \in Seq(Episode) /\ DOMAIN eps' = DOMAIN eps
    BY <1>1 DEF Typed
  <1>3. Typed'
    BY <1>1, <1>2 DEF Typed, There
  <1>4. \A f \in DOMAIN eps : EpisodeOK(eps[f])'
    <2>1. TAKE f \in DOMAIN eps
    <2>2. CASE f = e
      BY <2>2
    <2>3. CASE f # e
      <3>1. EpisodeOK(eps[f]) /\ eps[f]' = eps[f]
        BY <2>3 DEF TrustInv
      <3>2. There \in Nat /\ There' = There /\ \A i \in 1 .. There : installed'[i] = installed[i]
        BY <1>1 DEF Typed, There, ConstAssumption
      <3>3. QED
        BY <1>1, <3>1, <3>2, StillOK
    <2>4. QED
      BY <2>2, <2>3
  <1>5. RecordOK'
    BY <1>1 DEF RecordOK
  <1>6. QED
    BY <1>2, <1>3, <1>4, <1>5 DEF TrustInv

LEMMA StepTrustInv == ASSUME ConstAssumption PROVE TrustInv /\ [Next]_vars => TrustInv'
  <1> SUFFICES ASSUME TrustInv, [Next]_vars PROVE TrustInv'
    OBVIOUS
  <1>T. Typed /\ RecordOK /\ There \in Nat
    BY DEF TrustInv, Typed, ConstAssumption
  <1>1. ASSUME NEW b \in Builds, Install(b) PROVE TrustInv'
    <2>1. /\ installed' \in Seq(Builds) /\ There' = There + 1 /\ There' \in 1 .. MaxInstalls
          /\ \A i \in 1 .. There : installed'[i] = installed[i]
      BY <1>1, <1>T DEF Install, Typed, There, ConstAssumption
    <2>2. UNCHANGED <<proc, versions, eps, cache, record, approved>>
      BY <1>1 DEF Install
    <2>3. Typed'
      BY <1>T, <2>1, <2>2 DEF Typed
    <2>4. \A e \in DOMAIN eps : EpisodeOK(eps[e])'
      <3>1. TAKE e \in DOMAIN eps
      <3>2. EpisodeOK(eps[e])
        BY DEF TrustInv
      <3>3. QED
        BY <1>T, <2>1, <2>2, <3>2, StillOK
    <2>5. QED
      BY <1>T, <2>2, <2>3, <2>4 DEF TrustInv, RecordOK
  <1>2. ASSUME Exit \/ \E mode \in Modes : Launch(mode) PROVE TrustInv'
    <2>1. UNCHANGED <<installed, versions, eps, cache, record, approved>>
      BY <1>2 DEF Exit, Launch
    <2>2. proc' = None \/ proc' \in [of : 1 .. There, mode : Modes]
      BY <1>2, <1>T DEF Exit, Launch, Typed, ConstAssumption
    <2>3. QED
      BY <1>T, <2>1, <2>2 DEF TrustInv, Typed, RecordOK, EpisodeOK, There
  <1>3. ASSUME Start PROVE TrustInv'
    <2>1. PICK held \in BOOLEAN :
             eps' = Append(eps, [ran |-> proc.of, delivered |-> FALSE, held |-> held,
                                 client |-> Observed(proc), mode |-> proc.mode,
                                 sha |-> None, version |-> None, join |-> "open", trusted |-> FALSE])
      BY <1>3 DEF Start
    <2> DEFINE x == [ran |-> proc.of, delivered |-> FALSE, held |-> held,
                     client |-> Observed(proc), mode |-> proc.mode,
                     sha |-> None, version |-> None, join |-> "open", trusted |-> FALSE]
    <2>2. UNCHANGED <<installed, proc, versions, cache, record, approved>>
      BY <1>3 DEF Start
    <2>3. proc \in [of : 1 .. There, mode : Modes]
      BY <1>3, <1>T DEF Start, Typed
    <2>4. proc.of \in 1 .. There /\ Observed(proc) \in {None, proc.of} /\ proc.mode \in Modes
      BY <2>3 DEF Observed
    <2>5. x \in Episode
      BY <1>T, <2>4 DEF Episode
    <2>6. eps' \in Seq(Episode)
      BY <1>T, <2>1, <2>5 DEF Typed
    <2>7. Typed'
      BY <1>T, <2>2, <2>6 DEF Typed, There
    <2>8. \A e \in DOMAIN eps' : (e \in DOMAIN eps /\ eps'[e] = eps[e]) \/ eps'[e] = x
      BY <1>T, <2>1 DEF Typed
    <2>9. EpisodeOK(x)
      BY <2>4 DEF EpisodeOK
    <2>10. \A e \in DOMAIN eps' : EpisodeOK(eps'[e])
      BY <2>8, <2>9 DEF TrustInv
    <2>11. QED
      BY <1>T, <2>2, <2>7, <2>10 DEF TrustInv, RecordOK, EpisodeOK, There
  <1>4. ASSUME Deliver PROVE TrustInv'
    <2>0. PICK e \in DOMAIN eps : e = Len(eps)
      BY <1>4, <1>T DEF Deliver, Typed
    <2> DEFINE x == [eps[e] EXCEPT !.delivered = TRUE]
               v == VersionOf[installed[proc.of]]
    <2>1. e \in DOMAIN eps /\ eps[e] \in Episode /\ proc \in [of : 1 .. There, mode : Modes]
      BY <2>0, <1>4, <1>T DEF Deliver, Typed
    <2>2. v \in Reported
      BY <2>1, <1>T DEF Typed, There, Reported
    <2>3. eps' = [eps EXCEPT ![e] = x] /\ UNCHANGED <<installed, proc, cache, record, approved>>
      BY <2>0, <1>4 DEF Deliver
    <2>4. versions' \in Seq(Reported) /\ versions' # <<>>
      <3>1. (versions' = versions /\ versions # <<>>) \/ versions' = Append(versions, v)
        BY <1>4 DEF Deliver
      <3>2. CASE versions' = Append(versions, v)
        <4>1. versions' \in Seq(Reported) /\ Len(versions') = Len(versions) + 1
          BY <2>2, <3>2, <1>T DEF Typed
        <4>2. Len(versions) \in Nat /\ Len(<<>>) = 0
          BY <1>T DEF Typed
        <4>3. QED
          BY <4>1, <4>2
      <3>3. QED
        BY <3>1, <3>2, <1>T DEF Typed
    <2>5. /\ x \in Episode /\ x.ran = eps[e].ran /\ x.client = eps[e].client /\ x.mode = eps[e].mode
          /\ x.sha = eps[e].sha /\ x.trusted = eps[e].trusted /\ x.join = eps[e].join /\ x.version = eps[e].version
      BY <2>1 DEF Episode
    <2> HIDE DEF x
    <2>6. EpisodeOK(eps[e])'
      <3>1. eps'[e] = x
        BY <2>1, <2>3, <1>T DEF Typed
      <3>2. EpisodeOK(eps[e])
        BY <2>1 DEF TrustInv
      <3>3. QED
        BY <2>3, <2>4, <2>5, <3>1, <3>2 DEF EpisodeOK, There, Reported
    <2>7. cache' \subseteq 1 .. There
      BY <1>T, <2>3 DEF Typed
    <2>8. QED
      BY <2>1, <2>3, <2>4, <2>5, <2>6, <2>7, EpisodeStep
  <1>5. ASSUME NEW e \in DOMAIN eps, NEW env \in {None, proc}, NEW by \in {"end", "maintain"},
               Finalize(e, by, env)
        PROVE  TrustInv'
    <2> DEFINE v == versions[Len(versions)]
               b == Bounded(e, v, env)
               x == [b EXCEPT !.join = by]
    <2>1. EpisodeOK(eps[e]) /\ eps[e].delivered
      BY <1>5 DEF TrustInv, Finalize
    <2>2. v \in Reported
      BY <2>1, <1>T DEF EpisodeOK, Typed
    <2>3. b \in Episode /\ EpisodeOK(b) /\ b.version = v
      BY <2>2, BoundedRight
    <2>4. eps' = [eps EXCEPT ![e] = x] /\ cache' = Hashed(e, env)
          /\ UNCHANGED <<installed, proc, versions, record, approved>>
      BY <1>5 DEF Finalize
    <2> HIDE DEF v, b
    <2>5. x \in Episode
      BY <2>3 DEF Episode
    <2>6. eps'[e] = x
      BY <2>4, <1>T DEF Typed
    <2>7. EpisodeOK(eps[e])'
      BY <2>2, <2>3, <2>4, <2>6 DEF EpisodeOK, There, Episode
    <2>8. cache' \subseteq 1 .. There
      BY <2>1, <2>4, <1>T DEF Hashed, Typed, EpisodeOK
    <2>9. QED
      BY <1>T, <2>4, <2>5, <2>7, <2>8, EpisodeStep DEF Typed
  <1>6. ASSUME NEW e \in DOMAIN eps, NEW env \in {None, proc}, Rebound(e, env) PROVE TrustInv'
    <2> DEFINE x == Bounded(e, eps[e].version, env)
    <2>1. EpisodeOK(eps[e]) /\ eps[e].version \in Reported
      BY <1>6 DEF TrustInv, Rebound, EpisodeOK
    <2>2. x \in Episode /\ EpisodeOK(x)
      BY <2>1, BoundedRight
    <2>3. eps' = [eps EXCEPT ![e] = x] /\ cache' = Hashed(e, env)
          /\ UNCHANGED <<installed, proc, versions, record, approved>>
      BY <1>6 DEF Rebound
    <2> HIDE DEF x
    <2>4. eps'[e] = x
      BY <2>3, <1>T DEF Typed
    <2>5. EpisodeOK(eps[e])'
      BY <2>2, <2>3, <2>4 DEF EpisodeOK, There
    <2>6. cache' \subseteq 1 .. There
      BY <2>1, <2>3, <1>T DEF Hashed, Typed, EpisodeOK
    <2>7. QED
      BY <1>T, <2>2, <2>3, <2>5, <2>6, EpisodeStep DEF Typed
  <1>7. ASSUME NEW mode \in Modes, NEW passed \in BOOLEAN, Test(mode, passed) PROVE TrustInv'
    <2> DEFINE n == <<VersionOf[installed[There]], mode>>
               r == [sha |-> installed[There], accepted |-> FALSE, passed |-> passed]
    <2>1. UNCHANGED <<installed, proc, versions, eps, cache, approved>> /\ record' = [record EXCEPT ![n] = r]
      BY <1>7 DEF Test
    <2>2. installed[There] \in Builds
      BY <1>T DEF Typed, There, ConstAssumption
    <2>3. n \in Names /\ r \in Boundary
      BY <2>2 DEF Names, Boundary
    <2>4. record' \in [Names -> Boundary \cup {None}]
      BY <1>T, <2>1, <2>3 DEF Typed
    <2>5. Typed'
      BY <1>T, <2>1, <2>4 DEF Typed, There
    <2>6. \A m \in Names : record'[m] = record[m] \/ record'[m] = r
      BY <1>T, <2>1 DEF Typed
    <2>7. RecordOK'
      BY <1>T, <2>1, <2>6 DEF RecordOK
    <2>8. QED
      BY <2>1, <2>5, <2>7 DEF TrustInv, EpisodeOK, There
  <1>8. ASSUME NEW n \in Names, Accept(n) PROVE TrustInv'
    <2>1. /\ record[n] \in Boundary /\ record' = [record EXCEPT ![n].accepted = TRUE]
          /\ UNCHANGED <<installed, proc, versions, eps, cache>>
      BY <1>8, <1>T DEF Accept, Typed
    <2> DEFINE r == [record[n] EXCEPT !.accepted = TRUE]
    <2>2. r \in Boundary /\ r.sha = record[n].sha /\ r.passed = record[n].passed /\ record' = [record EXCEPT ![n] = r]
      BY <2>1 DEF Boundary
    <2>3. n[2] \in Modes /\ record[n].sha \in Builds
      BY <2>1 DEF Names, Boundary
    <2>4. \/ approved' = approved /\ ~ record[n].passed
          \/ approved' = approved \cup {<<record[n].sha, n[2]>>}
      BY <1>8, Zenon DEF Accept
    <2>5. approved' \subseteq Builds \X Modes /\ approved \subseteq approved'
      BY <1>T, <2>3, <2>4 DEF Typed
    <2> HIDE DEF r
    <2>6. record' \in [Names -> Boundary \cup {None}]
      BY <1>T, <2>2 DEF Typed
    <2>7. Typed'
      BY <1>T, <2>1, <2>5, <2>6 DEF Typed, There
    <2>8. RecordOK'
      <3>1. \A m \in Names \ {n} : record'[m] = record[m]
        BY <1>T, <2>2 DEF Typed
      <3>2. record'[n] = r
        BY <1>T, <2>2 DEF Typed
      <3>3. record'[n].passed => <<record'[n].sha, n[2]>> \in approved'
        BY <2>2, <2>4, <3>2
      <3>4. QED
        BY <1>T, <2>5, <3>1, <3>3 DEF RecordOK
    <2>9. \A e \in DOMAIN eps : EpisodeOK(eps[e])'
      <3>1. TAKE e \in DOMAIN eps
      <3>2. EpisodeOK(eps[e])
        BY DEF TrustInv
      <3>3. There' = There
        BY <2>1 DEF There
      <3>4. QED
        BY <1>T, <2>1, <2>5, <3>2, <3>3, StillOK
    <2>10. QED
      BY <2>1, <2>7, <2>8, <2>9 DEF TrustInv
  <1>9. CASE UNCHANGED vars
    BY <1>9, <1>T DEF vars, TrustInv, Typed, RecordOK, EpisodeOK, There
  <1>10. QED
    BY <1>1, <1>2, <1>3, <1>4, <1>5, <1>6, <1>7, <1>8, <1>9 DEF Next

-----------------------------------------------------------------------------
\* Each variable stays in its range.
THEOREM TypeCorrect == ASSUME ConstAssumption PROVE Spec => []TypeOK
  <1>1. TrustInv => TypeOK
    <2>1. ASSUME Typed PROVE \A e \in DOMAIN eps : eps[e] \in Episode
      BY <2>1 DEF Typed
    <2>2. QED
      BY <2>1 DEF TrustInv, Typed, TypeOK, Episode
  <1>2. Init => TrustInv
    BY InitTrustInv
  <1>3. TrustInv /\ [Next]_vars => TrustInv'
    BY StepTrustInv
  <1>4. QED
    BY <1>1, <1>2, <1>3, PTL DEF Spec

\* load_boundary, client_for: a trusted episode ran under an executable, and in
\* a mode, that was tested and accepted, whatever was installed since.
THEOREM TrustEarned == ASSUME ConstAssumption PROVE Spec => []TrustedIsTested
  <1>1. TrustInv => TrustedIsTested
    BY DEF TrustInv, EpisodeOK, TrustedIsTested
  <1>2. Init => TrustInv
    BY InitTrustInv
  <1>3. TrustInv /\ [Next]_vars => TrustInv'
    BY StepTrustInv
  <1>4. QED
    BY <1>1, <1>2, <1>3, PTL DEF Spec

-----------------------------------------------------------------------------
(* Verdict for any screenings and any files of the owner: types, what a      *)
(* staged payload was, and what the report's classes say.                    *)

\* What is complete has ended.
CompleteEnded == phase = "ended" /\ capture = "complete" => ended

VerdictInv == VerdictTypeOK /\ CompleteEnded /\ PayloadWasCleared

-----------------------------------------------------------------------------
\* What the screen makes of a turn is what a manifest holds.
LEMMA ScreenedType == ASSUME NEW t \in Turn PROVE Screened(t) \in Facts
  <1>1. Sufficient(t) \in BOOLEAN
    BY Zenon DEF Sufficient
  <1>2. [c \in Categories |-> Required(t, c)] \in [Categories -> Tri]
    BY DEF Required, Tri
  <1>3. PriorRequired(t) \in Tri /\ Effect(t) \in {"files", "shell", "none"}
    BY DEF PriorRequired, Effect, Tri
  <1>4. t.origin \in {"human", "other"} /\ t.first \in BOOLEAN
    BY DEF Turn
  <1>5. QED
    BY <1>1, <1>2, <1>3, <1>4 DEF Screened, Facts

LEMMA ScreeningsType == ASSUME VerdictAssumption PROVE Screenings \subseteq Facts
  BY ScreenedType DEF Screenings, VerdictAssumption

LEMMA EvidenceType ==
  ASSUME NEW r \in Rules, NEW f \in Facts, NEW cap, NEW snap
  PROVE  Evidence(r, f, cap, snap) \in Tri
  BY DEF Evidence, Rules, Facts, Tri, AnyYesAllNo

LEMMA EvaluateType ==
  ASSUME VerdictAssumption, NEW f \in Facts, NEW cap, NEW snap, NEW own \in OwnerFiles \cup {Unset}
  PROVE  Evaluate(f, cap, snap, own) \in [Rules -> Tri]
  <1> SUFFICES ASSUME NEW r \in Rules
               PROVE  IF Evidence(r, f, cap, snap) = "unknown" /\ r \in OwnerResolvable /\ own # Unset /\ own[r] # Unset
                      THEN own[r] \in Tri ELSE Evidence(r, f, cap, snap) \in Tri
    BY DEF Evaluate
  <1>1. Evidence(r, f, cap, snap) \in Tri
    BY EvidenceType
  <1>2. r \in OwnerResolvable /\ own # Unset /\ own[r] # Unset => own[r] \in Tri
    BY DEF VerdictAssumption, Tri
  <1>3. QED
    BY <1>1, <1>2

LEMMA ComputeType ==
  ASSUME NEW ex, NEW f, NEW ln, NEW snap, NEW trusts, NEW recorded
  PROVE  Compute(ex, f, ln, snap, trusts, recorded) \subseteq Gates \cup {Gated[i] : i \in DOMAIN Gated}
  BY DEF Compute

\* What the rules that a review evaluates rest on.
LEMMA FreshType ==
  ASSUME VerdictAssumption, VerdictTypeOK, NEW own \in OwnerFiles \cup {Unset} PROVE Fresh(own) \in [Rules -> Tri]
  BY EvaluateType DEF Fresh, VerdictTypeOK

\* The rule and the evidence that let it be "no".
LEMMA FreshNo ==
  ASSUME VerdictTypeOK, NEW own, NEW r \in Rules, Fresh(own)[r] = "no"
  PROVE  \/ Evidence(r, facts, capture, complete) = "no"
         \/ /\ Evidence(r, facts, capture, complete) = "unknown"
            /\ r \in OwnerResolvable /\ Settled(own, r)
  BY DEF Fresh, Evaluate, Settled

\* When no rule is left open, what the documents ask of a payload is there.
LEMMA NoRuleOpen ==
  ASSUME VerdictAssumption, VerdictTypeOK, NEW own, \A r \in Rules : Fresh(own)[r] = "no", link = "linked",
         trusted, ended
  PROVE  Admissible(own)
  <1>F. facts \in Facts
    BY DEF VerdictTypeOK
  <1>1. facts.origin = "human" \/ (facts.origin = Unset /\ Settled(own, "X1"))
    BY FreshNo DEF Rules, Evidence
  <1>2. \/ facts.edits = "files"
        \/ (facts.edits = "shell" \/ ~ facts.sufficient) /\ Settled(own, "X2")
    <2>1. "X2" \in Rules /\ facts.edits \in {"files", "shell", "none"}
      BY <1>F DEF Rules, Facts
    <2>2. \/ Evidence("X2", facts, capture, complete) = "no"
          \/ Evidence("X2", facts, capture, complete) = "unknown" /\ Settled(own, "X2")
      BY <2>1, FreshNo
    <2>3. QED
      BY <2>1, <2>2 DEF Evidence
  <1>3. ASSUME NEW r \in {"X3", "X4"}, NEW c \in CategoriesOf[r]
        PROVE  facts.deps[c] = "no" \/ (facts.deps[c] = "unknown" /\ Settled(own, r))
    <2>1. Evidence(r, facts, capture, complete) = AnyYesAllNo({facts.deps[d] : d \in CategoriesOf[r]})
      BY <1>3 DEF Evidence
    <2>2. facts.deps[c] \in Tri
      BY <1>3, <1>F DEF Facts, CategoriesOf, Categories
    <2>3. r \in Rules
      BY <1>3 DEF Rules
    <2>4. QED
      BY <2>1, <2>2, <2>3, FreshNo DEF AnyYesAllNo, Tri
  <1>4. facts.prior = "no" \/ (facts.prior = "unknown" /\ Settled(own, "X5"))
    BY FreshNo DEF Rules, Evidence
  <1>5. complete
    BY FreshNo DEF Rules, OwnerResolvable, Evidence
  <1>6. capture = "complete"
    <2>1. "X7" \in Rules /\ "X7" \notin OwnerResolvable /\ capture \in {"partial", "complete", "failed"}
      BY DEF Rules, OwnerResolvable, VerdictTypeOK
    <2>2. Evidence("X7", facts, capture, complete) = "no"
      BY <2>1, FreshNo
    <2>3. QED
      BY <2>1, <2>2 DEF Evidence
  <1>7. QED
    BY <1>1, <1>2, <1>3, <1>4, <1>5, <1>6 DEF Admissible

\* A decision to clear leaves no rule open.
LEMMA ClearedMeans ==
  ASSUME NEW ex \in [Rules -> Tri], NEW ln, NEW trusts, NEW open, NEW at, NEW check,
         Decide(ex, ln, trusts, open, at, check)[1] = "cleared"
  PROVE  (\A r \in Rules : ex[r] = "no") /\ ln = "linked" /\ trusts /\ ~ open
  <1>1. Having(ex, "yes") = {} /\ Having(ex, "unknown") = {}
    BY DEF Decide
  <1>2. ln = "linked" /\ trusts /\ ~ open
    BY DEF Decide
  <1>3. QED
    BY <1>1, <1>2 DEF Having, Tri

-----------------------------------------------------------------------------
LEMMA InitVerdictInv == ASSUME VerdictAssumption PROVE VerdictInit => VerdictInv
  <1> SUFFICES ASSUME VerdictInit PROVE VerdictInv
    OBVIOUS
  <1>1. Blank \in Facts
    BY DEF Blank, Facts, Categories, Tri
  <1>2. joined \in BOOLEAN /\ ended \in BOOLEAN /\ trusted \in BOOLEAN /\ complete \in BOOLEAN /\ cleared \in BOOLEAN
    BY Zenon DEF VerdictInit
  <1>3. exclusions \in [Rules -> Tri]
    BY DEF VerdictInit, Tri
  <1>4. VerdictTypeOK
    BY <1>1, <1>2, <1>3 DEF VerdictInit, VerdictTypeOK
  <1>5. QED
    BY <1>4 DEF VerdictInit, VerdictInv, CompleteEnded, PayloadWasCleared

\* A step that writes the manifest and refreshes it keeps the types.
LEMMA RefreshType ==
  ASSUME VerdictAssumption, facts' \in Facts, NEW own \in OwnerFiles \cup {Unset}, Refresh(own)
  PROVE  exclusions' \in [Rules -> Tri] /\ funnel' \subseteq Gates \cup {Gated[i] : i \in DOMAIN Gated}
  BY EvaluateType, ComputeType DEF Refresh

LEMMA ManifestStep ==
  ASSUME VerdictAssumption, VerdictInv, UNCHANGED <<owner, review, word, place, cleared>>,
         lockedBy' \in {"free", "stop"}, \E own \in {owner, Unset} : Refresh(own),
         phase' \in {"begun", "started", "ended", "killed"}, joined' \in BOOLEAN, facts' \in Facts,
         capture' \in {"partial", "complete", "failed"}, ended' \in BOOLEAN, complete' \in BOOLEAN,
         link' \in {"none", "linked", "ambiguous", "mismatch"}, trusted' \in BOOLEAN, CompleteEnded'
  PROVE  VerdictInv'
  <1>1. VerdictTypeOK /\ PayloadWasCleared
    BY DEF VerdictInv
  <1>2. owner \in OwnerFiles \cup {Unset} /\ UNCHANGED <<owner, review, place, cleared>>
    BY <1>1 DEF VerdictTypeOK
  <1>3. exclusions' \in [Rules -> Tri] /\ funnel' \subseteq Gates \cup {Gated[i] : i \in DOMAIN Gated}
    BY <1>2, RefreshType
  <1>4. VerdictTypeOK'
    BY <1>1, <1>2, <1>3 DEF VerdictTypeOK
  <1>5. PayloadWasCleared'
    BY <1>1, <1>2 DEF PayloadWasCleared
  <1>6. QED
    BY <1>4, <1>5 DEF VerdictInv

LEMMA InvalidType == ASSUME NEW f \in Facts PROVE Invalid(f) \in Facts
  <1>1. [c \in Categories |-> IF f.deps[c] = "no" THEN "unknown" ELSE f.deps[c]] \in [Categories -> Tri]
    BY DEF Facts, Tri
  <1>2. (IF f.edits = "shell" THEN "none" ELSE f.edits) \in {"files", "shell", "none"}
    BY DEF Facts
  <1>3. (IF f.prior = "no" /\ ~ f.first THEN "unknown" ELSE f.prior) \in Tri
    BY DEF Facts, Tri
  <1>4. QED
    BY <1>1, <1>2, <1>3 DEF Invalid, Facts

LEMMA StepManifest ==
  ASSUME VerdictAssumption, VerdictInv,
         Kill \/ Join \/ JoinLost \/ RejoinExpired \/ Rescreen \/ Reidentified \/ Relink
  PROVE  VerdictInv'
  <1>T. VerdictTypeOK /\ CompleteEnded
    BY DEF VerdictInv
  <1> DEFINE Aside == UNCHANGED <<owner, review, word, place, cleared>> /\ lockedBy' \in {"free", "stop"}
  <1>1. CASE Kill
    <2>1. CompleteEnded'
      BY <1>1 DEF Kill, CompleteEnded
    <2>2. complete' \in BOOLEAN /\ trusted' \in BOOLEAN
      BY <1>1, Zenon DEF Kill
    <2>3. Aside /\ Refresh(Unset)
      BY <1>1 DEF Kill, ReviewIdle
    <2>4. QED
      BY <1>1, <1>T, <2>1, <2>2, <2>3, ManifestStep DEF Kill, VerdictTypeOK
  <1>2. CASE Join
    <2>1. CompleteEnded'
      BY <1>2 DEF Join, CompleteEnded
    <2>2. joined' \in BOOLEAN /\ ended' \in BOOLEAN /\ trusted' \in BOOLEAN
      BY <1>2, Zenon DEF Join
    <2>3. facts' \in Facts
      <3>1. facts \in Facts /\ Screenings \subseteq Facts
        BY <1>T, ScreeningsType DEF VerdictTypeOK
      <3>2. Unscreened(facts) \subseteq Facts
        BY <3>1 DEF Unscreened, Facts
      <3>3. QED
        BY <1>2, <3>1, <3>2 DEF Join
    <2>a. capture' \in {"partial", "complete"} /\ link' \in {"none", "linked", "ambiguous", "mismatch"}
      BY <1>2, <1>T DEF Join, VerdictTypeOK
    <2>4. Aside /\ Refresh(owner)
      BY <1>2 DEF Join, ReviewIdle
    <2>5. QED
      BY <1>2, <1>T, <2>1, <2>2, <2>3, <2>a, <2>4, ManifestStep DEF Join, VerdictTypeOK
  <1>3. CASE JoinLost \/ RejoinExpired
    <2>1. CompleteEnded'
      BY <1>3 DEF JoinLost, RejoinExpired, CompleteEnded
    <2>2. joined' \in BOOLEAN
      BY <1>3, Zenon DEF JoinLost, RejoinExpired
    <2>3. Aside /\ Refresh(owner)
      BY <1>3 DEF JoinLost, RejoinExpired, ReviewIdle
    <2>4. QED
      BY <1>3, <1>T, <2>1, <2>2, <2>3, ManifestStep DEF JoinLost, RejoinExpired, VerdictTypeOK
  <1>4. CASE Rescreen
    <2>1. CompleteEnded'
      BY <1>4, <1>T DEF Rescreen, CompleteEnded
    <2>2. facts' \in Facts
      <3>1. facts \in Facts /\ Screenings \subseteq Facts
        BY <1>T, ScreeningsType DEF VerdictTypeOK
      <3>2. \A f \in Screenings \cup {facts} : [Invalid(facts) EXCEPT !.origin = f.origin] \in Facts
        BY <3>1, InvalidType DEF Facts
      <3>3. QED
        BY <1>4, <3>1, <3>2 DEF Rescreen
    <2>3. Aside /\ Refresh(owner)
      BY <1>4 DEF Rescreen, ReviewIdle
    <2>4. QED
      BY <1>4, <1>T, <2>1, <2>2, <2>3, ManifestStep DEF Rescreen, VerdictTypeOK
  <1>5. CASE Reidentified
    <2>1. CompleteEnded'
      BY <1>5, <1>T DEF Reidentified, CompleteEnded
    <2>2. trusted' \in BOOLEAN
      BY <1>5, Zenon DEF Reidentified
    <2>3. Aside /\ Refresh(owner)
      BY <1>5 DEF Reidentified, ReviewIdle
    <2>4. QED
      BY <1>5, <1>T, <2>1, <2>2, <2>3, ManifestStep DEF Reidentified, VerdictTypeOK
  <1>6. CASE Relink
    <2>1. CompleteEnded'
      BY <1>6, <1>T DEF Relink, CompleteEnded
    <2>2. Aside /\ Refresh(owner)
      BY <1>6 DEF Relink, ReviewIdle
    <2>3. QED
      BY <1>6, <1>T, <2>1, <2>2, ManifestStep DEF Relink, VerdictTypeOK
  <1>7. QED
    BY <1>1, <1>2, <1>3, <1>4, <1>5, <1>6

\* A review's record has the types of a manifest.
LEMMA ConcludeType ==
  ASSUME VerdictAssumption, VerdictTypeOK, NEW outcome, NEW flags \in SUBSET {Gated[1], Gated[2]}, NEW deleted,
         Conclude(outcome, flags, deleted), outcome[1] \in {"excluded", "held", "materialized"}
  PROVE  /\ exclusions' \in [Rules -> Tri] /\ funnel' \subseteq Gates \cup {Gated[i] : i \in DOMAIN Gated}
         /\ review'[1] \in {Unset, "excluded", "held", "materialized"}
  <1>1. CASE UNCHANGED <<review, Judgement>>
    BY <1>1 DEF Judgement, VerdictTypeOK
  <1>2. CASE review' = outcome /\ exclusions' = Fresh(word) /\ funnel' = ComputeWith(flags)
    <2>1. funnel' \subseteq Gates \cup {Gated[i] : i \in DOMAIN Gated}
      BY <1>2, ComputeType DEF ComputeWith
    <2>2. QED
      BY <1>2, <2>1, FreshType DEF VerdictTypeOK
  <1>3. QED
    BY <1>1, <1>2 DEF Conclude

\* Only a review stages a payload, and only of what it has cleared.
LEMMA StepReview ==
  ASSUME VerdictAssumption, VerdictInv,
         ReviewReads \/ Adopt \/ ReviewDies \/ Damage \/ \E check \in Checks : Review(check)
  PROVE  VerdictInv'
  <1>T. VerdictTypeOK /\ CompleteEnded /\ PayloadWasCleared
    BY DEF VerdictInv
  <1>F. Frame /\ word' \in {word, owner, Unset} /\ lockedBy' \in {lockedBy, "free", "review"}
    BY DEF ReviewReads, Adopt, ReviewDies, Damage, Review, Reviewing
  <1>1. CompleteEnded'
    BY <1>T, <1>F DEF CompleteEnded, Frame
  <1> DEFINE Judged ==
        /\ exclusions' \in [Rules -> Tri] /\ funnel' \subseteq Gates \cup {Gated[i] : i \in DOMAIN Gated}
        /\ review'[1] \in {Unset, "excluded", "held", "materialized"}
  <1>2. ASSUME Judged, place' \in {"snapshots", "payload", "broken", "gone"}, cleared' \in BOOLEAN,
               PayloadWasCleared'
        PROVE  VerdictInv'
    <2>1. VerdictTypeOK'
      BY <1>2, <1>T, <1>F DEF VerdictTypeOK, Frame
    <2>2. QED
      BY <1>1, <1>2, <2>1 DEF VerdictInv
  <1>3. ASSUME NEW check, Decided(check)[1] = "cleared" PROVE Admissible(word)
    <2>1. (\A r \in Rules : Fresh(word)[r] = "no") /\ link = "linked" /\ trusted /\ ended
      BY <1>3, <1>T, FreshType, ClearedMeans DEF VerdictTypeOK, Decided
    <2>2. QED
      BY <1>T, <2>1, NoRuleOpen
  <1>4. CASE Adopt
    <2>1. UNCHANGED <<place, cleared>>
      BY <1>4 DEF Adopt
    <2> DEFINE kept == <<"materialized", {"payload_recovered"}>>
               open == <<"held", {"payload_conflict"}>>
    <2>2. /\ kept[1] \in {"excluded", "held", "materialized"} /\ open[1] \in {"excluded", "held", "materialized"}
          /\ {Gated[1], Gated[2]} \in SUBSET {Gated[1], Gated[2]} /\ {} \in SUBSET {Gated[1], Gated[2]}
          /\ Conclude(kept, {Gated[1], Gated[2]}, FALSE) \/ Conclude(open, {}, FALSE)
      BY <1>4 DEF Adopt
    <2> HIDE DEF kept, open
    <2>3. Judged
      BY <1>T, <2>2, ConcludeType
    <2>4. QED
      BY <1>2, <1>T, <2>1, <2>3 DEF PayloadWasCleared, VerdictTypeOK
  <1>5. CASE ReviewDies
    <2>1. UNCHANGED <<exclusions, funnel, review>>
      BY <1>5 DEF ReviewDies, Judgement
    <2>2. Judged
      BY <1>T, <2>1 DEF VerdictTypeOK
    <2>3. CASE UNCHANGED <<place, cleared>>
      BY <1>2, <1>T, <2>2, <2>3 DEF PayloadWasCleared, VerdictTypeOK
    <2>4. CASE place' = "gone" /\ UNCHANGED cleared
      BY <1>2, <1>T, <2>2, <2>4 DEF PayloadWasCleared, VerdictTypeOK
    <2>5. CASE Decided("passes")[1] = "cleared" /\ StagePayload
      <3>1. Admissible(word)
        BY <1>3, <2>5
      <3>2. place' = "payload" /\ cleared' = TRUE
        BY <2>5, <3>1, Zenon DEF StagePayload, Admissible
      <3>3. QED
        BY <1>2, <2>2, <3>2 DEF PayloadWasCleared
    <2>6. QED
      BY <1>5, <2>3, <2>4, <2>5 DEF ReviewDies
  <1>6. CASE Damage
    <2>1. place = "payload" /\ place' = "broken" /\ UNCHANGED <<exclusions, funnel, review, cleared>>
      BY <1>6 DEF Damage, Judgement
    <2>2. Judged
      BY <1>T, <2>1 DEF VerdictTypeOK
    <2>3. QED
      BY <1>2, <1>T, <2>1, <2>2 DEF PayloadWasCleared, VerdictTypeOK
  <1>7. ASSUME NEW check \in Checks, Review(check) PROVE VerdictInv'
    <2> DEFINE d == Decided(check)
    <2>1. place \in {"snapshots", "gone"}
      BY <1>7 DEF Review
    <2>2. d[1] \in {"held", "excluded", "cleared"}
      BY DEF Decided, Decide
    <2> HIDE DEF d
    <2>3. CASE d[1] = "held"
      <3>1. Conclude(d, {}, FALSE) /\ UNCHANGED <<place, cleared>>
        BY <1>7, <2>3 DEF Review, d
      <3>2. Judged
        BY <1>T, <2>3, <3>1, ConcludeType
      <3>3. QED
        BY <1>2, <1>T, <2>1, <3>1, <3>2 DEF PayloadWasCleared, VerdictTypeOK
    <2>4. CASE d[1] = "excluded"
      <3>1. place' \in {"snapshots", "gone"} /\ Conclude(d, {}, place' # place) /\ UNCHANGED cleared
        BY <1>7, <2>1, <2>4 DEF Review, d
      <3>2. Judged
        BY <1>T, <2>4, <3>1, ConcludeType
      <3>3. QED
        BY <1>2, <1>T, <3>1, <3>2 DEF PayloadWasCleared, VerdictTypeOK
    <2>5. CASE d[1] = "cleared"
      <3>1. Admissible(word)
        BY <1>3, <2>5 DEF d
      <3>2. CASE StagePayload /\ Conclude(<<"materialized", d[2]>>, {Gated[1], Gated[2]}, FALSE)
        <4>1. place' = "payload" /\ cleared' = TRUE
          BY <3>1, <3>2, Zenon DEF StagePayload, Admissible
        <4>2. Judged
          BY <1>T, <3>2, ConcludeType
        <4>3. QED
          BY <1>2, <4>1, <4>2 DEF PayloadWasCleared
      <3>3. CASE /\ Conclude(<<"held", {"payload_write_failed"}>>, {Gated[1]}, FALSE)
                 /\ UNCHANGED <<place, cleared>>
        <4>1. Judged
          BY <1>T, <3>3, ConcludeType
        <4>2. QED
          BY <1>2, <1>T, <2>1, <3>3, <4>1 DEF PayloadWasCleared, VerdictTypeOK
      <3>4. QED
        BY <1>7, <2>5, <3>2, <3>3 DEF Review, d
    <2>6. QED
      BY <2>2, <2>3, <2>4, <2>5
  <1>8. CASE ReviewReads
    <2>1. UNCHANGED <<exclusions, funnel, review, place, cleared>>
      BY <1>8 DEF ReviewReads, Judgement
    <2>2. Judged
      BY <1>T, <2>1 DEF VerdictTypeOK
    <2>3. QED
      BY <1>2, <1>T, <2>1, <2>2 DEF PayloadWasCleared, VerdictTypeOK
  <1>9. QED
    BY <1>4, <1>5, <1>6, <1>7, <1>8

LEMMA StepVerdictInv == ASSUME VerdictAssumption PROVE VerdictInv /\ [VerdictNext]_verdictVars => VerdictInv'
  <1> SUFFICES ASSUME VerdictInv, [VerdictNext]_verdictVars PROVE VerdictInv'
    OBVIOUS
  <1>1. CASE UNCHANGED verdictVars
    BY <1>1 DEF verdictVars, VerdictInv, VerdictTypeOK, CompleteEnded, PayloadWasCleared
  <1>2. CASE OwnerDecides
    <2>1. /\ owner' \in OwnerFiles \cup {Unset}
          /\ UNCHANGED <<phase, joined, facts, capture, ended, link, trusted, complete, exclusions, funnel,
                         review, lockedBy, word, place, cleared>>
      BY <1>2 DEF OwnerDecides, Judgement
    <2>2. QED
      BY <2>1 DEF VerdictInv, VerdictTypeOK, CompleteEnded, PayloadWasCleared
  <1>3. QED
    BY <1>1, <1>2, StepManifest, StepReview DEF VerdictNext

-----------------------------------------------------------------------------
\* Types, of the rules' values and of the funnel's flags above all.
THEOREM VerdictTypeCorrect == ASSUME VerdictAssumption PROVE VerdictSpec => []VerdictTypeOK
  <1>1. VerdictInv => VerdictTypeOK
    BY DEF VerdictInv
  <1>2. QED
    BY <1>1, InitVerdictInv, StepVerdictInv, PTL DEF VerdictSpec

LEMMA Partition == ASSUME VerdictAssumption PROVE VerdictInv => PartitionAgrees
  <1> SUFFICES ASSUME VerdictInv, Counted, phase = "ended"
               PROVE  /\ Class \in {"boundary_only", "candidate"} =>
                            Decide(Fresh(owner), link, TRUE, ~ ended, "snapshots", "passes")[1] = "cleared"
                      /\ Class \in {"scope_excluded", "boundary_plus_scope_excluded"} =>
                            Decide(Fresh(owner), link, trusted, ~ ended, place, "passes")[1] = "excluded"
    BY DEF PartitionAgrees
  <1>1. ended /\ VerdictTypeOK /\ Fresh(owner) \in [Rules -> Tri]
    BY FreshType DEF VerdictInv, VerdictTypeOK, CompleteEnded, Counted
  <1>2. ASSUME \A r \in Rules : Fresh(owner)[r] = "no", link = "linked"
        PROVE  Decide(Fresh(owner), link, TRUE, ~ ended, "snapshots", "passes")[1] = "cleared"
    <2>1. Having(Fresh(owner), "yes") = {} /\ Having(Fresh(owner), "unknown") = {}
      BY <1>2 DEF Having
    <2>2. QED
      BY <1>1, <1>2, <2>1 DEF Decide
  <1>3. ASSUME NEW r \in OwnerResolvable, Fresh(owner)[r] = "yes"
        PROVE  Decide(Fresh(owner), link, trusted, ~ ended, place, "passes")[1] = "excluded"
    <2>1. r \in Having(Fresh(owner), "yes")
      BY <1>3 DEF Having, OwnerResolvable, Rules
    <2>2. QED
      BY <2>1 DEF Decide
  <1> DEFINE scope == \E r \in OwnerResolvable : Fresh(owner)[r] = "yes"
             candidate == Candidate(Compute(Fresh(owner), facts, link, complete, trusted, funnel))
  <1>4. candidate => (\A r \in Rules : Fresh(owner)[r] = "no") /\ link = "linked"
    <2>1. SUFFICES ASSUME candidate PROVE (\A r \in Rules : Fresh(owner)[r] = "no") /\ link = "linked"
      OBVIOUS
    <2>2. {"packet_linked", "dependency_screen_clear"} \subseteq
             {g \in Gates :
                CASE g = "packet_linked" -> link = "linked"
                  [] g = "start_snapshot_complete" -> complete /\ trusted
                  [] g = "dependency_screen_clear" -> facts.sufficient /\ Having(Fresh(owner), "no") = Rules}
      BY <2>1 DEF Candidate, Compute, Gates, Gated
    <2>3. link = "linked" /\ Having(Fresh(owner), "no") = Rules
      BY <2>2
    <2>4. QED
      BY <2>3 DEF Having
  <1>5. ~ scope /\ ~ Unresolved(Fresh(owner)) => (\A r \in Rules : Fresh(owner)[r] = "no") /\ link = "linked"
    BY <1>1 DEF Unresolved, Rules, OwnerResolvable, Tri
  <1>6. PrivacyStatus \in {"failed", "passed", "not_reached"}
    BY DEF PrivacyStatus
  <1>7. Class \in {"boundary_only", "candidate"} => candidate \/ (~ scope /\ ~ Unresolved(Fresh(owner)))
    BY <1>6 DEF Class
  <1>8. Class \in {"scope_excluded", "boundary_plus_scope_excluded"} => scope
    BY <1>6 DEF Class
  <1>9. QED
    BY <1>2, <1>3, <1>4, <1>5, <1>7, <1>8

\* A payload is staged only for an episode that is admissible by the owner's
\* file as the review read it, and the report's classes say what a review begun
\* now would decide, for any joins, screens, links, owner's words and deaths of
\* reviews in any order (review.py, report.py).
THEOREM Stands == ASSUME VerdictAssumption PROVE VerdictSpec => []VerdictStands
  <1>1. VerdictInv => VerdictStands
    BY Partition DEF VerdictInv, VerdictStands
  <1>2. QED
    BY <1>1, InitVerdictInv, StepVerdictInv, PTL DEF VerdictSpec

-----------------------------------------------------------------------------
(* Snapshot for any files, contents and number of changes: what a published *)
(* snapshot has is the index, HEAD and the files of one moment.              *)

Reads == OfRepo \cup OfFile

\* What the first pass has of the modification time and of the index.
Stamp1 == first["stamp"][Repo]
Index1 == first["index"][Repo]
StampRead == <<"stamp", Repo>> \in done
IndexRead == <<"index", Repo>> \in done

Shape ==
    /\ stamp \in Nat /\ pass \in {1, 2}
    /\ DOMAIN first = Reads
    /\ \A k \in Reads : DOMAIN first[k] = Files \cup {Repo}

\* The modification time was read before the index was, and as long as it is
\* the same so is the index.
FirstPass ==
    pass = 1 =>
        /\ IndexRead => StampRead
        /\ StampRead => Stamp1 \in Nat /\ Stamp1 <= stamp
        /\ IndexRead /\ Stamp1 = stamp => Index1 = index

\* When the second pass found it unchanged, the index is that of its beginning.
SecondPassKept ==
    pass = 2 =>
        /\ Stamp1 \in Nat /\ Stamp1 <= stamp
        /\ Stamp1 = stamp => Index1 = mid.index
        /\ StampRead /\ ~ differs => Index1 = mid.index

IndexInv ==
    /\ Running => Shape /\ FirstPass /\ SecondPassKept
    /\ result = "complete" => Index1 = mid.index

LEMMA InitIndexInv == SnapshotInit => IndexInv
  BY DEF SnapshotInit, IndexInv, Shape, FirstPass, SecondPassKept, StampRead, IndexRead, Nothing, Reads, Running

-----------------------------------------------------------------------------
\* A read whose turn it is comes after those of earlier stages.
LEMMA StampFirst ==
  ASSUME NEW r \in Due, r[1] = "index"
  PROVE  StampRead
  <1>1. <<"stamp", Repo>> \in Wanted
    BY DEF Wanted, OfRepo
  <1>2. CASE <<"stamp", Repo>> \in done
    BY <1>2 DEF StampRead
  <1>3. CASE <<"stamp", Repo>> \notin done
    <2>1. Stage(r[1]) <= Stage("stamp")
      BY <1>1, <1>3 DEF Due
    <2>2. Stage("index") = 3 /\ Stage("stamp") = 2
      BY DEF Stage
    <2>3. QED
      BY <2>1, <2>2
  <1>4. QED
    BY <1>2, <1>3

\* The reads of the modification time and of the index are of the repository.
LEMMA ReadOfRepo ==
  ASSUME NEW r \in Due
  PROVE  /\ r = <<r[1], r[2]>> /\ r[1] \in Reads /\ r[2] \in Files \cup {Repo}
         /\ r[1] \in {"stamp", "index"} => r[2] = Repo
  BY DEF Due, Wanted, OfRepo, OfFile, Kept, Reads

LEMMA StepIndexInv == IndexInv /\ [SnapshotNext]_snapshotVars => IndexInv'
  <1> SUFFICES ASSUME IndexInv, [SnapshotNext]_snapshotVars PROVE IndexInv'
    OBVIOUS
  <1>1. ASSUME Running, NEW r \in Due, ReadFirst(r) PROVE IndexInv'
    <2>1. Shape /\ FirstPass /\ pass = 1
      BY <1>1 DEF IndexInv, ReadFirst
    <2>2. /\ first' = [first EXCEPT ![r[1]][r[2]] = Sees(r[1], r[2])]
          /\ done' = done \cup {r}
          /\ UNCHANGED <<stamp, index, pass, result, mid>>
      BY <1>1 DEF ReadFirst, checkout
    <2>3. r = <<r[1], r[2]>> /\ r[1] \in Reads /\ r[2] \in Files \cup {Repo}
      BY ReadOfRepo
    <2>4. \A k \in Reads : DOMAIN first'[k] = Files \cup {Repo}
      BY <2>1, <2>2, <2>3 DEF Shape
    <2>5. DOMAIN first' = Reads
      BY <2>1, <2>2 DEF Shape
    <2>6. CASE r[1] = "stamp"
      <3>1. r = <<"stamp", Repo>> /\ Sees(r[1], r[2]) = stamp
        BY <2>6, <2>3, ReadOfRepo DEF Sees
      <3>2. Stamp1' = stamp /\ Index1' = Index1
        BY <2>1, <2>2, <3>1 DEF Shape, Stamp1, Index1, Reads, OfRepo
      <3>3. (StampRead' <=> TRUE) /\ (IndexRead' <=> IndexRead)
        BY <2>2, <3>1 DEF StampRead, IndexRead
      <3>4. ~ IndexRead
        <4>1. r \notin done
          BY DEF Due
        <4>2. QED
          BY <2>1, <3>1, <4>1 DEF FirstPass, StampRead
      <3>5. QED
        BY <1>1, <2>1, <2>2, <2>4, <2>5, <3>2, <3>3, <3>4
           DEF IndexInv, Shape, FirstPass, SecondPassKept, Running
    <2>7. CASE r[1] = "index"
      <3>1. r = <<"index", Repo>> /\ Sees(r[1], r[2]) = index
        BY <2>7, <2>3, ReadOfRepo DEF Sees
      <3>2. Stamp1' = Stamp1 /\ Index1' = index
        BY <2>1, <2>2, <3>1 DEF Shape, Stamp1, Index1, Reads, OfRepo
      <3>3. StampRead /\ StampRead'
        BY <2>2, <2>7, StampFirst DEF StampRead
      <3>4. QED
        BY <1>1, <2>1, <2>2, <2>4, <2>5, <3>2, <3>3
           DEF IndexInv, Shape, FirstPass, SecondPassKept, Running
    <2>8. CASE r[1] \notin {"stamp", "index"}
      <3>1. Stamp1' = Stamp1 /\ Index1' = Index1
        BY <2>1, <2>2, <2>3, <2>8 DEF Shape, Stamp1, Index1, Reads, OfRepo
      <3>2. (StampRead' <=> StampRead) /\ (IndexRead' <=> IndexRead)
        BY <2>2, <2>3, <2>8 DEF StampRead, IndexRead
      <3>3. QED
        BY <1>1, <2>1, <2>2, <2>4, <2>5, <3>1, <3>2
           DEF IndexInv, Shape, FirstPass, SecondPassKept, Running
    <2>9. QED
      BY <2>6, <2>7, <2>8
  <1>2. ASSUME Running, NEW r \in Due, ReadAgain(r) PROVE IndexInv'
    <2>1. Shape /\ SecondPassKept /\ pass = 2
      BY <1>2 DEF IndexInv, ReadAgain
    <2>2. /\ done' = done \cup {r}
          /\ UNCHANGED <<stamp, index, pass, first, result, mid>>
      BY <1>2 DEF ReadAgain, checkout
    <2>3. ~ differs' => ~ differs /\ Sees(r[1], r[2]) = first[r[1]][r[2]]
      BY <1>2, Zenon DEF ReadAgain
    <2>4. r = <<r[1], r[2]>>
      BY ReadOfRepo
    <2>5. ~ differs' /\ StampRead' => Index1 = mid.index
      <3>1. CASE r = <<"stamp", Repo>>
        <4>1. Sees(r[1], r[2]) = stamp
          BY <3>1 DEF Sees
        <4>2. QED
          BY <2>1, <2>3, <3>1, <4>1 DEF SecondPassKept, Stamp1
      <3>2. CASE r # <<"stamp", Repo>>
        BY <2>1, <2>2, <2>3, <3>2 DEF SecondPassKept, StampRead
      <3>3. QED
        BY <3>1, <3>2
    <2>6. Stamp1' = Stamp1 /\ Index1' = Index1
      BY <2>2 DEF Stamp1, Index1
    <2>7. QED
      BY <1>2, <2>1, <2>2, <2>5, <2>6 DEF IndexInv, Shape, FirstPass, SecondPassKept, Running
  <1>3. CASE SecondPass
    <2>1. Running /\ Shape /\ FirstPass /\ pass = 1
      BY <1>3 DEF SecondPass, IndexInv
    <2>2. StampRead /\ IndexRead
      BY <1>3 DEF SecondPass, Wanted, OfRepo, StampRead, IndexRead
    <2>3. /\ pass' = 2 /\ mid'.index = index /\ ~ StampRead'
          /\ UNCHANGED <<stamp, index, first, result>>
      BY <1>3 DEF SecondPass, checkout, StampRead
    <2>4. Stamp1' = Stamp1 /\ Index1' = Index1
      BY <2>3 DEF Stamp1, Index1
    <2>5. QED
      BY <2>1, <2>2, <2>3, <2>4 DEF IndexInv, Shape, FirstPass, SecondPassKept, Running
  <1>4. CASE Publish
    <2>1. StampRead /\ ~ differs /\ pass = 2 /\ Running
      BY <1>4 DEF Publish, Wanted, OfRepo, StampRead
    <2>2. Index1 = mid.index
      BY <2>1 DEF IndexInv, SecondPassKept
    <2>3. result' = "complete" /\ UNCHANGED <<first, mid>>
      BY <1>4 DEF Publish
    <2>4. QED
      BY <2>2, <2>3 DEF IndexInv, Running, Index1
  <1>5. CASE Fail
    BY <1>5 DEF Fail, IndexInv, Running
  <1>6. CASE WriteIndex
    <2>1. Running /\ Shape /\ FirstPass /\ SecondPassKept
      BY <1>6 DEF WriteIndex, IndexInv
    <2>2. stamp' = stamp + 1 /\ UNCHANGED taker
      BY <1>6 DEF WriteIndex
    <2>3. /\ UNCHANGED <<first, done, pass, result, mid, differs>>
          /\ Stamp1' = Stamp1 /\ Index1' = Index1 /\ (StampRead' <=> StampRead) /\ (IndexRead' <=> IndexRead)
      BY <2>2 DEF taker, Stamp1, Index1, StampRead, IndexRead
    <2>4. Stamp1 \in Nat /\ Stamp1 <= stamp => Stamp1 <= stamp' /\ Stamp1 # stamp'
      BY <2>1, <2>2 DEF Shape
    <2>5. QED
      BY <2>1, <2>2, <2>3, <2>4 DEF IndexInv, Shape, FirstPass, SecondPassKept, Running
  <1>7. CASE (\E f \in Files : ChangeFile(f)) \/ MoveHead \/ LockIndex \/ UNCHANGED snapshotVars
    <2>1. UNCHANGED <<index, stamp, taker>>
      BY <1>7 DEF ChangeFile, MoveHead, LockIndex, snapshotVars, checkout
    <2>2. QED
      BY <2>1 DEF taker, IndexInv, Shape, FirstPass, SecondPassKept, Running, Stamp1, Index1, StampRead, IndexRead
  <1>8. QED
    BY <1>1, <1>2, <1>3, <1>4, <1>5, <1>6, <1>7 DEF SnapshotNext, Take, Others

\* The index of a published snapshot is the one that was in place when the
\* second pass began: the modification time brackets it.
THEOREM IndexKept == SnapshotSpec => []IndexOfOneMoment
  <1>1. IndexInv => IndexOfOneMoment
    BY DEF IndexInv, IndexOfOneMoment, Rebuilt, Index1
  <1>2. QED
    BY <1>1, InitIndexInv, StepIndexInv, PTL DEF SnapshotSpec

-----------------------------------------------------------------------------
Read(k, f) == <<k, f>> \in done

\* What the first pass has of HEAD and of a path: its bytes, and what git
\* status said of it.
Head1 == first["head"][Repo]
File1(f) == first["file"][f]
Said(f) == first["status"][f][3]
IsKept(f) == Said(f) \in {"untracked", "changed"}

\* A path that is not kept is deleted or is as the index i has it.
SaidWork(f, i) == IF Said(f) = "deleted" THEN Absent ELSE i[f]
Was(f) == IF IsKept(f) THEN File1(f) ELSE SaidWork(f, Index1)

\* Each lock of the index writes it once.
Sizes == stamp + (IF lock THEN 1 ELSE 0) <= changes

\* The stages are kept to.
Ordered ==
    /\ StampRead => \A g \in Files : Read("status", g)
    /\ \A f \in Files : Read("file", f) => \A g \in Files : Read("status", g)

Histories ==
    /\ had \in [head : SUBSET Trees, work : [Files -> SUBSET Contents]]
    /\ head \in had.head /\ \A f \in Files : work[f] \in had.work[f]
    /\ mid \in [head : Trees, index : Trees, work : Trees]

IndexNow == pass = 2 /\ Stamp1 = stamp => Index1 = index

\* HEAD was at what the first pass saw; as long as it does not come back to
\* something, what the second pass sees it was in between.
HeadSeen ==
    /\ pass = 1 /\ Read("head", Repo) => Head1 \in had.head
    /\ pass = 2 =>
         /\ Head1 \in had.head
         /\ ~ restored /\ head = Head1 => mid.head = Head1
         /\ ~ restored /\ ~ differs /\ Read("head", Repo) => mid.head = Head1

\* The same of a path: what is kept of it, or what its status says it was,
\* which counts from the first call to the second reading of the stamp.
FileSeenFirst(f) ==
    pass = 1 =>
        /\ Read("file", f) => File1(f) \in had.work[f]
        /\ Read("status", f) /\ ~ IsKept(f) /\ ~ raced /\ (StampRead => Stamp1 = stamp)
             => SaidWork(f, index) \in had.work[f]

FileSeenAgain(f) ==
    pass = 2 =>
        /\ ~ raced /\ (IsKept(f) \/ Stamp1 = stamp)
             => Was(f) \in had.work[f] /\ (~ restored /\ work[f] = Was(f) => mid.work[f] = Was(f))
        /\ ~ raced /\ ~ restored /\ ~ differs /\ IsKept(f) /\ Read("file", f)
             => mid.work[f] = Was(f)
        /\ ~ raced /\ ~ restored /\ ~ differs /\ ~ IsKept(f) /\ Read("status", f)
           /\ (StampRead \/ Stamp1 = stamp)
             => mid.work[f] = Was(f)

Seen ==
    /\ Ordered /\ Histories /\ IndexNow /\ HeadSeen
    /\ \A f \in Files : FileSeenFirst(f) /\ FileSeenAgain(f)

CheckInv == IndexInv /\ SnapshotTypeOK /\ Sizes /\ (Running => Seen) /\ CheckoutOfOneMoment

LEMMA InitCheckInv == SnapshotInit => CheckInv
  <1> SUFFICES ASSUME SnapshotInit PROVE CheckInv
    OBVIOUS
  <1>1. SnapshotTypeOK /\ Sizes
    <2>1. 0 \in 0 .. MaxChanges /\ done \subseteq Wanted
      BY SnapshotAssumption DEF SnapshotInit
    <2>2. SnapshotTypeOK
      BY <2>1 DEF SnapshotInit, SnapshotTypeOK
    <2>3. Sizes
      BY DEF SnapshotInit, Sizes
    <2>4. QED
      BY <2>2, <2>3
  <1>2. Ordered /\ IndexNow /\ HeadSeen
    BY DEF SnapshotInit, Ordered, Read, StampRead, IndexNow, HeadSeen
  <1>3. Histories
    BY SnapshotAssumption DEF SnapshotInit, Histories, Trees
  <1>4. \A f \in Files : FileSeenFirst(f) /\ FileSeenAgain(f)
    BY DEF SnapshotInit, FileSeenFirst, FileSeenAgain, Read
  <1>5. CheckoutOfOneMoment
    BY DEF SnapshotInit, CheckoutOfOneMoment
  <1>6. QED
    BY <1>1, <1>2, <1>3, <1>4, <1>5, InitIndexInv DEF CheckInv, Seen

-----------------------------------------------------------------------------
\* What git status says of a path's file.
LEMMA StatusSays ==
  ASSUME NEW f \in Files
  PROVE  /\ Status(f)[3] \in {"same", "untracked", "deleted", "changed"}
         /\ Status(f)[3] = "same" => work[f] = index[f]
         /\ Status(f)[3] = "deleted" => work[f] = Absent
  BY DEF Status

\* The kept paths, by what was said of them.
LEMMA KeptSaid == \A f \in Files : f \in Kept <=> IsKept(f)
  BY DEF Kept, IsKept, Said

\* What a read of the first pass changes.
LEMMA FirstEffect ==
  ASSUME Shape, NEW r \in Due, ReadFirst(r), NEW k \in Reads, NEW g \in Files \cup {Repo}
  PROVE  /\ Read(k, g)' <=> Read(k, g) \/ r = <<k, g>>
         /\ first'[k][g] = IF r = <<k, g>> THEN Sees(k, g) ELSE first[k][g]
  <1>1. /\ first' = [first EXCEPT ![r[1]][r[2]] = Sees(r[1], r[2])]
        /\ done' = done \cup {r}
    BY DEF ReadFirst
  <1>2. r = <<r[1], r[2]>> /\ r[1] \in Reads /\ r[2] \in Files \cup {Repo}
    BY ReadOfRepo
  <1>3. Read(k, g)' <=> Read(k, g) \/ r = <<k, g>>
    BY <1>1 DEF Read
  <1> DEFINE s == r[1]
             f == r[2]
  <1>a. r = <<s, f>> /\ s \in Reads /\ f \in Files \cup {Repo}
    BY <1>2
  <1>b. first' = [first EXCEPT ![s][f] = Sees(s, f)]
    BY <1>1
  <1> HIDE DEF s, f
  <1>c. DOMAIN first = Reads /\ DOMAIN first[s] = Files \cup {Repo} /\ DOMAIN first[k] = Files \cup {Repo}
    BY <1>a DEF Shape
  <1>4. CASE r = <<k, g>>
    <2>1. s = k /\ f = g
      BY <1>4, <1>a
    <2>2. QED
      BY <1>3, <1>4, <1>b, <1>c, <2>1
  <1>5. CASE r # <<k, g>>
    <2>1. s # k \/ f # g
      BY <1>5, <1>a
    <2>2. QED
      BY <1>3, <1>5, <1>b, <1>c, <2>1
  <1>6. QED
    BY <1>3, <1>4, <1>5

\* A read of the modification time, or of a file, comes after all of git status.
LEMMA StatusFirst ==
  ASSUME NEW r \in Due, r[1] \in {"stamp", "file"}, NEW g \in Files
  PROVE  Read("status", g)
  <1>1. <<"status", g>> \in Wanted
    BY DEF Wanted, OfFile
  <1>2. Stage("stamp") = 2 /\ Stage("status") = 1 /\ Stage("file") = 6
    BY DEF Stage
  <1>3. CASE <<"status", g>> \notin done
    <2>1. Stage(r[1]) <= Stage("status")
      BY <1>1, <1>3 DEF Due
    <2>2. QED
      BY <1>2, <2>1
  <1>4. QED
    BY <1>3 DEF Read

\* The stages are kept to, whatever is read next.
LEMMA OrderedRead ==
  ASSUME Ordered, NEW r \in Due, done' = done \cup {r}
  PROVE  Ordered'
  <1>1. r = <<r[1], r[2]>>
    BY ReadOfRepo
  <1>2. ASSUME StampRead' PROVE \A g \in Files : Read("status", g)'
    <2>1. StampRead \/ r[1] = "stamp"
      BY <1>2 DEF StampRead
    <2>2. \A g \in Files : Read("status", g)
      BY <2>1, StatusFirst DEF Ordered
    <2>3. QED
      BY <2>2 DEF Read
  <1>3. ASSUME NEW f \in Files, Read("file", f)' PROVE \A g \in Files : Read("status", g)'
    <2>1. Read("file", f) \/ r[1] = "file"
      BY <1>3 DEF Read
    <2>2. \A g \in Files : Read("status", g)
      BY <2>1, StatusFirst DEF Ordered
    <2>3. QED
      BY <2>2 DEF Read
  <1>4. QED
    BY <1>2, <1>3 DEF Ordered

-----------------------------------------------------------------------------
LEMMA ReadFirstSeen ==
  ASSUME CheckInv, IndexInv', Running, NEW r \in Due, ReadFirst(r)
  PROVE  CheckInv'
  <1>0. Shape /\ FirstPass /\ Seen /\ SnapshotTypeOK /\ Sizes /\ SnapshotAssumption
    BY SnapshotAssumption DEF CheckInv, IndexInv
  <1>1. /\ UNCHANGED <<head, index, stamp, work, lock, had, restored, raced, changes>>
        /\ UNCHANGED <<pass, differs, result, mid>>
        /\ pass = 1 /\ done' = done \cup {r}
    BY DEF ReadFirst, checkout, history
  <1>2. r = <<r[1], r[2]>> /\ r[1] \in Reads /\ r[2] \in Files \cup {Repo} /\ r \in Wanted /\ r \notin done
    BY ReadOfRepo DEF Due
  <1>R. {"head", "stamp", "index", "status", "file"} \subseteq Reads
    BY DEF Reads, OfRepo, OfFile
  <1>3. Ordered'
    BY <1>0, <1>1, OrderedRead DEF Seen
  <1>4. \A f \in Files : Said(f)' = IF r = <<"status", f>> THEN Status(f)[3] ELSE Said(f)
    <2> TAKE f \in Files
    <2>1. first'["status"][f] = IF r = <<"status", f>> THEN Sees("status", f) ELSE first["status"][f]
      BY <1>0, <1>R, FirstEffect
    <2>2. Sees("status", f) = Status(f)
      BY DEF Sees
    <2>3. QED
      BY <2>1, <2>2 DEF Said
  <1>5. done' \subseteq Wanted'
    <2>1. CASE r[1] = "status"
      <3>1. r[2] \in Files
        BY <1>0, <1>2, <2>1 DEF Wanted, OfRepo, OfFile
      <3>2. \A f \in Files : ~ Read("file", f)
        <4>1. ~ Read("status", r[2])
          BY <1>2, <2>1 DEF Read
        <4>2. QED
          BY <1>0, <3>1, <4>1 DEF Seen, Ordered
      <3>3. done \subseteq {<<k, Repo>> : k \in OfRepo} \cup {<<k, f>> : k \in OfFile \ {"file"}, f \in Files}
        BY <1>0, <3>2 DEF SnapshotTypeOK, Wanted, Read, Kept
      <3>4. r \in {<<k, f>> : k \in OfFile \ {"file"}, f \in Files}
        BY <1>2, <2>1, <3>1 DEF OfFile
      <3>5. QED
        BY <1>1, <3>3, <3>4 DEF Wanted
    <2>2. CASE r[1] # "status"
      <3>1. \A f \in Files : Said(f)' = Said(f)
        BY <1>2, <1>4, <2>2
      <3>2. Kept' = Kept
        BY <3>1 DEF Kept, Said
      <3>3. QED
        BY <1>0, <1>1, <1>2, <3>2 DEF SnapshotTypeOK, Wanted
    <2>3. QED
      BY <2>1, <2>2
  <1>6. SnapshotTypeOK'
    BY <1>0, <1>1, <1>5 DEF SnapshotTypeOK
  <1>7. Sizes' /\ Histories'
    BY <1>0, <1>1 DEF Sizes, Seen, Histories
  <1>8. IndexNow' /\ \A f \in Files : FileSeenAgain(f)'
    BY <1>1 DEF IndexNow, FileSeenAgain
  <1>9. HeadSeen'
    <2>1. /\ Read("head", Repo)' <=> Read("head", Repo) \/ r = <<"head", Repo>>
          /\ Head1' = IF r = <<"head", Repo>> THEN Sees("head", Repo) ELSE Head1
      BY <1>0, <1>R, FirstEffect DEF Head1
    <2>2. Sees("head", Repo) = head
      BY DEF Sees
    <2>3. QED
      BY <1>0, <1>1, <2>1, <2>2 DEF Seen, HeadSeen, Histories
  <1>10. ASSUME NEW f \in Files PROVE FileSeenFirst(f)'
    <2>1. /\ Read("file", f)' <=> Read("file", f) \/ r = <<"file", f>>
          /\ File1(f)' = IF r = <<"file", f>> THEN Sees("file", f) ELSE File1(f)
      BY <1>0, <1>R, FirstEffect DEF File1
    <2>2. Sees("file", f) = work[f]
      BY DEF Sees
    <2>3. Read("file", f)' => File1(f)' \in had'.work[f]
      BY <1>0, <1>1, <2>1, <2>2 DEF Seen, FileSeenFirst, Histories
    <2>4. Read("status", f)' <=> Read("status", f) \/ r = <<"status", f>>
      BY <1>0, <1>R, FirstEffect
    <2>5. StampRead' /\ Stamp1' = stamp => (StampRead => Stamp1 = stamp)
      <3>1. Stamp1' = IF r = <<"stamp", Repo>> THEN Sees("stamp", Repo) ELSE Stamp1
        BY <1>0, <1>R, FirstEffect DEF Stamp1
      <3>2. r # <<"stamp", Repo>> \/ ~ StampRead
        BY <1>2 DEF StampRead
      <3>3. QED
        BY <3>1, <3>2
    <2>6. StampRead => StampRead'
      BY <1>1 DEF StampRead
    <2>7. ASSUME Read("status", f)', ~ IsKept(f)', ~ raced, StampRead' => Stamp1' = stamp
          PROVE  SaidWork(f, index)' \in had.work[f]
      <3>1. CASE r = <<"status", f>>
        <4>1. Said(f)' = Status(f)[3] /\ Said(f)' \in {"same", "deleted"}
          BY <1>4, <2>7, <3>1, StatusSays DEF IsKept
        <4>2. SaidWork(f, index)' = work[f]
          BY <1>1, <4>1, StatusSays DEF SaidWork
        <4>3. QED
          BY <1>0, <4>2 DEF Seen, Histories
      <3>2. CASE r # <<"status", f>>
        <4>1. Said(f)' = Said(f) /\ Read("status", f)
          BY <1>4, <2>4, <2>7, <3>2
        <4>2. ~ IsKept(f) /\ SaidWork(f, index)' = SaidWork(f, index)
          BY <1>1, <2>7, <4>1 DEF IsKept, SaidWork
        <4>3. QED
          BY <1>0, <1>1, <2>5, <2>6, <2>7, <4>1, <4>2 DEF Seen, FileSeenFirst
      <3>3. QED
        BY <3>1, <3>2
    <2>8. QED
      BY <1>1, <2>3, <2>7 DEF FileSeenFirst
  <1>11. CheckoutOfOneMoment'
    BY <1>1 DEF Running, CheckoutOfOneMoment
  <1>12. QED
    BY <1>3, <1>6, <1>7, <1>8, <1>9, <1>10, <1>11 DEF CheckInv, Seen

LEMMA ReadAgainSeen ==
  ASSUME CheckInv, IndexInv', Running, NEW r \in Due, ReadAgain(r)
  PROVE  CheckInv'
  <1>0. Shape /\ SecondPassKept /\ Seen /\ SnapshotTypeOK /\ Sizes
    BY DEF CheckInv, IndexInv
  <1>1. /\ UNCHANGED <<head, index, stamp, work, lock, had, restored, raced, changes>>
        /\ UNCHANGED <<pass, first, result, mid>>
        /\ pass = 2 /\ done' = done \cup {r}
    BY DEF ReadAgain, checkout, history
  <1>D. differs' \in BOOLEAN /\ (~ differs' => ~ differs /\ Sees(r[1], r[2]) = first[r[1]][r[2]])
    BY Zenon DEF ReadAgain
  <1>2. r = <<r[1], r[2]>> /\ r \in Wanted /\ r \notin done
    BY ReadOfRepo DEF Due
  <1>3. Ordered'
    BY <1>0, <1>1, OrderedRead DEF Seen
  <1>K. /\ Stamp1' = Stamp1 /\ Index1' = Index1 /\ Head1' = Head1
        /\ \A f \in Files : File1(f)' = File1(f) /\ Said(f)' = Said(f)
    BY <1>1 DEF Stamp1, Index1, Head1, File1, Said
  <1>W. \A f \in Files : (IsKept(f)' <=> IsKept(f)) /\ Was(f)' = Was(f)
    BY <1>K DEF IsKept, Was, SaidWork
  <1>4. SnapshotTypeOK'
    <2>1. Kept' = Kept
      BY <1>1 DEF Kept
    <2>2. QED
      BY <1>0, <1>1, <1>D, <1>2, <2>1 DEF SnapshotTypeOK, Wanted
  <1>5. Sizes' /\ Histories' /\ IndexNow'
    BY <1>0, <1>1, <1>K DEF Sizes, Seen, Histories, IndexNow
  <1>6. HeadSeen'
    <2>1. ASSUME ~ restored, ~ differs', Read("head", Repo)' PROVE mid.head = Head1
      <3>1. CASE r = <<"head", Repo>>
        <4>1. Sees(r[1], r[2]) = head
          BY <3>1 DEF Sees
        <4>2. QED
          BY <1>0, <1>1, <1>D, <2>1, <3>1, <4>1 DEF Seen, HeadSeen, Head1
      <3>2. CASE r # <<"head", Repo>>
        BY <1>0, <1>1, <1>D, <2>1, <3>2 DEF Seen, HeadSeen, Read
      <3>3. QED
        BY <3>1, <3>2
    <2>2. QED
      BY <1>0, <1>1, <1>K, <2>1 DEF Seen, HeadSeen
  <1>7. ASSUME NEW f \in Files PROVE FileSeenAgain(f)'
    <2>0. FileSeenAgain(f) /\ IndexNow /\ Ordered
      BY <1>0 DEF Seen
    <2>1. ASSUME ~ raced, ~ restored, ~ differs', IsKept(f), Read("file", f)' PROVE mid.work[f] = Was(f)
      <3>1. CASE r = <<"file", f>>
        <4>1. Sees(r[1], r[2]) = work[f] /\ first[r[1]][r[2]] = File1(f)
          BY <3>1 DEF Sees, File1
        <4>2. QED
          BY <1>1, <1>D, <2>0, <2>1, <4>1 DEF FileSeenAgain, Was
      <3>2. CASE r # <<"file", f>>
        BY <1>1, <1>D, <2>0, <2>1, <3>2 DEF FileSeenAgain, Read
      <3>3. QED
        BY <3>1, <3>2
    <2>2. ASSUME ~ raced, ~ restored, ~ differs', ~ IsKept(f), Read("status", f)', StampRead' \/ Stamp1 = stamp
          PROVE  mid.work[f] = Was(f)
      <3>1. CASE r = <<"status", f>>
        <4>1. Sees(r[1], r[2]) = Status(f) /\ first[r[1]][r[2]][3] = Said(f)
          BY <3>1 DEF Sees, Said
        <4>2. Status(f)[3] = Said(f) /\ Said(f) \in {"same", "deleted"}
          BY <1>D, <2>2, <4>1, StatusSays DEF IsKept
        <4>3. ~ StampRead'
          BY <1>1, <1>2, <2>0, <3>1 DEF Ordered, Read, StampRead
        <4>4. Index1 = index
          BY <1>1, <2>0, <2>2, <4>3 DEF IndexNow
        <4>5. work[f] = Was(f)
          BY <2>2, <4>2, <4>4, StatusSays DEF Was, SaidWork
        <4>6. QED
          BY <1>1, <2>0, <2>2, <4>3, <4>5 DEF FileSeenAgain
      <3>2. CASE r = <<"stamp", Repo>>
        <4>1. Sees(r[1], r[2]) = stamp /\ first[r[1]][r[2]] = Stamp1
          BY <3>2 DEF Sees, Stamp1
        <4>2. Read("status", f) /\ Stamp1 = stamp
          BY <1>1, <1>D, <2>2, <3>2, <4>1 DEF Read
        <4>3. QED
          BY <1>1, <1>D, <2>0, <2>2, <4>2 DEF FileSeenAgain
      <3>3. CASE r \notin {<<"status", f>>, <<"stamp", Repo>>}
        <4>1. Read("status", f) /\ (StampRead \/ Stamp1 = stamp)
          BY <1>1, <2>2, <3>3 DEF Read, StampRead
        <4>2. QED
          BY <1>1, <1>D, <2>0, <2>2, <4>1 DEF FileSeenAgain
      <3>4. QED
        BY <3>1, <3>2, <3>3
    <2>3. QED
      BY <1>1, <1>K, <1>W, <2>0, <2>1, <2>2 DEF FileSeenAgain
  <1>8. \A f \in Files : FileSeenFirst(f)'
    BY <1>1 DEF FileSeenFirst
  <1>9. CheckoutOfOneMoment'
    BY <1>1 DEF Running, CheckoutOfOneMoment
  <1>10. QED
    BY <1>3, <1>4, <1>5, <1>6, <1>7, <1>8, <1>9 DEF CheckInv, Seen

\* The second pass begins: all that the first was to read it has read.
LEMMA SecondPassSeen ==
  ASSUME CheckInv, IndexInv', SecondPass
  PROVE  CheckInv'
  <1>0. Running /\ Shape /\ FirstPass /\ Seen /\ SnapshotTypeOK /\ Sizes
    BY DEF CheckInv, IndexInv, SecondPass
  <1>1. /\ UNCHANGED <<head, index, stamp, work, lock, had, restored, raced, changes>>
        /\ UNCHANGED <<first, differs, result>>
        /\ pass = 1 /\ pass' = 2 /\ done' = {} /\ Wanted \subseteq done
        /\ mid' = [head |-> head, index |-> index, work |-> work]
    BY DEF SecondPass, checkout, history
  <1>2. /\ StampRead /\ IndexRead /\ Read("head", Repo)
        /\ \A f \in Files : Read("status", f)
        /\ \A f \in Files : IsKept(f) => Read("file", f)
    BY <1>1, KeptSaid DEF Wanted, OfRepo, OfFile, StampRead, IndexRead, Read
  <1>3. SnapshotTypeOK' /\ Sizes'
    BY <1>0, <1>1 DEF SnapshotTypeOK, Sizes
  <1>4. Ordered'
    BY <1>1 DEF Ordered, StampRead, Read
  <1>5. Histories'
    BY <1>0, <1>1, SnapshotAssumption DEF Histories, Seen, SnapshotTypeOK
  <1>K. /\ Stamp1' = Stamp1 /\ Index1' = Index1 /\ Head1' = Head1
        /\ \A f \in Files : File1(f)' = File1(f) /\ Said(f)' = Said(f)
    BY <1>1 DEF Stamp1, Index1, Head1, File1, Said
  <1>W. \A f \in Files : (IsKept(f)' <=> IsKept(f)) /\ Was(f)' = Was(f)
    BY <1>K DEF IsKept, Was, SaidWork
  <1>6. IndexNow'
    BY <1>0, <1>1, <1>2, <1>K DEF IndexNow, FirstPass
  <1>7. HeadSeen'
    BY <1>0, <1>1, <1>2, <1>K DEF HeadSeen, Seen, Read
  <1>8. ASSUME NEW f \in Files PROVE FileSeenFirst(f)' /\ FileSeenAgain(f)'
    <2>1. FileSeenFirst(f)
      BY <1>0 DEF Seen
    <2>2. ASSUME ~ raced, IsKept(f) \/ Stamp1 = stamp PROVE Was(f) \in had.work[f]
      <3>1. CASE IsKept(f)
        BY <1>1, <1>2, <2>1, <3>1 DEF FileSeenFirst, Was
      <3>2. CASE ~ IsKept(f)
        <4>1. Index1 = index
          BY <1>0, <1>1, <1>2, <2>2, <3>2 DEF FirstPass
        <4>2. QED
          BY <1>1, <1>2, <2>1, <2>2, <3>2, <4>1 DEF FileSeenFirst, Was
      <3>3. QED
        BY <3>1, <3>2
    <2>3. ~ Read("file", f)' /\ ~ Read("status", f)'
      BY <1>1 DEF Read
    <2>4. mid'.work[f] = work'[f]
      BY <1>1
    <2>5. FileSeenAgain(f)'
      BY <1>1, <1>K, <1>W, <2>2, <2>3, <2>4 DEF FileSeenAgain
    <2>6. QED
      BY <1>1, <2>5 DEF FileSeenFirst
  <1>9. CheckoutOfOneMoment'
    BY <1>0, <1>1 DEF Running, CheckoutOfOneMoment
  <1>10. QED
    BY <1>3, <1>4, <1>5, <1>6, <1>7, <1>8, <1>9 DEF CheckInv, Seen

\* What is published was there when the second pass began.
LEMMA PublishSeen ==
  ASSUME CheckInv, IndexInv', Publish
  PROVE  CheckInv'
  <1>0. Running /\ Seen /\ SnapshotTypeOK /\ Sizes
    BY DEF CheckInv, Publish
  <1>1. /\ UNCHANGED <<head, index, stamp, work, lock, had, restored, raced, changes>>
        /\ UNCHANGED <<pass, done, first, differs, mid>>
        /\ pass = 2 /\ Wanted \subseteq done /\ ~ differs /\ result' = "complete"
    BY DEF Publish, checkout, history
  <1>2. /\ StampRead /\ Read("head", Repo)
        /\ \A f \in Files : Read("status", f)
        /\ \A f \in Files : IsKept(f) => Read("file", f)
    BY <1>1, KeptSaid DEF Wanted, OfRepo, OfFile, StampRead, Read
  <1>3. SnapshotTypeOK' /\ Sizes'
    BY <1>0, <1>1 DEF SnapshotTypeOK, Sizes, Wanted, Kept
  <1>4. ASSUME ~ restored, ~ raced PROVE Rebuilt = [head |-> mid.head, index |-> mid.index, work |-> mid.work]
    <2>1. Rebuilt.head = mid.head
      BY <1>0, <1>1, <1>2, <1>4 DEF Seen, HeadSeen, Rebuilt, Head1
    <2>2. Rebuilt.index = mid.index /\ Index1 = mid.index
      BY <1>1 DEF IndexInv, Running, Rebuilt, Index1
    <2>3. ASSUME NEW f \in Files PROVE Rebuilt.work[f] = mid.work[f]
      <3>1. mid.work[f] = Was(f)
        BY <1>0, <1>1, <1>2, <1>4, <2>3 DEF Seen, FileSeenAgain
      <3>2. Rebuilt.work[f] = Was(f)
        BY KeptSaid DEF Rebuilt, Was, SaidWork, File1, Said, Index1, IsKept
      <3>3. QED
        BY <3>1, <3>2
    <2>4. mid.work \in Trees
      BY <1>0 DEF Seen, Histories
    <2>5. Rebuilt.work = mid.work
      <3>1. Rebuilt.work = [f \in Files |-> Rebuilt.work[f]]
        BY DEF Rebuilt
      <3>2. QED
        BY <2>3, <2>4, <3>1 DEF Trees
    <2>6. Rebuilt = [head |-> Rebuilt.head, index |-> Rebuilt.index, work |-> Rebuilt.work]
      BY DEF Rebuilt
    <2>7. QED
      BY <2>1, <2>2, <2>5, <2>6
  <1>5. CheckoutOfOneMoment'
    <2>1. UNCHANGED Rebuilt
      BY <1>1 DEF Rebuilt, Kept
    <2>2. QED
      BY <1>1, <1>4, <2>1 DEF CheckoutOfOneMoment
  <1>6. ~ Running'
    BY <1>1 DEF Running
  <1>7. QED
    BY <1>3, <1>5, <1>6 DEF CheckInv

LEMMA FailSeen ==
  ASSUME CheckInv, IndexInv', Fail
  PROVE  CheckInv'
  <1>1. /\ UNCHANGED <<head, index, stamp, work, lock, had, restored, raced, changes, pass, differs, mid>>
        /\ result' = "failed" /\ done' = {}
    BY DEF Fail, checkout, history
  <1>2. SnapshotTypeOK' /\ Sizes'
    BY <1>1 DEF CheckInv, SnapshotTypeOK, Sizes
  <1>3. ~ Running' /\ CheckoutOfOneMoment'
    BY <1>1 DEF Running, CheckoutOfOneMoment
  <1>4. QED
    BY <1>2, <1>3 DEF CheckInv

-----------------------------------------------------------------------------
\* Steps of others leave what was read as it is.
LEMMA TakerFrame ==
  ASSUME UNCHANGED taker
  PROVE  /\ UNCHANGED <<pass, done, first, differs, result, mid, Stamp1, Index1, Head1>>
         /\ (StampRead' <=> StampRead) /\ (Running' <=> Running)
         /\ \A k, f : Read(k, f)' <=> Read(k, f)
         /\ \A f : File1(f)' = File1(f) /\ Said(f)' = Said(f) /\ (IsKept(f)' <=> IsKept(f)) /\ Was(f)' = Was(f)
         /\ Wanted' = Wanted
  BY DEF taker, Stamp1, Index1, Head1, StampRead, Running, Read, File1, Said, IsKept, Was, SaidWork, Wanted, Kept

LEMMA ChangeFileSeen ==
  ASSUME CheckInv, IndexInv', NEW g \in Files, ChangeFile(g)
  PROVE  CheckInv'
  <1>0. Running /\ Seen /\ SnapshotTypeOK /\ Sizes
    BY DEF CheckInv, ChangeFile, Change
  <1>1. /\ UNCHANGED <<head, index, stamp, lock, raced, taker>>
        /\ changes < MaxChanges /\ changes' = changes + 1
    BY DEF ChangeFile, Change
  <1>2. PICK b \in Contents \ {work[g]} :
          /\ work' = [work EXCEPT ![g] = b]
          /\ had' = [had EXCEPT !.work[g] = @ \cup {b}]
          /\ restored' = (restored \/ b \in had.work[g])
    BY DEF ChangeFile
  <1>R. restored' \in BOOLEAN /\ (~ restored' => ~ restored /\ b \notin had.work[g])
    BY <1>2, Zenon
  <1>F. had \in [head : SUBSET Trees, work : [Files -> SUBSET Contents]] /\ work \in Trees
    BY <1>0 DEF Seen, Histories, SnapshotTypeOK
  <1>3. /\ had' \in [head : SUBSET Trees, work : [Files -> SUBSET Contents]]
        /\ had'.head = had.head
        /\ \A f \in Files : had'.work[f] = IF f = g THEN had.work[f] \cup {b} ELSE had.work[f]
        /\ \A f \in Files : work'[f] = IF f = g THEN b ELSE work[f]
        /\ work' \in Trees
    BY <1>2, <1>F DEF Trees
  <1>K. /\ UNCHANGED <<pass, done, first, differs, result, mid, Stamp1, Index1, Head1, Wanted>>
        /\ (StampRead' <=> StampRead) /\ (Running' <=> Running)
        /\ \A k, f : Read(k, f)' <=> Read(k, f)
        /\ \A f : File1(f)' = File1(f) /\ Said(f)' = Said(f) /\ (IsKept(f)' <=> IsKept(f)) /\ Was(f)' = Was(f)
    BY <1>1, TakerFrame
  <1>4. SnapshotTypeOK' /\ Sizes'
    <2>1. changes' \in 0 .. MaxChanges /\ Sizes'
      BY <1>0, <1>1, SnapshotAssumption DEF SnapshotTypeOK, Sizes
    <2>2. done' \subseteq Wanted'
      BY <1>0, <1>K DEF SnapshotTypeOK
    <2>3. QED
      BY <1>0, <1>1, <1>R, <1>3, <1>K, <2>1, <2>2 DEF SnapshotTypeOK
  <1>5. Ordered' /\ IndexNow'
    BY <1>0, <1>1, <1>K DEF Seen, Ordered, IndexNow
  <1>6. Histories'
    BY <1>0, <1>1, <1>3, <1>K DEF Seen, Histories
  <1>7. HeadSeen'
    BY <1>0, <1>1, <1>R, <1>3, <1>K DEF Seen, HeadSeen
  <1>8. ASSUME NEW f \in Files PROVE FileSeenFirst(f)' /\ FileSeenAgain(f)'
    <2>1. FileSeenFirst(f) /\ FileSeenAgain(f)
      BY <1>0 DEF Seen
    <2>2. SaidWork(f, index)' = SaidWork(f, index)
      BY <1>1, <1>K DEF SaidWork
    <2>3. FileSeenFirst(f)'
      BY <1>1, <1>3, <1>K, <2>1, <2>2 DEF FileSeenFirst
    <2>4. ASSUME pass = 2, ~ raced, IsKept(f) \/ Stamp1 = stamp, ~ restored', work'[f] = Was(f)
          PROVE  mid.work[f] = Was(f)
      BY <1>R, <1>3, <2>1, <2>4 DEF FileSeenAgain
    <2>5. FileSeenAgain(f)'
      BY <1>1, <1>R, <1>3, <1>K, <2>1, <2>4 DEF FileSeenAgain
    <2>6. QED
      BY <2>3, <2>5
  <1>9. CheckoutOfOneMoment'
    BY <1>0, <1>K DEF Running, CheckoutOfOneMoment
  <1>10. QED
    BY <1>4, <1>5, <1>6, <1>7, <1>8, <1>9 DEF CheckInv, Seen

LEMMA MoveHeadSeen ==
  ASSUME CheckInv, IndexInv', MoveHead
  PROVE  CheckInv'
  <1>0. Running /\ Seen /\ SnapshotTypeOK /\ Sizes
    BY DEF CheckInv, MoveHead, Change
  <1>1. /\ UNCHANGED <<index, stamp, work, lock, raced, taker>>
        /\ changes < MaxChanges /\ changes' = changes + 1
    BY DEF MoveHead, Change
  <1>2. PICK t \in Commits \ {head} :
          /\ head' = t
          /\ had' = [had EXCEPT !.head = @ \cup {t}]
          /\ restored' = (restored \/ t \in had.head)
    BY DEF MoveHead
  <1>R. restored' \in BOOLEAN /\ (~ restored' => ~ restored /\ t \notin had.head)
    BY <1>2, Zenon
  <1>3. /\ had' \in [head : SUBSET Trees, work : [Files -> SUBSET Contents]]
        /\ had'.head = had.head \cup {t} /\ had'.work = had.work
    BY <1>0, <1>2, SnapshotAssumption DEF Seen, Histories
  <1>K. /\ UNCHANGED <<pass, done, first, differs, result, mid, Stamp1, Index1, Head1, Wanted>>
        /\ (StampRead' <=> StampRead) /\ (Running' <=> Running)
        /\ \A k, f : Read(k, f)' <=> Read(k, f)
        /\ \A f : File1(f)' = File1(f) /\ Said(f)' = Said(f) /\ (IsKept(f)' <=> IsKept(f)) /\ Was(f)' = Was(f)
    BY <1>1, TakerFrame
  <1>4. SnapshotTypeOK' /\ Sizes'
    <2>1. changes' \in 0 .. MaxChanges /\ Sizes'
      BY <1>0, <1>1, SnapshotAssumption DEF SnapshotTypeOK, Sizes
    <2>2. done' \subseteq Wanted'
      BY <1>0, <1>K DEF SnapshotTypeOK
    <2>3. QED
      BY <1>0, <1>1, <1>2, <1>R, <1>K, <2>1, <2>2 DEF SnapshotTypeOK
  <1>5. Ordered' /\ IndexNow'
    BY <1>0, <1>1, <1>K DEF Seen, Ordered, IndexNow
  <1>6. Histories'
    BY <1>0, <1>1, <1>2, <1>3, <1>K DEF Seen, Histories
  <1>7. HeadSeen'
    BY <1>0, <1>2, <1>R, <1>3, <1>K DEF Seen, HeadSeen
  <1>8. ASSUME NEW f \in Files PROVE FileSeenFirst(f)' /\ FileSeenAgain(f)'
    <2>1. FileSeenFirst(f) /\ FileSeenAgain(f)
      BY <1>0 DEF Seen
    <2>2. SaidWork(f, index)' = SaidWork(f, index)
      BY <1>1, <1>K DEF SaidWork
    <2>3. FileSeenFirst(f)'
      BY <1>1, <1>3, <1>K, <2>1, <2>2 DEF FileSeenFirst
    <2>4. FileSeenAgain(f)'
      BY <1>1, <1>R, <1>3, <1>K, <2>1 DEF FileSeenAgain
    <2>5. QED
      BY <2>3, <2>4
  <1>9. CheckoutOfOneMoment'
    BY <1>0, <1>K DEF Running, CheckoutOfOneMoment
  <1>10. QED
    BY <1>4, <1>5, <1>6, <1>7, <1>8, <1>9 DEF CheckInv, Seen

LEMMA LockIndexSeen ==
  ASSUME CheckInv, IndexInv', LockIndex
  PROVE  CheckInv'
  <1>0. Running /\ Seen /\ SnapshotTypeOK /\ Sizes
    BY DEF CheckInv, LockIndex, Change
  <1>1. /\ UNCHANGED <<head, index, stamp, work, had, restored, raced, taker>>
        /\ ~ lock /\ lock' = TRUE
        /\ changes < MaxChanges /\ changes' = changes + 1
    BY DEF LockIndex, Change
  <1>K. /\ UNCHANGED <<pass, done, first, differs, result, mid, Stamp1, Index1, Head1, Wanted>>
        /\ (StampRead' <=> StampRead) /\ (Running' <=> Running)
        /\ \A k, f : Read(k, f)' <=> Read(k, f)
        /\ \A f : File1(f)' = File1(f) /\ Said(f)' = Said(f) /\ (IsKept(f)' <=> IsKept(f)) /\ Was(f)' = Was(f)
    BY <1>1, TakerFrame
  <1>2. Sizes' /\ changes' \in 0 .. MaxChanges
    BY <1>0, <1>1, SnapshotAssumption DEF SnapshotTypeOK, Sizes
  <1>3. SnapshotTypeOK'
    BY <1>0, <1>1, <1>2, <1>K DEF SnapshotTypeOK
  <1>4. Ordered' /\ IndexNow' /\ Histories' /\ HeadSeen'
    BY <1>0, <1>1, <1>K DEF Seen, Ordered, IndexNow, Histories, HeadSeen
  <1>5. ASSUME NEW f \in Files PROVE FileSeenFirst(f)' /\ FileSeenAgain(f)'
    <2>1. SaidWork(f, index)' = SaidWork(f, index)
      BY <1>1, <1>K DEF SaidWork
    <2>2. QED
      BY <1>0, <1>1, <1>K, <2>1 DEF Seen, FileSeenFirst, FileSeenAgain
  <1>6. CheckoutOfOneMoment'
    BY <1>0, <1>K DEF Running, CheckoutOfOneMoment
  <1>7. QED
    BY <1>2, <1>3, <1>4, <1>5, <1>6 DEF CheckInv, Seen

\* An index that is written is seen by its modification time, or is raced.
LEMMA WriteIndexSeen ==
  ASSUME CheckInv, IndexInv', WriteIndex
  PROVE  CheckInv'
  <1>0. Running /\ Shape /\ FirstPass /\ SecondPassKept /\ Seen /\ SnapshotTypeOK /\ Sizes
    BY DEF CheckInv, IndexInv, WriteIndex
  <1>1. /\ UNCHANGED <<head, work, had, restored, changes, taker>>
        /\ lock /\ lock' = FALSE /\ stamp' = stamp + 1
    BY DEF WriteIndex
  <1>2. index' \in Trees
    BY <1>0 DEF WriteIndex, SnapshotTypeOK, Trees
  <1>R. /\ raced' \in BOOLEAN /\ (~ raced' => ~ raced)
        /\ ~ raced' => ~ (pass = 1 /\ done # {} /\ <<"stamp", Repo>> \notin done)
    BY Zenon DEF WriteIndex
  <1>K. /\ UNCHANGED <<pass, done, first, differs, result, mid, Stamp1, Index1, Head1, Wanted>>
        /\ (StampRead' <=> StampRead) /\ (Running' <=> Running)
        /\ \A k, f : Read(k, f)' <=> Read(k, f)
        /\ \A f : File1(f)' = File1(f) /\ Said(f)' = Said(f) /\ (IsKept(f)' <=> IsKept(f)) /\ Was(f)' = Was(f)
    BY <1>1, TakerFrame
  <1>3. Sizes' /\ stamp' \in 0 .. MaxChanges
    BY <1>0, <1>1, SnapshotAssumption DEF SnapshotTypeOK, Sizes
  <1>4. SnapshotTypeOK'
    BY <1>0, <1>1, <1>2, <1>R, <1>3, <1>K DEF SnapshotTypeOK
  <1>5. Ordered' /\ Histories' /\ HeadSeen'
    BY <1>0, <1>1, <1>K DEF Seen, Ordered, Histories, HeadSeen
  <1>S. (pass = 2 \/ StampRead) => Stamp1' # stamp'
    BY <1>0, <1>1, <1>K DEF Shape, FirstPass, SecondPassKept
  <1>6. IndexNow'
    BY <1>S, <1>K DEF IndexNow
  <1>7. ASSUME NEW f \in Files PROVE FileSeenFirst(f)' /\ FileSeenAgain(f)'
    <2>1. FileSeenFirst(f) /\ FileSeenAgain(f)
      BY <1>0 DEF Seen
    <2>2. pass = 1 /\ Read("status", f) /\ ~ raced' => StampRead
      BY <1>R DEF Read, StampRead
    <2>3. FileSeenFirst(f)'
      BY <1>1, <1>K, <1>S, <2>1, <2>2 DEF FileSeenFirst
    <2>4. FileSeenAgain(f)'
      BY <1>1, <1>R, <1>K, <1>S, <2>1 DEF FileSeenAgain
    <2>5. QED
      BY <2>3, <2>4
  <1>8. CheckoutOfOneMoment'
    BY <1>0, <1>K DEF Running, CheckoutOfOneMoment
  <1>9. QED
    BY <1>3, <1>4, <1>5, <1>6, <1>7, <1>8 DEF CheckInv, Seen

LEMMA StepCheckInv == CheckInv /\ [SnapshotNext]_snapshotVars => CheckInv'
  <1> SUFFICES ASSUME CheckInv, [SnapshotNext]_snapshotVars PROVE CheckInv'
    OBVIOUS
  <1>I. IndexInv'
    BY StepIndexInv DEF CheckInv
  <1>1. ASSUME Running, NEW r \in Due, ReadFirst(r) \/ ReadAgain(r) PROVE CheckInv'
    BY <1>I, <1>1, ReadFirstSeen, ReadAgainSeen
  <1>2. CASE SecondPass \/ Publish \/ Fail
    BY <1>I, <1>2, SecondPassSeen, PublishSeen, FailSeen
  <1>3. CASE Others
    BY <1>I, <1>3, ChangeFileSeen, MoveHeadSeen, LockIndexSeen, WriteIndexSeen DEF Others
  <1>4. CASE UNCHANGED snapshotVars
    <2>1. /\ UNCHANGED <<head, index, stamp, work, lock, had, restored, raced, changes>>
          /\ UNCHANGED <<pass, done, first, differs, result, mid>>
      BY <1>4 DEF snapshotVars, checkout, taker, history
    <2>2. UNCHANGED <<Stamp1, Index1, Head1, Wanted, Rebuilt>> /\ (StampRead' <=> StampRead) /\ (Running' <=> Running)
      BY <2>1 DEF Stamp1, Index1, Head1, Wanted, Kept, Rebuilt, StampRead, Running
    <2>3. SnapshotTypeOK' /\ Sizes' /\ CheckoutOfOneMoment'
      BY <2>1, <2>2 DEF CheckInv, SnapshotTypeOK, Sizes, CheckoutOfOneMoment
    <2>4. Running => Ordered' /\ Histories' /\ IndexNow' /\ HeadSeen'
      BY <2>1, <2>2 DEF CheckInv, Seen, Ordered, Read, Histories, IndexNow, HeadSeen
    <2>5. ASSUME Running, NEW f \in Files PROVE FileSeenFirst(f)' /\ FileSeenAgain(f)'
      <3>1. (IsKept(f)' <=> IsKept(f)) /\ Was(f)' = Was(f) /\ SaidWork(f, index)' = SaidWork(f, index) /\ File1(f)' = File1(f)
        BY <2>1, <2>2 DEF IsKept, Was, SaidWork, Said, File1
      <3>2. \A k : Read(k, f)' <=> Read(k, f)
        BY <2>1 DEF Read
      <3>3. FileSeenFirst(f) /\ FileSeenAgain(f)
        BY <2>5 DEF CheckInv, Seen
      <3>4. QED
        BY <2>1, <2>2, <3>1, <3>2, <3>3 DEF FileSeenFirst, FileSeenAgain
    <2>6. QED
      BY <1>I, <2>2, <2>3, <2>4, <2>5 DEF CheckInv, Seen
  <1>5. QED
    BY <1>1, <1>2, <1>3, <1>4 DEF SnapshotNext, Take

\* Types: only paths git status reported are kept, the reads of a pass are
\* wanted ones, and each lock of the index writes it once.
THEOREM SnapshotTypeCorrect == SnapshotSpec => []SnapshotTypeOK
  BY InitCheckInv, StepCheckInv, PTL DEF SnapshotSpec, CheckInv

\* What is rebuilt from a published snapshot is the checkout of the moment the
\* second pass began, unless HEAD or a file got back a content it had before
\* or the index was written before its modification time was first read.
THEOREM CheckoutKept == SnapshotSpec => []CheckoutOfOneMoment
  BY InitCheckInv, StepCheckInv, PTL DEF SnapshotSpec, CheckInv

-----------------------------------------------------------------------------
(* CausalEvidence for any way the two hooks go: an eligible episode has all  *)
(* its evidence.                                                             *)

\* The stages after one that records, in the order of the hooks.
Later == [unsupported |-> {"worktrees", "overlay", "attribution", "tools", "drift", "over"},
          worktrees |-> {"overlay", "attribution", "tools", "drift", "over"},
          overlay |-> {"attribution", "tools", "drift", "over"},
          tools |-> {"drift", "over"}]

Recorded ==
    /\ side \in {"start", "end"} /\ probes \in BOOLEAN
    /\ stage \in {"budget", "probes", "unsupported", "worktrees", "overlay", "attribution", "tools", "drift", "over"}
    /\ side = "start" => stage \notin {"attribution", "drift"}
    /\ side = "end" => stage # "budget"
    /\ errors \subseteq {"start", "end", "attribution", "tools_start", "tools_end"}
    /\ verdict \in {Missing, "eligible", "refused"}
    /\ got = [f \in Field |-> got[f]]
    /\ \A u \in {"unsupported_start", "unsupported_end"} : got[u] = Missing \/ got[u] \subseteq {"reason"}
    /\ \A w \in {"worktrees_start", "worktrees_end"} : got[w] = Missing \/ got[w] \in Worktrees
    /\ \A t \in {"tools_start", "tools_end"} : got[t] = Missing \/ got[t] \in Version
    /\ \A s \in {"start", "end"} : got[s] \in {Missing, "sealed"}
    /\ got["attribution"] = Missing \/ got["attribution"] \subseteq {"path"}
    /\ got["drift"] = Missing \/ got["drift"] \subseteq {"lockfile", "tool"}

\* Without an error, every stage that was passed recorded what it is for.
Reached(s, k) == (s = "start" /\ side = "end") \/ (side = s /\ stage \in Later[k])
Unbroken ==
    errors = {} =>
        /\ \A s \in {"start", "end"}, k \in DOMAIN Later : Reached(s, k) => got[FieldOf[s][k]] # Missing
        /\ stage \notin {"budget", "probes", "over"} => probes
        /\ side = "end" /\ stage \in {"tools", "drift", "over"} =>
              got["attribution"] # Missing /\ got["worktrees"] # Missing /\ got["drift"] # Missing
        /\ side = "end" /\ stage = "over" /\ got["drift"] = {} => ~ ToolDrift(got["tools_start"], got["tools_end"])

\* The end hook that gets past its overlay has sealed the end or says that it failed.
EndTried ==
    side = "end" /\ stage \in {"attribution", "tools", "drift", "over"} => got["end"] # Missing \/ "end" \in errors

\* The other worktree's class is that of the records as they are.
Classified ==
    got["worktrees"] # Missing =>
        /\ side = "end" /\ stage \in {"tools", "drift", "over"}
        /\ \E texts \in Texts : got["worktrees"] = ClassOf(got["worktrees_start"], got["worktrees_end"], texts)

EvidenceInv ==
    /\ Recorded /\ Unbroken /\ EndTried /\ Classified
    /\ verdict = "eligible" => side = "end" /\ stage = "over"
    /\ NothingInferred

LEMMA FieldNames ==
  /\ FieldOf["start"]["unsupported"] = "unsupported_start" /\ FieldOf["end"]["unsupported"] = "unsupported_end"
  /\ FieldOf["start"]["worktrees"] = "worktrees_start" /\ FieldOf["end"]["worktrees"] = "worktrees_end"
  /\ FieldOf["start"]["overlay"] = "start" /\ FieldOf["end"]["overlay"] = "end"
  /\ FieldOf["start"]["tools"] = "tools_start" /\ FieldOf["end"]["tools"] = "tools_end"
  BY DEF FieldOf

LEMMA LaterStages ==
  /\ DOMAIN Later = {"unsupported", "worktrees", "overlay", "tools"}
  /\ Later["unsupported"] = {"worktrees", "overlay", "attribution", "tools", "drift", "over"}
  /\ Later["worktrees"] = {"overlay", "attribution", "tools", "drift", "over"}
  /\ Later["overlay"] = {"attribution", "tools", "drift", "over"}
  /\ Later["tools"] = {"drift", "over"}
  BY DEF Later

LEMMA StagesFollow ==
  /\ Following["probes"] = "unsupported" /\ Following["unsupported"] = "worktrees" /\ Following["worktrees"] = "overlay"
  /\ Following["overlay"] = "attribution" /\ Following["attribution"] = "tools" /\ Following["tools"] = "drift"
  BY DEF Following

\* A stage records in its field of its side and in no other.
LEMMA Written ==
  ASSUME Recorded, NEW k \in DOMAIN Later, NEW v, Set(Of(k), v)
  PROVE  /\ got' = [f \in Field |-> got'[f]]
         /\ \A s \in {"start", "end"}, j \in DOMAIN Later :
               got'[FieldOf[s][j]] = IF s = side /\ j = k THEN v ELSE got[FieldOf[s][j]]
         /\ \A f \in {"attribution", "worktrees", "drift"} : got'[f] = got[f]
  <1>1. got = [f \in Field |-> got[f]] /\ side \in {"start", "end"}
    BY DEF Recorded
  <1>2. \A s \in {"start", "end"}, j \in DOMAIN Later :
           FieldOf[s][j] \in Field \ {"attribution", "worktrees", "drift"}
    BY FieldNames, LaterStages DEF Field
  <1>3. \A s, r \in {"start", "end"}, i, j \in DOMAIN Later : FieldOf[s][j] = FieldOf[r][i] => s = r /\ j = i
    BY FieldNames, LaterStages
  <1>4. got' = [got EXCEPT ![FieldOf[side][k]] = v]
    BY DEF Set, Of
  <1>5. \A f \in {"attribution", "worktrees", "drift"} : f \in Field
    BY DEF Field
  <1>6. QED
    BY <1>1, <1>2, <1>3, <1>4, <1>5

LEMMA InitEvidenceInv == ASSUME EvidenceAssumption PROVE EvidenceInit => EvidenceInv
  <1> SUFFICES ASSUME EvidenceInit PROVE EvidenceInv
    OBVIOUS
  <1>1. Recorded
    BY DEF EvidenceInit, Recorded, Field
  <1>2. Unbroken
    BY LaterStages DEF EvidenceInit, Unbroken, Reached
  <1>3. Classified
    BY DEF EvidenceInit, Classified, Field
  <1>4. QED
    BY <1>1, <1>2, <1>3 DEF EvidenceInit, EvidenceInv, EndTried, NothingInferred, EvidenceAssumption

LEMMA BudgetInv == ASSUME EvidenceAssumption, EvidenceInv, Budget PROVE EvidenceInv'
  <1> USE FieldNames, LaterStages, StagesFollow DEF Budget, Of, At, Set, SameHook, EvidenceInv
  <1>1. Recorded'
    BY DEF Recorded, Field
  <1>2. Unbroken'
    BY <1>1 DEF Recorded, Unbroken, Reached, Field
  <1>3. EndTried'
    BY DEF Recorded, EndTried, Field
  <1>4. Classified'
    BY DEF Recorded, Classified, Field
  <1>5. NothingInferred' /\ (verdict' = "eligible" => side' = "end" /\ stage' = "over")
    BY DEF Recorded, NothingInferred, Field
  <1>6. QED
    BY <1>1, <1>2, <1>3, <1>4, <1>5

LEMMA ProbeInv == ASSUME EvidenceAssumption, EvidenceInv, Probe PROVE EvidenceInv'
  <1> USE FieldNames, LaterStages, StagesFollow DEF Probe, Of, At, Set, SameHook, EvidenceInv
  <1>1. Recorded'
    BY DEF Recorded, Field
  <1>2. Unbroken'
    BY <1>1 DEF Recorded, Unbroken, Reached, Field
  <1>3. EndTried'
    BY DEF Recorded, EndTried, Field
  <1>4. Classified'
    BY DEF Recorded, Classified, Field
  <1>5. NothingInferred' /\ (verdict' = "eligible" => side' = "end" /\ stage' = "over")
    BY DEF Recorded, NothingInferred, Field
  <1>6. QED
    BY <1>1, <1>2, <1>3, <1>4, <1>5

LEMMA UnsupportedInv == ASSUME EvidenceAssumption, EvidenceInv, Unsupported PROVE EvidenceInv'
  <1> USE FieldNames, LaterStages, StagesFollow DEF EvidenceInv
  <1>1. PICK v : v \subseteq {"reason"} /\ Set(Of("unsupported"), v)
    BY DEF Unsupported
  <1>2. /\ stage = "unsupported" /\ side \in {"start", "end"}
        /\ side' = side /\ verdict' = verdict /\ probes' = probes /\ errors' = errors
        /\ stage' = "worktrees"
    BY DEF Unsupported, At, SameHook, Recorded
  <1>3. Recorded /\ "unsupported" \in DOMAIN Later
    OBVIOUS
  <1> HIDE DEF EvidenceInv
  <1>4. /\ got' = [f \in Field |-> got'[f]]
        /\ \A s \in {"start", "end"}, j \in DOMAIN Later :
              got'[FieldOf[s][j]] = IF s = side /\ j = "unsupported" THEN v ELSE got[FieldOf[s][j]]
        /\ \A f \in {"attribution", "worktrees", "drift"} : got'[f] = got[f]
    BY <1>1, <1>3, Written
  <1>5. v # Missing
    BY <1>1 DEF EvidenceAssumption
  <1>6. Recorded'
    <2>1. \A s \in {"start", "end"} :
             /\ got'[FieldOf[s]["unsupported"]] = Missing \/ got'[FieldOf[s]["unsupported"]] \subseteq {"reason"}
             /\ got'[FieldOf[s]["worktrees"]] = Missing \/ got'[FieldOf[s]["worktrees"]] \in Worktrees
             /\ got'[FieldOf[s]["tools"]] = Missing \/ got'[FieldOf[s]["tools"]] \in Version
             /\ got'[FieldOf[s]["overlay"]] \in {Missing, "sealed"}
      BY <1>1, <1>2, <1>3, <1>4 DEF Recorded
    <2>2. QED
      BY <1>2, <1>3, <1>4, <2>1 DEF Recorded
  <1>7. Unbroken'
    BY <1>2, <1>3, <1>4, <1>5 DEF EvidenceInv, Recorded, Unbroken, Reached
  <1>8. EndTried'
    BY <1>2, <1>4, <1>5 DEF EvidenceInv, EndTried
  <1>9. Classified'
    BY <1>2, <1>4 DEF EvidenceInv, Classified
  <1>10. verdict' # "eligible"
    BY <1>2 DEF EvidenceInv
  <1>11. QED
    BY <1>6, <1>7, <1>8, <1>9, <1>10 DEF EvidenceInv, NothingInferred


LEMMA SaveWorktreesInv == ASSUME EvidenceAssumption, EvidenceInv, SaveWorktrees PROVE EvidenceInv'
  <1> USE FieldNames, LaterStages, StagesFollow DEF EvidenceInv
  <1>0. PICK seen \in Sightings, g \in {"start", side} : Set(Of("worktrees"), [rec |-> WorktreeRecord(seen), shared |-> g])
    BY DEF SaveWorktrees
  <1>a. WorktreeRecord(seen) \in Records /\ g \in {"start", "end"}
    BY DEF Records, Recorded
  <1>1. PICK v : v \in Worktrees /\ Set(Of("worktrees"), v)
    BY <1>0, <1>a DEF Worktrees
  <1>2. /\ stage = "worktrees" /\ side \in {"start", "end"}
        /\ side' = side /\ verdict' = verdict /\ probes' = probes /\ errors' = errors
        /\ stage' = "overlay"
    BY DEF SaveWorktrees, At, SameHook, Recorded
  <1>3. Recorded /\ "worktrees" \in DOMAIN Later
    OBVIOUS
  <1> HIDE DEF EvidenceInv
  <1>4. /\ got' = [f \in Field |-> got'[f]]
        /\ \A s \in {"start", "end"}, j \in DOMAIN Later :
              got'[FieldOf[s][j]] = IF s = side /\ j = "worktrees" THEN v ELSE got[FieldOf[s][j]]
        /\ \A f \in {"attribution", "worktrees", "drift"} : got'[f] = got[f]
    BY <1>1, <1>3, Written
  <1>5. v # Missing
    BY <1>1 DEF EvidenceAssumption
  <1>6. Recorded'
    <2>1. \A s \in {"start", "end"} :
             /\ got'[FieldOf[s]["unsupported"]] = Missing \/ got'[FieldOf[s]["unsupported"]] \subseteq {"reason"}
             /\ got'[FieldOf[s]["worktrees"]] = Missing \/ got'[FieldOf[s]["worktrees"]] \in Worktrees
             /\ got'[FieldOf[s]["tools"]] = Missing \/ got'[FieldOf[s]["tools"]] \in Version
             /\ got'[FieldOf[s]["overlay"]] \in {Missing, "sealed"}
      BY <1>1, <1>2, <1>3, <1>4 DEF Recorded
    <2>2. QED
      BY <1>2, <1>3, <1>4, <2>1 DEF Recorded
  <1>7. Unbroken'
    BY <1>2, <1>3, <1>4, <1>5 DEF EvidenceInv, Recorded, Unbroken, Reached
  <1>8. EndTried'
    BY <1>2, <1>4, <1>5 DEF EvidenceInv, EndTried
  <1>9. Classified'
    BY <1>2, <1>4 DEF EvidenceInv, Classified
  <1>10. verdict' # "eligible"
    BY <1>2 DEF EvidenceInv
  <1>11. QED
    BY <1>6, <1>7, <1>8, <1>9, <1>10 DEF EvidenceInv, NothingInferred


LEMMA OverlayInv == ASSUME EvidenceAssumption, EvidenceInv, Overlay PROVE EvidenceInv'
  <1> USE FieldNames, LaterStages, StagesFollow DEF EvidenceInv
  <1>1. PICK v : v = "sealed" /\ Set(Of("overlay"), v)
    BY DEF Overlay
  <1>2. /\ stage = "overlay" /\ side \in {"start", "end"}
        /\ side' = side /\ verdict' = verdict /\ probes' = probes /\ errors' = errors
        /\ stage' = IF side = "start" THEN "tools" ELSE "attribution"
    BY DEF Overlay, At, SameHook, Recorded
  <1>3. Recorded /\ "overlay" \in DOMAIN Later
    OBVIOUS
  <1> HIDE DEF EvidenceInv
  <1>4. /\ got' = [f \in Field |-> got'[f]]
        /\ \A s \in {"start", "end"}, j \in DOMAIN Later :
              got'[FieldOf[s][j]] = IF s = side /\ j = "overlay" THEN v ELSE got[FieldOf[s][j]]
        /\ \A f \in {"attribution", "worktrees", "drift"} : got'[f] = got[f]
    BY <1>1, <1>3, Written
  <1>5. v # Missing
    BY <1>1 DEF EvidenceAssumption
  <1>6. Recorded'
    <2>1. \A s \in {"start", "end"} :
             /\ got'[FieldOf[s]["unsupported"]] = Missing \/ got'[FieldOf[s]["unsupported"]] \subseteq {"reason"}
             /\ got'[FieldOf[s]["worktrees"]] = Missing \/ got'[FieldOf[s]["worktrees"]] \in Worktrees
             /\ got'[FieldOf[s]["tools"]] = Missing \/ got'[FieldOf[s]["tools"]] \in Version
             /\ got'[FieldOf[s]["overlay"]] \in {Missing, "sealed"}
      BY <1>1, <1>2, <1>3, <1>4 DEF Recorded
    <2>2. QED
      BY <1>2, <1>3, <1>4, <2>1 DEF Recorded
  <1>7. Unbroken'
    BY <1>2, <1>3, <1>4, <1>5 DEF EvidenceInv, Recorded, Unbroken, Reached
  <1>8. EndTried'
    BY <1>2, <1>4, <1>5 DEF EvidenceInv, EndTried
  <1>9. Classified'
    BY <1>2, <1>4 DEF EvidenceInv, Classified
  <1>10. verdict' # "eligible"
    BY <1>2 DEF EvidenceInv
  <1>11. QED
    BY <1>6, <1>7, <1>8, <1>9, <1>10 DEF EvidenceInv, NothingInferred


LEMMA NoStartInv == ASSUME EvidenceAssumption, EvidenceInv, NoStart PROVE EvidenceInv'
  <1> USE FieldNames, LaterStages, StagesFollow DEF NoStart, Of, At, Set, SameHook, EvidenceInv
  <1>1. Recorded'
    BY DEF Recorded, Field
  <1>2. Unbroken'
    BY <1>1 DEF Recorded, Unbroken, Reached, Field
  <1>3. EndTried'
    BY DEF Recorded, EndTried, Field
  <1>4. Classified'
    BY DEF Recorded, Classified, Field
  <1>5. NothingInferred' /\ (verdict' = "eligible" => side' = "end" /\ stage' = "over")
    BY DEF Recorded, NothingInferred, Field
  <1>6. QED
    BY <1>1, <1>2, <1>3, <1>4, <1>5

LEMMA RaiseInv == ASSUME EvidenceAssumption, EvidenceInv, Raise PROVE EvidenceInv'
  <1> USE FieldNames, LaterStages, StagesFollow DEF Raise, Of, At, Set, SameHook, EvidenceInv
  <1>1. Recorded'
    BY DEF Recorded, Field
  <1>2. Unbroken'
    BY <1>1 DEF Recorded, Unbroken, Reached, Field
  <1>3. EndTried'
    BY DEF Recorded, EndTried, Field
  <1>4. Classified'
    BY DEF Recorded, Classified, Field
  <1>5. NothingInferred' /\ (verdict' = "eligible" => side' = "end" /\ stage' = "over")
    BY DEF Recorded, NothingInferred, Field
  <1>6. QED
    BY <1>1, <1>2, <1>3, <1>4, <1>5

LEMMA CollectToolsInv == ASSUME EvidenceAssumption, EvidenceInv, CollectTools PROVE EvidenceInv'
  <1> USE FieldNames, LaterStages, StagesFollow DEF CollectTools, After, Of, At, Set, SameHook, EvidenceInv
  <1>1. Recorded'
    BY DEF Recorded, Field
  <1>2. Unbroken'
    <2> SUFFICES ASSUME errors = {} PROVE Unbroken'
      BY DEF Unbroken
    <2>1. probes /\ "tools" \in DOMAIN Later
      BY DEF Unbroken
    <2>2. PICK v \in Version : Set(Of("tools"), v)
      BY <2>1
    <2>3. v # Missing
      BY DEF EvidenceAssumption
    <2> HIDE DEF Of, Set
    <2>4. /\ \A s \in {"start", "end"}, j \in DOMAIN Later :
                got'[FieldOf[s][j]] = IF s = side /\ j = "tools" THEN v ELSE got[FieldOf[s][j]]
          /\ \A f \in {"attribution", "worktrees", "drift"} : got'[f] = got[f]
      BY <2>1, <2>2, Written
    <2>5. side \in {"start", "end"}
      BY DEF Recorded
    <2>6. QED
      BY <2>1, <2>3, <2>4, <2>5 DEF Unbroken, Reached
  <1>3. EndTried'
    BY DEF Recorded, EndTried, Field
  <1>4. Classified'
    BY DEF Recorded, Classified, Field
  <1>5. NothingInferred' /\ (verdict' = "eligible" => side' = "end" /\ stage' = "over")
    BY DEF Recorded, NothingInferred, Field
  <1>6. QED
    BY <1>1, <1>2, <1>3, <1>4, <1>5

LEMMA ToolsRaiseInv == ASSUME EvidenceAssumption, EvidenceInv, ToolsRaise PROVE EvidenceInv'
  <1> USE FieldNames, LaterStages, StagesFollow DEF ToolsRaise, After, Of, At, Set, SameHook, EvidenceInv
  <1>1. Recorded'
    BY DEF Recorded, Field
  <1>2. Unbroken'
    BY <1>1 DEF Recorded, Unbroken, Reached, Field
  <1>3. EndTried'
    BY DEF Recorded, EndTried, Field
  <1>4. Classified'
    BY DEF Recorded, Classified, Field
  <1>5. NothingInferred' /\ (verdict' = "eligible" => side' = "end" /\ stage' = "over")
    BY DEF Recorded, NothingInferred, Field
  <1>6. QED
    BY <1>1, <1>2, <1>3, <1>4, <1>5

LEMMA StopInv == ASSUME EvidenceAssumption, EvidenceInv, Stop PROVE EvidenceInv'
  <1> USE FieldNames, LaterStages, StagesFollow DEF Stop, EndTried, Of, At, Set, SameHook, EvidenceInv
  <1>1. Recorded'
    BY DEF Recorded, Field
  <1>2. Unbroken'
    BY <1>1 DEF Recorded, Unbroken, Reached, Field
  <1>3. EndTried'
    BY DEF Recorded, EndTried, Field
  <1>4. Classified'
    BY DEF Recorded, Classified, Field
  <1>5. NothingInferred' /\ (verdict' = "eligible" => side' = "end" /\ stage' = "over")
    BY DEF Recorded, NothingInferred, Field
  <1>6. QED
    BY <1>1, <1>2, <1>3, <1>4, <1>5

LEMMA AttributeInv == ASSUME EvidenceAssumption, EvidenceInv, Attribute PROVE EvidenceInv'
  <1> USE FieldNames, LaterStages, StagesFollow DEF EvidenceInv
  <1>1. PICK un \in BOOLEAN, locked \in BOOLEAN, texts \in Texts :
          got' = [got EXCEPT
              !["attribution"] = IF un THEN {"path"} ELSE {},
              !["worktrees"] = ClassOf(got["worktrees_start"], got["worktrees_end"], texts),
              !["drift"] = IF locked THEN {"lockfile"} ELSE {}]
    BY DEF Attribute
  <1>2. /\ stage = "attribution" /\ side = "end" /\ got["start"] # Missing
        /\ side' = side /\ verdict' = verdict /\ probes' = probes /\ errors' = errors /\ stage' = "tools"
    BY DEF Attribute, At, SameHook, Recorded
  <1>3. /\ got' = [f \in Field |-> got'[f]]
        /\ got'["attribution"] \subseteq {"path"} /\ got'["drift"] \subseteq {"lockfile", "tool"}
        /\ got'["worktrees"] = ClassOf(got["worktrees_start"], got["worktrees_end"], texts)
        /\ \A f \in Field \ {"attribution", "worktrees", "drift"} : got'[f] = got[f]
    BY <1>1 DEF Recorded, Field
  <1>4. \A s \in {"start", "end"}, j \in DOMAIN Later : got'[FieldOf[s][j]] = got[FieldOf[s][j]]
    BY <1>3 DEF Field
  <1>5. got'["attribution"] # Missing /\ got'["worktrees"] # Missing /\ got'["drift"] # Missing
    BY <1>3 DEF EvidenceAssumption, ClassOf, Classify
  <1>6. Recorded'
    BY <1>2, <1>3 DEF Recorded, Field
  <1>7. Unbroken'
    BY <1>2, <1>4, <1>5 DEF Recorded, Unbroken, Reached
  <1>8. EndTried'
    BY <1>2, <1>4 DEF EndTried
  <1>9. Classified'
    BY <1>2, <1>3, <1>4 DEF Classified
  <1>10. verdict' # "eligible"
    BY <1>2
  <1>11. QED
    BY <1>6, <1>7, <1>8, <1>9, <1>10 DEF NothingInferred

LEMMA DriftInv == ASSUME EvidenceAssumption, EvidenceInv, Drift PROVE EvidenceInv'
  <1> USE FieldNames, LaterStages, StagesFollow DEF EvidenceInv
  <1>1. /\ stage = "drift" /\ side = "end"
        /\ side' = side /\ verdict' = verdict /\ probes' = probes /\ errors' = errors /\ stage' = "over"
    BY DEF Drift, At, SameHook, Recorded
  <1>2. got' = [f \in Field |-> got'[f]] /\ \A f \in Field \ {"drift"} : got'[f] = got[f]
    BY DEF Drift, Set, Recorded
  <1>3. \A s \in {"start", "end"}, j \in DOMAIN Later : got'[FieldOf[s][j]] = got[FieldOf[s][j]]
    BY <1>2 DEF Field
  <1>4. got'["drift"] = Missing \/ got'["drift"] \subseteq {"lockfile", "tool"}
    BY DEF Drift, Set, Recorded, Field
  <1>5. got'["attribution"] = got["attribution"] /\ got'["worktrees"] = got["worktrees"]
    BY <1>2 DEF Field
  <1>6. errors = {} =>
          /\ got'["drift"] # Missing
          /\ got'["drift"] = {} => ~ ToolDrift(got["tools_start"], got["tools_end"])
    <2> SUFFICES ASSUME errors = {}
                 PROVE  /\ got'["drift"] # Missing
                        /\ got'["drift"] = {} => ~ ToolDrift(got["tools_start"], got["tools_end"])
      OBVIOUS
    <2>1. got["tools_start"] # Missing /\ got["tools_end"] # Missing /\ got["drift"] # Missing
      <3>1. Reached("start", "tools") /\ Reached("end", "tools")
        BY <1>1 DEF Reached
      <3>2. QED
        BY <1>1, <3>1 DEF Unbroken
    <2>2. got'["drift"] = got["drift"] \cup IF ToolDrift(got["tools_start"], got["tools_end"]) THEN {"tool"} ELSE {}
      BY <2>1 DEF Drift, Set, Recorded, Field
    <2>3. got'["drift"] \subseteq {"reason", "path", "lockfile", "tool"}
      BY <2>1, <2>2 DEF Recorded
    <2>4. QED
      BY <2>2, <2>3 DEF EvidenceAssumption
  <1>7. Recorded'
    BY <1>1, <1>2, <1>4 DEF Recorded, Field
  <1>8. Unbroken'
    BY <1>1, <1>3, <1>5, <1>6 DEF Recorded, Unbroken, Reached
  <1>9. EndTried'
    BY <1>1, <1>3 DEF EndTried
  <1>10. Classified'
    BY <1>1, <1>3, <1>5 DEF Classified
  <1>11. verdict' # "eligible"
    BY <1>1
  <1>12. QED
    BY <1>7, <1>8, <1>9, <1>10, <1>11 DEF NothingInferred

\* What the class of a worktree says of its two records.
LEMMA ClassMeans ==
  ASSUME EvidenceAssumption, NEW a \in Worktrees, NEW b \in Worktrees, NEW texts \in Texts,
         ClassOf(a, b, texts) \notin {"contaminating", "unknown"}
  PROVE  /\ ~ Unobservable(a.rec) /\ ~ Unobservable(b.rec)
         /\ a.rec # b.rec => ClassOf(a, b, texts) = "unrelated" /\ a.rec # Missing /\ b.rec # Missing
  <1>1. a # Missing /\ b # Missing /\ a.rec \in Records /\ b.rec \in Records
    BY DEF EvidenceAssumption, Worktrees
  <1>2. Classify(a.rec, b.rec, Shared(a, b), texts) \notin {"contaminating", "unknown"}
    BY <1>1 DEF ClassOf
  <1>3. ~ Unobservable(a.rec) /\ ~ Unobservable(b.rec)
    BY <1>2 DEF Classify
  <1>4. \A r \in Records : r = Missing \/ (r.fp = Missing) \/ (r = [fp |-> "missing", paths |-> Missing])
                            \/ (r = [fp |-> "A", paths |-> "listed"]) \/ (r = [fp |-> "B", paths |-> "listed"])
    BY DEF Records, Sightings, WorktreeRecord
  <1>5. Missing # "missing" /\ Missing # "A" /\ Missing # "B"
    BY DEF EvidenceAssumption
  <1>6. a.rec # b.rec => Fp(a.rec) # Fp(b.rec)
    BY <1>1, <1>3, <1>4, <1>5 DEF Unobservable, Fp
  <1>7. a.rec # b.rec => Classify(a.rec, b.rec, Shared(a, b), texts) = "unrelated" /\ a.rec # Missing /\ b.rec # Missing
    BY <1>2, <1>3, <1>6 DEF Classify
  <1>8. QED
    BY <1>1, <1>3, <1>7 DEF ClassOf

\* An admission that finds nothing to refuse found all evidence.
LEMMA NothingRefused ==
  ASSUME EvidenceAssumption, EvidenceInv, stage = "over", side = "end", NEW f \in Findings, Reasons(f) = {}
  PROVE  /\ \A g \in Field : got[g] # Missing
         /\ got["tools_start"] = got["tools_end"] /\ got["tools_start"] # "unrecorded"
         /\ got["unsupported_start"] = {} /\ got["unsupported_end"] = {}
         /\ LET a == got["worktrees_start"]
                b == got["worktrees_end"]
            IN  /\ a.shared = b.shared
                /\ ~ Unobservable(a.rec) /\ ~ Unobservable(b.rec)
                /\ a.rec # b.rec => got["worktrees"] = "unrelated" /\ a.rec # Missing /\ b.rec # Missing
  <1>1. Recorded /\ Unbroken /\ Classified
    BY DEF EvidenceInv
  <1>2. OfUnsupported = {} /\ OfWorktrees = {} /\ OfDrift = {} /\ errors = {}
    BY DEF Reasons, ErrorsOf
  <1>3. /\ got["worktrees"] \notin {Missing, "contaminating", "unknown"}
        /\ ~ (got["worktrees_start"] # Missing /\ got["worktrees_end"] # Missing /\ got["worktrees"] # Missing
               /\ Shared(got["worktrees_start"], got["worktrees_end"]) = "changed")
    BY <1>2 DEF OfWorktrees, If
  <1>4. \A g \in Field : got[g] # Missing
    <2>1. \A s \in {"start", "end"}, k \in DOMAIN Later : got[FieldOf[s][k]] # Missing
      <3>1. \A s \in {"start", "end"}, k \in DOMAIN Later : Reached(s, k)
        BY LaterStages DEF Reached
      <3>2. QED
        BY <1>1, <1>2, <3>1 DEF Unbroken
    <2>2. got["attribution"] # Missing /\ got["worktrees"] # Missing /\ got["drift"] # Missing
      BY <1>1, <1>2 DEF Unbroken
    <2>3. QED
      BY <2>1, <2>2, FieldNames, LaterStages DEF Field
  <1>5. got["unsupported_start"] = {} /\ got["unsupported_end"] = {}
    <2>1. \A u \in {"unsupported_start", "unsupported_end"} : got[u] # Missing
      BY <1>4 DEF Field
    <2>2. QED
      BY <1>2, <2>1 DEF OfUnsupported
  <1>6. got["tools_start"] = got["tools_end"] /\ got["tools_start"] # "unrecorded"
    <2>1. got["drift"] = {}
      BY <1>2, <1>4 DEF OfDrift, Field
    <2>2. QED
      BY <1>1, <1>2, <2>1 DEF Unbroken, ToolDrift
  <1>7. DEFINE a == got["worktrees_start"]
               b == got["worktrees_end"]
  <1>8. a \in Worktrees /\ b \in Worktrees /\ a # Missing /\ b # Missing /\ got["worktrees"] # Missing
    BY <1>1, <1>4 DEF Recorded, Field
  <1>9. PICK texts \in Texts : got["worktrees"] = ClassOf(a, b, texts)
    BY <1>1, <1>8 DEF Classified
  <1>10. got["worktrees"] \notin {"contaminating", "unknown"} /\ Shared(a, b) # "changed"
    BY <1>3, <1>8
  <1>11. a.shared = b.shared
    BY <1>8, <1>10 DEF Shared
  <1>12. /\ ~ Unobservable(a.rec) /\ ~ Unobservable(b.rec)
         /\ a.rec # b.rec => got["worktrees"] = "unrelated" /\ a.rec # Missing /\ b.rec # Missing
    BY <1>8, <1>9, <1>10, ClassMeans
  <1>13. QED
    BY <1>4, <1>5, <1>6, <1>11, <1>12

LEMMA AdmitInv == ASSUME EvidenceAssumption, EvidenceInv, Admit PROVE EvidenceInv'
  <1>1. /\ stage = "over" /\ side = "end"
        /\ UNCHANGED <<side, stage, probes, got, errors>>
    BY DEF Admit
  <1>2. PICK f \in Findings : verdict' = IF Reasons(f) = {} THEN "eligible" ELSE "refused"
    BY DEF Admit
  <1>3. Recorded' /\ Unbroken' /\ EndTried' /\ Classified'
    BY <1>1, <1>2 DEF EvidenceInv, Recorded, Unbroken, Reached, EndTried, Classified
  <1>4. NothingInferred'
    <2>1. CASE Reasons(f) = {}
      BY <1>1, <2>1, NothingRefused DEF NothingInferred
    <2>2. CASE Reasons(f) # {}
      BY <1>2, <2>2 DEF NothingInferred
    <2>3. QED
      BY <2>1, <2>2
  <1>5. QED
    BY <1>1, <1>3, <1>4 DEF EvidenceInv

LEMMA EvidenceInvKept == ASSUME EvidenceAssumption, EvidenceInv, [EvidenceNext]_evidenceVars PROVE EvidenceInv'
  <1>1. CASE UNCHANGED evidenceVars
    BY <1>1 DEF evidenceVars, EvidenceInv, Recorded, Unbroken, Reached, EndTried, Classified, NothingInferred
  <1>2. CASE EvidenceNext
    BY <1>2, BudgetInv, ProbeInv, UnsupportedInv, SaveWorktreesInv, OverlayInv, AttributeInv, NoStartInv,
       RaiseInv, CollectToolsInv, ToolsRaiseInv, DriftInv, StopInv, AdmitInv DEF EvidenceNext
  <1>3. QED
    BY <1>1, <1>2

\* EvidenceTypeOK, for any way the two hooks go.
THEOREM EvidenceTypeCorrect == ASSUME EvidenceAssumption PROVE EvidenceSpec => []EvidenceTypeOK
  <1>1. EvidenceInv => EvidenceTypeOK
    BY DEF EvidenceInv, Recorded, EvidenceTypeOK, Following, Field
  <1>2. QED
    BY <1>1, InitEvidenceInv, EvidenceInvKept, PTL DEF EvidenceSpec

\* An eligible episode has all its evidence, whichever stages of its hooks
\* raised, ran out of time or were skipped: nothing missing was taken as
\* satisfied.
THEOREM AllWasSeen == ASSUME EvidenceAssumption PROVE EvidenceSpec => []NothingInferred
  <1>1. EvidenceInv => NothingInferred
    BY DEF EvidenceInv
  <1>2. QED
    BY <1>1, InitEvidenceInv, EvidenceInvKept, PTL DEF EvidenceSpec

-----------------------------------------------------------------------------
(* Turns for any texts, numbers of prompts and entries, and windows: types,  *)
(* the turn an episode is joined to, the packet it is linked to.             *)

LinkRecord == [state : {"none", "linked", "ambiguous"}, packet : Nat, until : Nat]

JoinRecord ==
    [by : {"end", "maintain"}, start : Nat, end : Nat, ended : Nat, read : Nat, link : LinkRecord, clear : BOOLEAN]

PromptRecord ==
    [text : PromptTexts, kind : Kinds, asked : Nat, at : Nat \cup {Unmade}, state : {"hooks", "delivered", "blocked"}]

Entry == [ts : Nat, of : Nat, call : BOOLEAN]

TurnsTyped ==
    /\ now \in 0 .. MaxTime
    /\ prompts \in Seq(PromptRecord) /\ tr \in Seq(Entry)
    /\ running \in 0 .. Len(prompts) /\ stopDue \in BOOLEAN /\ pointer \in 0 .. Len(prompts)
    /\ ep \in Seq(JoinRecord \cup {Unmade}) /\ Len(ep) = Len(prompts)
    /\ packet \in Seq(Nat \cup {Unmade}) /\ Len(packet) = Len(prompts)
    /\ lost \subseteq 1 .. Len(prompts)

\* The hooks run between the typing of a prompt and its delivery, of which
\* only the last one can be waiting, and nothing is due meanwhile.
HooksRan ==
    /\ \A k \in 1 .. Len(prompts) :
          /\ prompts[k].asked <= now
          /\ prompts[k].at # Unmade => prompts[k].asked <= prompts[k].at /\ prompts[k].at <= now
          /\ packet[k] # Unmade => prompts[k].asked <= packet[k] /\ packet[k] <= now
          /\ prompts[k].state = "hooks" => k = Len(prompts) /\ ~ stopDue /\ now <= prompts[k].asked + Delay
    /\ \A j, k \in 1 .. Len(prompts) : j < k /\ prompts[j].at # Unmade => prompts[j].at <= prompts[k].asked
    /\ pointer # 0 => prompts[pointer].at # Unmade

\* The transcript is in the order of time, and a delivery comes soon after the hooks.
Told ==
    /\ \A i \in 1 .. Len(tr) :
          /\ tr[i].of \in 1 .. Len(prompts) /\ tr[i].ts <= now
          /\ ~ tr[i].call => /\ prompts[tr[i].of].state = "delivered"
                             /\ prompts[tr[i].of].at # Unmade =>
                                   /\ prompts[tr[i].of].at <= tr[i].ts
                                   /\ tr[i].ts <= prompts[tr[i].of].at + Delay
    /\ \A i, j \in 1 .. Len(tr) : i < j => tr[i].ts <= tr[j].ts

\* What a join found: a delivery of this text, its own or one as near or in
\* place of its own; no turn begins inside its window, and what a clear one
\* holds is its prompt's.  A prompt still with the hooks is joined to the past.
JoinOK(k, x) ==
    /\ prompts[k].at # Unmade
    /\ x.read <= Len(tr) /\ x.start \in 1 .. x.read /\ x.end \in x.start + 1 .. x.read + 1
    /\ ~ tr[x.start].call /\ prompts[tr[x.start].of].text = prompts[k].text
    /\ \/ tr[x.start].of = k
       \/ \A i \in 1 .. x.read : tr[i].call \/ tr[i].of # k
       \/ Dist(k, x.start) <= Delay
    /\ \A i \in x.start + 1 .. x.end - 1 : ~ EndsTurn(i)
    /\ x.clear => /\ KindAt(x.start) # "notice"
                  /\ \A i \in x.start .. x.end - 1 : tr[i].call \/ KindAt(i) # "queued"
    /\ prompts[k].state = "hooks" => x.ended < now

\* A link is to the only packet of this text in the bounds; its own is not
\* there, and will not be.
LinkOK(k, l) ==
    l.state = "linked" =>
        /\ l.packet \in 1 .. Len(prompts) /\ packet[l.packet] # Unmade
        /\ prompts[k].at - Skew <= packet[l.packet] /\ packet[l.packet] <= l.until
        /\ l.packet # k => \/ packet[k] = Unmade \/ k \in lost
                           \/ packet[k] > l.until \/ packet[k] < prompts[k].at - Skew
        /\ prompts[k].state = "hooks" => l.until < now

TurnsInv ==
    /\ TurnsTyped /\ HooksRan /\ Told
    /\ \A k \in 1 .. Len(prompts) : ep[k] # Unmade => JoinOK(k, ep[k]) /\ LinkOK(k, ep[k].link)

-----------------------------------------------------------------------------
LEMMA RowTypes ==
  ASSUME TurnsTyped
  PROVE  /\ Len(prompts) \in Nat /\ DOMAIN prompts = 1 .. Len(prompts) /\ Len(tr) \in Nat /\ DOMAIN tr = 1 .. Len(tr)
         /\ \A k \in 1 .. Len(prompts) :
               /\ prompts[k] \in PromptRecord /\ prompts[k].asked \in Nat /\ prompts[k].at \in Nat \cup {Unmade}
               /\ packet[k] \in Nat \cup {Unmade} /\ ep[k] \in JoinRecord \cup {Unmade}
         /\ \A i \in 1 .. Len(tr) : tr[i] \in Entry /\ tr[i].ts \in Nat
  <1>1. Len(prompts) \in Nat /\ DOMAIN prompts = 1 .. Len(prompts) /\ Len(tr) \in Nat /\ DOMAIN tr = 1 .. Len(tr)
    BY DEF TurnsTyped
  <1>2. ASSUME NEW k \in 1 .. Len(prompts)
        PROVE  /\ prompts[k] \in PromptRecord /\ prompts[k].asked \in Nat /\ prompts[k].at \in Nat \cup {Unmade}
               /\ packet[k] \in Nat \cup {Unmade} /\ ep[k] \in JoinRecord \cup {Unmade}
    <2>1. prompts[k] \in PromptRecord /\ packet[k] \in Nat \cup {Unmade} /\ ep[k] \in JoinRecord \cup {Unmade}
      BY DEF TurnsTyped
    <2>2. QED
      BY <2>1 DEF PromptRecord
  <1>3. ASSUME NEW i \in 1 .. Len(tr) PROVE tr[i] \in Entry /\ tr[i].ts \in Nat
    <2>1. tr[i] \in Entry
      BY DEF TurnsTyped
    <2>2. QED
      BY <2>1 DEF Entry
  <1>4. QED
    BY <1>1, <1>2, <1>3

LEMMA LeastNat ==
  ASSUME NEW S \in SUBSET Nat, S # {}
  PROVE  \E m \in S : \A x \in S : m <= x
  <1>1. PICK m \in S : \A x \in S : ~ (<<x, m>> \in OpToRel(<, Nat))
    BY NatLessThanWellFounded, WFMin
  <1>2. \A x \in S : ~ (x < m)
    BY <1>1 DEF OpToRel
  <1>3. QED
    BY <1>2

\* find_turn takes a hit, and none is nearer.
LEMMA NearestIs ==
  ASSUME TurnsTyped, NEW k \in 1 .. Len(prompts), prompts[k].at # Unmade, Hits(k) # {}
  PROVE  Nearest(k) \in Hits(k) /\ \A j \in Hits(k) : Dist(k, Nearest(k)) <= Dist(k, j)
  <1>1. \A i \in Hits(k) : i \in Nat /\ Dist(k, i) \in Nat
    <2> TAKE i \in Hits(k)
    <2>1. i \in 1 .. Len(tr) /\ tr[i] \in Entry /\ prompts[k] \in PromptRecord
      BY DEF TurnsTyped, Hits
    <2>2. tr[i].ts \in Nat /\ prompts[k].at \in Nat
      BY <2>1 DEF Entry, PromptRecord
    <2>3. QED
      BY <2>1, <2>2 DEF Dist
  <1> DEFINE Ds == {Dist(k, i) : i \in Hits(k)}
  <1>2. PICK m \in Ds : \A d \in Ds : m <= d
    <2>1. Ds \in SUBSET Nat /\ Ds # {}
      BY <1>1
    <2>2. QED
      BY <2>1, LeastNat
  <1> DEFINE Near == {i \in Hits(k) : Dist(k, i) = m}
  <1>3. PICK s \in Near : \A i \in Near : s <= i
    <2>1. Near \in SUBSET Nat /\ Near # {}
      BY <1>1
    <2>2. QED
      BY <2>1, LeastNat
  <1>4. s \in Hits(k) /\ Dist(k, s) = m
    BY <1>3
  <1>5. \A j \in Hits(k) \ {s} : Dist(k, s) < Dist(k, j) \/ (Dist(k, s) = Dist(k, j) /\ s < j)
    <2> TAKE j \in Hits(k) \ {s}
    <2>1. m <= Dist(k, j) /\ m \in Nat /\ Dist(k, j) \in Nat /\ j \in Nat /\ s \in Nat
      BY <1>1, <1>2, <1>4
    <2>2. Dist(k, j) = m => s <= j
      BY <1>3
    <2>3. QED
      BY <1>4, <2>1, <2>2
  <1>6. Nearest(k) \in Hits(k)
    BY <1>4, <1>5 DEF Nearest
  <1>7. \A j \in Hits(k) \ {Nearest(k)} : Dist(k, Nearest(k)) < Dist(k, j)
            \/ (Dist(k, Nearest(k)) = Dist(k, j) /\ Nearest(k) < j)
    BY <1>4, <1>5 DEF Nearest
  <1> HIDE DEF Ds, Near
  <1>8. QED
    BY <1>1, <1>6, <1>7

\* window_end: the first boundary after the start, or the end of the transcript.
LEMMA WindowEndIs ==
  ASSUME TurnsTyped, NEW s \in 1 .. Len(tr)
  PROVE  WindowEnd(s) \in s + 1 .. Len(tr) + 1 /\ \A i \in s + 1 .. WindowEnd(s) - 1 : ~ EndsTurn(i)
  <1> DEFINE later == {i \in s + 1 .. Len(tr) : EndsTurn(i)}
  <1>L. Len(tr) \in Nat
    BY DEF TurnsTyped
  <1>1. CASE later = {}
    BY <1>1, <1>L DEF WindowEnd
  <1>2. CASE later # {}
    <2>1. \E e \in later : \A j \in later : e <= j
      <3>1. later \in SUBSET Nat
        BY <1>L
      <3>2. QED
        BY <1>2, <3>1, LeastNat
    <2>2. WindowEnd(s) = CHOOSE e \in later : \A j \in later : e <= j
      BY <1>2 DEF WindowEnd
    <2>3. WindowEnd(s) \in later /\ \A j \in later : WindowEnd(s) <= j
      BY <2>1, <2>2
    <2>4. QED
      BY <2>3, <1>L
  <1>3. QED
    BY <1>1, <1>2

\* resolve_link leaves a resolved link alone, and links to the only packet.
LEMMA ResolveOK ==
  ASSUME TurnsAssumption, TurnsTyped, NEW k \in 1 .. Len(prompts), prompts[k].at # Unmade,
         NEW old \in LinkRecord, LinkOK(k, old),
         NEW till \in Nat, prompts[k].state = "hooks" => till < now
  PROVE  Resolve(old, k, till) \in LinkRecord /\ LinkOK(k, Resolve(old, k, till))
  <1> DEFINE found == InBounds(k, till)
             new == Resolve(old, k, till)
  <1>L. Len(prompts) \in Nat /\ DOMAIN prompts = 1 .. Len(prompts)
    BY DEF TurnsTyped
  <1>1. CASE old.state # "none" \/ (old.state = "none" /\ Cardinality(found) = 0)
    BY <1>1 DEF Resolve
  <1>2. CASE old.state = "none" /\ Cardinality(found) = 1
    <2>1. IsFiniteSet(found)
      <3>1. IsFiniteSet(1 .. Len(prompts))
        <4>1. 1 \in Int /\ Len(prompts) \in Int
          BY <1>L
        <4>2. QED
          BY <4>1, FS_Interval, Zenon
      <3>2. found \in SUBSET (1 .. Len(prompts))
        BY <1>L DEF InBounds, Prompt
      <3>3. QED
        BY <3>1, <3>2, FS_Subset
    <2>2. PICK x : found = {x}
      BY <1>2, <2>1, FS_Singleton
    <2>3. new = [state |-> "linked", packet |-> x, until |-> till]
      BY <1>2, <2>2 DEF Resolve
    <2>4. x \in 1 .. Len(prompts) /\ packet[x] # Unmade
          /\ prompts[k].at - Skew <= packet[x] /\ packet[x] <= till
      <3>1. x \in InBounds(k, till)
        BY <2>2
      <3>2. QED
        BY <3>1, <1>L DEF InBounds, Prompt
    <2>5. x # k => \/ packet[k] = Unmade \/ k \in lost
                   \/ ~ (prompts[k].at - Skew <= packet[k] /\ packet[k] <= till)
      <3>1. x # k => k \notin InBounds(k, till)
        BY <2>2
      <3>2. QED
        BY <3>1, <1>L DEF InBounds, Prompt
    <2>6. x # k => \/ packet[k] = Unmade \/ k \in lost
                   \/ packet[k] > till \/ packet[k] < prompts[k].at - Skew
      <3>1. prompts[k].at \in Nat /\ packet[k] \in Nat \cup {Unmade} /\ Skew \in Nat
        <4>1. prompts[k] \in PromptRecord /\ packet[k] \in Nat \cup {Unmade}
          BY DEF TurnsTyped
        <4>2. Skew \in Nat
          BY DEF TurnsAssumption
        <4>3. QED
          BY <4>1, <4>2 DEF PromptRecord
      <3>2. QED
        BY <2>5, <3>1
    <2>7. QED
      BY <2>3, <2>4, <2>6 DEF LinkOK, LinkRecord
  <1>3. CASE old.state = "none" /\ Cardinality(found) # 0 /\ Cardinality(found) # 1
    <2>1. new = [state |-> "ambiguous", packet |-> 0, until |-> till]
      BY <1>3 DEF Resolve
    <2>2. QED
      BY <2>1 DEF LinkOK, LinkRecord
  <1>4. QED
    BY <1>1, <1>2, <1>3

\* A pass takes a prompt that is still with the hooks for over only when the
\* transcript has been at rest: what it reads is older than this moment.
LEMMA OnlyAtRest ==
  ASSUME TurnsAssumption, TurnsTyped, HooksRan, Told, NEW k \in 1 .. Len(prompts),
         prompts[k].at # Unmade, prompts[k].state = "hooks", TurnOver(k)
  PROVE  \A i \in 1 .. Len(tr) : tr[i].ts < now
  <1>L. Len(prompts) \in Nat /\ DOMAIN prompts = 1 .. Len(prompts) /\ Len(tr) \in Nat /\ now \in Nat
    BY DEF TurnsTyped, TurnsAssumption
  <1>T. \A i \in 1 .. Len(tr) : tr[i].ts \in Nat
    BY RowTypes
  <1>1. ~ \E j \in Prompt : prompts[j].at # Unmade /\ prompts[j].at > prompts[k].at
    <2> SUFFICES ASSUME NEW j \in 1 .. Len(prompts), prompts[j].at # Unmade, prompts[j].at > prompts[k].at
                 PROVE  FALSE
      BY <1>L DEF Prompt
    <2>1. k = Len(prompts) /\ prompts[k].asked <= prompts[k].at
      BY DEF HooksRan
    <2>2. prompts[j] \in PromptRecord /\ prompts[k] \in PromptRecord
      BY DEF TurnsTyped
    <2>3. prompts[j].at \in Nat /\ prompts[k].at \in Nat /\ prompts[k].asked \in Nat
      BY <2>2 DEF PromptRecord
    <2>4. j # k
      BY <2>3
    <2>5. prompts[j].at <= prompts[k].asked
      <3>1. j < k
        <4>1. k = Len(prompts)
          BY <2>1
        <4>2. \A n \in Nat : \A i \in 1 .. n : i # n => i < n
          OBVIOUS
        <4>3. QED
          BY <1>L, <2>4, <4>1, <4>2
      <3>2. QED
        BY <3>1 DEF HooksRan
    <2>6. QED
      BY <2>1, <2>3, <2>5
  <1>2. tr # <<>> /\ now - tr[Len(tr)].ts >= Idle
    BY <1>1 DEF TurnOver
  <1>3. Len(tr) \in 1 .. Len(tr)
    BY <1>2, <1>L DEF TurnsTyped
  <1>4. Idle \in Nat /\ Idle > 0
    BY DEF TurnsAssumption
  <1>5. tr[Len(tr)].ts < now
    BY <1>2, <1>3, <1>4, <1>L, <1>T
  <1>6. QED
    <2> TAKE i \in 1 .. Len(tr)
    <2>1. i = Len(tr) \/ tr[i].ts <= tr[Len(tr)].ts
      BY <1>L, <1>3 DEF Told
    <2>2. QED
      BY <1>3, <1>5, <1>L, <1>T, <2>1

\* join, by a Stop hook or by a pass that takes the turn for over.
LEMMA JoinedOK ==
  ASSUME TurnsAssumption, TurnsInv, NEW k \in 1 .. Len(prompts), prompts[k].at # Unmade,
         NEW by \in {"end", "maintain"}, Hits(k) # {},
         prompts[k].state = "hooks" => by = "maintain" /\ TurnOver(k)
  PROVE  /\ Joined(k, by) \in JoinRecord
         /\ JoinOK(k, Joined(k, by)) /\ LinkOK(k, Joined(k, by).link)
  <1> DEFINE s == Nearest(k)
             e == WindowEnd(s)
             till == IF by = "end" /\ e > Len(tr) THEN now ELSE tr[e - 1].ts
             old == IF ep[k] = Unmade THEN Unlinked ELSE ep[k].link
             clear == KindAt(s) # "notice" /\ ~ Interleaved(s, e) /\ Answered(s, e)
             x == Joined(k, by)
  <1>L. Len(prompts) \in Nat /\ Len(tr) \in Nat /\ now \in Nat /\ DOMAIN tr = 1 .. Len(tr)
    BY DEF TurnsInv, TurnsTyped, TurnsAssumption
  <1>T. \A i \in 1 .. Len(tr) : tr[i].ts \in Nat
    BY RowTypes DEF TurnsInv
  <1>1. s \in Hits(k) /\ \A j \in Hits(k) : Dist(k, s) <= Dist(k, j)
    BY NearestIs DEF TurnsInv
  <1>2. s \in 1 .. Len(tr) /\ ~ tr[s].call /\ prompts[tr[s].of].text = prompts[k].text
    BY <1>1, <1>L DEF Hits
  <1>3. e \in s + 1 .. Len(tr) + 1 /\ \A i \in s + 1 .. e - 1 : ~ EndsTurn(i)
    BY <1>2, WindowEndIs DEF TurnsInv
  <1>4. till \in Nat
    BY <1>2, <1>3, <1>L, <1>T
  <1>5. prompts[k].state = "hooks" => till < now
    BY <1>2, <1>3, <1>L, OnlyAtRest DEF TurnsInv
  <1>6. old \in LinkRecord /\ LinkOK(k, old)
    <2>1. CASE ep[k] = Unmade
      BY <2>1 DEF Unlinked, LinkRecord, LinkOK
    <2>2. CASE ep[k] # Unmade
      <3>1. ep[k] \in JoinRecord /\ LinkOK(k, ep[k].link)
        BY <2>2 DEF TurnsInv, TurnsTyped
      <3>2. QED
        BY <2>2, <3>1 DEF JoinRecord
    <2>3. QED
      BY <2>1, <2>2
  <1>7. Resolve(old, k, till) \in LinkRecord /\ LinkOK(k, Resolve(old, k, till))
    <2> HIDE DEF till, old
    <2> QED
      BY <1>4, <1>5, <1>6, ResolveOK DEF TurnsInv
  <1>8. x = [by |-> by, start |-> s, end |-> e, ended |-> till, read |-> Len(tr),
             link |-> Resolve(old, k, till), clear |-> clear]
    BY DEF Joined
  <1>9. \/ tr[s].of = k
        \/ \A i \in 1 .. Len(tr) : tr[i].call \/ tr[i].of # k
        \/ Dist(k, s) <= Delay
    <2> SUFFICES ASSUME NEW i \in 1 .. Len(tr), ~ tr[i].call, tr[i].of = k
                 PROVE  Dist(k, s) <= Delay
      OBVIOUS
    <2> HIDE DEF s
    <2>1. prompts[k].at <= tr[i].ts /\ tr[i].ts <= prompts[k].at + Delay
      BY DEF TurnsInv, Told
    <2>2. prompts[k].at \in Nat /\ tr[i].ts \in Nat /\ tr[s].ts \in Nat
      <3>1. prompts[k] \in PromptRecord
        BY DEF TurnsInv, TurnsTyped
      <3>2. QED
        BY <1>2, <1>T, <3>1 DEF PromptRecord
    <2>3. Delay \in Nat /\ Exact \in Nat /\ Delay <= Exact
      BY DEF TurnsAssumption
    <2>4. Dist(k, i) <= Delay /\ Dist(k, i) \in Nat /\ Dist(k, s) \in Nat
      <3>1. Dist(k, i) = tr[i].ts - prompts[k].at
        BY <2>1, <2>2 DEF Dist
      <3>2. Dist(k, s) \in Nat
        BY <2>2 DEF Dist
      <3>3. QED
        BY <2>1, <2>2, <2>3, <3>1, <3>2
    <2>5. i \in Hits(k)
      BY <1>L, <2>3, <2>4 DEF Hits
    <2>6. QED
      BY <1>1, <2>3, <2>4, <2>5
  <1>10. clear => /\ KindAt(s) # "notice"
                  /\ \A i \in s .. e - 1 : tr[i].call \/ KindAt(i) # "queued"
    BY DEF Interleaved
  <1>11. clear \in BOOLEAN
    OBVIOUS
  <1> HIDE DEF s, e, till, old, clear, x
  <1>12. x \in JoinRecord
    BY <1>2, <1>3, <1>4, <1>7, <1>8, <1>11, <1>L DEF JoinRecord
  <1>13. JoinOK(k, x)
    BY <1>2, <1>3, <1>5, <1>8, <1>9, <1>10, <1>L DEF JoinOK
  <1>14. QED
    BY <1>7, <1>8, <1>12, <1>13 DEF x

-----------------------------------------------------------------------------
\* What no step takes back: entries and prompts are added at the end, a prompt
\* keeps what it is and when its hook ran, a packet its time.
KeepsPrompt(k) ==
    /\ prompts'[k].text = prompts[k].text /\ prompts'[k].kind = prompts[k].kind
    /\ prompts'[k].asked = prompts[k].asked
    /\ prompts[k].at # Unmade => prompts'[k].at = prompts[k].at
    /\ prompts'[k].state = "hooks" => prompts[k].state = "hooks"
    /\ packet[k] # Unmade => packet'[k] = packet[k]
    /\ packet'[k] # packet[k] => packet'[k] = now /\ prompts[k].state = "hooks"

Added ==
    /\ Len(prompts) <= Len(prompts') /\ Len(tr) <= Len(tr') /\ now <= now' /\ lost \subseteq lost'
    /\ \A k \in 1 .. Len(prompts) : KeepsPrompt(k)
    /\ \A i \in 1 .. Len(tr) : tr'[i] = tr[i]

LEMMA NothingTakenBack == ASSUME TurnsTyped, TurnsNext PROVE Added
  <1>L. Len(prompts) \in Nat /\ Len(tr) \in Nat /\ now \in Int /\ DOMAIN prompts = 1 .. Len(prompts)
        /\ Len(packet) = Len(prompts)
    BY DEF TurnsTyped
  <1>1. ASSUME NEW text \in PromptTexts, NEW kind \in Kinds, Submit(text, kind) PROVE Added
    <2>1. Len(prompts') = Len(prompts) + 1 /\ \A k \in 1 .. Len(prompts) : prompts'[k] = prompts[k]
      BY <1>1 DEF TurnsTyped, Submit
    <2>2. \A k \in 1 .. Len(prompts) : packet'[k] = packet[k]
      BY <1>1 DEF TurnsTyped, Submit
    <2>3. tr' = tr /\ now' = now /\ lost' = lost
      BY <1>1 DEF Submit, Session
    <2>4. QED
      BY <1>L, <2>1, <2>2, <2>3 DEF Added, KeepsPrompt
  <1>2. ASSUME NEW k \in Prompt, Capture(k) PROVE Added
    <2>1. prompts[k].at = Unmade /\ Len(prompts') = Len(prompts) /\ prompts'[k] = [prompts[k] EXCEPT !.at = now]
          /\ \A j \in 1 .. Len(prompts) : j # k => prompts'[j] = prompts[j]
      BY <1>2, <1>L DEF TurnsTyped, Capture, Prompt
    <2>2. tr' = tr /\ now' = now /\ lost' = lost /\ packet' = packet
      BY <1>2 DEF Capture, Session
    <2>P. prompts[k] \in PromptRecord
      BY <1>2, <1>L, RowTypes DEF Prompt
    <2>3. /\ prompts'[k].text = prompts[k].text /\ prompts'[k].kind = prompts[k].kind
          /\ prompts'[k].asked = prompts[k].asked /\ prompts'[k].state = prompts[k].state
      BY <2>1, <2>P DEF PromptRecord
    <2>4. ASSUME NEW j \in 1 .. Len(prompts) PROVE KeepsPrompt(j)
      <3>1. CASE j = k
        BY <2>1, <2>2, <2>3, <3>1 DEF KeepsPrompt
      <3>2. CASE j # k
        BY <2>1, <2>2, <3>2 DEF KeepsPrompt
      <3>3. QED
        BY <3>1, <3>2
    <2>5. QED
      BY <1>L, <2>1, <2>2, <2>4 DEF Added, KeepsPrompt
  <1>3. ASSUME NEW k \in Prompt, Compile(k) PROVE Added
    <2>1. packet[k] = Unmade /\ packet'[k] = now /\ prompts[k].state = "hooks"
          /\ \A j \in 1 .. Len(prompts) : j # k => packet'[j] = packet[j]
      BY <1>3, <1>L DEF TurnsTyped, Compile, Prompt, Waiting
    <2>2. tr' = tr /\ now' = now /\ lost' = lost /\ prompts' = prompts
      BY <1>3 DEF Compile, Session
    <2>3. QED
      BY <1>L, <2>1, <2>2 DEF Added, KeepsPrompt
  <1>4. ASSUME NEW k \in Prompt, DeliverPrompt(k) \/ Block(k) PROVE Added
    <2>1. PICK st \in {"delivered", "blocked"} : prompts' = [prompts EXCEPT ![k].state = st]
      BY <1>4 DEF DeliverPrompt, Block
    <2>2. Len(prompts') = Len(prompts) /\ prompts'[k] = [prompts[k] EXCEPT !.state = st]
          /\ \A j \in 1 .. Len(prompts) : j # k => prompts'[j] = prompts[j]
      BY <1>4, <1>L, <2>1 DEF TurnsTyped, Prompt
    <2>P. prompts[k] \in PromptRecord
      BY <1>4, <1>L, RowTypes DEF Prompt
    <2>3. /\ prompts'[k].text = prompts[k].text /\ prompts'[k].kind = prompts[k].kind
          /\ prompts'[k].asked = prompts[k].asked /\ prompts'[k].at = prompts[k].at /\ prompts'[k].state # "hooks"
      BY <2>1, <2>2, <2>P DEF PromptRecord
    <2>4. now' = now /\ lost' = lost /\ packet' = packet
      BY <1>4 DEF DeliverPrompt, Block, SessionRecords
    <2>5. Len(tr) <= Len(tr') /\ \A i \in 1 .. Len(tr) : tr'[i] = tr[i]
      BY <1>4, <1>L DEF DeliverPrompt, Block, Session, TurnsTyped
    <2>6. ASSUME NEW j \in 1 .. Len(prompts) PROVE KeepsPrompt(j)
      <3>1. CASE j = k
        BY <2>3, <2>4, <3>1 DEF KeepsPrompt
      <3>2. CASE j # k
        BY <2>2, <2>4, <3>2 DEF KeepsPrompt
      <3>3. QED
        BY <3>1, <3>2
    <2>7. QED
      BY <1>L, <2>2, <2>4, <2>5, <2>6 DEF Added, KeepsPrompt
  <1>5. CASE CallTool
    <2>1. Len(tr) <= Len(tr') /\ \A i \in 1 .. Len(tr) : tr'[i] = tr[i]
      BY <1>5, <1>L DEF CallTool, TurnsTyped
    <2>2. prompts' = prompts /\ now' = now /\ lost' = lost /\ packet' = packet
      BY <1>5 DEF CallTool, SessionRecords
    <2>3. QED
      BY <1>L, <2>1, <2>2 DEF Added, KeepsPrompt
  <1>6. CASE TurnEnds \/ StopHook \/ StopLost \/ \E k \in Prompt : Maintain(k) \/ Reconcile(k)
    <2>1. prompts' = prompts /\ now' = now /\ tr' = tr /\ lost' = lost /\ packet' = packet
      BY <1>6 DEF TurnEnds, StopHook, StopLost, Maintain, Reconcile, Session, SessionRecords
    <2>2. QED
      BY <1>L, <2>1 DEF Added, KeepsPrompt
  <1>7. ASSUME NEW k \in Prompt, Lose(k) PROVE Added
    BY <1>7, <1>L DEF Lose, Session, Added, KeepsPrompt
  <1>8. CASE Tick
    BY <1>8, <1>L DEF Tick, Session, SessionRecords, Added, KeepsPrompt
  <1>9. QED
    BY <1>1, <1>2, <1>3, <1>4, <1>5, <1>6, <1>7, <1>8 DEF TurnsNext

\* What a join or a link rests on stays as it was.
LEMMA JoinStays ==
  ASSUME TurnsTyped, TurnsTyped', Told, Added, NEW k \in 1 .. Len(prompts), NEW x \in JoinRecord, JoinOK(k, x)
  PROVE  JoinOK(k, x)'
  <1>L. Len(prompts) \in Nat /\ Len(tr) \in Nat /\ now \in Int /\ now' \in Int /\ Len(tr') \in Nat
    BY DEF TurnsTyped
  <1>X. x.start \in Nat /\ x.end \in Nat /\ x.read \in Nat /\ x.ended \in Nat
    BY DEF JoinRecord
  <1>1. x.read <= Len(tr) /\ x.start \in 1 .. x.read /\ x.end \in x.start + 1 .. x.read + 1
    BY DEF JoinOK
  <1>2. \A i \in 1 .. x.read : i \in 1 .. Len(tr) /\ tr'[i] = tr[i] /\ tr[i].of \in 1 .. Len(prompts)
    BY <1>1, <1>X, <1>L DEF Added, KeepsPrompt, Told
  <1>3. \A i \in 1 .. x.read : /\ KindAt(i)' = KindAt(i) /\ EndsTurn(i)' = EndsTurn(i)
                               /\ prompts'[tr[i].of].text = prompts[tr[i].of].text
    <2> TAKE i \in 1 .. x.read
    <2>1. tr'[i] = tr[i] /\ prompts'[tr[i].of].kind = prompts[tr[i].of].kind
          /\ prompts'[tr[i].of].text = prompts[tr[i].of].text
      BY <1>2 DEF Added, KeepsPrompt
    <2>2. QED
      BY <2>1 DEF KindAt, EndsTurn
  <1>4. prompts'[k].at = prompts[k].at /\ prompts'[k].text = prompts[k].text
        /\ (prompts'[k].state = "hooks" => prompts[k].state = "hooks")
    BY DEF Added, KeepsPrompt, JoinOK
  <1>5. x.start \in 1 .. x.read /\ x.read <= Len(tr') /\ now <= now'
    BY <1>1, <1>X, <1>L DEF Added, KeepsPrompt
  <1>6. Dist(k, x.start)' = Dist(k, x.start)
    BY <1>2, <1>4, <1>5 DEF Dist
  <1>7. \A i \in x.start .. x.end - 1 : i \in 1 .. x.read
    BY <1>1, <1>X
  <1>8. \A i \in x.start + 1 .. x.end - 1 : i \in 1 .. x.read
    BY <1>1, <1>X
  <1>9. prompts'[k].state = "hooks" => x.ended < now'
    BY <1>4, <1>5, <1>L, <1>X DEF JoinOK
  <1>10. QED
    BY <1>1, <1>2, <1>3, <1>4, <1>5, <1>6, <1>7, <1>8, <1>9 DEF JoinOK

LEMMA LinkStays ==
  ASSUME TurnsAssumption, TurnsTyped, TurnsTyped', HooksRan, Added, NEW k \in 1 .. Len(prompts), prompts[k].at # Unmade,
         NEW l \in LinkRecord, LinkOK(k, l)
  PROVE  LinkOK(k, l)'
  <1> SUFFICES ASSUME l.state = "linked"
               PROVE  LinkOK(k, l)'
    BY DEF LinkOK
  <1>L. Len(prompts) \in Nat /\ Len(prompts') \in Nat /\ now \in Int /\ now' \in Int
    BY DEF TurnsTyped
  <1>X. l.packet \in Nat /\ l.until \in Nat
    BY DEF LinkRecord
  <1>1. /\ l.packet \in 1 .. Len(prompts) /\ packet[l.packet] # Unmade
        /\ prompts[k].at - Skew <= packet[l.packet] /\ packet[l.packet] <= l.until
    BY DEF LinkOK
  <1>2. l.packet \in 1 .. Len(prompts') /\ packet'[l.packet] = packet[l.packet] /\ prompts'[k].at = prompts[k].at
        /\ now <= now'
    BY <1>1, <1>L, <1>X DEF Added, KeepsPrompt
  <1>3. prompts'[k].state = "hooks" => l.until < now'
    <2>1. prompts[k].state = "hooks" => l.until < now
      BY DEF LinkOK
    <2>2. prompts'[k].state = "hooks" => prompts[k].state = "hooks"
      BY DEF Added, KeepsPrompt
    <2>3. QED
      BY <1>2, <1>L, <1>X, <2>1, <2>2
  <1>4. l.packet # k => \/ packet'[k] = Unmade \/ k \in lost'
                        \/ packet'[k] > l.until \/ packet'[k] < prompts'[k].at - Skew
    <2> SUFFICES ASSUME l.packet # k
                 PROVE  \/ packet'[k] = Unmade \/ k \in lost'
                        \/ packet'[k] > l.until \/ packet'[k] < prompts'[k].at - Skew
      OBVIOUS
    <2>1. CASE packet'[k] # packet[k]
      <3>1. packet'[k] = now /\ prompts[k].state = "hooks"
        BY <2>1 DEF Added, KeepsPrompt
      <3>2. l.until < now
        BY <3>1 DEF LinkOK
      <3>3. QED
        BY <3>1, <3>2, <1>L, <1>X
    <2>2. CASE packet'[k] = packet[k]
      <3>1. \/ packet[k] = Unmade \/ k \in lost
            \/ packet[k] > l.until \/ packet[k] < prompts[k].at - Skew
        BY DEF LinkOK
      <3>2. lost \subseteq lost'
        BY DEF Added, KeepsPrompt
      <3>3. QED
        BY <2>2, <3>1, <3>2, <1>2
    <2>3. QED
      BY <2>1, <2>2
  <1>5. QED
    BY <1>1, <1>2, <1>3, <1>4 DEF LinkOK

-----------------------------------------------------------------------------
\* What a Stop hook or a pass makes of an episode; without a hit it leaves it.
LEMMA JoinedEither ==
  ASSUME TurnsAssumption, TurnsInv, NEW k \in 1 .. Len(prompts), prompts[k].at # Unmade,
         NEW by \in {"end", "maintain"}, prompts[k].state = "hooks" => by = "maintain" /\ TurnOver(k)
  PROVE  /\ Joined(k, by) \in JoinRecord \cup {Unmade}
         /\ Joined(k, by) # Unmade => JoinOK(k, Joined(k, by)) /\ LinkOK(k, Joined(k, by).link)
  <1>1. CASE Hits(k) = {}
    <2>1. Joined(k, by) = ep[k]
      BY <1>1 DEF Joined
    <2>2. QED
      BY <2>1, RowTypes DEF TurnsInv
  <1>2. CASE Hits(k) # {}
    BY <1>2, JoinedOK
  <1>3. QED
    BY <1>1, <1>2

\* A later look for the packet changes the link alone.
LEMMA RelinkedOK ==
  ASSUME TurnsAssumption, TurnsInv, NEW k \in 1 .. Len(prompts), ep[k] # Unmade
  PROVE  LET x == [ep[k] EXCEPT !.link = Resolve(ep[k].link, k, ep[k].ended)]
         IN  x \in JoinRecord /\ JoinOK(k, x) /\ LinkOK(k, x.link)
  <1> DEFINE new == Resolve(ep[k].link, k, ep[k].ended)
             x == [ep[k] EXCEPT !.link = new]
  <1>1. ep[k] \in JoinRecord /\ JoinOK(k, ep[k]) /\ LinkOK(k, ep[k].link)
    BY RowTypes DEF TurnsInv
  <1>2. ep[k].link \in LinkRecord /\ ep[k].ended \in Nat
    BY <1>1 DEF JoinRecord
  <1>3. prompts[k].at # Unmade /\ (prompts[k].state = "hooks" => ep[k].ended < now)
    BY <1>1 DEF JoinOK
  <1>4. new \in LinkRecord /\ LinkOK(k, new)
    BY <1>1, <1>2, <1>3, ResolveOK DEF TurnsInv
  <1> HIDE DEF new
  <1>5. x \in JoinRecord /\ x.link = new
    BY <1>1, <1>4 DEF JoinRecord
  <1>6. x.read = ep[k].read /\ x.start = ep[k].start /\ x.end = ep[k].end /\ x.ended = ep[k].ended /\ x.clear = ep[k].clear
    BY <1>1 DEF JoinRecord
  <1> HIDE DEF x
  <1>7. JoinOK(k, x)
    BY <1>1, <1>6 DEF JoinOK
  <1>8. QED
    BY <1>4, <1>5, <1>7 DEF x, new

\* Every step leaves joins that are right in the state it was taken in.
LEMMA JoinsMade ==
  ASSUME TurnsAssumption, TurnsInv, TurnsNext
  PROVE  /\ ep' \in Seq(JoinRecord \cup {Unmade}) /\ Len(ep') = Len(prompts')
         /\ \A k \in 1 .. Len(prompts) : ep'[k] # Unmade => JoinOK(k, ep'[k]) /\ LinkOK(k, ep'[k].link)
         /\ \A k \in 1 .. Len(prompts') : k \notin 1 .. Len(prompts) => ep'[k] = Unmade
  <1>L. /\ Len(prompts) \in Nat /\ DOMAIN prompts = 1 .. Len(prompts)
        /\ ep \in Seq(JoinRecord \cup {Unmade}) /\ Len(ep) = Len(prompts) /\ prompts \in Seq(PromptRecord)
    BY DEF TurnsInv, TurnsTyped
  <1>J. \A k \in 1 .. Len(prompts) : ep[k] # Unmade => JoinOK(k, ep[k]) /\ LinkOK(k, ep[k].link)
    BY DEF TurnsInv
  <1>1. ASSUME NEW text \in PromptTexts, NEW kind \in Kinds, Submit(text, kind)
        PROVE  /\ ep' \in Seq(JoinRecord \cup {Unmade}) /\ Len(ep') = Len(prompts')
               /\ \A k \in 1 .. Len(prompts) : ep'[k] = ep[k]
               /\ \A k \in 1 .. Len(prompts') : k \notin 1 .. Len(prompts) => ep'[k] = Unmade
    BY <1>1, <1>L DEF Submit
  <1>2. ASSUME Len(prompts') = Len(prompts), NEW k \in 1 .. Len(prompts), NEW x \in JoinRecord \cup {Unmade},
               x # Unmade => JoinOK(k, x) /\ LinkOK(k, x.link), ep' = [ep EXCEPT ![k] = x]
        PROVE  /\ ep' \in Seq(JoinRecord \cup {Unmade}) /\ Len(ep') = Len(prompts')
               /\ \A j \in 1 .. Len(prompts) : ep'[j] # Unmade => JoinOK(j, ep'[j]) /\ LinkOK(j, ep'[j].link)
    <2>1. ep' \in Seq(JoinRecord \cup {Unmade}) /\ Len(ep') = Len(prompts') /\ ep'[k] = x
          /\ \A j \in 1 .. Len(prompts) : j # k => ep'[j] = ep[j]
      BY <1>2, <1>L
    <2>2. ASSUME NEW j \in 1 .. Len(prompts), ep'[j] # Unmade PROVE JoinOK(j, ep'[j]) /\ LinkOK(j, ep'[j].link)
      BY <1>2, <1>J, <2>1, <2>2
    <2>3. QED
      BY <2>1, <2>2
  <1>3. ASSUME NEW k \in Prompt, Maintain(k)
        PROVE  /\ ep' \in Seq(JoinRecord \cup {Unmade}) /\ Len(ep') = Len(prompts')
               /\ \A j \in 1 .. Len(prompts) : ep'[j] # Unmade => JoinOK(j, ep'[j]) /\ LinkOK(j, ep'[j].link)
               /\ Len(prompts') = Len(prompts)
    <2>1. prompts[k].at # Unmade /\ TurnOver(k) /\ prompts' = prompts
          /\ ep' = [ep EXCEPT ![k] = Joined(k, "maintain")] /\ k \in 1 .. Len(prompts)
      BY <1>3, <1>L DEF Maintain, Prompt
    <2>2. /\ Joined(k, "maintain") \in JoinRecord \cup {Unmade}
          /\ Joined(k, "maintain") # Unmade => JoinOK(k, Joined(k, "maintain")) /\ LinkOK(k, Joined(k, "maintain").link)
      BY <2>1, JoinedEither
    <2>3. QED
      BY <1>2, <2>1, <2>2
  <1>4. ASSUME NEW k \in Prompt, Reconcile(k)
        PROVE  /\ ep' \in Seq(JoinRecord \cup {Unmade}) /\ Len(ep') = Len(prompts')
               /\ \A j \in 1 .. Len(prompts) : ep'[j] # Unmade => JoinOK(j, ep'[j]) /\ LinkOK(j, ep'[j].link)
               /\ Len(prompts') = Len(prompts)
    <2> DEFINE x == [ep[k] EXCEPT !.link = Resolve(ep[k].link, k, ep[k].ended)]
    <2>1. ep[k] # Unmade /\ prompts' = prompts /\ k \in 1 .. Len(prompts) /\ ep' = [ep EXCEPT ![k] = x]
      BY <1>4, <1>L DEF Reconcile, Prompt
    <2>2. x \in JoinRecord /\ JoinOK(k, x) /\ LinkOK(k, x.link)
      BY <2>1, RelinkedOK
    <2> HIDE DEF x
    <2>3. QED
      BY <1>2, <2>1, <2>2
  <1>5. CASE StopHook
    <2>1. prompts' = prompts
      BY <1>5 DEF StopHook
    <2>2. CASE pointer # 0 /\ ep' = [ep EXCEPT ![pointer] = Joined(pointer, "end")]
      <3>1. pointer \in 1 .. Len(prompts) /\ prompts[pointer].at # Unmade
        BY <2>2, <1>L DEF TurnsInv, TurnsTyped, HooksRan
      <3>2. prompts[pointer].state # "hooks"
        BY <1>5, <3>1 DEF StopHook, TurnsInv, HooksRan
      <3>3. /\ Joined(pointer, "end") \in JoinRecord \cup {Unmade}
            /\ Joined(pointer, "end") # Unmade => JoinOK(pointer, Joined(pointer, "end")) /\ LinkOK(pointer, Joined(pointer, "end").link)
        BY <3>1, <3>2, JoinedEither
      <3>4. QED
        BY <1>2, <2>1, <2>2, <3>1, <3>3
    <2>3. CASE ep' = ep
      BY <2>1, <2>3, <1>L, <1>J
    <2>4. QED
      BY <1>5, <2>2, <2>3 DEF StopHook
  <1>6. CASE ep' = ep /\ Len(prompts') = Len(prompts)
    BY <1>6, <1>L, <1>J
  <1>7. ASSUME NEW k \in Prompt, Capture(k) \/ Compile(k) \/ DeliverPrompt(k) \/ Block(k) \/ Lose(k)
        PROVE  ep' = ep /\ Len(prompts') = Len(prompts)
    BY <1>7, <1>L DEF Capture, Compile, DeliverPrompt, Block, Lose, Session, SessionRecords
  <1>8. ASSUME CallTool \/ TurnEnds \/ Tick \/ StopLost PROVE ep' = ep /\ Len(prompts') = Len(prompts)
    BY <1>8 DEF CallTool, TurnEnds, Tick, StopLost, Session, SessionRecords
  <1>9. QED
    BY <1>1, <1>3, <1>4, <1>5, <1>6, <1>7, <1>8, <1>J DEF TurnsNext

-----------------------------------------------------------------------------
LEMMA InitTurnsInv == ASSUME TurnsAssumption PROVE TurnsInit => TurnsInv
  <1> SUFFICES ASSUME TurnsInit PROVE TurnsInv
    OBVIOUS
  <1>1. now = 0 /\ prompts = <<>> /\ tr = <<>> /\ running = 0 /\ pointer = 0 /\ ep = <<>> /\ packet = <<>> /\ lost = {}
    BY DEF TurnsInit
  <1>2. stopDue \in BOOLEAN
    BY Zenon DEF TurnsInit
  <1>3. Len(prompts) = 0 /\ Len(tr) = 0 /\ 1 .. 0 = {} /\ MaxTime \in Nat
    BY <1>1 DEF TurnsAssumption
  <1>4. TurnsTyped
    BY <1>1, <1>2, <1>3 DEF TurnsTyped
  <1>5. QED
    BY <1>1, <1>3, <1>4 DEF TurnsInv, HooksRan, Told

LEMMA StepTyped == ASSUME TurnsAssumption, TurnsInv, TurnsNext PROVE TurnsTyped'
  <1>L. /\ now \in Nat /\ MaxTime \in Nat /\ now <= MaxTime
        /\ prompts \in Seq(PromptRecord) /\ tr \in Seq(Entry)
        /\ running \in 0 .. Len(prompts) /\ stopDue \in BOOLEAN /\ pointer \in 0 .. Len(prompts)
        /\ packet \in Seq(Nat \cup {Unmade}) /\ Len(packet) = Len(prompts) /\ lost \subseteq 1 .. Len(prompts)
        /\ Len(prompts) \in Nat /\ DOMAIN prompts = 1 .. Len(prompts)
    BY DEF TurnsInv, TurnsTyped, TurnsAssumption
  <1>E. ep' \in Seq(JoinRecord \cup {Unmade}) /\ Len(ep') = Len(prompts')
    BY JoinsMade
  <1>P. \A k \in 1 .. Len(prompts) : prompts[k] \in PromptRecord
    BY <1>L
  <1>1. ASSUME NEW text \in PromptTexts, NEW kind \in Kinds, Submit(text, kind) PROVE TurnsTyped'
    <2> DEFINE p == [text |-> text, kind |-> kind, asked |-> now, at |-> Unmade, state |-> "hooks"]
    <2>1. prompts' = Append(prompts, p) /\ packet' = Append(packet, Unmade) /\ now' = now /\ tr' = tr
          /\ running' = running /\ pointer' = pointer /\ lost' = lost
      BY <1>1 DEF Submit, Session
    <2>S. stopDue' \in BOOLEAN
      BY <1>1, <1>L, Zenon DEF Submit, Session
    <2>2. p \in PromptRecord
      BY <1>L DEF PromptRecord
    <2> HIDE DEF p
    <2>3. prompts' \in Seq(PromptRecord) /\ Len(prompts') = Len(prompts) + 1
      BY <2>1, <2>2, <1>L
    <2>4. packet' \in Seq(Nat \cup {Unmade}) /\ Len(packet') = Len(prompts')
      BY <2>1, <2>3, <1>L
    <2>5. QED
      BY <2>1, <2>S, <2>3, <2>4, <1>L, <1>E DEF TurnsTyped
  <1>2. ASSUME NEW k \in Prompt, NEW p \in PromptRecord, prompts' = [prompts EXCEPT ![k] = p]
        PROVE  prompts' \in Seq(PromptRecord) /\ Len(prompts') = Len(prompts)
    BY <1>2, <1>L DEF Prompt
  <1>3. ASSUME NEW k \in Prompt, Capture(k) PROVE TurnsTyped'
    <2> DEFINE p == [prompts[k] EXCEPT !.at = now]
    <2>1. prompts' = [prompts EXCEPT ![k] = p] /\ packet' = packet /\ now' = now /\ tr' = tr
          /\ running' = running /\ pointer' = k /\ lost' = lost
      BY <1>3 DEF Capture, Session
    <2>S. stopDue' \in BOOLEAN
      BY <1>3, <1>L, Zenon DEF Capture, Session
    <2>2. p \in PromptRecord
      BY <1>L, <1>P DEF PromptRecord, Prompt
    <2> HIDE DEF p
    <2>3. prompts' \in Seq(PromptRecord) /\ Len(prompts') = Len(prompts)
      BY <2>1, <2>2, <1>2
    <2>4. k \in 0 .. Len(prompts)
      BY <1>L DEF Prompt
    <2>5. QED
      BY <2>1, <2>S, <2>3, <2>4, <1>L, <1>E DEF TurnsTyped
  <1>4. ASSUME NEW k \in Prompt, DeliverPrompt(k) PROVE TurnsTyped'
    <2> DEFINE p == [prompts[k] EXCEPT !.state = "delivered"]
    <2>1. prompts' = [prompts EXCEPT ![k] = p] /\ packet' = packet /\ now' = now
          /\ pointer' = pointer /\ lost' = lost /\ tr' = Append(tr, [ts |-> now, of |-> k, call |-> FALSE])
          /\ running' = IF running = 0 THEN k ELSE running
      BY <1>4 DEF DeliverPrompt, SessionRecords
    <2>S. stopDue' \in BOOLEAN
      BY <1>4, <1>L, Zenon DEF DeliverPrompt
    <2>2. p \in PromptRecord
      BY <1>L, <1>P DEF PromptRecord, Prompt
    <2> HIDE DEF p
    <2>3. prompts' \in Seq(PromptRecord) /\ Len(prompts') = Len(prompts)
      BY <2>1, <2>2, <1>2
    <2>4. k \in 0 .. Len(prompts) /\ k \in Nat
      BY <1>L DEF Prompt
    <2>5. [ts |-> now, of |-> k, call |-> FALSE] \in Entry
      BY <2>4, <1>L DEF Entry
    <2>6. tr' \in Seq(Entry)
      BY <2>1, <2>5, <1>L
    <2>7. running' \in 0 .. Len(prompts)
      BY <2>1, <2>4, <1>L
    <2>8. QED
      BY <2>1, <2>S, <2>3, <2>6, <2>7, <1>L, <1>E DEF TurnsTyped
  <1>5. ASSUME NEW k \in Prompt, Block(k) PROVE TurnsTyped'
    <2> DEFINE p == [prompts[k] EXCEPT !.state = "blocked"]
    <2>1. prompts' = [prompts EXCEPT ![k] = p] /\ packet' = packet /\ now' = now /\ tr' = tr
          /\ running' = running /\ pointer' = pointer /\ lost' = lost
      BY <1>5 DEF Block, Session, SessionRecords
    <2>S. stopDue' \in BOOLEAN
      BY <1>5, <1>L, Zenon DEF Block, Session
    <2>2. p \in PromptRecord
      BY <1>L, <1>P DEF PromptRecord, Prompt
    <2> HIDE DEF p
    <2>3. prompts' \in Seq(PromptRecord) /\ Len(prompts') = Len(prompts)
      BY <2>1, <2>2, <1>2
    <2>4. QED
      BY <2>1, <2>S, <2>3, <1>L, <1>E DEF TurnsTyped
  <1>6. ASSUME NEW k \in Prompt, Compile(k) \/ Lose(k) PROVE TurnsTyped'
    <2>1. prompts' = prompts /\ now' = now /\ tr' = tr /\ running' = running /\ pointer' = pointer
      BY <1>6 DEF Compile, Lose, Session
    <2>S. stopDue' \in BOOLEAN
      BY <1>6, <1>L, Zenon DEF Compile, Lose, Session
    <2>2. packet' \in Seq(Nat \cup {Unmade}) /\ Len(packet') = Len(packet)
      <3>1. packet' = packet \/ packet' = [packet EXCEPT ![k] = now]
        BY <1>6 DEF Compile, Lose
      <3>2. now \in Nat \cup {Unmade}
        BY <1>L
      <3>3. QED
        BY <1>L, <3>1, <3>2 DEF Prompt
    <2>3. lost' \subseteq 1 .. Len(prompts)
      BY <1>6, <1>L DEF Compile, Lose, Prompt
    <2>4. QED
      BY <2>1, <2>S, <2>2, <2>3, <1>L, <1>E DEF TurnsTyped
  <1>7. CASE CallTool
    <2>1. prompts' = prompts /\ now' = now /\ running' = running /\ pointer' = pointer
          /\ packet' = packet /\ lost' = lost /\ tr' = Append(tr, [ts |-> now, of |-> running, call |-> TRUE])
      BY <1>7 DEF CallTool, SessionRecords
    <2>S. stopDue' \in BOOLEAN
      BY <1>7, <1>L, Zenon DEF CallTool
    <2>2. [ts |-> now, of |-> running, call |-> TRUE] \in Entry
      BY <1>L DEF Entry
    <2>3. tr' \in Seq(Entry)
      BY <2>1, <2>2, <1>L
    <2>4. QED
      BY <2>1, <2>S, <2>3, <1>L, <1>E DEF TurnsTyped
  <1>8. CASE Tick
    <2>1. prompts' = prompts /\ now' \in 0 .. MaxTime /\ tr' = tr /\ running' = running /\ pointer' = pointer
          /\ packet' = packet /\ lost' = lost
      BY <1>8, <1>L DEF Tick, Session, SessionRecords
    <2>S. stopDue' \in BOOLEAN
      BY <1>8, <1>L, Zenon DEF Tick, Session
    <2>2. QED
      BY <2>1, <2>S, <1>L, <1>E DEF TurnsTyped
  <1>9. CASE TurnEnds \/ StopHook \/ StopLost
    <2>1. prompts' = prompts /\ now' = now /\ tr' = tr /\ packet' = packet /\ lost' = lost
      BY <1>9 DEF TurnEnds, StopHook, StopLost, SessionRecords
    <2>S. stopDue' \in BOOLEAN
      BY <1>9, Zenon DEF TurnEnds, StopHook, StopLost
    <2>2. running' \in 0 .. Len(prompts) /\ pointer' \in 0 .. Len(prompts)
      BY <1>9, <1>L DEF TurnEnds, StopHook, StopLost, SessionRecords
    <2>3. QED
      BY <2>1, <2>S, <2>2, <1>L, <1>E DEF TurnsTyped
  <1>10. ASSUME NEW k \in Prompt, Maintain(k) \/ Reconcile(k) PROVE TurnsTyped'
    <2>1. prompts' = prompts /\ now' = now /\ tr' = tr /\ packet' = packet /\ lost' = lost
          /\ running' = running /\ pointer' = pointer
      BY <1>10 DEF Maintain, Reconcile, Session
    <2>S. stopDue' \in BOOLEAN
      BY <1>10, <1>L, Zenon DEF Maintain, Reconcile, Session
    <2>2. QED
      BY <2>1, <2>S, <1>L, <1>E DEF TurnsTyped
  <1>11. QED
    BY <1>1, <1>3, <1>4, <1>5, <1>6, <1>7, <1>8, <1>9, <1>10 DEF TurnsNext

LEMMA StepHooks == ASSUME TurnsAssumption, TurnsInv, TurnsNext PROVE HooksRan'
  <1>L. /\ now \in Nat /\ Delay \in Nat /\ Unmade \notin Nat
        /\ prompts \in Seq(PromptRecord) /\ packet \in Seq(Nat \cup {Unmade}) /\ Len(packet) = Len(prompts)
        /\ Len(prompts) \in Nat /\ DOMAIN prompts = 1 .. Len(prompts)
        /\ running \in 0 .. Len(prompts) /\ pointer \in 0 .. Len(prompts)
    BY DEF TurnsInv, TurnsTyped, TurnsAssumption
  <1>P. \A k \in 1 .. Len(prompts) : prompts[k] \in PromptRecord /\ prompts[k].asked \in Nat
    BY RowTypes DEF TurnsInv
  <1>H. HooksRan
    BY DEF TurnsInv
  <1>W. Waiting = {k \in 1 .. Len(prompts) : prompts[k].state = "hooks"}
    BY <1>L DEF Waiting, Prompt
  <1>1. ASSUME NEW text \in PromptTexts, NEW kind \in Kinds, Submit(text, kind) PROVE HooksRan'
    <2> DEFINE n == Len(prompts) + 1
               p == [text |-> text, kind |-> kind, asked |-> now, at |-> Unmade, state |-> "hooks"]
    <2>1. prompts' = Append(prompts, p) /\ packet' = Append(packet, Unmade) /\ now' = now
          /\ stopDue' = stopDue /\ pointer' = pointer /\ Waiting = {} /\ ~ stopDue
      BY <1>1 DEF Submit, Session
    <2>2. p.asked = now /\ p.at = Unmade /\ p.state = "hooks"
      OBVIOUS
    <2> HIDE DEF p
    <2>3. /\ Len(prompts') = n /\ prompts'[n] = p /\ packet'[n] = Unmade
          /\ \A k \in 1 .. Len(prompts) : prompts'[k] = prompts[k] /\ packet'[k] = packet[k]
      BY <2>1, <1>L
    <2>4. \A k \in 1 .. n : k = n \/ (k \in 1 .. Len(prompts) /\ k < n)
      BY <1>L
    <2>5. ASSUME NEW k \in 1 .. n
          PROVE  /\ prompts'[k].asked <= now'
                 /\ prompts'[k].at # Unmade => prompts'[k].asked <= prompts'[k].at /\ prompts'[k].at <= now'
                 /\ packet'[k] # Unmade => prompts'[k].asked <= packet'[k] /\ packet'[k] <= now'
                 /\ prompts'[k].state = "hooks" => k = n /\ ~ stopDue' /\ now' <= prompts'[k].asked + Delay
      <3>1. CASE k = n
        BY <3>1, <2>1, <2>2, <2>3, <1>L
      <3>2. CASE k \in 1 .. Len(prompts)
        <4>1. prompts[k].state # "hooks"
          BY <3>2, <2>1, <1>W
        <4>2. QED
          BY <3>2, <4>1, <2>1, <2>3, <1>H DEF HooksRan
      <3>3. QED
        BY <3>1, <3>2, <2>4
    <2>6. ASSUME NEW j \in 1 .. n, NEW k \in 1 .. n, j < k, prompts'[j].at # Unmade
          PROVE  prompts'[j].at <= prompts'[k].asked
      <3>1. j \in 1 .. Len(prompts) /\ prompts'[j] = prompts[j]
        BY <2>3, <2>6, <1>L
      <3>2. CASE k = n
        <4>1. prompts[j].at <= now
          BY <3>1, <2>6, <1>H DEF HooksRan
        <4>2. QED
          BY <3>1, <3>2, <4>1, <2>2, <2>3
      <3>3. CASE k \in 1 .. Len(prompts)
        BY <3>1, <3>3, <2>3, <2>6, <1>H DEF HooksRan
      <3>4. QED
        BY <3>2, <3>3, <2>4
    <2>7. pointer' # 0 => prompts'[pointer'].at # Unmade
      BY <2>1, <2>3, <1>L, <1>H DEF HooksRan
    <2> HIDE DEF n
    <2>8. QED
      BY <2>3, <2>5, <2>6, <2>7 DEF HooksRan
  <1>2. ASSUME NEW k \in Prompt, Capture(k) PROVE HooksRan'
    <2>1. k \in 1 .. Len(prompts) /\ prompts[k].state = "hooks" /\ prompts[k].at = Unmade
          /\ prompts' = [prompts EXCEPT ![k].at = now] /\ pointer' = k
          /\ now' = now /\ stopDue' = stopDue /\ packet' = packet
      BY <1>2, <1>L, <1>W DEF Capture, Session
    <2>2. /\ Len(prompts') = Len(prompts) /\ prompts'[k] = [prompts[k] EXCEPT !.at = now]
          /\ \A j \in 1 .. Len(prompts) : j # k => prompts'[j] = prompts[j]
      BY <2>1, <1>L
    <2>3. prompts'[k].at = now /\ prompts'[k].asked = prompts[k].asked /\ prompts'[k].state = prompts[k].state
      BY <2>1, <2>2, <1>P DEF PromptRecord
    <2>4. k = Len(prompts)
      BY <2>1, <1>H DEF HooksRan
    <2>5. ASSUME NEW j \in 1 .. Len(prompts)
          PROVE  /\ prompts'[j].asked <= now'
                 /\ prompts'[j].at # Unmade => prompts'[j].asked <= prompts'[j].at /\ prompts'[j].at <= now'
                 /\ packet'[j] # Unmade => prompts'[j].asked <= packet'[j] /\ packet'[j] <= now'
                 /\ prompts'[j].state = "hooks" => j = Len(prompts') /\ ~ stopDue' /\ now' <= prompts'[j].asked + Delay
      <3>1. CASE j = k
        <4>1. now <= now
          BY <1>L
        <4>2. QED
          BY <3>1, <4>1, <2>1, <2>2, <2>3, <1>H DEF HooksRan
      <3>2. CASE j # k
        BY <3>2, <2>1, <2>2, <1>H DEF HooksRan
      <3>3. QED
        BY <3>1, <3>2
    <2>6. ASSUME NEW i \in 1 .. Len(prompts), NEW j \in 1 .. Len(prompts), i < j, prompts'[i].at # Unmade
          PROVE  prompts'[i].at <= prompts'[j].asked
      <3>1. i # k
        <4>1. \A m \in Nat : \A a, b \in 1 .. m : a < b => a # m
          OBVIOUS
        <4>2. QED
          BY <4>1, <2>4, <2>6, <1>L
      <3>2. prompts'[i] = prompts[i] /\ prompts'[j].asked = prompts[j].asked
        BY <3>1, <2>2, <2>3
      <3>3. QED
        BY <3>2, <2>6, <1>H DEF HooksRan
    <2>7. pointer' # 0 => prompts'[pointer'].at # Unmade
      BY <2>1, <2>3, <1>L
    <2>8. QED
      BY <2>2, <2>5, <2>6, <2>7 DEF HooksRan
  <1>3. ASSUME NEW k \in Prompt, Compile(k) PROVE HooksRan'
    <2>1. k \in 1 .. Len(prompts) /\ packet' = [packet EXCEPT ![k] = now]
          /\ now' = now /\ stopDue' = stopDue /\ prompts' = prompts /\ pointer' = pointer
      BY <1>3, <1>L, <1>W DEF Compile, Session
    <2>2. packet'[k] = now /\ \A j \in 1 .. Len(prompts) : j # k => packet'[j] = packet[j]
      BY <2>1, <1>L
    <2>3. ASSUME NEW j \in 1 .. Len(prompts), packet'[j] # Unmade
          PROVE  prompts[j].asked <= packet'[j] /\ packet'[j] <= now
      <3>1. CASE j = k
        <4>1. now <= now
          BY <1>L
        <4>2. QED
          BY <3>1, <4>1, <2>2, <1>H DEF HooksRan
      <3>2. CASE j # k
        BY <3>2, <2>2, <2>3, <1>H DEF HooksRan
      <3>3. QED
        BY <3>1, <3>2
    <2>4. QED
      BY <2>1, <2>3, <1>H DEF HooksRan
  <1>4. ASSUME NEW k \in Prompt, DeliverPrompt(k) \/ Block(k) PROVE HooksRan'
    <2>1. PICK st \in {"delivered", "blocked"} : prompts' = [prompts EXCEPT ![k].state = st]
      BY <1>4 DEF DeliverPrompt, Block
    <2>2. now' = now /\ stopDue' = stopDue /\ pointer' = pointer /\ packet' = packet
      BY <1>4 DEF DeliverPrompt, Block, Session, SessionRecords
    <2>3. /\ Len(prompts') = Len(prompts) /\ prompts'[k] = [prompts[k] EXCEPT !.state = st]
          /\ \A j \in 1 .. Len(prompts) : j # k => prompts'[j] = prompts[j]
      BY <2>1, <1>L DEF Prompt
    <2>4. prompts'[k].at = prompts[k].at /\ prompts'[k].asked = prompts[k].asked /\ prompts'[k].state # "hooks"
      BY <2>1, <2>3, <1>L, <1>P DEF PromptRecord, Prompt
    <2>5. \A j \in 1 .. Len(prompts) : /\ prompts'[j].at = prompts[j].at /\ prompts'[j].asked = prompts[j].asked
                                       /\ prompts'[j].state = "hooks" => prompts[j].state = "hooks"
      BY <2>3, <2>4
    <2>6. QED
      BY <2>2, <2>3, <2>5, <1>L, <1>H DEF HooksRan
  <1>5. CASE TurnEnds
    <2>1. prompts' = prompts /\ now' = now /\ packet' = packet /\ pointer' = pointer /\ Waiting = {}
      BY <1>5 DEF TurnEnds, SessionRecords
    <2>2. \A k \in 1 .. Len(prompts) : prompts[k].state # "hooks"
      BY <2>1, <1>W
    <2>3. QED
      BY <2>1, <2>2, <1>H DEF HooksRan
  <1>6. CASE Tick
    <2>1. prompts' = prompts /\ now' = now + 1 /\ packet' = packet /\ pointer' = pointer /\ stopDue' = stopDue
          /\ \A k \in Waiting : now - prompts[k].asked < Delay
      BY <1>6 DEF Tick, Session, SessionRecords
    <2>2. ASSUME NEW k \in 1 .. Len(prompts)
          PROVE  /\ prompts[k].asked <= now'
                 /\ prompts[k].at # Unmade => prompts[k].asked <= prompts[k].at /\ prompts[k].at <= now'
                 /\ packet[k] # Unmade => prompts[k].asked <= packet[k] /\ packet[k] <= now'
                 /\ prompts[k].state = "hooks" => k = Len(prompts) /\ ~ stopDue /\ now' <= prompts[k].asked + Delay
      <3>1. prompts[k].asked \in Nat /\ prompts[k].at \in Nat \cup {Unmade} /\ packet[k] \in Nat \cup {Unmade}
        BY RowTypes DEF TurnsInv
      <3>2. prompts[k].state = "hooks" => now - prompts[k].asked < Delay
        BY <2>1, <1>W
      <3>3. /\ prompts[k].asked <= now
            /\ prompts[k].at # Unmade => prompts[k].asked <= prompts[k].at /\ prompts[k].at <= now
            /\ packet[k] # Unmade => prompts[k].asked <= packet[k] /\ packet[k] <= now
            /\ prompts[k].state = "hooks" => k = Len(prompts) /\ ~ stopDue
        BY <1>H DEF HooksRan
      <3>4. QED
        BY <2>1, <3>1, <3>2, <3>3, <1>L
    <2>3. QED
      BY <2>1, <2>2, <1>H DEF HooksRan
  <1>7. CASE CallTool \/ StopHook \/ StopLost \/ \E k \in Prompt : Lose(k) \/ Maintain(k) \/ Reconcile(k)
    <2>1. prompts' = prompts /\ now' = now /\ packet' = packet
      BY <1>7 DEF CallTool, StopHook, StopLost, Lose, Maintain, Reconcile, Session, SessionRecords
    <2>2. pointer' \in {pointer, 0} /\ (~ stopDue => ~ stopDue')
      BY <1>7 DEF CallTool, StopHook, StopLost, Lose, Maintain, Reconcile, Session, SessionRecords
    <2>3. QED
      BY <2>1, <2>2, <1>H DEF HooksRan
  <1>8. QED
    BY <1>1, <1>2, <1>3, <1>4, <1>5, <1>6, <1>7 DEF TurnsNext

\* What has been delivered is past its hooks.
LEMMA DeliveredStays ==
  ASSUME TurnsTyped, TurnsNext, NEW k \in 1 .. Len(prompts), prompts[k].state = "delivered"
  PROVE  prompts'[k] = prompts[k]
  <1>L. Len(prompts) \in Nat /\ DOMAIN prompts = 1 .. Len(prompts) /\ prompts \in Seq(PromptRecord)
    BY DEF TurnsTyped
  <1>1. ASSUME NEW text \in PromptTexts, NEW kind \in Kinds, Submit(text, kind) PROVE prompts'[k] = prompts[k]
    BY <1>1, <1>L DEF Submit
  <1>2. ASSUME NEW j \in Prompt, Capture(j) \/ DeliverPrompt(j) \/ Block(j) PROVE prompts'[k] = prompts[k]
    <2>1. j # k
      BY <1>2 DEF Capture, DeliverPrompt, Block, Waiting
    <2>2. QED
      BY <1>2, <2>1, <1>L DEF Capture, DeliverPrompt, Block
  <1>3. ASSUME NEW j \in Prompt, Compile(j) \/ Lose(j) \/ Maintain(j) \/ Reconcile(j) PROVE prompts'[k] = prompts[k]
    BY <1>3 DEF Compile, Lose, Maintain, Reconcile
  <1>4. CASE CallTool \/ TurnEnds \/ Tick \/ StopHook \/ StopLost
    BY <1>4 DEF CallTool, TurnEnds, Tick, StopHook, StopLost
  <1>5. QED
    BY <1>1, <1>2, <1>3, <1>4 DEF TurnsNext

LEMMA StepTold == ASSUME TurnsAssumption, TurnsInv, TurnsNext PROVE Told'
  <1>L. /\ now \in Nat /\ now' \in Int /\ Delay \in Nat /\ tr \in Seq(Entry)
        /\ Len(prompts) \in Nat /\ Len(prompts') \in Nat /\ DOMAIN prompts = 1 .. Len(prompts) /\ Len(tr) \in Nat
        /\ running \in 0 .. Len(prompts)
    BY StepTyped DEF TurnsInv, TurnsTyped, TurnsAssumption
  <1>A. Added
    BY NothingTakenBack DEF TurnsInv
  <1>T. \A i \in 1 .. Len(tr) : tr[i].ts \in Nat
    BY RowTypes DEF TurnsInv
  <1>1. ASSUME NEW i \in 1 .. Len(tr)
        PROVE  /\ tr'[i] = tr[i]
               /\ tr'[i].of \in 1 .. Len(prompts') /\ tr'[i].ts <= now'
               /\ ~ tr'[i].call => /\ prompts'[tr'[i].of].state = "delivered"
                                   /\ prompts'[tr'[i].of].at # Unmade =>
                                         /\ prompts'[tr'[i].of].at <= tr'[i].ts
                                         /\ tr'[i].ts <= prompts'[tr'[i].of].at + Delay
    <2>1. tr'[i] = tr[i] /\ now <= now' /\ Len(prompts) <= Len(prompts')
      BY <1>A DEF Added
    <2>2. tr[i].of \in 1 .. Len(prompts) /\ tr[i].ts <= now
      BY DEF TurnsInv, Told
    <2>3. ~ tr[i].call => /\ prompts[tr[i].of].state = "delivered"
                          /\ prompts[tr[i].of].at # Unmade => /\ prompts[tr[i].of].at <= tr[i].ts
                                                              /\ tr[i].ts <= prompts[tr[i].of].at + Delay
      BY DEF TurnsInv, Told
    <2>4. ~ tr[i].call => prompts'[tr[i].of] = prompts[tr[i].of]
      BY <2>2, <2>3, DeliveredStays DEF TurnsInv
    <2>5. tr[i].of \in 1 .. Len(prompts') /\ tr[i].ts <= now'
      BY <2>1, <2>2, <1>L, <1>T
    <2>6. QED
      BY <2>1, <2>3, <2>4, <2>5
  <1>2. ASSUME Len(tr') = Len(tr) PROVE Told'
    <2>1. \A i, j \in 1 .. Len(tr) : i < j => tr'[i].ts <= tr'[j].ts
      BY <1>1 DEF TurnsInv, Told
    <2>2. QED
      BY <1>1, <1>2, <2>1 DEF Told
  <1>3. ASSUME NEW x \in Entry, tr' = Append(tr, x), now' = now, x.ts = now, x.of \in 1 .. Len(prompts'),
               ~ x.call => /\ prompts'[x.of].state = "delivered"
                           /\ prompts'[x.of].at # Unmade => /\ prompts'[x.of].at <= x.ts
                                                            /\ x.ts <= prompts'[x.of].at + Delay
        PROVE  Told'
    <2> DEFINE n == Len(tr) + 1
    <2>1. Len(tr') = n /\ tr'[n] = x
      BY <1>3, <1>L
    <2>2. \A i \in 1 .. n : i = n \/ (i \in 1 .. Len(tr) /\ i < n)
      BY <1>L
    <2>3. ASSUME NEW i \in 1 .. n
          PROVE  /\ tr'[i].of \in 1 .. Len(prompts') /\ tr'[i].ts <= now'
                 /\ ~ tr'[i].call => /\ prompts'[tr'[i].of].state = "delivered"
                                     /\ prompts'[tr'[i].of].at # Unmade =>
                                           /\ prompts'[tr'[i].of].at <= tr'[i].ts
                                           /\ tr'[i].ts <= prompts'[tr'[i].of].at + Delay
      <3>1. CASE i = n
        <4>1. now <= now
          BY <1>L
        <4>2. QED
          BY <3>1, <4>1, <1>3, <2>1
      <3>2. CASE i \in 1 .. Len(tr)
        BY <3>2, <1>1
      <3>3. QED
        BY <3>1, <3>2, <2>2
    <2>4. ASSUME NEW i \in 1 .. n, NEW j \in 1 .. n, i < j PROVE tr'[i].ts <= tr'[j].ts
      <3>1. i \in 1 .. Len(tr)
        BY <2>4, <1>L
      <3>2. tr'[i] = tr[i] /\ tr[i].ts <= now
        BY <3>1, <1>1 DEF TurnsInv, Told
      <3>3. CASE j = n
        BY <3>2, <3>3, <1>3, <2>1
      <3>4. CASE j \in 1 .. Len(tr)
        BY <3>1, <3>4, <1>1, <2>4 DEF TurnsInv, Told
      <3>5. QED
        BY <3>3, <3>4, <2>2
    <2> HIDE DEF n
    <2>5. QED
      BY <2>1, <2>3, <2>4 DEF Told
  <1>4. ASSUME NEW k \in Prompt, DeliverPrompt(k) PROVE Told'
    <2> DEFINE x == [ts |-> now, of |-> k, call |-> FALSE]
    <2>1. k \in 1 .. Len(prompts) /\ prompts[k].state = "hooks" /\ now' = now /\ tr' = Append(tr, x)
          /\ prompts' = [prompts EXCEPT ![k].state = "delivered"]
      BY <1>4, <1>L DEF DeliverPrompt, SessionRecords, Waiting, Prompt
    <2>2. prompts[k] \in PromptRecord /\ prompts[k].asked \in Nat /\ prompts[k].at \in Nat \cup {Unmade}
      BY <2>1, RowTypes DEF TurnsInv
    <2>3. Len(prompts') = Len(prompts) /\ prompts'[k].state = "delivered" /\ prompts'[k].at = prompts[k].at
      BY <2>1, <2>2, <1>L DEF PromptRecord, TurnsInv, TurnsTyped
    <2>4. now <= prompts[k].asked + Delay /\ (prompts[k].at # Unmade => prompts[k].asked <= prompts[k].at /\ prompts[k].at <= now)
      BY <2>1 DEF TurnsInv, HooksRan
    <2>5. prompts[k].at # Unmade => prompts[k].at <= now /\ now <= prompts[k].at + Delay
      BY <2>2, <2>4, <1>L
    <2>6. x \in Entry /\ x.ts = now /\ x.of = k
      BY <1>L, <2>1 DEF Entry
    <2> HIDE DEF x
    <2>7. QED
      BY <1>3, <2>1, <2>3, <2>5, <2>6
  <1>5. CASE CallTool
    <2> DEFINE x == [ts |-> now, of |-> running, call |-> TRUE]
    <2>1. running # 0 /\ now' = now /\ tr' = Append(tr, x) /\ prompts' = prompts
      BY <1>5 DEF CallTool, SessionRecords
    <2>2. x \in Entry /\ x.ts = now /\ x.of \in 1 .. Len(prompts) /\ x.call
      BY <1>L, <2>1 DEF Entry
    <2> HIDE DEF x
    <2>3. QED
      BY <1>3, <2>1, <2>2
  <1>6. ASSUME NEW text \in PromptTexts, NEW kind \in Kinds, Submit(text, kind) PROVE Told'
    BY <1>2, <1>6 DEF Submit, Session
  <1>7. ASSUME NEW k \in Prompt, Capture(k) \/ Compile(k) \/ Block(k) \/ Lose(k) \/ Maintain(k) \/ Reconcile(k) PROVE Told'
    <2>1. tr' = tr
      BY <1>7 DEF Capture, Compile, Block, Lose, Maintain, Reconcile, Session
    <2>2. QED
      BY <1>2, <2>1
  <1>8. CASE TurnEnds \/ Tick \/ StopHook \/ StopLost
    <2>1. tr' = tr
      BY <1>8 DEF TurnEnds, Tick, StopHook, StopLost, Session
    <2>2. QED
      BY <1>2, <2>1
  <1>9. QED
    BY <1>4, <1>5, <1>6, <1>7, <1>8 DEF TurnsNext

-----------------------------------------------------------------------------
LEMMA StepTurnsInv == ASSUME TurnsAssumption PROVE TurnsInv /\ [TurnsNext]_turnsVars => TurnsInv'
  <1> SUFFICES ASSUME TurnsInv, [TurnsNext]_turnsVars PROVE TurnsInv'
    OBVIOUS
  <1>1. CASE TurnsNext
    <2>1. TurnsTyped' /\ HooksRan' /\ Told' /\ Added
      BY <1>1, StepTyped, StepHooks, StepTold, NothingTakenBack DEF TurnsInv
    <2>2. ASSUME NEW k \in 1 .. Len(prompts'), ep'[k] # Unmade
          PROVE  JoinOK(k, ep[k])' /\ LinkOK(k, ep[k].link)'
      <3>1. k \in 1 .. Len(prompts) /\ JoinOK(k, ep'[k]) /\ LinkOK(k, ep'[k].link)
        BY <1>1, <2>2, JoinsMade
      <3>2. PICK x : x = ep'[k]
        OBVIOUS
      <3>3. x \in JoinRecord
        BY <2>1, <2>2, <3>2 DEF TurnsTyped
      <3>4. x.link \in LinkRecord
        BY <3>3 DEF JoinRecord
      <3>5. JoinOK(k, x) /\ LinkOK(k, x.link)
        BY <3>1, <3>2
      <3>6. JoinOK(k, x)'
        BY <3>1, <3>3, <3>5, <2>1, JoinStays DEF TurnsInv
      <3>7. LinkOK(k, x.link)'
        <4>1. prompts[k].at # Unmade
          BY <3>5 DEF JoinOK
        <4>2. QED
          BY <3>1, <3>4, <3>5, <4>1, <2>1, LinkStays DEF TurnsInv
      <3>8. JoinOK(k, ep[k])'
        BY <3>2, <3>6 DEF JoinOK, Dist, KindAt, EndsTurn
      <3>9. LinkOK(k, ep[k].link)'
        BY <3>2, <3>7 DEF LinkOK
      <3>10. QED
        BY <3>8, <3>9
    <2>3. QED
      BY <2>1, <2>2 DEF TurnsInv
  <1>2. CASE UNCHANGED turnsVars
    <2>1. TurnsTyped' /\ HooksRan' /\ Told'
      BY <1>2 DEF turnsVars, TurnsInv, TurnsTyped, HooksRan, Told
    <2>2. ASSUME NEW k \in 1 .. Len(prompts) PROVE JoinOK(k, ep[k])' = JoinOK(k, ep[k])
      BY <1>2 DEF turnsVars, JoinOK, Dist, KindAt, EndsTurn
    <2>3. ASSUME NEW k \in 1 .. Len(prompts) PROVE LinkOK(k, ep[k].link)' = LinkOK(k, ep[k].link)
      BY <1>2 DEF turnsVars, LinkOK
    <2>4. prompts' = prompts /\ ep' = ep
      BY <1>2 DEF turnsVars
    <2>5. QED
      BY <2>1, <2>2, <2>3, <2>4 DEF TurnsInv
  <1>3. QED
    BY <1>1, <1>2

\* The types of the session, its transcript and its joins are kept.
THEOREM TurnsTypeCorrect == ASSUME TurnsAssumption PROVE TurnsSpec => []TurnsTypeOK
  <1>1. TurnsInv => TurnsTypeOK
    <2> SUFFICES ASSUME TurnsInv PROVE TurnsTypeOK
      OBVIOUS
    <2>1. \A k \in Prompt : prompts[k].kind \in Kinds /\ prompts[k].state \in {"hooks", "delivered", "blocked"}
      BY RowTypes DEF TurnsInv, PromptRecord, Prompt
    <2>2. \A i \in DOMAIN tr : tr[i].of \in Prompt /\ tr[i].ts \in 0 .. now
      <3> TAKE i \in DOMAIN tr
      <3>1. i \in 1 .. Len(tr) /\ tr[i].ts \in Nat /\ DOMAIN prompts = 1 .. Len(prompts) /\ now \in Int
        BY RowTypes DEF TurnsInv, TurnsTyped
      <3>2. QED
        BY <3>1 DEF TurnsInv, Told, Prompt
    <2>3. QED
      BY <2>1, <2>2, RowTypes DEF TurnsInv, TurnsTyped, TurnsTypeOK, Prompt
  <1>2. QED
    BY <1>1, InitTurnsInv, StepTurnsInv, PTL DEF TurnsSpec

\* Two windows that share an entry begin with one delivery: in the later of
\* two starts a turn begins, or a queued prompt speaks.
LEMMA Apart ==
  ASSUME TurnsInv, NEW j \in 1 .. Len(prompts), NEW k \in 1 .. Len(prompts), ep[j] # Unmade, ep[k] # Unmade,
         ep[j].clear, KindAt(ep[k].start) # "notice", ep[j].start # ep[k].start
  PROVE  Span(j) \cap Span(k) = {}
  <1> SUFFICES ASSUME NEW i \in Span(j) \cap Span(k)
               PROVE  FALSE
    OBVIOUS
  <1>1. JoinOK(j, ep[j]) /\ JoinOK(k, ep[k])
    BY DEF TurnsInv
  <1>2. ep[j] \in JoinRecord /\ ep[k] \in JoinRecord
    BY RowTypes DEF TurnsInv
  <1> DEFINE s == ep[j].start
             t == ep[k].start
  <1>3. /\ s \in Nat /\ t \in Nat /\ ep[j].end \in Nat /\ ep[k].end \in Nat
        /\ i \in Int /\ s <= i /\ t <= i /\ i < ep[j].end /\ i < ep[k].end /\ s # t
    BY <1>2 DEF JoinRecord, Span
  <1>4. ~ tr[s].call /\ ~ tr[t].call /\ KindAt(s) # "notice" /\ KindAt(t) # "notice"
    BY <1>1 DEF JoinOK
  <1>5. s \in 1 .. Len(tr) /\ t \in 1 .. Len(tr)
    <2>1. /\ ep[j].read \in Nat /\ ep[k].read \in Nat /\ Len(tr) \in Nat
          /\ ep[j].read <= Len(tr) /\ ep[k].read <= Len(tr)
          /\ s \in 1 .. ep[j].read /\ t \in 1 .. ep[k].read
      BY <1>1, <1>2, RowTypes DEF JoinOK, JoinRecord, TurnsInv
    <2>2. QED
      BY <2>1
  <1>6. KindAt(s) \in Kinds /\ KindAt(t) \in Kinds
    <2>1. \A e \in 1 .. Len(tr) : KindAt(e) \in Kinds
      BY RowTypes DEF TurnsInv, Told, KindAt, PromptRecord
    <2>2. QED
      BY <1>5, <2>1
  <1>7. KindAt(s) # "queued"
    <2>1. s \in s .. ep[j].end - 1
      BY <1>3
    <2>2. QED
      BY <1>1, <1>4, <2>1 DEF JoinOK
  <1>8. EndsTurn(s)
    BY <1>4, <1>6, <1>7 DEF EndsTurn, Kinds
  <1>9. CASE t < s
    <2>1. s \in t + 1 .. ep[k].end - 1
      BY <1>3, <1>9
    <2>2. QED
      BY <1>1, <1>8, <2>1 DEF JoinOK
  <1>10. CASE s < t
    <2>1. t \in s + 1 .. ep[j].end - 1 /\ t \in s .. ep[j].end - 1
      BY <1>3, <1>10
    <2>2. KindAt(t) # "queued" /\ ~ EndsTurn(t)
      BY <1>1, <1>4, <2>1 DEF JoinOK
    <2>3. QED
      BY <1>4, <1>6, <2>2 DEF EndsTurn, Kinds
  <1>11. QED
    BY <1>3, <1>9, <1>10

\* Whenever Stop hooks and passes join, an episode is joined to its own
\* prompt's delivery where it was read, and judged by that turn alone.
THEOREM JoinedRight == ASSUME TurnsAssumption PROVE TurnsSpec => []JoinedToOwn
  <1>1. TurnsInv => JoinedToOwn
    <2> SUFFICES ASSUME TurnsInv PROVE JoinedToOwn
      OBVIOUS
    <2>1. Joins = {k \in 1 .. Len(prompts) : ep[k] # Unmade}
      BY RowTypes DEF Joins, Prompt, TurnsInv
    <2>2. OwnDelivery
      BY <2>1 DEF OwnDelivery, TurnsInv, JoinOK
    <2>3. OwnWindow
      BY <2>1, Apart DEF OwnWindow
    <2>4. QED
      BY <2>2, <2>3 DEF JoinedToOwn
  <1>2. QED
    BY <1>1, InitTurnsInv, StepTurnsInv, PTL DEF TurnsSpec

\* Whenever packets are made and lost and links are looked for again, an
\* episode is linked to another prompt's packet only without one of its own
\* in the bounds, and to none of a prompt typed after its turn.
THEOREM LinkedRight == ASSUME TurnsAssumption PROVE TurnsSpec => []LinkOfThisTurn
  <1>1. TurnsInv => LinkOfThisTurn
    <2> SUFFICES ASSUME TurnsInv, NEW k \in 1 .. Len(prompts), ep[k] # Unmade,
                        ep[k].link.state = "linked", ep[k].link.packet # k
                 PROVE  LET j == ep[k].link.packet
                            until == ep[k].link.until
                        IN  /\ packet[k] = Unmade \/ k \in lost \/ packet[k] > until \/ packet[k] < prompts[k].at - Skew
                            /\ IF j < k THEN prompts[k].at - packet[j] <= Skew ELSE prompts[j].asked <= until
      BY RowTypes DEF LinkOfThisTurn, Joins, Prompt, TurnsInv
    <2> DEFINE j == ep[k].link.packet
               until == ep[k].link.until
    <2>1. JoinOK(k, ep[k]) /\ LinkOK(k, ep[k].link)
      BY DEF TurnsInv
    <2>2. ep[k].link \in LinkRecord
      BY RowTypes DEF TurnsInv, JoinRecord
    <2>3. /\ j \in 1 .. Len(prompts) /\ packet[j] # Unmade
          /\ prompts[k].at - Skew <= packet[j] /\ packet[j] <= until
          /\ packet[k] = Unmade \/ k \in lost \/ packet[k] > until \/ packet[k] < prompts[k].at - Skew
      BY <2>1 DEF LinkOK
    <2>4. prompts[j].asked <= packet[j]
      BY <2>3 DEF TurnsInv, HooksRan
    <2>5. prompts[j].asked \in Nat /\ packet[j] \in Nat /\ prompts[k].at \in Nat /\ until \in Nat /\ Skew \in Nat
      <3>1. prompts[k].at # Unmade
        BY <2>1 DEF JoinOK
      <3>2. QED
        BY <2>2, <2>3, <3>1, RowTypes DEF TurnsInv, LinkRecord, TurnsAssumption
    <2> HIDE DEF j, until
    <2>6. prompts[k].at - packet[j] <= Skew /\ prompts[j].asked <= until
      BY <2>3, <2>4, <2>5
    <2>7. QED
      BY <2>3, <2>6 DEF j, until
  <1>2. QED
    BY <1>1, InitTurnsInv, StepTurnsInv, PTL DEF TurnsSpec

-----------------------------------------------------------------------------
(* Rows for any sessions, texts, roots' copies and number of prompts and     *)
(* entries: a row has the calls of its own prompt.                           *)

EntryType ==
    [kind : {"prompt", "candidate", "brief", "call"}, text : RowTexts \cup {Odd, NoPlace}, ts : Nat, of : Nat, session : Sessions]

PromptType ==
    [session : Sessions, text : RowTexts, made : Nat, how : {"typed", "meta", "queued", "blocked"},
     packet : {"none", "kept", "lost", "conflict"}, brief : BOOLEAN]

RowsTyped ==
    /\ moment \in Nat /\ rowFaults \in Nat
    /\ asked \in Seq(PromptType)
    /\ file \in [Roots \X Sessions -> Seq(EntryType)]
    /\ queue \in [Sessions -> Seq(RowTexts)]

\* The last prompt before an entry whose response can run.
Last(es, b, i) == b \in 1 .. i - 1 /\ Begins(es[b]) /\ \A j \in b + 1 .. i - 1 : ~ Begins(es[j])

\* Of a prompt it says whose it is and where its brief is, of a brief where
\* its prompt is; a call is of the last prompt before it.
EntryOK(es, i, ps) ==
    /\ es[i].of \in 0 .. Len(ps)
    /\ Begins(es[i]) => /\ es[i].of # 0
                        /\ es[i].session = ps[es[i].of].session
                        /\ es[i].kind = "candidate" => ps[es[i].of].how = "meta"
                        /\ ps[es[i].of].brief => i < Len(es) /\ es[i + 1].kind = "brief" /\ es[i + 1].of = es[i].of
    /\ es[i].kind = "brief" => i > 1 /\ Begins(es[i - 1]) /\ es[i - 1].of = es[i].of /\ es[i].of # 0
                               /\ es[i].session = es[i - 1].session /\ ps[es[i].of].brief
    /\ es[i].kind = "call" => \/ es[i].of = 0 /\ \A j \in 1 .. i - 1 : ~ Begins(es[j])
                              \/ \E b \in 1 .. i - 1 : Last(es, b, i) /\ es[i].of = es[b].of

\* A transcript has each prompt once, and after an entry of its own session
\* only such entries.
Transcript(es, s, ps) ==
    /\ \A i \in 1 .. Len(es) : EntryOK(es, i, ps)
    /\ \A i, j \in 1 .. Len(es) : Begins(es[i]) /\ Begins(es[j]) /\ es[i].of = es[j].of => i = j
    /\ \A i, j \in 1 .. Len(es) : i < j /\ es[i].session = s => es[j].session = s

\* A brief was written in its own session; what is frozen is its beginning.
RowsInv ==
    /\ RowsTyped
    /\ \A f \in Roots \X Sessions : Transcript(file[f], f[2], asked)
    /\ \A k \in 1 .. Len(asked) : asked[k].brief =>
          \E i \in 1 .. Len(file[<<Live, asked[k].session>>]) :
             LET e == file[<<Live, asked[k].session>>][i] IN e.kind = "brief" /\ e.of = k
    /\ \A f \in Roots \X Sessions : \A i \in 1 .. Len(file[f]) : file[<<Live, file[f][i].session>>] # <<>>
    /\ \A s \in Sessions : /\ Len(file[<<1, s>>]) <= Len(file[<<Live, s>>])
                           /\ \A i \in 1 .. Len(file[<<1, s>>]) : file[<<1, s>>][i] = file[<<Live, s>>][i]

-----------------------------------------------------------------------------
LEMMA MinNat ==
  ASSUME NEW S \in SUBSET Nat, S # {}
  PROVE  Min(S) \in S /\ \A x \in S : Min(S) <= x
  <1>1. PICK m \in S : \A x \in S : ~ (<<x, m>> \in OpToRel(<, Nat))
    BY NatLessThanWellFounded, WFMin
  <1>2. \A x \in S : ~ (x < m)
    BY <1>1 DEF OpToRel
  <1>3. \A x \in S : m <= x
    BY <1>2
  <1>4. QED
    BY <1>3 DEF Min

LEMMA MaxUpTo ==
  ASSUME NEW n \in Nat, NEW S \in SUBSET (1 .. n), S # {}
  PROVE  Max(S) \in S /\ \A x \in S : x <= Max(S)
  <1> DEFINE T == {n - x : x \in S}
  <1>1. T \in SUBSET Nat /\ T # {}
    <2>1. \A x \in S : n - x \in Nat
      OBVIOUS
    <2>2. PICK x \in S : TRUE
      OBVIOUS
    <2>3. n - x \in T
      BY <2>2
    <2>4. QED
      BY <2>1, <2>3
  <1>2. PICK m \in T : \A y \in T : m <= y
    BY <1>1, MinNat
  <1>3. PICK x \in S : m = n - x
    OBVIOUS
  <1>4. \A y \in S : x >= y
    <2>1. TAKE y \in S
    <2>2. n - y \in T /\ n - x <= n - y
      BY <1>2, <1>3
    <2>3. QED
      BY <2>2
  <1>5. QED
    BY <1>4 DEF Max

LEMMA FileTypes ==
  ASSUME RowsTyped, NEW f \in FilesThere
  PROVE  f \in Roots \X Sessions /\ file[f] \in Seq(EntryType) /\ DOMAIN file[f] = 1 .. Len(file[f]) /\ Len(file[f]) \in Nat
  BY DEF RowsTyped, FilesThere

\* What Hits finds are briefs of that packet.
LEMMA HitIs ==
  ASSUME RowsTyped, NEW k, NEW h \in BriefHits(k)
  PROVE  /\ h[1] \in FilesThere /\ h[2] \in 1 .. Len(file[h[1]])
         /\ file[h[1]][h[2]].kind = "brief" /\ file[h[1]][h[2]].of = k
  <1>0. PICK f \in FilesThere : \E i \in DOMAIN file[f] : h = <<f, i>> /\ file[f][i].kind = "brief" /\ file[f][i].of = k
    BY DEF BriefHits
  <1>1. PICK i \in DOMAIN file[f] : h = <<f, i>> /\ file[f][i].kind = "brief" /\ file[f][i].of = k
    BY <1>0
  <1>2. h[1] = f /\ h[2] = i /\ DOMAIN file[f] = 1 .. Len(file[f])
    BY <1>1, FileTypes
  <1>3. QED
    BY <1>1, <1>2

LEMMA IsHit ==
  ASSUME RowsTyped, NEW k, NEW f \in FilesThere, NEW i \in 1 .. Len(file[f]), file[f][i].kind = "brief", file[f][i].of = k
  PROVE  <<f, i>> \in BriefHits(k) /\ <<f, i>>[1] = f /\ <<f, i>>[2] = i
  BY FileTypes DEF BriefHits

\* Where a row may start: at a brief of its packet, or at a prompt.
LEMMA StartOf ==
  ASSUME RowsInv, NEW k \in Packets, NEW f \in FilesThere, Row(k).file = f, Row(k).start # NoPlace
  PROVE  /\ Row(k).start \in 1 .. Len(file[f])
         /\ Row(k).brief => file[f][Row(k).start].kind = "brief" /\ file[f][Row(k).start].of = k
         /\ ~ Row(k).brief => /\ file[f][Row(k).start].kind \in {"prompt", "candidate"} /\ Readable(k)
                              /\ f \in PickedFiles(k) /\ ~ \E h \in BriefHits(k) : h[1] = f
  <1> DEFINE files == PickedFiles(k)
             g == IF Cardinality(files) = 1 THEN CHOOSE x \in files : TRUE ELSE NoPlace
             at == {h[2] : h \in {x \in BriefHits(k) : x[1] = g}}
             anchor == IF g = NoPlace THEN NoPlace
                       ELSE IF at # {} THEN PromptBefore(k, file[g], Min(at))
                       ELSE IF Readable(k) THEN AnchorByPrompt(k, file[g]) ELSE NoPlace
  <1>1. Row(k).file = g
    BY DEF Row
  <1>2. g = f
    BY <1>1
  <1>3. Row(k).brief = (at # {}) /\ Row(k).start = IF anchor # NoPlace /\ at # {} THEN Min(at) ELSE anchor
    <2>1. Row(k).brief = (at # {})
      BY Zenon DEF Row
    <2>2. Row(k).start = IF anchor # NoPlace /\ at # {} THEN Min(at) ELSE anchor
      BY DEF Row
    <2>3. QED
      BY <2>1, <2>2, Zenon
  <1>4. f \in Roots \X Sessions /\ file[f] \in Seq(EntryType) /\ DOMAIN file[f] = 1 .. Len(file[f]) /\ Len(file[f]) \in Nat
    BY FileTypes DEF RowsInv
  <1>5. \A i \in at : i \in 1 .. Len(file[f]) /\ file[f][i].kind = "brief" /\ file[f][i].of = k
    <2> TAKE i \in at
    <2>1. PICK h \in BriefHits(k) : h[1] = g /\ h[2] = i
      OBVIOUS
    <2>2. RowsTyped /\ h[1] = f
      BY <1>2, <2>1 DEF RowsInv
    <2> HIDE DEF g, at
    <2>3. QED
      BY <2>1, <2>2, HitIs
  <1>6. CASE at # {}
    <2>1. anchor # NoPlace
      BY <1>3, <1>6
    <2>2. Row(k).start = Min(at) /\ Row(k).brief
      BY <1>3, <1>6, <2>1
    <2> HIDE DEF at
    <2>3. at \in SUBSET Nat
      <3>1. \A i \in at : i \in Nat
        BY <1>4, <1>5
      <3>2. QED
        BY <3>1
    <2>4. Min(at) \in at
      BY <1>6, <2>3, MinNat
    <2>5. QED
      BY <1>5, <2>2, <2>4
  <1>7. CASE at = {}
    <2>1. Row(k).start = anchor /\ ~ Row(k).brief /\ anchor # NoPlace
      BY <1>3, <1>7
    <2>2. g # NoPlace /\ Readable(k) /\ anchor = AnchorByPrompt(k, file[f])
      BY <1>2, <1>7, <2>1
    <2>3. f \in files
      <3>1. Cardinality(files) = 1 /\ g = CHOOSE x \in files : TRUE
        BY <2>2
      <3>2. files # {}
        BY <3>1, FS_EmptySet
      <3>3. QED
        BY <1>2, <3>1, <3>2
    <2>4. AnchorByPrompt(k, file[f]) \in 1 .. Len(file[f])
          /\ file[f][AnchorByPrompt(k, file[f])].kind \in {"prompt", "candidate"}
      <3> DEFINE es == file[f]
                 Near(i) == asked[k].made - es[i].ts \in - Tolerance .. Tolerance
                 hits(kind) == {i \in DOMAIN es : es[i].kind = kind /\ Matches(k, es[i]) /\ Near(i)}
                 found == IF hits("prompt") # {} THEN hits("prompt") ELSE hits("candidate")
                 before == {i \in DOMAIN es : es[i].kind = "prompt" /\ es[i].ts <= asked[k].made /\ Near(i)}
      <3>1. \A i \in found : i \in 1 .. Len(es) /\ es[i].kind \in {"prompt", "candidate"}
        BY <1>4
      <3>2. \A i \in before : i \in 1 .. Len(es) /\ es[i].kind = "prompt"
        BY <1>4
      <3>3. AnchorByPrompt(k, es) = IF Cardinality({es[i].ts : i \in found}) = 1 THEN Min(found)
                                    ELSE IF found # {} \/ before = {} THEN NoPlace ELSE Max(before)
        BY DEF AnchorByPrompt
      <3> HIDE DEF found, before
      <3>4. CASE Cardinality({es[i].ts : i \in found}) = 1
        <4>1. found # {}
          <5>1. SUFFICES ASSUME found = {} PROVE FALSE
            OBVIOUS
          <5>2. {es[i].ts : i \in found} = {}
            BY <5>1
          <5>3. Cardinality({es[i].ts : i \in found}) = 0
            BY <5>2, FS_EmptySet
          <5>4. QED
            BY <3>4, <5>3
        <4>2. found \in SUBSET Nat
          BY <3>1, <1>4
        <4>3. Min(found) \in found
          BY <4>1, <4>2, MinNat
        <4>4. QED
          BY <3>1, <3>3, <3>4, <4>3
      <3>5. CASE Cardinality({es[i].ts : i \in found}) # 1
        <4>1. before # {} /\ AnchorByPrompt(k, es) = Max(before)
          BY <2>1, <2>2, <3>3, <3>5
        <4>2. before \in SUBSET (1 .. Len(es))
          BY <3>2
        <4>3. Max(before) \in before
          BY <4>1, <4>2, <1>4, MaxUpTo
        <4>4. QED
          BY <3>2, <4>1, <4>3
      <3>6. QED
        BY <3>4, <3>5
    <2>5. ~ \E h \in BriefHits(k) : h[1] = f
      BY <1>2, <1>7
    <2>6. QED
      BY <2>1, <2>2, <2>3, <2>4, <2>5
  <1>8. QED
    BY <1>6, <1>7

-----------------------------------------------------------------------------
LEMMA PickedRow == ASSUME NEW k, Row(k).start # NoPlace PROVE Row(k).file \in PickedFiles(k)
  <1> DEFINE files == PickedFiles(k)
  <1>1. Row(k).file = IF Cardinality(files) = 1 THEN CHOOSE x \in files : TRUE ELSE NoPlace
    BY DEF Row
  <1>2. CASE Cardinality(files) = 1
    <2>1. files # {}
      BY <1>2, FS_EmptySet
    <2>2. QED
      BY <1>1, <1>2, <2>1
  <1>3. CASE Cardinality(files) # 1
    BY <1>3 DEF Row
  <1>4. QED
    BY <1>2, <1>3

\* Where a packet's brief is, the packet's own session has one: only those
\* count, in the first root that has them.
LEMMA PickedWithBrief ==
  ASSUME RowsInv, NEW k \in Packets, NEW f \in FilesThere, Row(k).file = f, Row(k).start # NoPlace, Row(k).brief
  PROVE  /\ f[2] = asked[k].session
         /\ \A g \in FilesThere : \A i \in 1 .. Len(file[g]) :
               g[2] = f[2] /\ file[g][i].kind = "brief" /\ file[g][i].of = k => f[1] <= g[1]
  <1>T. RowsTyped
    BY DEF RowsInv
  <1> DEFINE files == PickedFiles(k)
             s == asked[k].session
  <1>1. f \in files
    BY PickedRow
  <1>2. k \in 1 .. Len(asked) /\ s \in Sessions
    <2>1. k \in 1 .. Len(asked) /\ asked[k] \in PromptType
      BY <1>T DEF Packets, RowsTyped
    <2>2. QED
      BY <2>1 DEF PromptType
  <1>3. \A g \in FilesThere : \A i \in 1 .. Len(file[g]) :
           file[g][i].kind = "brief" /\ file[g][i].of = k => file[g][i].session = s /\ asked[k].brief
    <2> SUFFICES ASSUME NEW g \in FilesThere, NEW i \in 1 .. Len(file[g]), file[g][i].kind = "brief", file[g][i].of = k
                 PROVE  file[g][i].session = s /\ asked[k].brief
      OBVIOUS
    <2>1. Transcript(file[g], g[2], asked) /\ Len(file[g]) \in Nat
      BY <1>T, FileTypes DEF RowsInv
    <2>2. i > 1 /\ Begins(file[g][i - 1]) /\ file[g][i - 1].of = k /\ asked[k].brief
          /\ file[g][i].session = file[g][i - 1].session
      BY <2>1 DEF Transcript, EntryOK
    <2>3. i - 1 \in 1 .. Len(file[g])
      BY <2>1, <2>2
    <2>4. file[g][i - 1].session = s
      BY <2>1, <2>2, <2>3 DEF Transcript, EntryOK
    <2>5. QED
      BY <2>2, <2>4
  <1>4. \A h \in BriefHits(k) : file[h[1]][h[2]].session = s /\ asked[k].brief
    BY <1>T, <1>3, HitIs
  <1>5. Own(k) = {h \in BriefHits(k) : h[1][2] = s}
    BY <1>4 DEF Own
  <1>6. Own(k) # {}
    <2>1. f[1] = f[1] /\ \E h \in BriefHits(k) : TRUE
      <3>1. Row(k).start \in 1 .. Len(file[f]) /\ file[f][Row(k).start].kind = "brief" /\ file[f][Row(k).start].of = k
        BY StartOf
      <3>2. QED
        BY <1>T, <3>1, IsHit
    <2>2. asked[k].brief
      BY <2>1, <1>4
    <2>3. PICK i \in 1 .. Len(file[<<Live, s>>]) : file[<<Live, s>>][i].kind = "brief" /\ file[<<Live, s>>][i].of = k
      BY <1>2, <2>2 DEF RowsInv
    <2>4. <<Live, s>> \in FilesThere
      <3>1. <<Live, s>> \in Roots \X Sessions
        BY <1>2 DEF Live, Roots
      <3>2. file[<<Live, s>>] # <<>>
        BY <2>3
      <3>3. QED
        BY <3>1, <3>2, <1>T DEF FilesThere, RowsTyped
    <2>5. <<<<Live, s>>, i>> \in BriefHits(k) /\ <<<<Live, s>>, i>>[1] = <<Live, s>>
      BY <2>3, <2>4, <1>T, IsHit
    <2>6. <<Live, s>>[2] = s
      OBVIOUS
    <2>7. QED
      BY <1>5, <2>5, <2>6
  <1>7. files = EarliestRoot({h[1] : h \in Own(k)})
    BY <1>6 DEF PickedFiles
  <1>8. f \in {h[1] : h \in Own(k)} /\ \A g \in {h[1] : h \in Own(k)} : f[1] <= g[1]
    BY <1>1, <1>7 DEF EarliestRoot
  <1>9. f[2] = s
    BY <1>5, <1>8
  <1>10. ASSUME NEW g \in FilesThere, NEW i \in 1 .. Len(file[g]), g[2] = s, file[g][i].kind = "brief", file[g][i].of = k
         PROVE  f[1] <= g[1]
    <2>1. <<g, i>> \in BriefHits(k) /\ <<g, i>>[1] = g
      BY <1>10, <1>T, IsHit
    <2>2. <<g, i>> \in Own(k)
      BY <1>5, <1>10, <2>1
    <2>3. QED
      BY <1>8, <2>1, <2>2
  <1>11. QED
    BY <1>9, <1>10

\* A prompt without a brief is looked for in its session, in the first root
\* that has it.
LEMMA PickedWithoutBrief ==
  ASSUME RowsInv, NEW k \in Packets, NEW f \in FilesThere, Row(k).file = f, Row(k).start # NoPlace, ~ asked[k].brief
  PROVE  /\ f[2] = asked[k].session /\ ~ Row(k).brief
         /\ \A g \in FilesThere : g[2] = f[2] => f[1] <= g[1]
  <1>T. RowsTyped
    BY DEF RowsInv
  <1>1. BriefHits(k) = {}
    <2> SUFFICES ASSUME NEW h \in BriefHits(k) PROVE FALSE
      OBVIOUS
    <2>1. h[1] \in FilesThere /\ h[2] \in 1 .. Len(file[h[1]])
          /\ file[h[1]][h[2]].kind = "brief" /\ file[h[1]][h[2]].of = k
      BY <1>T, HitIs
    <2>2. Transcript(file[h[1]], h[1][2], asked)
      BY <1>T, <2>1, FileTypes DEF RowsInv
    <2>3. QED
      BY <2>1, <2>2 DEF Transcript, EntryOK
  <1>2. ~ Row(k).brief
    <2> SUFFICES ASSUME Row(k).brief PROVE FALSE
      OBVIOUS
    <2>1. Row(k).start \in 1 .. Len(file[f]) /\ file[f][Row(k).start].kind = "brief" /\ file[f][Row(k).start].of = k
      BY StartOf
    <2>2. QED
      BY <1>1, <1>T, <2>1, IsHit
  <1>3. Readable(k) /\ f \in PickedFiles(k)
    BY <1>2, StartOf
  <1>4. Own(k) = {}
    BY <1>1 DEF Own
  <1>5. PickedFiles(k) = EarliestRoot({g \in FilesThere : Readable(k) /\ g[2] = asked[k].session})
    BY <1>1, <1>4 DEF PickedFiles
  <1>6. QED
    BY <1>2, <1>3, <1>5 DEF EarliestRoot

\* A row's window is judged by what its start and its ends say: a call in it
\* is of its prompt, or of a prompt of the harness that no row is placed at;
\* a call of its prompt is in it, unless another row begins before that call.
LEMMA WindowIsOwn ==
  ASSUME RowsInv, NEW k \in Placed(Build), Build[k].brief
  PROVE  LET rows == Build
             es == file[rows[k].file]
             observed == ObservedCalls(rows, k)
             made == {i \in DOMAIN es : es[i].kind = "call" /\ es[i].of = k}
         IN  /\ \A i \in observed : es[i].of = k \/ Unplaced(rows, es[i].of)
             /\ \/ made \subseteq observed
                \/ \E i \in Starts(rows, rows[k].file) : rows[k].start < i /\ i < Max(made)
  <1> DEFINE rows == Build
             f == rows[k].file
             es == file[f]
             s == rows[k].start
             n == Len(es)
             ends == {i \in s + 1 .. n : Ends(rows, k, i)}
             made == {i \in DOMAIN es : es[i].kind = "call" /\ es[i].of = k}
  <1>T. RowsTyped
    BY DEF RowsInv
  <1>B. DOMAIN rows = Packets /\ \A j \in Packets : rows[j] = Row(j)
    BY DEF Build
  <1>K. k \in Packets /\ rows[k] = Row(k) /\ s # NoPlace /\ Row(k).brief
    BY <1>B DEF Placed
  <1>F. f \in FilesThere
    <2>1. PICK h \in BriefHits(k) : h[1] = Row(k).file
      BY <1>K DEF Row
    <2>2. QED
      BY <1>K, <1>T, <2>1, HitIs
  <1>E. f \in Roots \X Sessions /\ es \in Seq(EntryType) /\ DOMAIN es = 1 .. n /\ n \in Nat /\ Transcript(es, f[2], asked)
    BY <1>F, <1>T, FileTypes DEF RowsInv
  <1>S. s \in 1 .. n /\ es[s].kind = "brief" /\ es[s].of = k
    BY <1>K, <1>F, StartOf
  <1>P. s > 1 /\ s - 1 \in 1 .. n /\ Begins(es[s - 1]) /\ es[s - 1].of = k /\ k # 0 /\ ~ Begins(es[s]) /\ asked[k].brief
    <2>0. \A i \in 1 .. n : es[i].kind = "brief" =>
             i > 1 /\ Begins(es[i - 1]) /\ es[i - 1].of = es[i].of /\ es[i].of # 0 /\ asked[es[i].of].brief
      <3> HIDE DEF rows, f, es, s, n
      <3>1. QED
        BY <1>E DEF Transcript, EntryOK
    <2>1. s > 1 /\ Begins(es[s - 1]) /\ es[s - 1].of = k /\ k # 0 /\ asked[k].brief
      <3> HIDE DEF rows, f, es, s, n
      <3>1. QED
        BY <1>S, <2>0
    <2>2. ~ Begins(es[s])
      BY <1>S DEF Begins
    <2>3. s - 1 \in 1 .. n
      BY <1>E, <1>S, <2>1
    <2>4. QED
      BY <2>1, <2>2, <2>3
  <1>U. \A x, y \in 1 .. n : Begins(es[x]) /\ Begins(es[y]) /\ es[x].of = es[y].of => x = y
    BY <1>E DEF Transcript, EntryOK
  <1>G. \A i \in 1 .. n : es[i].of \in Nat /\ es[i].kind \in {"prompt", "candidate", "brief", "call"}
    <2> TAKE i \in 1 .. n
    <2>1. es[i] \in EntryType
      BY <1>E
    <2>2. QED
      BY <2>1 DEF EntryType
  <1> HIDE DEF rows, f, es, s, n
  <1>W. Window(rows, k) = s .. (IF ends = {} THEN n ELSE Min(ends) - 1)
    BY DEF Window, rows, f, es, s, n
  <1>M. ends # {} => Min(ends) \in ends /\ \A i \in ends : Min(ends) <= i
    <2>1. \A i \in ends : i \in Nat
      BY <1>E, <1>S
    <2>2. ends \in SUBSET Nat
      BY <2>1
    <2> HIDE DEF ends
    <2>3. QED
      BY <2>2, MinNat
  \* What ends a turn, for this row.
  <1>D. \A i \in 1 .. n : Ends(rows, k, i) <=> \/ es[i].kind = "prompt" \/ (es[i].kind = "brief" /\ es[i].of # k)
                                               \/ i \in Starts(rows, f) \ {s}
    BY DEF Ends, rows, f, es, s
  \* Each call's prompt is the last one before it.
  <1>C. ASSUME NEW i \in 1 .. n, es[i].kind = "call", s < i
        PROVE  \E b \in 1 .. i - 1 : Last(es, b, i) /\ es[i].of = es[b].of /\ s - 1 <= b
    <2>1. s - 1 \in 1 .. i - 1
      BY <1>C, <1>E, <1>P, <1>S
    <2>0. EntryOK(es, i, asked)
      BY <1>E DEF Transcript
    <2>2. PICK b \in 1 .. i - 1 : Last(es, b, i) /\ es[i].of = es[b].of
      BY <1>C, <1>P, <2>0, <2>1 DEF EntryOK
    <2>3. s - 1 <= b
      <3>1. ~ (s - 1 \in b + 1 .. i - 1)
        BY <1>P, <2>2 DEF Last
      <3>2. QED
        BY <2>1, <3>1, <1>E, <1>S
    <2>4. QED
      BY <2>2, <2>3
  <1>1. ASSUME NEW i \in ObservedCalls(rows, k) PROVE es[i].of = k \/ Unplaced(rows, es[i].of)
    <2>1. i \in Window(rows, k) /\ es[i].kind = "call"
      BY DEF ObservedCalls, es, f
    <2>2. i \in 1 .. n /\ s < i /\ \A e \in s + 1 .. i : ~ Ends(rows, k, e)
      <3>1. CASE ends = {}
        <4>1. i \in s .. n
          BY <1>W, <2>1, <3>1
        <4>2. i # s
          BY <1>S, <2>1
        <4>3. QED
          BY <3>1, <4>1, <4>2, <1>E, <1>S
      <3>2. CASE ends # {}
        <4>1. i \in s .. Min(ends) - 1
          BY <1>W, <2>1, <3>2
        <4>2. i # s
          BY <1>S, <2>1
        <4>3. Min(ends) \in s + 1 .. n /\ \A e \in s + 1 .. n : Ends(rows, k, e) => Min(ends) <= e
          BY <1>M, <3>2
        <4> HIDE DEF ends
        <4>4. QED
          BY <4>1, <4>2, <4>3, <1>E, <1>S
      <3>3. QED
        BY <3>1, <3>2
    <2>3. PICK b \in 1 .. i - 1 : Last(es, b, i) /\ es[i].of = es[b].of /\ s - 1 <= b
      BY <1>C, <2>1, <2>2
    <2>4. CASE b = s - 1
      BY <1>P, <2>3, <2>4
    <2>5. CASE b # s - 1
      <3> DEFINE j == es[b].of
      <3>1. b \in 1 .. n /\ Begins(es[b]) /\ b # s
        BY <1>E, <1>P, <2>2, <2>3 DEF Last
      <3>2. b \in s + 1 .. i /\ b < i
        BY <3>1, <2>2, <2>3, <2>5, <1>S, <1>E
      <3>3. ~ Ends(rows, k, b)
        BY <2>2, <3>2
      <3>4. es[b].kind = "candidate" /\ j # 0 /\ b \notin Starts(rows, f) \ {s}
        BY <3>1, <3>3, <1>D DEF Begins
      <3>5. asked[j].how = "meta" /\ es[b].session = asked[j].session
        BY <3>1, <3>4, <1>E DEF Transcript, EntryOK
      <3>6. j # k
        BY <3>1, <1>U, <1>P, <2>5
      <3>7. ~ asked[j].brief
        <4> SUFFICES ASSUME asked[j].brief PROVE FALSE
          OBVIOUS
        <4>1. b < n /\ es[b + 1].kind = "brief" /\ es[b + 1].of = j
          BY <3>1, <1>E DEF Transcript, EntryOK
        <4>2. b + 1 \in 1 .. n /\ b + 1 # i
          BY <4>1, <2>1, <2>2, <3>1, <1>E
        <4>3. Ends(rows, k, b + 1)
          BY <4>1, <4>2, <3>6, <1>D
        <4>4. b + 1 \in s + 1 .. i
          BY <3>2, <2>2, <1>E, <1>S
        <4>5. QED
          BY <2>2, <4>3, <4>4
      <3>8. ASSUME j \in Placed(rows), file[rows[j].file][rows[j].start].of = j PROVE FALSE
        <4> DEFINE g == rows[j].file
                   t == rows[j].start
        <4>1. j \in Packets /\ rows[j] = Row(j) /\ t # NoPlace
          BY <3>8, <1>B DEF Placed
        <4>2. g \in FilesThere
          <5>4. g \in PickedFiles(j)
            BY <4>1, PickedRow
          <5>5. BriefHits(j) = {} => g \in FilesThere
            BY <5>4 DEF PickedFiles, Own, EarliestRoot
          <5>6. BriefHits(j) # {} => \E h \in BriefHits(j) : g = h[1]
            BY <5>4 DEF PickedFiles, Own, EarliestRoot
          <5>7. QED
            BY <5>5, <5>6, <1>T, HitIs
        <4>3. /\ g[2] = asked[j].session /\ ~ Row(j).brief
              /\ \A x \in FilesThere : x[2] = g[2] => g[1] <= x[1]
          BY <3>7, <4>1, <4>2, PickedWithoutBrief
        <4>4. /\ t \in 1 .. Len(file[g]) /\ file[g][t].kind \in {"prompt", "candidate"}
          BY <4>1, <4>2, <4>3, StartOf
        <4>5. Begins(file[g][t]) /\ file[g][t].of = j
          BY <3>4, <3>8, <4>4 DEF Begins
        <4>6. /\ f[2] = asked[k].session
              /\ \A x \in FilesThere : \A e \in 1 .. Len(file[x]) :
                    x[2] = f[2] /\ file[x][e].kind = "brief" /\ file[x][e].of = k => f[1] <= x[1]
          BY <1>K, <1>F, PickedWithBrief DEF f, s
        <4>7. es[s].session = f[2]
          <5>0. EntryOK(es, s, asked) /\ EntryOK(es, s - 1, asked)
            BY <1>E, <1>S, <1>P DEF Transcript
          <5>1. es[s].session = es[s - 1].session /\ es[s - 1].session = asked[k].session
            BY <1>S, <1>P, <5>0 DEF EntryOK
          <5>2. QED
            BY <4>6, <5>1
        <4>8. es[b].session = f[2]
          <5>1. s < b
            BY <3>2, <1>E, <1>S
          <5>2. \A x, y \in 1 .. n : x < y /\ es[x].session = f[2] => es[y].session = f[2]
            BY <1>E DEF Transcript, EntryOK
          <5>3. QED
            BY <5>1, <5>2, <4>7, <3>1, <1>S
        <4>9. g[2] = f[2]
          BY <4>3, <4>8, <3>5
        <4>10. CASE g = f
          <5>1. t = b
            <6>1. t \in 1 .. n /\ Begins(es[t]) /\ es[t].of = j
              BY <4>4, <4>5, <4>10 DEF es, n
            <6>2. QED
              BY <6>1, <3>1, <1>U
          <5>2. t \in Starts(rows, f)
            BY <3>8, <4>10 DEF Starts
          <5>3. t # s
            BY <5>1, <3>1
          <5>4. QED
            BY <5>1, <5>2, <5>3, <3>4
        <4>11. CASE g # f
          <5>1. g = <<1, f[2]>> /\ f = <<Live, f[2]>> /\ f[2] \in Sessions
            <6>1. g \in Roots \X Sessions /\ f \in Roots \X Sessions
              BY <4>2, <1>E, <1>T, FileTypes
            <6>2. g[1] <= f[1]
              BY <4>3, <4>9, <1>F
            <6>3. g[1] \in {1, 2} /\ f[1] \in {1, 2} /\ f[2] \in Sessions /\ g = <<g[1], g[2]>> /\ f = <<f[1], f[2]>>
              BY <6>1 DEF Roots
            <6>4. g[1] # f[1]
              BY <6>3, <4>9, <4>11
            <6>5. g[1] = 1 /\ f[1] = 2
              BY <6>2, <6>3, <6>4
            <6>6. QED
              BY <6>3, <6>5, <4>9 DEF Live
          <5>2. Len(file[g]) <= n /\ \A e \in 1 .. Len(file[g]) : file[g][e] = es[e]
            BY <5>1 DEF RowsInv, es, n
          <5>3. Len(file[g]) \in Nat
            BY <4>2, <1>T, FileTypes
          <5>4. t \in 1 .. n /\ es[t] = file[g][t]
            <6> HIDE DEF g, t
            <6>1. t \in 1 .. Len(file[g])
              BY <4>4
            <6>2. n \in Nat
              BY <1>E
            <6>3. t \in 1 .. n
              BY <6>1, <6>2, <5>2, <5>3
            <6>4. QED
              BY <6>1, <6>3, <5>2
          <5>5. t = b
            BY <4>5, <5>4, <3>1, <1>U
          <5>6. s \in 1 .. Len(file[g]) /\ file[g][s] = es[s]
            BY <5>5, <4>4, <5>2, <5>3, <3>2, <1>E, <1>S
          <5>7. f[1] <= g[1]
            BY <5>6, <4>2, <4>6, <4>9, <1>S
          <5>8. f[1] = 2 /\ g[1] = 1
            BY <5>1 DEF Live
          <5>9. QED
            BY <5>7, <5>8
        <4>12. QED
          BY <4>10, <4>11
      <3>9. QED
        BY <2>3, <3>5, <3>8 DEF Unplaced
    <2>6. QED
      BY <2>4, <2>5
  <1>2. ASSUME NEW i \in made, i \notin ObservedCalls(rows, k)
        PROVE  \E e \in Starts(rows, f) : s < e /\ e < Max(made)
    <2>1. i \in 1 .. n /\ es[i].kind = "call" /\ es[i].of = k
      BY <1>E
    <2>2. s < i
      <3>1. i # s
        BY <1>S, <2>1
      <3>2. ~ (i < s)
        <4> SUFFICES ASSUME i < s PROVE FALSE
          OBVIOUS
        <4>1. PICK b \in 1 .. i - 1 : Last(es, b, i) /\ es[i].of = es[b].of
          BY <2>1, <1>E, <1>P DEF Transcript, EntryOK
        <4>2. b \in 1 .. n /\ Begins(es[b]) /\ es[b].of = k /\ b # s - 1
          BY <4>1, <2>1, <1>E, <1>S DEF Last
        <4>3. QED
          BY <4>2, <1>U, <1>P
      <3>3. QED
        BY <3>1, <3>2, <2>1, <1>S, <1>E
    <2>3. PICK b \in 1 .. i - 1 : Last(es, b, i) /\ es[i].of = es[b].of /\ s - 1 <= b
      BY <1>C, <2>1, <2>2
    <2>4. b = s - 1
      <3>1. b \in 1 .. n /\ Begins(es[b]) /\ es[b].of = k
        BY <2>3, <2>1, <1>E DEF Last
      <3>2. QED
        BY <3>1, <1>U, <1>P
    <2>5. i \notin Window(rows, k)
      BY <1>2, <2>1 DEF ObservedCalls, es, f
    <2>6. ends # {} /\ Min(ends) <= i
      <3>1. ends # {}
        BY <1>W, <2>1, <2>2, <2>5, <1>E, <1>S
      <3>2. Min(ends) \in s + 1 .. n
        BY <1>M, <3>1
      <3>3. ~ (i \in s .. Min(ends) - 1)
        BY <1>W, <2>5, <3>1
      <3> HIDE DEF ends
      <3>4. QED
        BY <3>1, <3>2, <3>3, <2>1, <2>2, <1>E, <1>S
    <2>7. PICK e \in s + 1 .. n : Ends(rows, k, e) /\ e <= i
      BY <1>M, <2>6
    <2>8. e \in 1 .. n /\ e \in b + 1 .. i /\ s < e
      BY <2>1, <2>4, <2>7, <1>E, <1>S
    <2>9. es[e].kind # "prompt"
      <3> SUFFICES ASSUME es[e].kind = "prompt" PROVE FALSE
        OBVIOUS
      <3>1. e # i /\ Begins(es[e])
        BY <2>1 DEF Begins
      <3>2. e \in b + 1 .. i - 1
        BY <2>1, <2>8, <3>1, <1>E
      <3>3. QED
        BY <2>3, <3>1, <3>2 DEF Last
    <2>10. ~ (es[e].kind = "brief" /\ es[e].of # k)
      <3> SUFFICES ASSUME es[e].kind = "brief", es[e].of # k PROVE FALSE
        OBVIOUS
      <3>1. Begins(es[e - 1])
        BY <2>8, <1>E DEF Transcript, EntryOK
      <3>2. e - 1 # s
        BY <3>1, <1>P
      <3>3. e - 1 \in b + 1 .. i - 1
        BY <2>4, <2>7, <2>8, <3>2, <2>1, <1>E, <1>S
      <3>4. QED
        BY <2>3, <3>1, <3>3 DEF Last
    <2>11. e \in Starts(rows, f)
      BY <2>7, <2>8, <2>9, <2>10, <1>D
    <2>12. es[e].kind # "call"
      <3>1. PICK j \in Placed(rows) : rows[j].file = f /\ rows[j].start = e
        BY <2>11 DEF Starts
      <3>2. j \in Packets /\ Row(j).file = f /\ Row(j).start = e /\ e # NoPlace
        BY <3>1, <1>B DEF Placed
      <3>3. Row(j).brief \in BOOLEAN
        BY DEF Row
      <3>4. file[f][e].kind \in {"brief", "prompt", "candidate"}
        BY <3>2, <3>3, <1>F, StartOf
      <3>5. QED
        BY <3>4 DEF es
    <2>13. e < i
      BY <2>1, <2>7, <2>12, <1>E
    <2>14. i <= Max(made)
      <3>1. made \in SUBSET (1 .. n) /\ made # {}
        BY <1>2, <1>E
      <3> HIDE DEF made
      <3>2. QED
        BY <1>2, <3>1, <1>E, MaxUpTo
    <2>15. Max(made) \in Nat
      <3>1. made \in SUBSET (1 .. n) /\ made # {}
        BY <1>2, <1>E
      <3> HIDE DEF made
      <3>2. Max(made) \in made
        BY <3>1, <1>E, MaxUpTo
      <3>3. \A x \in made : x \in Nat
        BY <3>1
      <3>4. QED
        BY <3>2, <3>3
    <2> HIDE DEF made
    <2>16. e < Max(made)
      BY <2>1, <2>8, <2>13, <2>14, <2>15
    <2>17. QED
      BY <2>8, <2>11, <2>16
  <1>3. \/ made \subseteq ObservedCalls(rows, k)
        \/ \E e \in Starts(rows, f) : s < e /\ e < Max(made)
    <2> HIDE DEF made
    <2>1. QED
      BY <1>2
  <1>4. QED
    BY <1>1, <1>3 DEF rows, f, es, s

-----------------------------------------------------------------------------
\* Prompts are added; of an old one only the packet changes.
PromptsKept(ps, qs) ==
    /\ Len(ps) <= Len(qs)
    /\ \A k \in 1 .. Len(ps) : qs[k].session = ps[k].session /\ qs[k].how = ps[k].how /\ qs[k].brief = ps[k].brief

LEMMA TranscriptStays ==
  ASSUME NEW es \in Seq(EntryType), NEW s, NEW ps \in Seq(PromptType), NEW qs \in Seq(PromptType),
         PromptsKept(ps, qs), Transcript(es, s, ps)
  PROVE  Transcript(es, s, qs)
  <1>1. Len(es) \in Nat /\ Len(ps) \in Nat /\ Len(qs) \in Nat
    OBVIOUS
  <1>3. ASSUME NEW i \in 1 .. Len(es)
        PROVE  /\ es[i].of \in 0 .. Len(qs)
               /\ es[i].of # 0 => /\ qs[es[i].of].session = ps[es[i].of].session
                                  /\ qs[es[i].of].how = ps[es[i].of].how
                                  /\ qs[es[i].of].brief = ps[es[i].of].brief
    <2>1. es[i].of \in 0 .. Len(ps)
      BY DEF Transcript, EntryOK
    <2>2. es[i].of # 0 => es[i].of \in 1 .. Len(ps)
      BY <1>1, <2>1
    <2>3. QED
      BY <1>1, <2>1, <2>2 DEF PromptsKept
  <1>4. ASSUME NEW i \in 1 .. Len(es), Begins(es[i])
        PROVE  /\ es[i].of # 0
               /\ es[i].session = qs[es[i].of].session
               /\ es[i].kind = "candidate" => qs[es[i].of].how = "meta"
               /\ qs[es[i].of].brief => i < Len(es) /\ es[i + 1].kind = "brief" /\ es[i + 1].of = es[i].of
    <2>1. /\ es[i].of # 0
          /\ es[i].session = ps[es[i].of].session
          /\ es[i].kind = "candidate" => ps[es[i].of].how = "meta"
          /\ ps[es[i].of].brief => i < Len(es) /\ es[i + 1].kind = "brief" /\ es[i + 1].of = es[i].of
      BY <1>4 DEF Transcript, EntryOK
    <2>2. QED
      BY <1>3, <2>1
  <1>5. ASSUME NEW i \in 1 .. Len(es), es[i].kind = "brief"
        PROVE  i > 1 /\ Begins(es[i - 1]) /\ es[i - 1].of = es[i].of /\ es[i].of # 0
               /\ es[i].session = es[i - 1].session /\ qs[es[i].of].brief
    <2>1. i > 1 /\ Begins(es[i - 1]) /\ es[i - 1].of = es[i].of /\ es[i].of # 0
          /\ es[i].session = es[i - 1].session /\ ps[es[i].of].brief
      BY <1>5 DEF Transcript, EntryOK
    <2>2. QED
      BY <1>3, <2>1
  <1>6. QED
    BY <1>3, <1>4, <1>5 DEF Transcript, EntryOK

\* What is added leaves the entries before it as they were.
LEMMA JoinedEntries ==
  ASSUME NEW es \in Seq(EntryType), NEW add \in Seq(EntryType)
  PROVE  /\ es \o add \in Seq(EntryType) /\ Len(es \o add) = Len(es) + Len(add)
         /\ Len(es) \in Nat /\ Len(add) \in Nat
         /\ \A i \in 1 .. Len(es) : (es \o add)[i] = es[i]
         /\ \A i \in Len(es) + 1 .. Len(es) + Len(add) : (es \o add)[i] = add[i - Len(es)]
  OBVIOUS

\* The old part of a longer transcript is as good as it was.
LEMMA OldPart ==
  ASSUME NEW es \in Seq(EntryType), NEW longer \in Seq(EntryType), NEW s, NEW ps \in Seq(PromptType),
         Len(es) <= Len(longer), \A i \in 1 .. Len(es) : longer[i] = es[i], Transcript(es, s, ps), NEW i \in 1 .. Len(es)
  PROVE  /\ EntryOK(longer, i, ps)
         /\ \A j \in 1 .. Len(es) : Begins(longer[i]) /\ Begins(longer[j]) /\ longer[i].of = longer[j].of => i = j
         /\ \A j \in 1 .. Len(es) : i < j /\ longer[i].session = s => longer[j].session = s
  <1>1. longer[i] = es[i] /\ Len(es) \in Nat /\ Len(longer) \in Nat
    OBVIOUS
  <1>2. longer[i].of \in 0 .. Len(ps)
    BY <1>1 DEF Transcript, EntryOK
  <1>3. ASSUME Begins(longer[i])
        PROVE  /\ longer[i].of # 0
               /\ longer[i].session = ps[longer[i].of].session
               /\ longer[i].kind = "candidate" => ps[longer[i].of].how = "meta"
               /\ ps[longer[i].of].brief => i < Len(longer) /\ longer[i + 1].kind = "brief" /\ longer[i + 1].of = longer[i].of
    <2>1. /\ es[i].of # 0
          /\ es[i].session = ps[es[i].of].session
          /\ es[i].kind = "candidate" => ps[es[i].of].how = "meta"
          /\ ps[es[i].of].brief => i < Len(es) /\ es[i + 1].kind = "brief" /\ es[i + 1].of = es[i].of
      BY <1>1, <1>3 DEF Transcript, EntryOK
    <2>2. i < Len(es) => longer[i + 1] = es[i + 1] /\ i < Len(longer)
      BY <1>1
    <2>3. QED
      BY <1>1, <2>1, <2>2
  <1>4. ASSUME longer[i].kind = "brief"
        PROVE  i > 1 /\ Begins(longer[i - 1]) /\ longer[i - 1].of = longer[i].of /\ longer[i].of # 0
               /\ longer[i].session = longer[i - 1].session /\ ps[longer[i].of].brief
    <2>1. i > 1 /\ Begins(es[i - 1]) /\ es[i - 1].of = es[i].of /\ es[i].of # 0
          /\ es[i].session = es[i - 1].session /\ ps[es[i].of].brief
      BY <1>1, <1>4 DEF Transcript, EntryOK
    <2>2. longer[i - 1] = es[i - 1]
      BY <2>1, <1>1
    <2>3. QED
      BY <1>1, <2>1, <2>2
  <1>5. ASSUME longer[i].kind = "call"
        PROVE  \/ longer[i].of = 0 /\ \A j \in 1 .. i - 1 : ~ Begins(longer[j])
               \/ \E b \in 1 .. i - 1 : Last(longer, b, i) /\ longer[i].of = longer[b].of
    <2>1. \/ es[i].of = 0 /\ \A j \in 1 .. i - 1 : ~ Begins(es[j])
          \/ \E b \in 1 .. i - 1 : Last(es, b, i) /\ es[i].of = es[b].of
      BY <1>1, <1>5 DEF Transcript, EntryOK
    <2>2. \A j \in 1 .. i - 1 : longer[j] = es[j]
      BY <1>1
    <2>3. CASE es[i].of = 0 /\ \A j \in 1 .. i - 1 : ~ Begins(es[j])
      BY <1>1, <2>2, <2>3
    <2>4. CASE \E b \in 1 .. i - 1 : Last(es, b, i) /\ es[i].of = es[b].of
      <3>1. PICK b \in 1 .. i - 1 : Last(es, b, i) /\ es[i].of = es[b].of
        BY <2>4
      <3>2. \A j \in b + 1 .. i - 1 : j \in 1 .. i - 1
        BY <1>1
      <3>3. Last(longer, b, i)
        BY <2>2, <3>1, <3>2 DEF Last
      <3>4. QED
        BY <1>1, <2>2, <3>1, <3>3
    <2>5. QED
      BY <2>1, <2>3, <2>4
  <1>6. \A j \in 1 .. Len(es) : Begins(longer[i]) /\ Begins(longer[j]) /\ longer[i].of = longer[j].of => i = j
    BY DEF Transcript, EntryOK
  <1>7. \A j \in 1 .. Len(es) : i < j /\ longer[i].session = s => longer[j].session = s
    BY DEF Transcript, EntryOK
  <1>8. QED
    BY <1>2, <1>3, <1>4, <1>5, <1>6, <1>7 DEF EntryOK

\* A prompt is stored behind all there is, with its brief.
LEMMA PromptStored ==
  ASSUME NEW es \in Seq(EntryType), NEW add \in Seq(EntryType), NEW s, NEW ps \in Seq(PromptType), NEW p \in PromptType,
         p.session = s, Transcript(es, s, ps),
         Len(add) = IF p.brief THEN 2 ELSE 1,
         add[1].kind = IF p.how = "meta" THEN "candidate" ELSE "prompt",
         add[1].of = Len(ps) + 1, add[1].session = s,
         p.brief => add[2].kind = "brief" /\ add[2].of = Len(ps) + 1 /\ add[2].session = s
  PROVE  Transcript(es \o add, s, Append(ps, p))
  <1> DEFINE longer == es \o add
             qs == Append(ps, p)
             n == Len(es)
             k == Len(ps) + 1
  <1>1. /\ longer \in Seq(EntryType) /\ Len(longer) = n + Len(add) /\ n \in Nat
        /\ \A i \in 1 .. n : longer[i] = es[i]
        /\ \A i \in n + 1 .. n + Len(add) : longer[i] = add[i - n]
    BY JoinedEntries
  <1>2. qs \in Seq(PromptType) /\ Len(qs) = k /\ qs[k] = p /\ Len(ps) \in Nat /\ k \in Nat /\ k # 0
    OBVIOUS
  <1>3. PromptsKept(ps, qs)
    BY DEF PromptsKept
  <1>4. Transcript(es, s, qs)
    BY <1>2, <1>3, TranscriptStays
  <1>5. longer[n + 1] = add[1] /\ (p.brief => longer[n + 2] = add[2] /\ Len(longer) = n + 2) /\ (~ p.brief => Len(longer) = n + 1)
    <2>1. n + 1 \in n + 1 .. n + Len(add) /\ (n + 1) - n = 1
      BY <1>1
    <2>2. p.brief => n + 2 \in n + 1 .. n + Len(add) /\ (n + 2) - n = 2
      BY <1>1
    <2>3. longer[n + 1] = add[1]
      BY <1>1, <2>1
    <2>4. p.brief => longer[n + 2] = add[2] /\ Len(longer) = n + 2
      BY <1>1, <2>2
    <2>5. ~ p.brief => Len(longer) = n + 1
      BY <1>1
    <2>6. QED
      BY <2>3, <2>4, <2>5
  <1>O. \A i \in 1 .. n : es[i].of \in 0 .. Len(ps)
    BY DEF Transcript, EntryOK
  <1> HIDE DEF longer, qs, k
  <1>6. ASSUME NEW i \in 1 .. n
        PROVE  /\ EntryOK(longer, i, qs)
               /\ \A j \in 1 .. n : Begins(longer[i]) /\ Begins(longer[j]) /\ longer[i].of = longer[j].of => i = j
               /\ \A j \in 1 .. n : i < j /\ longer[i].session = s => longer[j].session = s
    <2>1. n <= Len(longer)
      BY <1>1
    <2>2. /\ longer \in Seq(EntryType) /\ qs \in Seq(PromptType) /\ Len(es) <= Len(longer)
          /\ \A x \in 1 .. Len(es) : longer[x] = es[x]
          /\ Transcript(es, s, qs) /\ i \in 1 .. Len(es)
      BY <1>1, <1>2, <1>4, <2>1
    <2>3. QED
      BY <2>2, OldPart
  <1>7. /\ longer[n + 1].kind \in {"prompt", "candidate"} /\ longer[n + 1].of = k /\ k # 0 /\ longer[n + 1].session = s
        /\ Begins(longer[n + 1]) /\ (longer[n + 1].kind = "candidate" => p.how = "meta")
    <2>1. longer[n + 1].kind \in {"prompt", "candidate"} /\ longer[n + 1].of = k /\ longer[n + 1].session = s
          /\ (longer[n + 1].kind = "candidate" => p.how = "meta")
      BY <1>5 DEF k
    <2>2. QED
      BY <1>2, <2>1 DEF Begins
  <1>8. p.brief => longer[n + 2].kind = "brief" /\ longer[n + 2].of = k /\ longer[n + 2].session = s
    BY <1>5 DEF k
  <1>9. \A i \in 1 .. Len(longer) : i \in 1 .. n \/ i = n + 1 \/ (p.brief /\ i = n + 2)
    BY <1>1, <1>5
  <1>10. ASSUME NEW i \in 1 .. Len(longer), i \notin 1 .. n
         PROVE  EntryOK(longer, i, qs) /\ longer[i].of = k /\ longer[i].session = s /\ (Begins(longer[i]) => i = n + 1)
    <2>1. k \in 0 .. Len(qs)
      BY <1>2
    <2>2. CASE i = n + 1
      <3>1. longer[i].of = k /\ longer[i].session = s /\ longer[i].kind \in {"prompt", "candidate"}
        BY <1>7, <2>2
      <3>2. longer[i].session = qs[longer[i].of].session /\ (longer[i].kind = "candidate" => qs[longer[i].of].how = "meta")
        BY <1>2, <1>7, <2>2
      <3>3. qs[longer[i].of].brief => i < Len(longer) /\ longer[i + 1].kind = "brief" /\ longer[i + 1].of = longer[i].of
        <4>1. SUFFICES ASSUME qs[longer[i].of].brief
                       PROVE  i < Len(longer) /\ longer[i + 1].kind = "brief" /\ longer[i + 1].of = longer[i].of
          OBVIOUS
        <4>2. p.brief
          BY <4>1, <1>2, <3>1
        <4>3. i + 1 = n + 2 /\ i < Len(longer)
          BY <1>1, <1>5, <2>2, <4>2
        <4>4. QED
          BY <1>8, <3>1, <4>2, <4>3
      <3>4. QED
        BY <1>2, <2>1, <2>2, <3>1, <3>2, <3>3 DEF EntryOK
    <2>3. CASE p.brief /\ i = n + 2
      <3>1. longer[i].of = k /\ longer[i].session = s /\ longer[i].kind = "brief" /\ ~ Begins(longer[i])
        BY <1>8, <2>3 DEF Begins
      <3>2. i - 1 = n + 1 /\ i > 1
        BY <1>1, <2>3
      <3>3. Begins(longer[i - 1]) /\ longer[i - 1].of = k /\ longer[i - 1].session = s
        BY <1>7, <3>2
      <3>4. qs[longer[i].of].brief
        BY <1>2, <2>3, <3>1
      <3>5. QED
        BY <1>2, <2>1, <3>1, <3>2, <3>3, <3>4 DEF EntryOK
    <2>4. QED
      BY <1>9, <1>10, <2>2, <2>3
  <1>11. ASSUME NEW i \in 1 .. Len(longer), NEW j \in 1 .. Len(longer), Begins(longer[i]), Begins(longer[j]), longer[i].of = longer[j].of
         PROVE  i = j
    <2>1. \A x \in 1 .. n : longer[x].of # k
      <3>1. TAKE x \in 1 .. n
      <3>2. longer[x].of \in 0 .. Len(ps)
        BY <1>1, <1>O
      <3>3. QED
        BY <1>2, <3>2 DEF k
    <2>2. CASE i \in 1 .. n /\ j \in 1 .. n
      BY <1>6, <1>11, <2>2
    <2>3. CASE i \notin 1 .. n /\ j \notin 1 .. n
      BY <1>10, <1>11, <2>3
    <2>4. QED
      BY <1>10, <1>11, <2>1, <2>2, <2>3
  <1>12. ASSUME NEW i \in 1 .. Len(longer), NEW j \in 1 .. Len(longer), i < j, longer[i].session = s
         PROVE  longer[j].session = s
    <2>1. CASE j \in 1 .. n
      <3>1. i \in 1 .. n
        BY <1>1, <1>12, <2>1
      <3>2. QED
        BY <1>6, <1>12, <2>1, <3>1
    <2>2. CASE j \notin 1 .. n
      BY <1>10, <2>2
    <2>3. QED
      BY <2>1, <2>2
  <1>13. Transcript(longer, s, qs)
    BY <1>6, <1>10, <1>11, <1>12 DEF Transcript
  <1>14. QED
    BY <1>13 DEF longer, qs

\* A queued text or a call is stored behind all there is.
LEMMA OtherStored ==
  ASSUME NEW es \in Seq(EntryType), NEW e \in EntryType, NEW s, NEW ps \in Seq(PromptType), Transcript(es, s, ps),
         e.session = s,
         \/ e.kind = "candidate" /\ e.of = 0
         \/ e.kind = "call" /\ \/ e.of = 0 /\ \A j \in 1 .. Len(es) : ~ Begins(es[j])
                               \/ \E b \in 1 .. Len(es) : e.of = es[b].of /\ Last(es, b, Len(es) + 1)
  PROVE  Transcript(es \o <<e>>, s, ps)
  <1> DEFINE add == <<e>>
             longer == es \o add
             n == Len(es)
  <1>0. add \in Seq(EntryType) /\ Len(add) = 1 /\ add[1] = e
    OBVIOUS
  <1>1. /\ longer \in Seq(EntryType) /\ Len(longer) = n + 1 /\ n \in Nat
        /\ \A i \in 1 .. n : longer[i] = es[i]
        /\ longer[n + 1] = e
    <2>1. /\ longer \in Seq(EntryType) /\ Len(longer) = n + Len(add) /\ n \in Nat
          /\ \A i \in 1 .. n : longer[i] = es[i]
          /\ \A i \in n + 1 .. n + Len(add) : longer[i] = add[i - n]
      BY <1>0, JoinedEntries
    <2>2. n + 1 \in n + 1 .. n + Len(add) /\ (n + 1) - n = 1
      BY <1>0, <2>1
    <2> HIDE DEF add
    <2>3. QED
      BY <1>0, <2>1, <2>2
  <1>O. \A i \in 1 .. n : es[i].of \in 0 .. Len(ps)
    BY DEF Transcript, EntryOK
  <1> HIDE DEF add, longer
  <1>2. ASSUME NEW i \in 1 .. n
        PROVE  /\ EntryOK(longer, i, ps)
               /\ \A j \in 1 .. n : Begins(longer[i]) /\ Begins(longer[j]) /\ longer[i].of = longer[j].of => i = j
               /\ \A j \in 1 .. n : i < j /\ longer[i].session = s => longer[j].session = s
    <2>1. n <= Len(longer)
      BY <1>1
    <2>2. /\ longer \in Seq(EntryType) /\ Len(es) <= Len(longer)
          /\ \A x \in 1 .. Len(es) : longer[x] = es[x]
          /\ i \in 1 .. Len(es)
      BY <1>1, <2>1
    <2>3. QED
      BY <2>2, OldPart
  <1>3. ~ Begins(e) /\ e.kind # "brief" /\ e.of \in 0 .. Len(ps)
    <2>1. ~ Begins(e) /\ e.kind # "brief"
      BY DEF Begins
    <2>2. e.of \in 0 .. Len(ps)
      BY <1>O
    <2>3. QED
      BY <2>1, <2>2
  <1>4. e.kind = "call" => \/ e.of = 0 /\ \A j \in 1 .. n : ~ Begins(longer[j])
                           \/ \E b \in 1 .. n : Last(longer, b, n + 1) /\ e.of = longer[b].of
    <2>1. CASE e.kind = "call" /\ \E b \in 1 .. n : e.of = es[b].of /\ Last(es, b, n + 1)
      <3>1. PICK b \in 1 .. n : e.of = es[b].of /\ Last(es, b, n + 1)
        BY <2>1
      <3>2. \A j \in b + 1 .. (n + 1) - 1 : j \in 1 .. n
        BY <1>1
      <3>3. Last(longer, b, n + 1)
        BY <1>1, <3>1, <3>2 DEF Last
      <3>4. QED
        BY <1>1, <3>1, <3>3
    <2>2. CASE e.kind = "call" /\ e.of = 0 /\ \A j \in 1 .. n : ~ Begins(es[j])
      BY <1>1, <2>2
    <2>3. QED
      BY <2>1, <2>2
  <1>5. \A i \in 1 .. Len(longer) : i \in 1 .. n \/ i = n + 1
    BY <1>1
  <1>6. ASSUME NEW i \in 1 .. Len(longer), NEW j \in 1 .. Len(longer), i < j, longer[i].session = s
        PROVE  longer[j].session = s
    <2>1. CASE j \in 1 .. n
      <3>1. i \in 1 .. n
        BY <1>1, <1>6, <2>1
      <3>2. QED
        BY <1>2, <1>6, <2>1, <3>1
    <2>2. CASE j = n + 1
      BY <1>1, <2>2
    <2>3. QED
      BY <1>5, <2>1, <2>2
  <1>7. ASSUME NEW i \in 1 .. Len(longer) PROVE EntryOK(longer, i, ps)
    <2>1. CASE i \in 1 .. n
      BY <1>2, <2>1
    <2>2. CASE i = n + 1
      <3>1. i - 1 = n /\ longer[i] = e
        BY <1>1, <2>2
      <3>2. QED
        BY <1>3, <1>4, <2>2, <3>1 DEF EntryOK
    <2>3. QED
      BY <1>5, <2>1, <2>2
  <1>8. ASSUME NEW i \in 1 .. Len(longer), NEW j \in 1 .. Len(longer), Begins(longer[i]), Begins(longer[j]), longer[i].of = longer[j].of
        PROVE  i = j
    BY <1>1, <1>2, <1>3, <1>5, <1>8
  <1>10. Transcript(longer, s, ps)
    BY <1>6, <1>7, <1>8 DEF Transcript
  <1>11. QED
    BY <1>10 DEF longer, add

LEMMA FileOf == ASSUME NEW s \in Sessions PROVE <<1, s>> \in Roots \X Sessions /\ <<Live, s>> \in Roots \X Sessions /\ <<1, s>> # <<Live, s>>
  BY DEF Roots, Live

\* A transcript that is written grows behind what was there; prompts are added.
LEMMA Grows ==
  ASSUME RowsInv, NEW s \in Sessions, NEW add \in Seq(EntryType), add # <<>>,
         Add(s, add),
         asked' \in Seq(PromptType), PromptsKept(asked, asked'), Transcript(WrittenIn(s) \o add, s, asked'),
         \A i \in 1 .. Len(add) : add[i].session = s,
         \A k \in 1 .. Len(asked') : k > Len(asked) /\ asked'[k].brief =>
            asked'[k].session = s /\ \E i \in 1 .. Len(add) : add[i].kind = "brief" /\ add[i].of = k,
         moment' \in Nat, rowFaults' \in Nat, queue' \in [Sessions -> Seq(RowTexts)]
  PROVE  RowsInv'
  <1> DEFINE L == <<Live, s>>
             longer == WrittenIn(s) \o add
             n == Len(file[L])
             m == Len(add)
  <1>T. RowsTyped
    BY DEF RowsInv
  <1>L. L \in Roots \X Sessions /\ L[1] = Live /\ L[2] = s /\ \A t \in Sessions : t # s => <<Live, t>> # L
    BY FileOf
  <1>1. \A f \in Roots \X Sessions : file[f] \in Seq(EntryType) /\ Len(file[f]) \in Nat
    BY <1>T DEF RowsTyped
  <1>2. /\ longer \in Seq(EntryType) /\ Len(longer) = n + m /\ m \in Nat /\ m # 0 /\ n \in Nat
        /\ \A i \in 1 .. n : longer[i] = file[L][i]
        /\ \A i \in n + 1 .. n + m : longer[i] = add[i - n]
    <2>1. WrittenIn(s) = file[L] /\ WrittenIn(s) \in Seq(EntryType)
      BY <1>1, <1>L DEF WrittenIn
    <2>2. m # 0
      OBVIOUS
    <2>3. QED
      BY <2>1, <2>2, JoinedEntries
  <1>3. file'[L] = longer /\ \A f \in Roots \X Sessions : f # L => file'[f] = file[f]
    BY <1>T, <1>L DEF RowsTyped, Add
  <1>A. \A i \in 1 .. m : add[i].session = s
    OBVIOUS
  <1>B. \A k \in 1 .. Len(asked') : k > Len(asked) /\ asked'[k].brief =>
           asked'[k].session = s /\ \E i \in 1 .. m : add[i].kind = "brief" /\ add[i].of = k
    OBVIOUS
  <1>N. n = Len(file[L])
    OBVIOUS
  <1> HIDE DEF longer, n, m, L
  <1>M. Len(longer) # 0
    <2>1. n + m # 0
      BY <1>2
    <2>2. QED
      BY <1>2, <2>1
  <1>4. RowsTyped'
    <2>1. file' \in [Roots \X Sessions -> Seq(EntryType)]
      BY <1>T, <1>L, <1>2 DEF RowsTyped, longer, Add
    <2>2. QED
      BY <2>1 DEF RowsTyped
  <1>5. \A f \in Roots \X Sessions : Len(file[f]) <= Len(file'[f]) /\ Len(file'[f]) \in Nat
                                     /\ \A i \in 1 .. Len(file[f]) : file'[f][i] = file[f][i]
    <2> TAKE f \in Roots \X Sessions
    <2>1. CASE f = L
      <3>1. file'[f] = longer /\ Len(file[f]) = n
        BY <1>3, <1>N, <2>1
      <3>2. n <= Len(longer) /\ Len(longer) \in Nat
        BY <1>2
      <3>3. \A i \in 1 .. n : longer[i] = file[f][i]
        BY <1>2, <2>1
      <3>4. QED
        BY <3>1, <3>2, <3>3
    <2>2. CASE f # L
      <3>1. file'[f] = file[f] /\ Len(file[f]) \in Nat
        BY <1>1, <1>3, <2>2
      <3>2. QED
        BY <3>1
    <2>3. QED
      BY <2>1, <2>2
  <1>6. ASSUME NEW f \in Roots \X Sessions PROVE Transcript(file'[f], f[2], asked')
    <2>1. CASE f = L
      BY <1>3, <1>L, <2>1 DEF longer
    <2>2. CASE f # L
      <3>1. Transcript(file[f], f[2], asked) /\ asked \in Seq(PromptType)
        BY <1>T DEF RowsInv, RowsTyped
      <3>2. Transcript(file[f], f[2], asked')
        BY <1>1, <3>1, TranscriptStays
      <3>3. QED
        BY <1>3, <2>2, <3>2
    <2>3. QED
      BY <2>1, <2>2
  <1>7. ASSUME NEW k \in 1 .. Len(asked'), asked'[k].brief
        PROVE  \E i \in 1 .. Len(file'[<<Live, asked'[k].session>>]) :
                  LET e == file'[<<Live, asked'[k].session>>][i] IN e.kind = "brief" /\ e.of = k
    <2>0. Len(asked) \in Nat /\ Len(asked') \in Nat
      BY <1>T DEF RowsTyped
    <2>1. CASE k > Len(asked)
      <3>1. PICK i \in 1 .. m : add[i].kind = "brief" /\ add[i].of = k
        BY <1>7, <1>B, <2>1
      <3>2. n + i \in n + 1 .. n + m /\ (n + i) - n = i /\ n + i \in 1 .. n + m
        BY <1>2
      <3>3. longer[n + i] = add[i] /\ n + i \in 1 .. Len(longer)
        BY <1>2, <3>2
      <3>4. asked'[k].session = s
        BY <1>7, <1>B, <2>1
      <3>5. <<Live, asked'[k].session>> = L /\ file'[L] = longer
        BY <1>3, <3>4 DEF L
      <3>6. longer[n + i].kind = "brief" /\ longer[n + i].of = k
        BY <3>1, <3>3
      <3>7. QED
        BY <3>3, <3>5, <3>6
    <2>2. CASE ~ (k > Len(asked))
      <3>1. k \in 1 .. Len(asked)
        BY <2>0, <2>2
      <3>2. asked[k].brief /\ asked'[k].session = asked[k].session
        BY <1>7, <3>1 DEF PromptsKept
      <3>3. asked[k] \in PromptType
        BY <1>T, <3>1 DEF RowsTyped
      <3>4. <<Live, asked[k].session>> \in Roots \X Sessions
        BY <3>3, FileOf DEF PromptType
      <3>5. PICK i \in 1 .. Len(file[<<Live, asked[k].session>>]) :
               LET e == file[<<Live, asked[k].session>>][i] IN e.kind = "brief" /\ e.of = k
        BY <3>1, <3>2 DEF RowsInv
      <3>6. i \in 1 .. Len(file'[<<Live, asked[k].session>>])
            /\ file'[<<Live, asked[k].session>>][i] = file[<<Live, asked[k].session>>][i]
        BY <1>1, <1>5, <3>4, <3>5
      <3>7. QED
        BY <3>2, <3>5, <3>6
    <2>3. QED
      BY <2>1, <2>2
  <1>8. ASSUME NEW f \in Roots \X Sessions, NEW i \in 1 .. Len(file'[f])
        PROVE  file'[<<Live, file'[f][i].session>>] # <<>>
    <2>1. \A t \in Sessions : file[<<Live, t>>] # <<>> => file'[<<Live, t>>] # <<>>
      <3> TAKE t \in Sessions
      <3>1. <<Live, t>> \in Roots \X Sessions
        BY FileOf
      <3>2. CASE t = s
        <4>1. Len(file'[L]) # 0
          BY <1>M, <1>3
        <4>2. QED
          BY <3>2, <4>1 DEF L
      <3>3. CASE t # s
        BY <1>3, <1>L, <3>1, <3>3
      <3>4. QED
        BY <3>2, <3>3
    <2>2. file'[L] # <<>>
      <3>1. Len(file'[L]) # 0
        BY <1>M, <1>3
      <3>2. QED
        BY <3>1
    <2>3. ASSUME NEW x \in Roots \X Sessions, NEW y \in 1 .. Len(file[x])
          PROVE  file'[<<Live, file[x][y].session>>] # <<>>
      <3>1. file[<<Live, file[x][y].session>>] # <<>>
        BY DEF RowsInv
      <3>2. file[x][y] \in EntryType
        BY <1>1
      <3>3. QED
        BY <2>1, <3>1, <3>2 DEF EntryType
    <2>4. CASE f # L
      <3>1. file'[f] = file[f]
        BY <1>3, <2>4
      <3>2. i \in 1 .. Len(file[f])
        BY <3>1
      <3>3. QED
        BY <2>3, <3>1, <3>2
    <2>5. CASE f = L /\ i \in 1 .. n
      <3>1. file'[f][i] = file[L][i]
        BY <1>2, <1>3, <2>5
      <3>2. QED
        BY <2>3, <2>5, <3>1, <1>L, <1>N
    <2>6. CASE f = L /\ i \notin 1 .. n
      <3>0. i \in 1 .. n + m
        BY <1>2, <1>3, <2>6
      <3>1. i \in n + 1 .. n + m
        BY <1>2, <2>6, <3>0
      <3>2. i - n \in 1 .. m
        BY <1>2, <3>1
      <3>3. file'[f][i] = add[i - n]
        BY <1>2, <1>3, <2>6, <3>1
      <3>5. file'[f][i].session = s
        BY <1>A, <3>2, <3>3
      <3>4. QED
        BY <2>2, <3>5 DEF L
    <2>7. QED
      BY <2>4, <2>5, <2>6
  <1>9. ASSUME NEW t \in Sessions
        PROVE  /\ Len(file'[<<1, t>>]) <= Len(file'[<<Live, t>>])
               /\ \A i \in 1 .. Len(file'[<<1, t>>]) : file'[<<1, t>>][i] = file'[<<Live, t>>][i]
    <2>1. <<1, t>> \in Roots \X Sessions /\ <<Live, t>> \in Roots \X Sessions /\ <<1, t>> # L
      BY FileOf DEF Live, L
    <2>2. file'[<<1, t>>] = file[<<1, t>>]
      BY <1>3, <2>1
    <2>3. /\ Len(file[<<1, t>>]) <= Len(file[<<Live, t>>])
          /\ \A i \in 1 .. Len(file[<<1, t>>]) : file[<<1, t>>][i] = file[<<Live, t>>][i]
      BY DEF RowsInv
    <2>4. Len(file[<<Live, t>>]) <= Len(file'[<<Live, t>>])
          /\ \A i \in 1 .. Len(file[<<Live, t>>]) : file'[<<Live, t>>][i] = file[<<Live, t>>][i]
      BY <1>5, <2>1
    <2>5. Len(file[<<1, t>>]) \in Nat /\ Len(file[<<Live, t>>]) \in Nat /\ Len(file'[<<Live, t>>]) \in Nat
      BY <1>1, <1>5, <2>1
    <2>6. \A i \in 1 .. Len(file[<<1, t>>]) : i \in 1 .. Len(file[<<Live, t>>])
      BY <2>3, <2>5
    <2>7. Len(file'[<<1, t>>]) <= Len(file'[<<Live, t>>])
      <3> DEFINE a == Len(file[<<1, t>>])
                 b == Len(file[<<Live, t>>])
                 c == Len(file'[<<Live, t>>])
      <3>0. a \in Nat /\ b \in Nat /\ c \in Nat /\ a <= b /\ b <= c
        BY <2>3, <2>4, <2>5
      <3> HIDE DEF a, b, c
      <3>3. a <= c
        BY <3>0
      <3>1. Len(file[<<1, t>>]) <= Len(file'[<<Live, t>>])
        BY <3>3 DEF a, c
      <3>2. QED
        BY <2>2, <3>1
    <2>8. \A i \in 1 .. Len(file'[<<1, t>>]) : file'[<<1, t>>][i] = file'[<<Live, t>>][i]
      BY <2>2, <2>3, <2>4, <2>6
    <2>9. QED
      BY <2>7, <2>8
  <1>10. QED
    BY <1>4, <1>6, <1>7, <1>8, <1>9 DEF RowsInv

LEMMA TurnIs ==
  ASSUME NEW es \in Seq(EntryType)
  PROVE  \/ TurnOf(es) = 0 /\ \A j \in 1 .. Len(es) : ~ Begins(es[j])
         \/ \E b \in 1 .. Len(es) : TurnOf(es) = es[b].of /\ Last(es, b, Len(es) + 1)
  <1> DEFINE B == {i \in DOMAIN es : Begins(es[i])}
  <1>1. DOMAIN es = 1 .. Len(es) /\ Len(es) \in Nat
    OBVIOUS
  <1>2. TurnOf(es) = IF B = {} THEN 0 ELSE es[Max(B)].of
    BY DEF TurnOf
  <1>3. CASE B = {}
    BY <1>1, <1>2, <1>3
  <1>4. CASE B # {}
    <2>1. B \in SUBSET (1 .. Len(es)) /\ \A i \in 1 .. Len(es) : Begins(es[i]) => i \in B
      BY <1>1
    <2>2. \A i \in B : Begins(es[i])
      OBVIOUS
    <2> HIDE DEF B
    <2>3. Max(B) \in B /\ \A x \in B : x <= Max(B)
      BY <1>1, <1>4, <2>1, MaxUpTo
    <2>4. Max(B) \in 1 .. Len(es) /\ Begins(es[Max(B)]) /\ TurnOf(es) = es[Max(B)].of
      BY <1>2, <1>4, <2>1, <2>2, <2>3
    <2>5. \A j \in Max(B) + 1 .. (Len(es) + 1) - 1 : ~ Begins(es[j])
      BY <1>1, <2>1, <2>3, <2>4
    <2>6. Last(es, Max(B), Len(es) + 1)
      BY <1>1, <2>4, <2>5 DEF Last
    <2>7. QED
      BY <2>4, <2>6
  <1>5. QED
    BY <1>3, <1>4

LEMMA PromptStep ==
  ASSUME RowsInv, NEW s \in Sessions, NEW text \in RowTexts, NEW how \in {"typed", "meta", "queued"},
         StorePrompt(s, text, how), queue' \in [Sessions -> Seq(RowTexts)]
  PROVE  RowsInv'
  <1>T. RowsTyped
    BY DEF RowsInv
  <1>1. PICK kept \in {"none", "kept"}, brief \in BOOLEAN, stored \in {text, Odd} :
           /\ asked' = Append(asked, [session |-> s, text |-> text, made |-> moment,
                                          how |-> how, packet |-> kept, brief |-> brief])
           /\ LET k == Len(asked')
              IN  Add(s, <<Event(IF how = "meta" THEN "candidate" ELSE "prompt", stored, k, s)>>
                         \o (IF brief THEN <<Event("brief", NoPlace, k, s)>> ELSE <<>>))
    BY DEF StorePrompt
  <1> DEFINE p == [session |-> s, text |-> text, made |-> moment, how |-> how, packet |-> kept, brief |-> brief]
             k == Len(asked) + 1
             e1 == Event(IF how = "meta" THEN "candidate" ELSE "prompt", stored, k, s)
             e2 == Event("brief", NoPlace, k, s)
             add == <<e1>> \o (IF brief THEN <<e2>> ELSE <<>>)
  <1>2. p \in PromptType /\ p.session = s /\ p.brief = brief /\ p.how = how /\ moment \in Nat
    <2>1. moment \in Nat
      BY <1>T DEF RowsTyped
    <2>2. QED
      BY <2>1 DEF PromptType
  <1>3. asked \in Seq(PromptType) /\ k \in Nat /\ Len(asked) \in Nat
    BY <1>T DEF RowsTyped
  <1>4. e1 \in EntryType /\ e1.kind = (IF how = "meta" THEN "candidate" ELSE "prompt") /\ e1.of = k /\ e1.session = s
    <2>1. stored \in RowTexts \cup {Odd, NoPlace}
      OBVIOUS
    <2>2. QED
      BY <1>2, <1>3, <2>1 DEF Event, EntryType
  <1>5. e2 \in EntryType /\ e2.kind = "brief" /\ e2.of = k /\ e2.session = s
    BY <1>2, <1>3 DEF Event, EntryType
  <1>6. asked' = Append(asked, p) /\ Len(asked') = k
    BY <1>1, <1>3
  <1>7. Add(s, add)
    BY <1>1, <1>6
  <1> HIDE DEF p, e1, e2
  <1>8. /\ add \in Seq(EntryType) /\ Len(add) = (IF p.brief THEN 2 ELSE 1) /\ add[1] = e1
        /\ p.brief => add[2] = e2
    BY <1>2, <1>4, <1>5
  <1> HIDE DEF add
  <1>9. add # <<>>
    <2>1. Len(add) # 0
      BY <1>8
    <2>2. QED
      BY <2>1
  <1>10. asked' \in Seq(PromptType) /\ asked'[k] = p /\ \A j \in 1 .. Len(asked) : asked'[j] = asked[j]
    BY <1>2, <1>3, <1>6
  <1>11. PromptsKept(asked, asked')
    BY <1>3, <1>6, <1>10 DEF PromptsKept
  <1>12. WrittenIn(s) \in Seq(EntryType) /\ Transcript(WrittenIn(s), s, asked)
    <2>1. <<Live, s>> \in Roots \X Sessions /\ <<Live, s>>[2] = s
      BY FileOf
    <2>2. Transcript(file[<<Live, s>>], s, asked)
      BY <2>1 DEF RowsInv
    <2>3. QED
      BY <1>T, <2>1, <2>2 DEF RowsTyped, WrittenIn
  <1>13. Transcript(WrittenIn(s) \o add, s, Append(asked, p))
    BY <1>2, <1>3, <1>4, <1>5, <1>8, <1>12, PromptStored DEF k
  <1>14. \A i \in 1 .. Len(add) : add[i].session = s
    <2>1. \A i \in 1 .. Len(add) : i = 1 \/ (p.brief /\ i = 2)
      BY <1>8
    <2>2. QED
      BY <1>4, <1>5, <1>8, <2>1
  <1>15. \A j \in 1 .. Len(asked') : j > Len(asked) /\ asked'[j].brief =>
            asked'[j].session = s /\ \E i \in 1 .. Len(add) : add[i].kind = "brief" /\ add[i].of = j
    <2> SUFFICES ASSUME NEW j \in 1 .. Len(asked'), j > Len(asked), asked'[j].brief
                 PROVE  asked'[j].session = s /\ \E i \in 1 .. Len(add) : add[i].kind = "brief" /\ add[i].of = j
      OBVIOUS
    <2>1. j = k
      BY <1>3, <1>6
    <2>2. asked'[j] = p /\ p.brief
      BY <1>10, <2>1
    <2>3. 2 \in 1 .. Len(add) /\ add[2].kind = "brief" /\ add[2].of = j
      BY <1>5, <1>8, <2>1, <2>2
    <2>4. QED
      BY <1>2, <2>2, <2>3
  <1>16. moment' \in Nat /\ rowFaults' \in Nat
    BY <1>T DEF RowsTyped, StorePrompt
  <1>17. QED
    BY <1>6, <1>7, <1>8, <1>9, <1>10, <1>11, <1>13, <1>14, <1>15, <1>16, Grows

LEMMA OtherStep ==
  ASSUME RowsInv, NEW s \in Sessions, NEW e \in EntryType, e.session = s, Add(s, <<e>>),
         \/ e.kind = "candidate" /\ e.of = 0
         \/ e.kind = "call" /\ e.of = TurnOf(WrittenIn(s)),
         moment' \in Nat, rowFaults' \in Nat, queue' \in [Sessions -> Seq(RowTexts)], asked' = asked
  PROVE  RowsInv'
  <1>T. RowsTyped
    BY DEF RowsInv
  <1>1. asked \in Seq(PromptType) /\ PromptsKept(asked, asked)
    BY <1>T DEF RowsTyped, PromptsKept
  <1>2. WrittenIn(s) \in Seq(EntryType) /\ Transcript(WrittenIn(s), s, asked)
    <2>1. <<Live, s>> \in Roots \X Sessions /\ <<Live, s>>[2] = s
      BY FileOf
    <2>2. Transcript(file[<<Live, s>>], s, asked)
      BY <2>1 DEF RowsInv
    <2>3. QED
      BY <1>T, <2>1, <2>2 DEF RowsTyped, WrittenIn
  <1>3. \/ e.kind = "candidate" /\ e.of = 0
        \/ e.kind = "call" /\ \/ e.of = 0 /\ \A j \in 1 .. Len(WrittenIn(s)) : ~ Begins(WrittenIn(s)[j])
                              \/ \E b \in 1 .. Len(WrittenIn(s)) :
                                    e.of = WrittenIn(s)[b].of /\ Last(WrittenIn(s), b, Len(WrittenIn(s)) + 1)
    BY <1>2, TurnIs
  <1>4. Transcript(WrittenIn(s) \o <<e>>, s, asked)
    BY <1>1, <1>2, <1>3, OtherStored
  <1> DEFINE add == <<e>>
  <1>5. add \in Seq(EntryType) /\ add # <<>> /\ Len(add) = 1 /\ add[1] = e
    OBVIOUS
  <1>6. \A i \in 1 .. Len(add) : add[i].session = s
    BY <1>5
  <1>7. Add(s, add) /\ Transcript(WrittenIn(s) \o add, s, asked)
    BY <1>4
  <1> HIDE DEF add
  <1>8. \A k \in 1 .. Len(asked) : ~ (k > Len(asked))
    BY <1>1
  <1>9. QED
    BY <1>1, <1>5, <1>6, <1>7, <1>8, Grows

\* A prompt that is blocked, or a packet that is lost, changes no transcript.
LEMMA PromptsOnly ==
  ASSUME RowsInv, asked' \in Seq(PromptType), PromptsKept(asked, asked'),
         \A k \in 1 .. Len(asked') : k > Len(asked) => ~ asked'[k].brief,
         moment' \in Nat, rowFaults' \in Nat, file' = file, queue' = queue
  PROVE  RowsInv'
  <1>T. RowsTyped
    BY DEF RowsInv
  <1>1. RowsTyped'
    BY <1>T DEF RowsTyped
  <1>2. ASSUME NEW f \in Roots \X Sessions PROVE Transcript(file'[f], f[2], asked')
    <2>1. Transcript(file[f], f[2], asked) /\ asked \in Seq(PromptType) /\ file[f] \in Seq(EntryType)
      BY <1>T DEF RowsInv, RowsTyped
    <2>2. Transcript(file[f], f[2], asked')
      BY <2>1, TranscriptStays
    <2>3. QED
      BY <2>2
  <1>3. ASSUME NEW k \in 1 .. Len(asked'), asked'[k].brief
        PROVE  \E i \in 1 .. Len(file'[<<Live, asked'[k].session>>]) :
                  LET e == file'[<<Live, asked'[k].session>>][i] IN e.kind = "brief" /\ e.of = k
    <2>1. k \in 1 .. Len(asked)
      <3>1. Len(asked) \in Nat /\ Len(asked') \in Nat
        BY <1>T DEF RowsTyped
      <3>2. QED
        BY <1>3, <3>1
    <2>2. asked[k].brief /\ asked'[k].session = asked[k].session
      BY <1>3, <2>1 DEF PromptsKept
    <2>3. \E i \in 1 .. Len(file[<<Live, asked[k].session>>]) :
             LET e == file[<<Live, asked[k].session>>][i] IN e.kind = "brief" /\ e.of = k
      BY <2>1, <2>2 DEF RowsInv
    <2>4. QED
      BY <2>2, <2>3
  <1>4. QED
    BY <1>1, <1>2, <1>3 DEF RowsInv

\* A transcript appears: the history of a session under another name or root.
LEMMA CopyStep ==
  ASSUME RowsInv, NEW s \in Sessions, NEW c \in Roots \X Sessions, file[c] = <<>>, WrittenIn(s) # <<>>,
         c[1] = Live \/ c[2] = s, file' = [file EXCEPT ![c] = WrittenIn(s)],
         moment' = moment, asked' = asked, queue' = queue, rowFaults' \in Nat
  PROVE  RowsInv'
  <1> DEFINE longer == WrittenIn(s)
  <1>T. RowsTyped
    BY DEF RowsInv
  <1>1. <<Live, s>> \in Roots \X Sessions /\ longer = file[<<Live, s>>] /\ longer \in Seq(EntryType) /\ Len(longer) \in Nat
        /\ Transcript(longer, s, asked)
    <2>1. <<Live, s>> \in Roots \X Sessions /\ <<Live, s>>[2] = s /\ longer = file[<<Live, s>>]
      BY FileOf DEF WrittenIn
    <2>2. Transcript(file[<<Live, s>>], <<Live, s>>[2], asked)
      BY <2>1 DEF RowsInv
    <2>3. longer \in Seq(EntryType)
      BY <1>T, <2>1 DEF RowsTyped
    <2> HIDE DEF longer
    <2>4. QED
      BY <2>1, <2>2, <2>3
  <1>2. file'[c] = longer /\ \A f \in Roots \X Sessions : f # c => file'[f] = file[f]
    BY <1>T DEF RowsTyped
  <1>3. RowsTyped'
    <2>1. file' \in [Roots \X Sessions -> Seq(EntryType)]
      BY <1>1, <1>T DEF RowsTyped
    <2>2. QED
      BY <1>T, <2>1 DEF RowsTyped
  <1>4. c # <<Live, s>> /\ longer # <<>>
    BY <1>1
  <1> HIDE DEF longer
  <1>5. \A t \in Sessions : file[<<Live, t>>] # <<>> => file'[<<Live, t>>] = file[<<Live, t>>]
    <2> SUFFICES ASSUME NEW t \in Sessions, file[<<Live, t>>] # <<>> PROVE file'[<<Live, t>>] = file[<<Live, t>>]
      OBVIOUS
    <2>1. <<Live, t>> \in Roots \X Sessions /\ <<Live, t>> # c
      BY FileOf
    <2>2. QED
      BY <1>2, <2>1
  <1>6. ASSUME NEW f \in Roots \X Sessions PROVE Transcript(file'[f], f[2], asked')
    <2>1. CASE f # c
      BY <1>2, <2>1 DEF RowsInv
    <2>2. CASE f = c /\ c[2] = s
      BY <1>1, <1>2, <2>2
    <2>3. CASE f = c /\ c[1] = Live /\ c[2] # s
      <3>1. c = <<Live, c[2]>> /\ c[2] \in Sessions
        BY <2>3
      <3>2. ASSUME NEW i \in 1 .. Len(longer) PROVE longer[i].session # c[2]
        <4>1. file[<<Live, longer[i].session>>] # <<>>
          BY <1>1 DEF RowsInv
        <4>2. QED
          BY <3>1, <4>1
      <3>3. Transcript(longer, c[2], asked)
        BY <1>1, <3>2 DEF Transcript
      <3>4. QED
        BY <1>2, <2>3, <3>3
    <2>4. QED
      BY <2>1, <2>2, <2>3
  <1>7. ASSUME NEW k \in 1 .. Len(asked'), asked'[k].brief
        PROVE  \E i \in 1 .. Len(file'[<<Live, asked'[k].session>>]) :
                  LET e == file'[<<Live, asked'[k].session>>][i] IN e.kind = "brief" /\ e.of = k
    <2> DEFINE t == asked[k].session
    <2>1. k \in 1 .. Len(asked) /\ asked[k].brief /\ asked' = asked
      BY <1>7
    <2>2. PICK i \in 1 .. Len(file[<<Live, t>>]) : LET e == file[<<Live, t>>][i] IN e.kind = "brief" /\ e.of = k
      BY <2>1 DEF RowsInv
    <2>3. t \in Sessions
      <3>1. asked[k] \in PromptType
        BY <1>T, <2>1 DEF RowsTyped
      <3>2. QED
        BY <3>1 DEF PromptType
    <2>4. file[<<Live, t>>] # <<>>
      BY <2>2
    <2>5. file'[<<Live, t>>] = file[<<Live, t>>]
      BY <1>5, <2>3, <2>4
    <2>6. QED
      BY <2>1, <2>2, <2>5
  <1>8. ASSUME NEW f \in Roots \X Sessions, NEW i \in 1 .. Len(file'[f])
        PROVE  file'[<<Live, file'[f][i].session>>] # <<>>
    <2>1. PICK x \in Roots \X Sessions : file'[f] = file[x]
      BY <1>1, <1>2
    <2>2. file[x][i] \in EntryType /\ file[<<Live, file[x][i].session>>] # <<>>
      BY <1>8, <1>T, <2>1 DEF RowsInv, RowsTyped
    <2>3. file[x][i].session \in Sessions
      BY <2>2 DEF EntryType
    <2>4. QED
      BY <1>5, <2>1, <2>2, <2>3
  <1>9. ASSUME NEW t \in Sessions
        PROVE  /\ Len(file'[<<1, t>>]) <= Len(file'[<<Live, t>>])
               /\ \A i \in 1 .. Len(file'[<<1, t>>]) : file'[<<1, t>>][i] = file'[<<Live, t>>][i]
    <2>1. <<1, t>> \in Roots \X Sessions /\ <<Live, t>> \in Roots \X Sessions /\ <<1, t>> # <<Live, t>>
      BY FileOf
    <2>2. /\ Len(file[<<1, t>>]) <= Len(file[<<Live, t>>])
          /\ \A i \in 1 .. Len(file[<<1, t>>]) : file[<<1, t>>][i] = file[<<Live, t>>][i]
      BY DEF RowsInv
    <2>3. CASE c = <<1, t>>
      <3>1. t = s
        BY <2>3 DEF Live
      <3>2. file'[<<1, t>>] = longer /\ file'[<<Live, t>>] = longer
        BY <1>1, <1>2, <1>4, <2>1, <2>3, <3>1
      <3>3. Len(longer) \in Nat
        BY <1>1
      <3>4. file'[<<1, t>>] = file'[<<Live, t>>] /\ Len(file'[<<Live, t>>]) \in Nat
        BY <3>2, <3>3
      <3>5. QED
        BY <3>4
    <2>4. CASE c = <<Live, t>>
      <3>1. file'[<<1, t>>] = file[<<1, t>>] /\ file'[<<Live, t>>] = longer /\ file[<<Live, t>>] = <<>>
        BY <1>2, <2>1, <2>4
      <3>2. Len(file[<<1, t>>]) = 0
        <4>1. file[<<1, t>>] \in Seq(EntryType)
          BY <1>T, <2>1 DEF RowsTyped
        <4>2. Len(file[<<Live, t>>]) = 0
          BY <3>1
        <4>3. Len(file[<<1, t>>]) \in Nat /\ Len(file[<<1, t>>]) <= 0
          BY <2>2, <4>1, <4>2
        <4>4. QED
          BY <4>3
      <3>3. Len(file'[<<1, t>>]) = 0
        BY <3>1, <3>2
      <3>4. Len(file'[<<1, t>>]) <= Len(file'[<<Live, t>>]) /\ 1 .. Len(file'[<<1, t>>]) = {}
        BY <1>1, <3>1, <3>3
      <3>5. QED
        BY <3>4
    <2>5. CASE c # <<1, t>> /\ c # <<Live, t>>
      <3>1. file'[<<1, t>>] = file[<<1, t>>] /\ file'[<<Live, t>>] = file[<<Live, t>>]
        BY <1>2, <2>1, <2>5
      <3>2. QED
        BY <2>2, <3>1
    <2>6. QED
      BY <2>3, <2>4, <2>5
  <1>10. QED
    BY <1>3, <1>6, <1>7, <1>8, <1>9 DEF RowsInv

-----------------------------------------------------------------------------
LEMMA RowsStart == RowsInit => RowsInv
  <1> SUFFICES ASSUME RowsInit PROVE RowsInv
    OBVIOUS
  <1>1. RowsTyped
    BY DEF RowsInit, RowsTyped
  <1>2. \A f \in Roots \X Sessions : file[f] = <<>> /\ Len(file[f]) = 0 /\ 1 .. Len(file[f]) = {}
    BY DEF RowsInit
  <1>3. \A f \in Roots \X Sessions : Transcript(file[f], f[2], asked)
    BY <1>2 DEF Transcript
  <1>4. 1 .. Len(asked) = {}
    BY DEF RowsInit
  <1>5. \A s \in Sessions : /\ Len(file[<<1, s>>]) <= Len(file[<<Live, s>>])
                            /\ \A i \in 1 .. Len(file[<<1, s>>]) : file[<<1, s>>][i] = file[<<Live, s>>][i]
    <2> TAKE s \in Sessions
    <2>1. Len(file[<<1, s>>]) = 0 /\ Len(file[<<Live, s>>]) = 0 /\ 1 .. Len(file[<<1, s>>]) = {}
      BY <1>2, FileOf
    <2>2. QED
      BY <2>1
  <1>6. QED
    BY <1>1, <1>2, <1>3, <1>4, <1>5 DEF RowsInv

LEMMA RowsStep == RowsInv /\ [RowsNext]_rowsVars => RowsInv'
  <1> SUFFICES ASSUME RowsInv, [RowsNext]_rowsVars PROVE RowsInv'
    OBVIOUS
  <1>T. RowsTyped
    BY DEF RowsInv
  <1>N. moment \in Nat /\ rowFaults \in Nat /\ asked \in Seq(PromptType) /\ queue \in [Sessions -> Seq(RowTexts)]
    BY <1>T DEF RowsTyped
  <1>1. ASSUME NEW s \in Sessions, NEW text \in RowTexts, Type(s, text) PROVE RowsInv'
    <2>1. StorePrompt(s, text, "typed") /\ queue' \in [Sessions -> Seq(RowTexts)]
      BY <1>1, <1>N DEF Type
    <2>2. QED
      BY <2>1, PromptStep
  <1>2. ASSUME NEW s \in Sessions, NEW text \in RowTexts, Meta(s, text) PROVE RowsInv'
    <2>1. StorePrompt(s, text, "meta") /\ queue' \in [Sessions -> Seq(RowTexts)]
      BY <1>2, <1>N DEF Meta
    <2>2. QED
      BY <2>1, PromptStep
  <1>3. ASSUME NEW s \in Sessions, Dequeue(s) PROVE RowsInv'
    <2>1. queue[s] \in Seq(RowTexts) /\ queue[s] # <<>>
      BY <1>3, <1>N DEF Dequeue
    <2>2. Head(queue[s]) \in RowTexts
      BY <2>1
    <2>3. StorePrompt(s, Head(queue[s]), "queued")
      BY <1>3 DEF Dequeue
    <2>4. queue' \in [Sessions -> Seq(RowTexts)]
      BY <1>3, <1>N DEF Dequeue
    <2>5. QED
      BY <2>2, <2>3, <2>4, PromptStep
  <1>4. ASSUME NEW s \in Sessions, NEW text \in RowTexts, Enqueue(s, text) PROVE RowsInv'
    <2> DEFINE e == Event("candidate", text, 0, s)
    <2>1. e \in EntryType /\ e.session = s /\ e.kind = "candidate" /\ e.of = 0
      BY <1>N DEF Event, EntryType
    <2>2. queue' \in [Sessions -> Seq(RowTexts)]
      BY <1>4, <1>N DEF Enqueue
    <2>3. Add(s, <<e>>) /\ moment' \in Nat /\ rowFaults' \in Nat /\ asked' = asked
      BY <1>4, <1>N DEF Enqueue
    <2> HIDE DEF e
    <2>4. QED
      BY <2>1, <2>2, <2>3, OtherStep
  <1>5. ASSUME NEW s \in Sessions, MakeCall(s) PROVE RowsInv'
    <2> DEFINE e == Event("call", NoPlace, TurnOf(WrittenIn(s)), s)
    <2>0. WrittenIn(s) \in Seq(EntryType)
      BY <1>T, FileOf DEF RowsTyped, WrittenIn
    <2>1. TurnOf(WrittenIn(s)) \in Nat
      <3>1. ASSUME NEW b \in 1 .. Len(WrittenIn(s)) PROVE WrittenIn(s)[b].of \in Nat
        <4>1. WrittenIn(s)[b] \in EntryType
          BY <2>0
        <4>2. QED
          BY <4>1 DEF EntryType
      <3>2. QED
        BY <2>0, <3>1, TurnIs
    <2>2. e \in EntryType /\ e.session = s /\ e.kind = "call" /\ e.of = TurnOf(WrittenIn(s))
      BY <1>N, <2>1 DEF Event, EntryType
    <2>3. Add(s, <<e>>) /\ moment' \in Nat /\ rowFaults' \in Nat /\ asked' = asked /\ queue' \in [Sessions -> Seq(RowTexts)]
      BY <1>5, <1>N DEF MakeCall
    <2> HIDE DEF e
    <2>4. QED
      BY <2>2, <2>3, OtherStep
  <1>6. ASSUME NEW s \in Sessions, NEW text \in RowTexts, BlockPrompt(s, text) PROVE RowsInv'
    <2> DEFINE p == [session |-> s, text |-> text, made |-> moment, how |-> "blocked", packet |-> "kept", brief |-> FALSE]
    <2>1. p \in PromptType /\ p.brief = FALSE
      BY <1>N DEF PromptType
    <2>2. asked' = Append(asked, p) /\ moment' = moment /\ rowFaults' = rowFaults /\ file' = file /\ queue' = queue
      BY <1>6 DEF BlockPrompt
    <2> HIDE DEF p
    <2>3. /\ asked' \in Seq(PromptType) /\ Len(asked') = Len(asked) + 1 /\ asked'[Len(asked) + 1] = p
          /\ \A k \in 1 .. Len(asked) : asked'[k] = asked[k]
      BY <1>N, <2>1, <2>2
    <2>4. PromptsKept(asked, asked')
      BY <1>N, <2>3 DEF PromptsKept
    <2>5. \A k \in 1 .. Len(asked') : k > Len(asked) => ~ asked'[k].brief
      <3>1. \A k \in 1 .. Len(asked') : k > Len(asked) => k = Len(asked) + 1
        BY <1>N, <2>3
      <3>2. QED
        BY <2>1, <2>3, <3>1
    <2>6. moment' \in Nat /\ rowFaults' \in Nat
      BY <1>N, <2>2
    <2>7. QED
      BY <2>2, <2>3, <2>4, <2>5, <2>6, PromptsOnly
  <1>7. ASSUME NEW k \in DOMAIN asked, LosePacket(k) PROVE RowsInv'
    <2>1. PICK p \in {"lost", "conflict"} : asked' = [asked EXCEPT ![k].packet = p]
      BY <1>7 DEF LosePacket
    <2>2. moment' = moment /\ file' = file /\ queue' = queue /\ rowFaults' \in Nat
      BY <1>7, <1>N DEF LosePacket
    <2> DEFINE q == [asked[k] EXCEPT !.packet = p]
    <2>3. k \in 1 .. Len(asked) /\ asked[k] \in PromptType
      BY <1>N
    <2>4. q \in PromptType /\ q.session = asked[k].session /\ q.how = asked[k].how /\ q.brief = asked[k].brief
      BY <2>3 DEF PromptType
    <2>5. asked' = [asked EXCEPT ![k] = q]
      BY <2>1
    <2> HIDE DEF q
    <2>6. /\ asked' \in Seq(PromptType) /\ Len(asked') = Len(asked)
          /\ \A j \in 1 .. Len(asked) : asked'[j] = IF j = k THEN q ELSE asked[j]
      BY <1>N, <2>3, <2>4, <2>5
    <2>7. PromptsKept(asked, asked')
      BY <1>N, <2>4, <2>6 DEF PromptsKept
    <2>8. \A j \in 1 .. Len(asked') : ~ (j > Len(asked))
      BY <1>N, <2>6
    <2>9. QED
      BY <1>N, <2>2, <2>6, <2>7, <2>8, PromptsOnly
  <1>8. ASSUME NEW s \in Sessions, NEW t \in Sessions, Fork(s, t) PROVE RowsInv'
    <2>1. WrittenIn(s) # <<>> /\ file[<<Live, t>>] = <<>> /\ file' = [file EXCEPT ![<<Live, t>>] = WrittenIn(s)]
          /\ moment' = moment /\ asked' = asked /\ queue' = queue /\ rowFaults' \in Nat
      BY <1>8, <1>N DEF Fork, WrittenIn
    <2>2. <<Live, t>> \in Roots \X Sessions /\ <<Live, t>>[1] = Live
      BY FileOf
    <2>3. QED
      BY <2>1, <2>2, CopyStep
  <1>9. ASSUME NEW s \in Sessions, Freeze(s) PROVE RowsInv'
    <2>1. WrittenIn(s) # <<>> /\ file[<<1, s>>] = <<>> /\ file' = [file EXCEPT ![<<1, s>>] = WrittenIn(s)]
          /\ moment' = moment /\ asked' = asked /\ queue' = queue /\ rowFaults' \in Nat
      BY <1>9, <1>N DEF Freeze
    <2>2. <<1, s>> \in Roots \X Sessions /\ <<1, s>>[2] = s
      BY FileOf
    <2>3. QED
      BY <2>1, <2>2, CopyStep
  <1>10. ASSUME asked' = asked, file' = file, queue' = queue, moment' \in Nat, rowFaults' \in Nat PROVE RowsInv'
    <2>1. PromptsKept(asked, asked') /\ \A k \in 1 .. Len(asked') : ~ (k > Len(asked))
      BY <1>10, <1>N DEF PromptsKept
    <2>2. QED
      BY <1>10, <1>N, <2>1, PromptsOnly
  <1>11. CASE RowsTick \/ UNCHANGED rowsVars
    BY <1>10, <1>11, <1>N DEF RowsTick, rowsVars
  <1>12. QED
    BY <1>1, <1>2, <1>3, <1>4, <1>5, <1>6, <1>7, <1>8, <1>9, <1>11 DEF RowsNext

\* The bounds are kept.
RowsBounded == moment \in 0 .. MaxMoment /\ Len(asked) <= MaxAsked /\ rowFaults \in 0 .. MaxRowFaults

LEMMA BoundedStart == ASSUME RowsAssumption PROVE RowsInit => RowsBounded
  BY DEF RowsInit, RowsBounded, RowsAssumption

LEMMA BoundedStep == ASSUME RowsAssumption PROVE RowsInv /\ RowsBounded /\ [RowsNext]_rowsVars => RowsBounded'
  <1> SUFFICES ASSUME RowsInv, RowsBounded, [RowsNext]_rowsVars PROVE RowsBounded'
    OBVIOUS
  <1>N. asked \in Seq(PromptType) /\ MaxMoment \in Nat /\ MaxAsked \in Nat /\ MaxRowFaults \in Nat
    BY DEF RowsInv, RowsTyped, RowsAssumption
  <1>P. \A s, text, how : StorePrompt(s, text, how) => moment' = moment /\ rowFaults' = rowFaults
    BY DEF StorePrompt
  <1>1. moment' \in 0 .. MaxMoment
    <2>1. moment' = moment \/ (moment < MaxMoment /\ moment' = moment + 1)
      BY <1>P DEF RowsNext, rowsVars, Type, Meta, Enqueue, Dequeue, BlockPrompt, MakeCall, Freeze, Fork, LosePacket, RowsTick
    <2>2. QED
      BY <1>N, <2>1 DEF RowsBounded
  <1>2. rowFaults' \in 0 .. MaxRowFaults
    <2>1. rowFaults' = rowFaults \/ (rowFaults < MaxRowFaults /\ rowFaults' = rowFaults + 1)
      BY <1>P DEF RowsNext, rowsVars, Type, Meta, Enqueue, Dequeue, BlockPrompt, MakeCall, Freeze, Fork, LosePacket, RowsTick
    <2>2. QED
      BY <1>N, <2>1 DEF RowsBounded
  <1>3. Len(asked') <= MaxAsked
    <2>1. ASSUME NEW s, NEW text, NEW how, StorePrompt(s, text, how) PROVE Len(asked') <= MaxAsked
      BY <1>N, <2>1 DEF StorePrompt
    <2>2. ASSUME NEW s, NEW text, BlockPrompt(s, text) PROVE Len(asked') <= MaxAsked
      BY <1>N, <2>2 DEF BlockPrompt
    <2>3. ASSUME NEW k, LosePacket(k) PROVE Len(asked') <= MaxAsked
      BY <1>N, <2>3 DEF LosePacket, RowsBounded
    <2>4. ASSUME asked' = asked PROVE Len(asked') <= MaxAsked
      BY <2>4 DEF RowsBounded
    <2>5. QED
      BY <2>1, <2>2, <2>3, <2>4 DEF RowsNext, rowsVars, Type, Meta, Enqueue, Dequeue, MakeCall, Freeze, Fork, RowsTick
  <1>4. QED
    BY <1>1, <1>2, <1>3 DEF RowsBounded

\* Each variable of the sessions stays in its range.
THEOREM RowsTypeCorrect == ASSUME RowsAssumption PROVE RowsSpec => []RowsTypeOK
  <1>1. RowsInv /\ RowsBounded => RowsTypeOK
    <2> SUFFICES ASSUME RowsInv, RowsBounded PROVE RowsTypeOK
      OBVIOUS
    <2>1. RowsTyped
      BY DEF RowsInv
    <2>2. ASSUME NEW f \in FilesThere, NEW i \in DOMAIN file[f] PROVE file[f][i].of \in 0 .. Len(asked)
      <3>1. f \in Roots \X Sessions /\ i \in 1 .. Len(file[f])
        BY <2>1, FileTypes
      <3>2. QED
        BY <3>1 DEF RowsInv, Transcript, EntryOK
    <2>3. QED
      BY <2>2 DEF RowsBounded, RowsTypeOK
  <1>2. QED
    BY <1>1, RowsStart, RowsStep, BoundedStart, BoundedStep, PTL DEF RowsSpec

\* In every transcript that a build can find, however sessions were forked and
\* frozen, prompts queued and packets lost, a row whose brief was injected has
\* no call of another prompt, but of one of the harness that has no place, and
\* all calls of its own that no other row begins before.
THEOREM RowsObserved == ASSUME RowsAssumption PROVE RowsSpec => []TurnObserved
  <1>1. RowsInv => TurnObserved
    <2> SUFFICES ASSUME RowsInv PROVE TurnObserved
      OBVIOUS
    <2>1. \A k \in Placed(Build) : Build[k].brief =>
            LET es == file[Build[k].file]
                observed == ObservedCalls(Build, k)
                made == {i \in DOMAIN es : es[i].kind = "call" /\ es[i].of = k}
            IN  /\ \A i \in observed : es[i].of = k \/ Unplaced(Build, es[i].of)
                /\ \/ made \subseteq observed
                   \/ \E i \in Starts(Build, Build[k].file) : Build[k].start < i /\ i < Max(made)
      BY WindowIsOwn, Zenon
    <2>2. QED
      BY <2>1, Zenon DEF TurnObserved
  <1>2. QED
    BY <1>1, RowsStart, RowsStep, PTL DEF RowsSpec
=============================================================================
