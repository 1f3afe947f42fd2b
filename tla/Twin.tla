--------------------------------- MODULE Twin ---------------------------------
(* The twin harness: every planned task is replayed with its brief (arm A)   *)
(* and without (arm B), and the tokens up to the first edit of a target file *)
(* are compared.  A batch walks the plan over an archive of finished runs    *)
(* and a ledger of what was spent; it may die, or be stopped, anywhere.  A   *)
(* run is the CLI's stream, read through a pipe while a timer runs.  What    *)
(* `verify` says, the times and the statistics over real tasks are left out; *)
(* one archive, one batch at a time and one rebuild of the ledger, which may *)
(* run beside it.                                                            *)
EXTENDS Integers, Sequences, SequencesExt, FiniteSetsExt

CONSTANTS
    Tasks,              \* task -> [kind, family, start]; start: "overlay", "payload" or None
    None, Torn,
    Cap, Ceiling,       \* tokens of one run, of all of them
    Scripts(_),         \* task -> what the client may do with it: sequences of events
    MaxPipe, MaxPlanned, MaxAside, MaxRebuilds, MaxTwinFaults    \* bounds

Arms == {"A", "B"}

\* What the client writes: parts of its messages, and at its end a result.
Event ==
    [type : {"assistant"}, mid : Nat \ {0}, n : Nat, call : {"target", "planted", None}]
        \cup [type : {"result"}, failed : BOOLEAN, n : Nat]

\* A meta.json.
Meta == [spent : Nat, killed : BOOLEAN, invalid : BOOLEAN, planted : BOOLEAN, toTarget : Nat \cup {None}]

TwinAssumption ==
    /\ {Cap, Ceiling, MaxPipe, MaxPlanned, MaxAside, MaxRebuilds, MaxTwinFaults} \subseteq Nat /\ Cap > 0
    /\ None \notin Meta /\ Torn \notin Meta
    /\ IsFiniteSet(DOMAIN Tasks)
    /\ \A t \in DOMAIN Tasks : Tasks[t].kind \in {"lab", "real"} /\ Scripts(t) \subseteq Seq(Event)

VARIABLES
    plan,        \* a sequence of runs
    dir,         \* run -> its meta.json: None, Torn (cut off in the middle) or what it says
    aside,       \* run -> the attempts kept as <run_id>.invalid-N
    book,        \* the ledger file: Torn, or attempt -> tokens
    rebuild,     \* the ledger read from the archive and not yet written, or None
    batch,       \* the batch at work, or None: its copy of the ledger, position and limit
    twinStep,    \* its step: "idle", "next", "running", "meta", "book", "aside"
    cli,         \* what the client of the run will still do
    pipe,        \* what it wrote and the harness did not read yet
    stream,      \* StreamState, and who killed the client
    spent,       \* history: tokens of all attempts that ended
    unsaved,     \* history: those of attempts whose batch died before their meta.json was whole
    behind,      \* history: tokens on file in the archive that the ledger file, the batch's
                 \* copy and the ledger being rebuilt were not told of
    stuck,       \* history: invalid runs whose batch ended before they were set aside
    rebuilds,    \* bounds
    twinFaults

twinVars == <<plan, dir, aside, book, rebuild, batch, twinStep, cli, pipe, stream, spent, unsaved, behind, stuck,
              rebuilds, twinFaults>>

-----------------------------------------------------------------------------
\* plan: Lab controls first, pairs in any order, arms of a pair in any order.
Pair(u, first) ==
    <<[task |-> u[1], rep |-> u[2], arm |-> first],
      [task |-> u[1], rep |-> u[2], arm |-> IF first = "A" THEN "B" ELSE "A"]>>

\* The k-th pair takes the places 2k - 1 and 2k.
PlansOf(units) ==
    {[i \in 1 .. 2 * Len(o) |-> LET k == (i + 1) \div 2 IN Pair(o[k], f[k])[IF i = 2 * k THEN 2 ELSE 1]] :
        o \in SetToSeqs(units), f \in [1 .. Cardinality(units) -> Arms]}

Units(names, reps, kind) == {t \in names : Tasks[t].kind = kind} \X (1 .. reps)

Plans(names, reps) ==
    {l \o r : l \in PlansOf(Units(names, reps, "lab")), r \in PlansOf(Units(names, reps, "real"))}

Runs == Range(plan)
Fresh == [usage |-> <<>>, hit |-> None, planted |-> FALSE, result |-> None, killed |-> None]

TwinInit ==
    /\ \E names \in SUBSET DOMAIN Tasks, reps \in 1 .. 2 :
          /\ names # {} /\ 2 * reps * Cardinality(names) <= MaxPlanned
          /\ plan \in Plans(names, reps)
    /\ dir = [r \in Runs |-> None] /\ aside = [r \in Runs |-> <<>>]
    /\ book = <<>> /\ rebuild = None /\ batch = None /\ twinStep = "idle"
    /\ cli = <<>> /\ pipe = <<>> /\ stream = Fresh
    /\ spent = 0 /\ unsaved = 0 /\ behind = [file |-> 0, copy |-> 0, rebuild |-> 0]
    /\ stuck = {} /\ rebuilds = 0 /\ twinFaults = 0

Total(b) == MapThenSumSet(LAMBDA k : b[k], DOMAIN b)
Run == plan[batch.pos]

-----------------------------------------------------------------------------
(* The stream.                                                             *)

Tokens(s) == FoldSeq(+, 0, s.usage)
TokensThrough(s, mid) == FoldSeq(+, 0, SubSeq(s.usage, 1, mid))
MaxOf(x, y) == IF x > y THEN x ELSE y

\* Where a message is among those of the stream: a new one comes next.
Place(s, e) == IF e.mid > Len(s.usage) THEN Len(s.usage) + 1 ELSE e.mid

\* feed: a message may come again, with a larger count; a subagent's costs
\* tokens and is no call.  A call is an edit of a target, of a planted file, or None.
Feed(s, e) ==
    IF e.type = "result" THEN [s EXCEPT !.result = e]
    ELSE [s EXCEPT !.usage = IF e.mid > Len(s.usage) THEN Append(s.usage, e.n)
                             ELSE [s.usage EXCEPT ![e.mid] = MaxOf(s.usage[e.mid], e.n)],
                   !.hit = IF s.hit = None /\ e.call = "target" THEN Place(s, e) ELSE s.hit,
                   !.planted = s.planted \/ e.call = "planted"]

\* All that the client has written, read or not.
Written == FoldLeft(Feed, stream, pipe)
Spend(s) == IF s.result = None THEN Tokens(s) ELSE MaxOf(Tokens(s), s.result.n)

\* The client writes the next event of what it does in this run; one that
\* could not log in, or that dies, ends without a result or with an error.
WriteEvent ==
    /\ twinStep = "running" /\ cli # <<>> /\ Len(pipe) < MaxPipe
    /\ pipe' = Append(pipe, Head(cli)) /\ cli' = Tail(cli)
    /\ UNCHANGED <<plan, dir, aside, book, batch, twinStep, stream, spent, unsaved, behind, stuck, rebuild,
                   rebuilds, twinFaults>>

\* The reading loop, with the kill at the cap.
ReadEvent ==
    /\ twinStep = "running" /\ pipe # <<>>
    /\ LET s == Feed(stream, Head(pipe))
           over == Tokens(s) > Cap /\ s.killed = None
       IN  /\ stream' = IF over THEN [s EXCEPT !.killed = "cap"] ELSE s
           /\ cli' = IF over THEN <<>> ELSE cli
    /\ pipe' = Tail(pipe)
    /\ UNCHANGED <<plan, dir, aside, book, batch, twinStep, spent, unsaved, behind, stuck, rebuild, rebuilds,
                   twinFaults>>

\* The timer, which runs until the loop is over: the client may be done already.
Wall ==
    /\ twinStep = "running" /\ stream.killed = None
    /\ stream' = [stream EXCEPT !.killed = "wall"] /\ cli' = <<>>
    /\ UNCHANGED <<plan, dir, aside, book, batch, twinStep, pipe, spent, unsaved, behind, stuck, rebuild,
                   rebuilds, twinFaults>>

Eof ==
    /\ twinStep = "running" /\ cli = <<>> /\ pipe = <<>>
    /\ twinStep' = "meta" /\ spent' = spent + Spend(stream)
    /\ UNCHANGED <<plan, dir, aside, book, batch, cli, pipe, stream, unsaved, behind, stuck, rebuild,
                   rebuilds, twinFaults>>

-----------------------------------------------------------------------------
(* The batch.                                                              *)

BeginBatch(kind, limit) ==
    /\ twinStep = "idle" /\ book # Torn /\ twinStep' = "next"
    /\ batch' = [book |-> book, pos |-> 1, kind |-> kind, left |-> limit]
    /\ behind' = [behind EXCEPT !.copy = behind.file]
    /\ UNCHANGED <<plan, dir, aside, book, cli, pipe, stream, spent, unsaved, stuck, rebuild, rebuilds, twinFaults>>

More == twinStep = "next" /\ batch.pos <= Len(plan)
Other == batch.kind # None /\ Tasks[Run.task].kind # batch.kind
Open == More /\ ~ Other /\ dir[Run] = None
Room == Total(batch.book) + Cap <= Ceiling

\* A run of the other kind, or one that has its meta.json.
Skip ==
    /\ More /\ ~ Open
    /\ batch' = [batch EXCEPT !.pos = @ + 1]
    /\ UNCHANGED <<plan, dir, aside, book, twinStep, cli, pipe, stream, spent, unsaved, behind, stuck, rebuild,
                   rebuilds, twinFaults>>

Leave == /\ twinStep' = "idle" /\ batch' = None /\ cli' = <<>> /\ pipe' = <<>> /\ stream' = Fresh
         /\ behind' = [behind EXCEPT !.copy = 0]

StopBatch ==
    /\ twinStep = "next" /\ (More => Open /\ (batch.left = 0 \/ ~ Room))
    /\ Leave
    /\ UNCHANGED <<plan, dir, aside, book, spent, unsaved, stuck, rebuild, rebuilds, twinFaults>>

Launchable == Open /\ batch.left > 0 /\ Room

Executes(script) == script # <<>> /\ Last(script).type = "result" /\ ~ Last(script).failed

LaunchRun ==
    /\ Launchable /\ Tasks[Run.task].start # None
    /\ twinStep' = "running" /\ cli' \in Scripts(Run.task) /\ stream' = Fresh
    /\ MapThenSumSet(LAMBDA r : Len(aside[r]), Runs) = MaxAside => Executes(cli')
    /\ UNCHANGED <<plan, dir, aside, book, batch, pipe, spent, unsaved, behind, stuck, rebuild, rebuilds, twinFaults>>

\* prepare refuses: no payload, one that does not verify, or a clone whose
\* proofs fail.  Nothing catches it.
Refuse ==
    /\ Launchable /\ Tasks[Run.task].start # "overlay"
    /\ Leave
    /\ UNCHANGED <<plan, dir, aside, book, spent, unsaved, stuck, rebuild, rebuilds, twinFaults>>

\* A run the CLI never really executed.
Invalid(s) == s.killed = None /\ (s.result = None \/ s.result.failed)

SaveMeta ==
    /\ twinStep = "meta" /\ twinStep' = "book"
    /\ dir' = [dir EXCEPT ![Run] = [spent |-> Spend(stream), killed |-> stream.killed # None,
                                    invalid |-> Invalid(stream), planted |-> stream.planted,
                                    toTarget |-> IF stream.hit = None THEN None
                                                 ELSE TokensThrough(stream, stream.hit)]]
    /\ behind' = [behind EXCEPT !.file = @ + Spend(stream),
                                !.rebuild = IF rebuild = None THEN 0 ELSE @ + Spend(stream)]
    /\ UNCHANGED <<plan, aside, book, batch, cli, pipe, stream, spent, unsaved, stuck, rebuild, rebuilds, twinFaults>>

\* attempt_key: a rerun adds to the spend, never replaces it.
AttemptKey(b, run) ==
    <<run, 0, CHOOSE n \in 1 .. Cardinality(DOMAIN b) + 1 :
                  <<run, 0, n>> \notin DOMAIN b /\ \A m \in 1 .. n - 1 : <<run, 0, m>> \in DOMAIN b>>

Book ==
    /\ twinStep = "book"
    /\ LET key == AttemptKey(batch.book, Run)
           b == [k \in DOMAIN batch.book \cup {key} |-> IF k = key THEN dir[Run].spent ELSE batch.book[k]]
       IN  /\ book' = b
           /\ IF dir[Run].invalid
              THEN twinStep' = "aside" /\ batch' = [batch EXCEPT !.book = b]
              ELSE twinStep' = "next" /\ batch' = [batch EXCEPT !.book = b, !.pos = @ + 1, !.left = @ - 1]
    /\ stream' = Fresh /\ behind' = [behind EXCEPT !.file = behind.copy]
    /\ UNCHANGED <<plan, dir, aside, cli, pipe, spent, unsaved, stuck, rebuild, rebuilds, twinFaults>>

\* The attempt is kept, its run ID is free again and the batch stops.
SetAside ==
    /\ twinStep = "aside" /\ Leave
    /\ aside' = [aside EXCEPT ![Run] = Append(@, dir[Run])]
    /\ dir' = [dir EXCEPT ![Run] = None]
    /\ UNCHANGED <<plan, book, spent, unsaved, stuck, rebuild, rebuilds, twinFaults>>

\* The batch dies, or the rename fails; a file it was writing may be cut off.
Die ==
    /\ twinStep # "idle" /\ twinFaults < MaxTwinFaults /\ twinFaults' = twinFaults + 1 /\ Leave
    /\ \/ dir' = dir
       \/ twinStep = "meta" /\ dir' = [dir EXCEPT ![Run] = Torn]
    /\ \/ book' = book
       \/ twinStep = "book" /\ book' = Torn
    /\ spent' = IF twinStep = "running" THEN spent + Spend(Written) ELSE spent
    /\ unsaved' = CASE twinStep = "running" -> unsaved + Spend(Written)
                    [] twinStep = "meta" -> unsaved + Spend(stream)
                    [] OTHER -> unsaved
    /\ stuck' = IF twinStep \in {"book", "aside"} /\ dir[Run].invalid THEN stuck \cup {Run} ELSE stuck
    /\ UNCHANGED <<plan, aside, rebuild, rebuilds>>

\* Mutant: the attempts that were set aside are not looked for.
BugKept == [k \in {<<r, 0, 1>> : r \in Runs} |-> dir[k[1]]]

\* The attempts that the archive has, each by the name of its directory.
Kept == [k \in UNION {{<<r, i, 1>> : i \in 0 .. Len(aside[r])} : r \in Runs} |->
            IF k[2] = 0 THEN dir[k[1]] ELSE aside[k[1]][k[2]]]

\* The ledger command, at any time: it reads every meta.json that is there
\* (ledger_from_archives, which fails on one that was cut off), and writes.
ReadArchive ==
    /\ rebuild = None /\ rebuilds < MaxRebuilds /\ rebuilds' = rebuilds + 1
    /\ \A r \in Runs : dir[r] # Torn
    /\ rebuild' = [k \in {x \in DOMAIN Kept : Kept[x] # None} |-> Kept[k].spent]
    /\ UNCHANGED <<plan, dir, aside, book, batch, twinStep, cli, pipe, stream, spent, unsaved, behind, stuck,
                   twinFaults>>

Rebuilt == rebuild # None /\ rebuild' = None
           /\ UNCHANGED <<plan, dir, aside, batch, twinStep, cli, pipe, stream, spent, unsaved, stuck, rebuilds>>

RebuildLedger ==
    /\ Rebuilt /\ book' = rebuild
    /\ behind' = [behind EXCEPT !.file = behind.rebuild, !.rebuild = 0]
    /\ UNCHANGED twinFaults

\* The command dies as it writes.
RebuildDies ==
    /\ Rebuilt /\ twinFaults < MaxTwinFaults /\ twinFaults' = twinFaults + 1
    /\ book' = Torn /\ behind' = [behind EXCEPT !.rebuild = 0]

TwinNext ==
    \/ \E kind \in {None, "lab"}, limit \in {1, MaxPlanned} : BeginBatch(kind, limit)
    \/ Skip \/ StopBatch \/ LaunchRun \/ Refuse \/ WriteEvent \/ ReadEvent \/ Wall \/ Eof
    \/ SaveMeta \/ Book \/ SetAside \/ Die
    \/ ReadArchive \/ RebuildLedger \/ RebuildDies

TwinSpec == TwinInit /\ [][TwinNext]_twinVars

-----------------------------------------------------------------------------
(* The report, of what the archive holds at any time.                      *)

\* ttt: a run that never reached a target, or was killed, counts as the cap.
ToTarget(m) == IF m.toTarget # None /\ ~ m.killed THEN m.toTarget ELSE Cap

FoundRuns(t, arm) == {r \in Runs : r.task = t /\ r.arm = arm /\ dir[r] # None}
Missing == {r \in Runs : dir[r] = None}

LabVerdict(t) ==
    LET A == FoundRuns(t, "A")
        B == FoundRuns(t, "B")
        Sum(rs) == MapThenSumSet(LAMBDA r : ToTarget(dir[r]), rs)
        Reached(rs) == Cardinality({r \in rs : dir[r].toTarget # None})
    IN  CASE Tasks[t].family = "positive" ->
                 \/ Reached(A) = Cardinality(A) /\ Reached(B) < Cardinality(B)
                 \/ Sum(B) > 0 /\ 2 * Sum(A) <= Sum(B)
          [] Tasks[t].family = "negative" ->
                 IF \A r \in A \cup B : ToTarget(dir[r]) = Cap THEN None
                 ELSE Reached(A) = Reached(B) /\ Sum(B) > 0 /\ Sum(B) < 2 * Sum(A) /\ Sum(A) < 2 * Sum(B)
          [] Tasks[t].family = "misleading" -> \E r \in A : dir[r].planted
          [] OTHER -> None

\* Lab tasks with the same number of runs in both arms get a verdict.
Scored == {t \in {r.task : r \in Runs} :
              /\ Tasks[t].kind = "lab"
              /\ FoundRuns(t, "A") # {} /\ Cardinality(FoundRuns(t, "A")) = Cardinality(FoundRuns(t, "B"))}

Positives == {t \in {r.task : r \in Runs} : Tasks[t].kind = "lab" /\ Tasks[t].family = "positive"}

\* Mutant: a control with a verdict is complete.
BugIncomplete == Positives \ Scored

Incomplete == {t \in Positives : t \notin Scored \/ \E r \in Missing : r.task = t}

\* bench_blind; a meta.json that was cut off has no report at all.
BenchBlind ==
    IF \E t \in Positives \cap Scored : ~ LabVerdict(t) THEN "blind"
    ELSE IF Incomplete # {} \/ Positives = {} THEN "unknown" ELSE "sighted"

-----------------------------------------------------------------------------
\* Each variable stays in its range.
TwinTypeOK ==
    /\ twinStep \in {"idle", "next", "running", "meta", "book", "aside"} /\ (twinStep = "idle" => batch = None)
    /\ dir \in [Runs -> Meta \cup {None, Torn}] /\ aside \in [Runs -> Seq(Meta)]
    /\ cli \in Seq(Event) /\ pipe \in Seq(Event)
    /\ spent \in Nat /\ unsaved \in 0 .. spent /\ behind \in [file : Nat, copy : Nat, rebuild : Nat]
    /\ stuck \subseteq Runs

\* When a run is started, what was really spent leaves room for it: reruns of
\* invalid runs, a client's own count and a ledger that was rebuilt, beside a
\* batch too, notwithstanding.  Not counted are the attempts whose batch died
\* before their meta.json was whole, which are in no ledger ever, and those
\* that came on file after the ledger in use was last made.
CeilingKept == twinStep = "running" => spent - unsaved - behind.copy + Cap <= Ceiling

\* The bench is found to see only what it was shown: every planned run of
\* every positive control is in the archive and was really executed, or is
\* about to be set aside, or its batch ended before that.
SightIsEarned ==
    (\A r \in Runs : dir[r] # Torn) /\ BenchBlind = "sighted" =>
        \A r \in Runs : r.task \in Positives =>
            /\ dir[r] # None
            /\ dir[r].invalid => r \in stuck \/ (twinStep \in {"book", "aside"} /\ r = Run)
===============================================================================
