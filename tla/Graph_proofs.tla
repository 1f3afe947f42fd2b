----------------------------- MODULE Graph_proofs -----------------------------
(* GraphHealth for any targets, configurations and number of commits, runs,  *)
(* edits and kills: types, and what a status without an error vouches for.   *)
(* GraphFunnel for any number of sessions, tool uses and questions: types,   *)
(* and that the calls and their records are judged right.                    *)
EXTENDS GraphHealth, GraphFunnel, TLAPS, FiniteSetTheorems, WellFoundedInduction

Records == [name : STRING, scan : Scans, ok : BOOLEAN, nodes : Nat \cup {None},
            headMatch : BOOLEAN \cup {None}, drift : BOOLEAN]
Healths == [exit : {0, 1}, configError : BOOLEAN, lastSuccess : Nat \cup {None}, targets : Seq(Records)]
Refreshes == [targets : Seq(Targets), step : {"extract", "stats"}, records : Seq(Records),
              prev : Healths \cup {None}]
GraphFiles == [built : 0 .. head, nodes : Nat, sound : BOOLEAN]

Typed ==
    /\ TypeOK
    /\ graph \in [Scans -> GraphFiles \cup {None}] /\ made \in [Scans -> (0 .. now) \cup {None}]
    /\ refresh \in [Runs -> Refreshes \cup {None}] /\ health \in Healths \cup {None}
    /\ shown \in [Dirs -> {None, "ok", "warn", "error"}]

\* A refresh lasts less than a day: what it has refreshed was refreshed today.
RefreshedToday ==
    \A r \in Runs : refresh[r] # None =>
        \A i \in DOMAIN refresh[r].records : refresh[r].records[i].ok => made[refresh[r].records[i].scan] = now

\* A record of success names targets that were refreshed at that time or later.
SuccessBacked ==
    health # None /\ health.exit = 0 =>
        /\ health.lastSuccess \in 0 .. now
        /\ \A i \in DOMAIN health.targets :
              /\ made[health.targets[i].scan] \in Nat
              /\ health.lastSuccess <= made[health.targets[i].scan]

\* The settings that are kept are those of the last valid configuration, when
\* the check that saw it could save them.
SettingsKept ==
    /\ goodDirs \subseteq Dirs
    /\ kept \in BOOLEAN
    /\ kept => lkg = [dirs |-> goodDirs, sound |-> TRUE]

\* A graph that was extracted is there.
Extracted == \A r \in Runs : AtTarget(r, "stats") => graph[Target(r).scan] # None

HealthInv == Typed /\ Extracted /\ RefreshedToday /\ SuccessBacked /\ SettingsKept /\ NoStaleOk

-----------------------------------------------------------------------------
LEMMA InitHealthInv == ASSUME ConstAssumption PROVE Init => HealthInv
  <1> SUFFICES ASSUME Init PROVE HealthInv
    OBVIOUS
  <1>1. now = 0 /\ head = 0 /\ config \in Configs /\ runs = 0 /\ edits = 0 /\ faults = 0
    BY DEF Init
  <1>2. graph \in [Scans -> GraphFiles \cup {None}]
    <2>1. PICK b \in Built : graph = [s \in Scans |-> IF s \in b THEN [built |-> 0, nodes |-> Size[0], sound |-> TRUE] ELSE None]
      BY DEF Init
    <2>2. Size[0] \in Nat /\ 0 \in 0 .. head
      BY <1>1 DEF ConstAssumption
    <2>3. [built |-> 0, nodes |-> Size[0], sound |-> TRUE] \in GraphFiles
      BY <2>2 DEF GraphFiles
    <2>4. QED
      BY <2>1, <2>3
  <1>3. made = [s \in Scans |-> None] /\ refresh = [r \in Runs |-> None] /\ health = None
        /\ shown = [d \in Dirs |-> None] /\ task = "never" /\ there = Dirs
        /\ lkg = [dirs |-> {}, sound |-> TRUE] /\ last = None /\ goodDirs = {} /\ kept = TRUE
    BY DEF Init, Empty
  <1>4. TypeOK
    BY <1>1, <1>2, <1>3 DEF TypeOK, ConstAssumption, GraphFiles
  <1>5. Typed
    BY <1>1, <1>2, <1>3, <1>4 DEF Typed
  <1>6. QED
    BY <1>3, <1>5 DEF HealthInv, Extracted, AtTarget, RefreshedToday, SuccessBacked, SettingsKept, NoStaleOk

-----------------------------------------------------------------------------
\* The record of a target that failed, and of one that did not.
LEMMA FailedRecord ==
  ASSUME NEW t \in Targets PROVE Failed(t) \in Records /\ ~ Failed(t).ok
  BY DEF Failed, Records, Targets

LEMMA OkRecord ==
  ASSUME NEW t \in Targets, NEW g \in GraphFiles, NEW prev
  PROVE  LET x == [name |-> t.name, scan |-> t.scan, ok |-> TRUE, nodes |-> g.nodes,
                   headMatch |-> g.built = head, drift |-> Drifted(prev, t, g.nodes)]
         IN  x \in Records /\ x.scan = t.scan
  <1>1. Drifted(prev, t, g.nodes) \in BOOLEAN
    BY Zenon DEF Drifted
  <1>2. (g.built = head) \in BOOLEAN
    OBVIOUS
  <1>3. g.nodes \in Nat /\ t.name \in STRING /\ t.scan \in Scans
    BY DEF GraphFiles, Targets
  <1>4. QED
    BY <1>1, <1>2, <1>3 DEF Records

LEMMA RunRecord ==
  ASSUME NEW A, NEW B, NEW C, NEW D, NEW x \in [targets : A, step : B, records : C, prev : D],
         NEW s \in C, NEW b \in B
  PROVE  [x EXCEPT !.records = s, !.step = b] \in [targets : A, step : B, records : C, prev : D]
  OBVIOUS

\* What a run that is under way may become.
LEMMA RecordTyped ==
  ASSUME Typed, NEW r \in Runs, refresh[r] # None, NEW rec \in Records, Record(r, rec)
  PROVE  /\ refresh' \in [Runs -> Refreshes \cup {None}]
         /\ \A q \in Runs : q # r => refresh'[q] = refresh[q]
         /\ refresh'[r].records = Append(refresh[r].records, rec) /\ refresh'[r].step = "extract"
  <1>1. refresh[r] \in Refreshes
    BY DEF Typed
  <1>2. [refresh[r] EXCEPT !.records = Append(@, rec), !.step = "extract"] \in Refreshes
    <2>1. Append(refresh[r].records, rec) \in Seq(Records)
      BY <1>1 DEF Refreshes
    <2>2. QED
      BY <1>1, <2>1, RunRecord DEF Refreshes
  <1>3. refresh' = [refresh EXCEPT ![r] = [refresh[r] EXCEPT !.records = Append(@, rec), !.step = "extract"]]
    BY DEF Record
  <1>4. /\ [refresh[r] EXCEPT !.records = Append(@, rec), !.step = "extract"].records = Append(refresh[r].records, rec)
        /\ [refresh[r] EXCEPT !.records = Append(@, rec), !.step = "extract"].step = "extract"
    BY <1>1 DEF Refreshes
  <1>5. QED
    BY <1>2, <1>3, <1>4 DEF Typed

LEMMA TargetTyped ==
  ASSUME Typed, NEW r \in Runs, NEW step, AtTarget(r, step)
  PROVE  refresh[r] \in Refreshes /\ Target(r) \in Targets
  <1>1. refresh[r] \in Refreshes
    BY DEF Typed, AtTarget
  <1>2. Len(refresh[r].records) + 1 \in 1 .. Len(refresh[r].targets)
    BY <1>1 DEF AtTarget, Refreshes
  <1>3. QED
    BY <1>1, <1>2 DEF Target, Refreshes

\* A run appends the record of a target that failed or was refreshed now.
LEMMA RecordToday ==
  ASSUME Typed, RefreshedToday, NEW r \in Runs, refresh[r] # None, NEW rec \in Records, Record(r, rec),
         now' = now, rec.ok => made'[rec.scan] = now,
         \A s \in Scans : made'[s] \in {made[s], now}
  PROVE  RefreshedToday'
  <1>1. /\ \A q \in Runs : q # r => refresh'[q] = refresh[q]
        /\ refresh'[r].records = Append(refresh[r].records, rec)
    BY RecordTyped
  <1>2. SUFFICES ASSUME NEW q \in Runs, refresh'[q] # None, NEW i \in DOMAIN refresh'[q].records,
                        refresh'[q].records[i].ok
                 PROVE  made'[refresh'[q].records[i].scan] = now
    BY DEF RefreshedToday
  <1>3. ASSUME NEW p \in Runs, refresh[p] # None, NEW j \in DOMAIN refresh[p].records, refresh[p].records[j].ok
        PROVE  made'[refresh[p].records[j].scan] = now
    <2>1. refresh[p] \in Refreshes
      BY <1>3 DEF Typed
    <2>2. refresh[p].records[j] \in Records
      BY <1>3, <2>1 DEF Refreshes
    <2>3. refresh[p].records[j].scan \in Scans /\ made[refresh[p].records[j].scan] = now
      BY <1>3, <2>2 DEF Records, RefreshedToday
    <2>4. QED
      BY <2>3
  <1>4. CASE q # r
    BY <1>1, <1>2, <1>3, <1>4
  <1>5. CASE q = r
    <2>1. refresh[r].records \in Seq(Records)
      BY DEF Typed, Refreshes
    <2>2. CASE i \in DOMAIN refresh[r].records
      <3>1. refresh'[q].records[i] = refresh[r].records[i]
        BY <1>1, <1>5, <2>1, <2>2
      <3>2. QED
        BY <1>2, <1>3, <2>2, <3>1
    <2>3. CASE i \notin DOMAIN refresh[r].records
      <3>1. refresh'[q].records[i] = rec
        BY <1>1, <1>2, <1>5, <2>1, <2>3
      <3>2. QED
        BY <1>2, <3>1
    <2>4. QED
      BY <2>2, <2>3
  <1>6. QED
    BY <1>4, <1>5

\* A record of success goes on being backed while graphs are only refreshed.
LEMMA BackedStays ==
  ASSUME Typed, SuccessBacked, UNCHANGED health, now' \in Nat, now' >= now,
         \A s \in Scans : made'[s] \in {made[s], now}
  PROVE  SuccessBacked'
  <1> SUFFICES ASSUME health # None, health.exit = 0
               PROVE  /\ health.lastSuccess \in 0 .. now'
                      /\ \A i \in DOMAIN health.targets :
                            /\ made'[health.targets[i].scan] \in Nat
                            /\ health.lastSuccess <= made'[health.targets[i].scan]
    BY DEF SuccessBacked
  <1>1. health.lastSuccess \in 0 .. now /\ now \in Nat
    BY DEF SuccessBacked, Typed, TypeOK
  <1>2. ASSUME NEW i \in DOMAIN health.targets
        PROVE  made'[health.targets[i].scan] \in Nat /\ health.lastSuccess <= made'[health.targets[i].scan]
    <2>1. health.targets[i] \in Records
      BY <1>2 DEF Typed, Healths
    <2>2. health.targets[i].scan \in Scans
      BY <2>1 DEF Records
    <2>3. /\ made[health.targets[i].scan] \in Nat
          /\ health.lastSuccess <= made[health.targets[i].scan]
      BY <1>2 DEF SuccessBacked
    <2>4. QED
      BY <1>1, <2>2, <2>3
  <1>3. QED
    BY <1>1, <1>2

\* Graphs stay, so what was extracted is there as long as no run goes on to the
\* counts of another.
LEMMA ExtractedStays ==
  ASSUME Extracted, Typed, NEW r \in Runs, \A q \in Runs : q # r => refresh'[q] = refresh[q],
         refresh'[r] # None => refresh'[r].step # "stats",
         \A s \in Scans : graph[s] # None => graph'[s] # None
  PROVE  Extracted'
  <1> SUFFICES ASSUME NEW q \in Runs, AtTarget(q, "stats")' PROVE graph'[Target(q)'.scan] # None
    BY DEF Extracted
  <1>1. q # r /\ refresh'[q] = refresh[q]
    BY DEF AtTarget
  <1>2. AtTarget(q, "stats") /\ Target(q)' = Target(q)
    BY <1>1 DEF AtTarget, Target
  <1>3. Target(q).scan \in Scans /\ graph[Target(q).scan] # None
    BY <1>2, TargetTyped DEF Extracted, Targets
  <1>4. QED
    BY <1>2, <1>3

\* A check and a run have nothing of each other: what is kept of the settings.
LEMMA SettingsStay ==
  ASSUME SettingsKept, NoStaleOk, UNCHANGED <<lkg, last, goodDirs, kept>>,
         \A d \in Dirs : shown'[d] \in {shown[d], None}, None # "ok"
  PROVE  SettingsKept' /\ NoStaleOk'
  BY DEF SettingsKept, NoStaleOk

-----------------------------------------------------------------------------
LEMMA StepBegin ==
  ASSUME ConstAssumption, HealthInv, NEW r \in Runs, Begin(r) PROVE HealthInv'
  <1>T. Typed /\ TypeOK /\ Extracted /\ RefreshedToday /\ SuccessBacked /\ SettingsKept /\ NoStaleOk
    BY DEF HealthInv, Typed
  <1>U. UNCHANGED <<now, head, config, there, edits, lkg, shown, last, goodDirs, kept, graph, made, faults>>
        /\ runs' \in 0 .. MaxRuns
    BY <1>T DEF Begin, world, checked, TypeOK, ConstAssumption
  <1>1. SettingsKept' /\ NoStaleOk'
    BY <1>T, <1>U, SettingsStay DEF Typed, ConstAssumption
  <1>2. CASE Valid(config)
    <2> DEFINE x == [targets |-> config.targets, step |-> "extract", records |-> <<>>, prev |-> health]
    <2>1. refresh' = [refresh EXCEPT ![r] = x] /\ UNCHANGED health /\ task' \in {task, "running"}
      BY <1>2 DEF Begin
    <2>2. x \in Refreshes /\ x.records = <<>>
      BY <1>T DEF Typed, TypeOK, Refreshes, ConstAssumption
    <2> HIDE DEF x
    <2>3. Typed'
      BY <1>T, <1>U, <2>1, <2>2 DEF Typed, TypeOK, GraphFiles
    <2>4. RefreshedToday'
      BY <1>T, <1>U, <2>1, <2>2 DEF RefreshedToday, Typed
    <2>5. SuccessBacked'
      BY <1>T, <1>U, <2>1, BackedStays DEF Typed, TypeOK
    <2>6. Extracted'
      <3>1. refresh'[r].step = "extract" /\ \A q \in Runs : q # r => refresh'[q] = refresh[q]
        BY <1>T, <2>1 DEF Typed, x
      <3>2. QED
        BY <1>T, <1>U, <3>1, ExtractedStays
    <2>7. QED
      BY <1>1, <2>3, <2>4, <2>5, <2>6 DEF HealthInv
  <1>3. CASE ~ Valid(config)
    <2>1. /\ health' = [exit |-> 1, configError |-> TRUE, lastSuccess |-> LastSuccess(health), targets |-> <<>>]
          /\ refresh' = [refresh EXCEPT ![r] = None] /\ task' \in {task, "1"}
      BY <1>3 DEF Begin, Exit
    <2>2. LastSuccess(health) \in Nat \cup {None}
      BY <1>T DEF LastSuccess, Typed, Healths
    <2>3. health' \in Healths /\ health'.exit = 1
      BY <2>1, <2>2 DEF Healths
    <2>4. Typed'
      BY <1>T, <1>U, <2>1, <2>3 DEF Typed, TypeOK, GraphFiles
    <2>5. RefreshedToday'
      BY <1>T, <1>U, <2>1 DEF RefreshedToday, Typed
    <2>6. SuccessBacked'
      BY <2>3 DEF SuccessBacked
    <2>7. Extracted'
      <3>1. refresh'[r] = None /\ \A q \in Runs : q # r => refresh'[q] = refresh[q]
        BY <1>T, <2>1 DEF Typed
      <3>2. QED
        BY <1>T, <1>U, <3>1, ExtractedStays
    <2>8. QED
      BY <1>1, <2>4, <2>5, <2>6, <2>7 DEF HealthInv
  <1>4. QED
    BY <1>2, <1>3

LEMMA StepExtract ==
  ASSUME ConstAssumption, HealthInv, NEW r \in Runs, Extract(r) PROVE HealthInv'
  <1>T. Typed /\ TypeOK /\ Extracted /\ RefreshedToday /\ SuccessBacked /\ SettingsKept /\ NoStaleOk
    BY DEF HealthInv, Typed
  <1>U. UNCHANGED <<now, head, config, there, edits, lkg, shown, last, goodDirs, kept, health, task, made, runs>>
    BY DEF Extract, world, checked
  <1>1. SettingsKept' /\ NoStaleOk'
    BY <1>T, <1>U, SettingsStay DEF Typed, ConstAssumption
  <1>2. SuccessBacked'
    BY <1>T, <1>U, BackedStays DEF Typed, TypeOK
  <1>3. AtTarget(r, "extract") /\ faults' \in 0 .. MaxFaults
    <2>1. AtTarget(r, "extract") /\ (Fault \/ NoFault)
      BY Zenon DEF Extract
    <2>2. QED
      BY <1>T, <2>1 DEF Fault, NoFault, TypeOK, ConstAssumption
  <1>4. refresh[r] # None /\ refresh[r] \in Refreshes /\ Target(r) \in Targets
    BY <1>T, <1>3, TargetTyped DEF AtTarget
  <1>5. graph' \in [Scans -> GraphFiles \cup {None}]
    <2> DEFINE s == Target(r).scan
    <2>1. s \in Scans
      BY <1>4 DEF Targets
    <2>2. CASE UNCHANGED graph
      BY <1>T, <2>2 DEF Typed
    <2>3. CASE graph[s] # None /\ graph' = [graph EXCEPT ![s].sound = FALSE]
      <3>1. graph[s] \in GraphFiles
        BY <1>T, <2>1, <2>3 DEF Typed
      <3>2. [graph[s] EXCEPT !.sound = FALSE] \in GraphFiles
        BY <3>1 DEF GraphFiles
      <3>3. QED
        BY <1>T, <2>1, <2>3, <3>2 DEF Typed
    <2>4. CASE \E sound \in BOOLEAN :
                 graph' = [graph EXCEPT ![s] = [built |-> head, nodes |-> Size[head], sound |-> sound]]
      <3>1. PICK sound \in BOOLEAN :
                 graph' = [graph EXCEPT ![s] = [built |-> head, nodes |-> Size[head], sound |-> sound]]
        BY <2>4
      <3>2. Size[head] \in Nat /\ head \in 0 .. head
        BY <1>T DEF TypeOK, ConstAssumption
      <3>3. [built |-> head, nodes |-> Size[head], sound |-> sound] \in GraphFiles
        BY <3>2 DEF GraphFiles
      <3>4. QED
        BY <1>T, <2>1, <3>1, <3>3 DEF Typed
    <2>5. QED
      BY <2>2, <2>3, <2>4 DEF Extract
  <1>S. \A s \in Scans : graph[s] # None => graph'[s] # None
    <2> DEFINE s == Target(r).scan
    <2>1. \A f \in GraphFiles : f # None
      BY <1>T DEF GraphFiles, TypeOK, ConstAssumption
    <2>2. \A q \in Scans : q # s => graph'[q] = graph[q]
      BY <1>T DEF Extract, Typed
    <2>3. graph[s] # None => graph'[s] # None
      <3>1. SUFFICES ASSUME graph[s] # None PROVE graph'[s] # None
        OBVIOUS
      <3>2. s \in Scans
        BY <1>4 DEF Targets
      <3>3. CASE UNCHANGED graph
        BY <3>1, <3>3
      <3>4. CASE graph' = [graph EXCEPT ![s].sound = FALSE]
        <4>1. graph[s] \in GraphFiles
          BY <1>T, <3>1, <3>2 DEF Typed
        <4>2. [graph[s] EXCEPT !.sound = FALSE] \in GraphFiles
          BY <4>1 DEF GraphFiles
        <4>3. QED
          BY <1>T, <2>1, <3>2, <3>4, <4>2 DEF Typed
      <3>5. CASE \E sound \in BOOLEAN :
                   graph' = [graph EXCEPT ![s] = [built |-> head, nodes |-> Size[head], sound |-> sound]]
        <4>1. PICK sound \in BOOLEAN :
                   graph' = [graph EXCEPT ![s] = [built |-> head, nodes |-> Size[head], sound |-> sound]]
          BY <3>5
        <4>2. Size[head] \in Nat /\ head \in 0 .. head
          BY <1>T DEF TypeOK, ConstAssumption
        <4>3. [built |-> head, nodes |-> Size[head], sound |-> sound] \in GraphFiles
          BY <4>2 DEF GraphFiles
        <4>4. QED
          BY <1>T, <2>1, <3>2, <4>1, <4>3 DEF Typed
      <3>6. QED
        BY <3>3, <3>4, <3>5 DEF Extract
    <2>4. QED
      BY <2>2, <2>3
  <1>6. CASE Record(r, Failed(Target(r)))
    <2>1. Failed(Target(r)) \in Records /\ ~ Failed(Target(r)).ok
      BY <1>4, FailedRecord
    <2>2. refresh' \in [Runs -> Refreshes \cup {None}]
      BY <1>T, <1>4, <1>6, <2>1, RecordTyped
    <2>3. Typed'
      BY <1>T, <1>U, <1>3, <1>5, <2>2 DEF Typed, TypeOK, GraphFiles
    <2>4. RefreshedToday'
      BY <1>T, <1>U, <1>4, <1>6, <2>1, RecordToday
    <2>5. Extracted'
      <3>1. refresh'[r].step = "extract" /\ \A q \in Runs : q # r => refresh'[q] = refresh[q]
        BY <1>T, <1>4, <1>6, <2>1, RecordTyped
      <3>2. QED
        BY <1>T, <1>S, <3>1, ExtractedStays
    <2>6. QED
      BY <1>1, <1>2, <2>3, <2>4, <2>5 DEF HealthInv
  <1>7. CASE graph[Target(r).scan] # None /\ refresh' = [refresh EXCEPT ![r].step = "stats"]
    <2>1. [refresh[r] EXCEPT !.step = "stats"] \in Refreshes
          /\ [refresh[r] EXCEPT !.step = "stats"].records = refresh[r].records
      BY <1>4 DEF Refreshes
    <2>2. Typed'
      BY <1>T, <1>U, <1>3, <1>5, <1>7, <2>1 DEF Typed, TypeOK, GraphFiles
    <2>3. RefreshedToday'
      BY <1>T, <1>U, <1>4, <1>7, <2>1 DEF RefreshedToday, Typed
    <2>4. Extracted'
      <3>1. SUFFICES ASSUME NEW q \in Runs, AtTarget(q, "stats")' PROVE graph'[Target(q)'.scan] # None
        BY DEF Extracted
      <3>2. CASE q # r
        <4>1. AtTarget(q, "stats") /\ Target(q)' = Target(q)
          BY <1>T, <1>7, <3>1, <3>2 DEF AtTarget, Target, Typed
        <4>2. Target(q).scan \in Scans /\ graph[Target(q).scan] # None
          BY <1>T, <4>1, TargetTyped DEF Extracted, Targets
        <4>3. QED
          BY <1>S, <4>1, <4>2
      <3>3. CASE q = r
        <4>1. refresh'[r] = [refresh[r] EXCEPT !.step = "stats"]
          BY <1>T, <1>7 DEF Typed
        <4>2. refresh'[r].targets = refresh[r].targets /\ refresh'[r].records = refresh[r].records
          BY <1>4, <4>1 DEF Refreshes
        <4>3. Target(r)' = Target(r)
          BY <4>2 DEF Target
        <4>4. QED
          BY <1>4, <1>7, <1>S, <3>3, <4>3 DEF Targets
      <3>4. QED
        BY <3>2, <3>3
    <2>5. QED
      BY <1>1, <1>2, <2>2, <2>3, <2>4 DEF HealthInv
  <1>8. QED
    BY <1>6, <1>7 DEF Extract

LEMMA StepStats ==
  ASSUME ConstAssumption, HealthInv, NEW r \in Runs, Stats(r) PROVE HealthInv'
  <1>T. Typed /\ TypeOK /\ Extracted /\ RefreshedToday /\ SuccessBacked /\ SettingsKept /\ NoStaleOk
    BY DEF HealthInv, Typed
  <1>U. UNCHANGED <<now, head, config, there, edits, lkg, shown, last, goodDirs, kept, graph, health, task, runs, faults>>
    BY DEF Stats, world, checked
  <1>1. SettingsKept' /\ NoStaleOk'
    BY <1>T, <1>U, SettingsStay DEF Typed, ConstAssumption
  <1> DEFINE t == Target(r)
             g == graph[t.scan]
             good == [name |-> t.name, scan |-> t.scan, ok |-> TRUE, nodes |-> g.nodes,
                      headMatch |-> g.built = head, drift |-> Drifted(refresh[r].prev, t, g.nodes)]
  <1>2. AtTarget(r, "stats")
    BY DEF Stats
  <1>3. refresh[r] # None /\ refresh[r] \in Refreshes /\ t \in Targets /\ t.scan \in Scans
    BY <1>T, <1>2, TargetTyped DEF AtTarget, Targets
  <1>4. \/ g.sound /\ Record(r, good) /\ made' = [made EXCEPT ![t.scan] = now]
        \/ Record(r, Failed(t)) /\ UNCHANGED made
    BY DEF Stats
  <1>5. now \in Nat /\ made' \in [Scans -> (0 .. now) \cup {None}] /\ \A s \in Scans : made'[s] \in {made[s], now}
    BY <1>T, <1>3, <1>4 DEF Typed, TypeOK
  <1>6. SuccessBacked'
    BY <1>T, <1>U, <1>5, BackedStays
  <1>7. PICK rec \in Records : Record(r, rec) /\ (rec.ok => made'[rec.scan] = now)
    <2>1. CASE Record(r, Failed(t)) /\ UNCHANGED made
      BY <1>3, <2>1, FailedRecord
    <2>2. CASE g.sound /\ Record(r, good) /\ made' = [made EXCEPT ![t.scan] = now]
      <3>1. g \in GraphFiles
        BY <1>T, <1>2, <1>3, <2>2 DEF Typed, Extracted
      <3>2. good \in Records /\ good.scan = t.scan
        BY <1>3, <3>1, OkRecord
      <3>3. made'[t.scan] = now
        BY <1>T, <1>3, <2>2 DEF Typed
      <3>4. QED
        BY <2>2, <3>2, <3>3
    <2>3. QED
      BY <1>4, <2>1, <2>2
  <1>8. refresh' \in [Runs -> Refreshes \cup {None}]
    BY <1>T, <1>3, <1>7, RecordTyped
  <1>9. Typed'
    BY <1>T, <1>U, <1>5, <1>8 DEF Typed, TypeOK, GraphFiles
  <1>10. RefreshedToday'
    BY <1>T, <1>U, <1>3, <1>5, <1>7, RecordToday
  <1>11. Extracted'
    <2>1. refresh'[r].step = "extract" /\ \A q \in Runs : q # r => refresh'[q] = refresh[q]
      BY <1>T, <1>3, <1>7, RecordTyped
    <2>2. QED
      BY <1>T, <1>U, <2>1, ExtractedStays
  <1>12. QED
    BY <1>1, <1>6, <1>9, <1>10, <1>11 DEF HealthInv

LEMMA StepFinish ==
  ASSUME ConstAssumption, HealthInv, NEW r \in Runs, Finish(r) PROVE HealthInv'
  <1>T. Typed /\ TypeOK /\ Extracted /\ RefreshedToday /\ SuccessBacked /\ SettingsKept /\ NoStaleOk
    BY DEF HealthInv, Typed
  <1>U. UNCHANGED <<now, head, config, there, edits, lkg, shown, last, goodDirs, kept, graph, made, runs, faults>>
    BY DEF Finish, world, checked
  <1>1. SettingsKept' /\ NoStaleOk'
    BY <1>T, <1>U, SettingsStay DEF Typed, ConstAssumption
  <1> DEFINE done == refresh[r]
             ok == AllOk(done.records)
  <1>2. done # None /\ done \in Refreshes
    BY <1>T DEF Finish, Typed
  <1>3. /\ health' = [exit |-> IF ok THEN 0 ELSE 1, configError |-> FALSE,
                      lastSuccess |-> IF ok THEN now ELSE LastSuccess(done.prev), targets |-> done.records]
        /\ refresh' = [refresh EXCEPT ![r] = None] /\ task' \in {task, "0", "1"}
    BY DEF Finish, Exit
  <1>4. LastSuccess(done.prev) \in Nat \cup {None}
    BY <1>2 DEF LastSuccess, Refreshes, Healths
  <1>5. now \in Nat /\ done.records \in Seq(Records)
    BY <1>T, <1>2 DEF TypeOK, Refreshes
  <1>6. health' \in Healths
    BY <1>3, <1>4, <1>5 DEF Healths
  <1>7. refresh'[r] = None /\ \A q \in Runs : q # r => refresh'[q] = refresh[q]
    BY <1>T, <1>3 DEF Typed
  <1>8. Typed'
    BY <1>T, <1>U, <1>3, <1>6 DEF Typed, TypeOK, GraphFiles
  <1>9. RefreshedToday'
    BY <1>T, <1>U, <1>7 DEF RefreshedToday
  <1>10. Extracted'
    BY <1>T, <1>U, <1>7, ExtractedStays
  <1>11. SuccessBacked'
    <2>1. SUFFICES ASSUME health'.exit = 0
                   PROVE  /\ health'.lastSuccess \in 0 .. now
                          /\ \A i \in DOMAIN health'.targets :
                                /\ made[health'.targets[i].scan] \in Nat
                                /\ health'.lastSuccess <= made[health'.targets[i].scan]
      BY <1>U DEF SuccessBacked
    <2>2. ok
      BY <1>3, <2>1
    <2>3. health'.lastSuccess = now /\ health'.targets = done.records
      BY <1>3, <2>2
    <2>4. \A i \in DOMAIN done.records : made[done.records[i].scan] = now
      BY <1>T, <1>2, <2>2 DEF AllOk, RefreshedToday
    <2>5. QED
      BY <1>5, <2>3, <2>4
  <1>12. QED
    BY <1>1, <1>8, <1>9, <1>10, <1>11 DEF HealthInv

LEMMA StepKill ==
  ASSUME ConstAssumption, HealthInv, NEW r \in Runs, Kill(r) PROVE HealthInv'
  <1>T. Typed /\ TypeOK /\ Extracted /\ RefreshedToday /\ SuccessBacked /\ SettingsKept /\ NoStaleOk
    BY DEF HealthInv, Typed
  <1>U. UNCHANGED <<now, head, config, there, edits, lkg, shown, last, goodDirs, kept, graph, made, runs>>
        /\ faults' \in 0 .. MaxFaults /\ health' \in {health, None} /\ task' \in {task, "killed"}
        /\ refresh' = [refresh EXCEPT ![r] = None]
    BY <1>T DEF Kill, world, checked, Fault, TypeOK, Exit, ConstAssumption
  <1>1. SettingsKept' /\ NoStaleOk'
    BY <1>T, <1>U, SettingsStay DEF Typed, ConstAssumption
  <1>2. refresh'[r] = None /\ \A q \in Runs : q # r => refresh'[q] = refresh[q]
    BY <1>T, <1>U DEF Typed
  <1>3. Typed'
    BY <1>T, <1>U DEF Typed, TypeOK, GraphFiles
  <1>4. RefreshedToday' /\ Extracted'
    BY <1>T, <1>U, <1>2, ExtractedStays DEF RefreshedToday
  <1>5. SuccessBacked'
    BY <1>T, <1>U DEF SuccessBacked
  <1>6. QED
    BY <1>1, <1>3, <1>4, <1>5 DEF HealthInv

\* No folder of the last valid configuration is left with its "ok": it is
\* shown the error, excused, or was gone.
LEMMA StepCheck ==
  ASSUME ConstAssumption, HealthInv, NEW env, NEW failing, NEW settings \in BOOLEAN,
         Check(env, failing, settings)
  PROVE  HealthInv'
  <1>T. Typed /\ TypeOK /\ Extracted /\ RefreshedToday /\ SuccessBacked /\ SettingsKept /\ NoStaleOk
    BY DEF HealthInv, Typed
  <1>U. UNCHANGED <<now, head, config, there, edits, graph, health, refresh, task, made, runs>>
    BY DEF Check, world
  <1> DEFINE readable == settings /\ lkg.sound
             dirs == DashDirs(env, readable)
             st == Status(Errors \cup (IF dirs \subseteq there THEN {} ELSE {"dashboard-dir-missing"}),
                          Warnings(env, readable))
             trusted == Unsaid(env) /\ kept /\ settings
  <1>1. /\ shown' = [d \in Dirs |-> IF d \in (dirs \cap there) \ failing THEN st ELSE shown[d]]
        /\ lkg' \in Saved(settings)
        /\ goodDirs' = IF Valid(config) THEN FileDirs(config) ELSE goodDirs
        /\ kept' = IF Valid(config) THEN settings ELSE kept
        /\ last' = [status |-> st,
                    excused |-> failing \cup (Dirs \ there) \cup (IF trusted THEN {} ELSE Dirs \ dirs)]
    BY DEF Check
  <1>2. st \in {"ok", "warn", "error"}
    BY DEF Status
  <1>3. faults' \in 0 .. MaxFaults
    <2>1. Fault \/ NoFault
      BY Zenon DEF Check
    <2>2. QED
      BY <1>T, <2>1 DEF Fault, NoFault, TypeOK, ConstAssumption
  <1>4. FileDirs(config) \subseteq Dirs
    BY <1>T DEF FileDirs, TypeOK, ConstAssumption
  <1>5. SettingsKept'
    <2>1. CASE Valid(config)
      <3>1. goodDirs' \subseteq Dirs /\ kept' = settings
        BY <1>1, <1>4, <2>1
      <3>2. settings => lkg' = [dirs |-> goodDirs', sound |-> TRUE]
        BY <1>1, <2>1 DEF Saved, Written
      <3>3. QED
        BY <3>1, <3>2 DEF SettingsKept
    <2>2. CASE ~ Valid(config)
      BY <1>T, <1>1, <2>2 DEF Saved, SettingsKept
    <2>3. QED
      BY <2>1, <2>2
  <1> HIDE DEF st, dirs
  <1>6. NoStaleOk'
    <2>1. SUFFICES ASSUME st = "error", NEW d \in goodDirs' \ last'.excused PROVE shown'[d] # "ok"
      BY <1>1 DEF NoStaleOk
    <2>2. d \in Dirs /\ d \in goodDirs'
      BY <1>5 DEF SettingsKept
    <2>3. d \notin failing /\ d \in there /\ (trusted \/ d \in dirs)
      BY <1>1, <2>1, <2>2
    <2>4. CASE d \in dirs
      BY <1>1, <2>1, <2>2, <2>3, <2>4
    <2>5. CASE d \notin dirs
      <3>1. Unsaid(env) /\ kept /\ settings
        BY <2>3, <2>5
      <3>2. ~ Valid(config)
        BY <3>1 DEF Unsaid, Valid
      <3>3. d \in goodDirs
        BY <1>1, <2>2, <3>2
      <3>4. lkg.sound /\ lkg.dirs = goodDirs
        BY <1>T, <3>1 DEF SettingsKept
      <3>5. QED
        BY <2>5, <3>1, <3>3, <3>4 DEF DashDirs, dirs
    <2>6. QED
      BY <2>4, <2>5
  <1>7. shown' \in [Dirs -> {None, "ok", "warn", "error"}]
    BY <1>T, <1>1, <1>2 DEF Typed
  <1>8. Typed'
    BY <1>T, <1>U, <1>3, <1>7 DEF Typed, TypeOK, GraphFiles
  <1>9. RefreshedToday' /\ Extracted'
    BY <1>T, <1>U DEF RefreshedToday, Extracted, AtTarget, Target
  <1>10. SuccessBacked'
    BY <1>T, <1>U DEF SuccessBacked
  <1>11. QED
    BY <1>5, <1>6, <1>8, <1>9, <1>10 DEF HealthInv

LEMMA StepWorld ==
  ASSUME ConstAssumption, HealthInv,
         Tick \/ Commit \/ (\E c \in Configs : EditConfig(c)) \/ \E d \in Dirs : RemoveDir(d)
  PROVE  HealthInv'
  <1>T. Typed /\ TypeOK /\ Extracted /\ RefreshedToday /\ SuccessBacked /\ SettingsKept /\ NoStaleOk
    BY DEF HealthInv, Typed
  <1>U. UNCHANGED <<graph, health, refresh, task, made, runs, faults, lkg, last, goodDirs, kept>>
    BY DEF Tick, Commit, EditConfig, RemoveDir, still, checked
  <1>1. /\ shown' \in [Dirs -> {None, "ok", "warn", "error"}]
        /\ \A d \in Dirs : shown'[d] \in {shown[d], None}
        /\ there' \subseteq Dirs /\ edits' \in 0 .. MaxEdits /\ config' \in Configs
    BY <1>T DEF Tick, Commit, EditConfig, RemoveDir, still, checked, Edits, Typed, TypeOK, ConstAssumption
  <1>2. /\ now' \in 0 .. MaxTime /\ now' >= now /\ head' \in 0 .. MaxCommits /\ head' >= head
        /\ Idle \/ now' = now
    BY <1>T DEF Tick, Commit, EditConfig, RemoveDir, Edits, TypeOK, ConstAssumption
  <1>3. SettingsKept' /\ NoStaleOk'
    BY <1>T, <1>U, <1>1, SettingsStay DEF ConstAssumption
  <1>4. RefreshedToday' /\ Extracted'
    BY <1>T, <1>U, <1>2 DEF RefreshedToday, Extracted, AtTarget, Target, Idle
  <1>5. SuccessBacked'
    BY <1>T, <1>U, <1>2, BackedStays DEF Typed, TypeOK
  <1>6. graph' \in [Scans -> GraphFiles' \cup {None}] /\ made' \in [Scans -> (0 .. now') \cup {None}]
    <2>1. GraphFiles \subseteq GraphFiles' /\ 0 .. now \subseteq 0 .. now'
      BY <1>2, <1>T DEF GraphFiles, TypeOK
    <2>2. QED
      BY <1>T, <1>U, <2>1 DEF Typed
  <1>7. Typed'
    BY <1>T, <1>U, <1>1, <1>2, <1>6 DEF Typed, TypeOK, GraphFiles
  <1>8. QED
    BY <1>3, <1>4, <1>5, <1>7 DEF HealthInv

LEMMA StepHealthInv == ASSUME ConstAssumption PROVE HealthInv /\ [Next]_vars => HealthInv'
  <1> SUFFICES ASSUME HealthInv, [Next]_vars PROVE HealthInv'
    OBVIOUS
  <1>1. CASE UNCHANGED vars
    BY <1>1 DEF vars, HealthInv, Typed, TypeOK, GraphFiles, Extracted, AtTarget, Target, RefreshedToday,
                SuccessBacked, SettingsKept, NoStaleOk
  <1>2. CASE Tick \/ Commit \/ (\E c \in Configs : EditConfig(c)) \/ \E d \in Dirs : RemoveDir(d)
    BY <1>2, StepWorld
  <1>3. CASE \E r \in Runs : Begin(r) \/ Extract(r) \/ Stats(r) \/ Finish(r) \/ Kill(r)
    BY <1>3, StepBegin, StepExtract, StepStats, StepFinish, StepKill
  <1>4. CASE \E env \in Envs \cup {None}, failing \in SUBSET Dirs, settings \in BOOLEAN :
             Check(env, failing, settings)
    BY <1>4, StepCheck
  <1>5. QED
    BY <1>1, <1>2, <1>3, <1>4 DEF Next

-----------------------------------------------------------------------------
\* Types: a graph is of a commit that has landed, and times have passed.
THEOREM TypeCorrect == ASSUME ConstAssumption PROVE Spec => []TypeOK
  <1>1. HealthInv => TypeOK
    BY DEF HealthInv, Typed
  <1>2. QED
    BY <1>1, InitHealthInv, StepHealthInv, PTL DEF Spec

\* A daily check that finds no error vouches for the graphs: each target of
\* the last run was refreshed within the limit, for any overlap of runs,
\* kills, failures, commits and edits (Check-GraphifyHealth.ps1).
THEOREM Earned == ASSUME ConstAssumption PROVE Spec => []OkIsEarned
  <1>1. HealthInv => OkIsEarned
    <2> SUFFICES ASSUME HealthInv, Errors = {}, NEW t \in Rec
                 PROVE  made[t.scan] # None /\ now - made[t.scan] <= StaleAfter
      BY DEF OkIsEarned
    <2>1. Typed /\ TypeOK /\ SuccessBacked
      BY DEF HealthInv, Typed
    <2>2. health # None /\ health \in Healths
      BY <2>1 DEF Rec, Typed
    <2>3. Valid(config) /\ ~ (Aborted /\ Valid(config))
      BY Zenon DEF Errors
    <2>4. ~ (health # None /\ ~ Aborted /\ health.exit # 0)
      BY Zenon DEF Errors
    <2>5. ~ Stale
      BY Zenon DEF Errors
    <2>6. health.exit = 0
      BY <2>2, <2>3, <2>4
    <2>7. PICK i \in DOMAIN health.targets : t = health.targets[i]
      BY <2>2 DEF Rec
    <2>8. health.lastSuccess \in 0 .. now /\ made[t.scan] \in Nat /\ health.lastSuccess <= made[t.scan]
      BY <2>1, <2>2, <2>6, <2>7 DEF SuccessBacked
    <2>9. now - health.lastSuccess <= StaleAfter
      BY <2>1, <2>2, <2>5, <2>8 DEF Stale, ConstAssumption, TypeOK
    <2>10. QED
      BY <2>1, <2>8, <2>9 DEF ConstAssumption, TypeOK
  <1>2. QED
    BY <1>1, InitHealthInv, StepHealthInv, PTL DEF Spec

\* After a check that found an error no dashboard of the last valid
\* configuration goes on showing "ok", whatever became of the configuration,
\* unless its settings could not be saved or cannot be read.
THEOREM ErrorShown == ASSUME ConstAssumption PROVE Spec => []NoStaleOk
  <1>1. HealthInv => NoStaleOk
    BY DEF HealthInv
  <1>2. QED
    BY <1>1, InitHealthInv, StepHealthInv, PTL DEF Spec

-----------------------------------------------------------------------------
(* The funnel.                                                               *)

\* Tool uses come in the order of their numbers, and are in the transcript of
\* the session that made them.
InOrder == \A c, d \in Use : use[c] = Absent /\ c < d => use[d] = Absent
InOwn == \A c \in Use : use[c] # Absent => held[use[c].by] # Absent /\ c \in held[use[c].by]
OnlyMade == \A s \in Session : held[s] # Absent => \A c \in held[s] : use[c] # Absent

\* Two transcripts with a tool use in common have all that came before it in common.
SameHistory ==
    \A s, t \in Session : held[s] # Absent /\ held[t] # Absent =>
        \A c \in held[s] \cap held[t], l \in Use : l <= c => (l \in held[s] <=> l \in held[t])

\* A result is of a call that has ended, and the transcript of its session has it.
Outcomes ==
    /\ \A c \in Use : use[c] # Absent =>
          /\ use[c].ts <= clock
          /\ use[c].end = Absent => use[c].status = "no-result"
          /\ use[c].end # Absent => use[c].ts <= use[c].end /\ c \in results[use[c].by]
    /\ \A s \in Session : \A c \in results[s] : use[c] # Absent /\ use[c].end # Absent

\* Every record is of one call: f says of which.
Writes(f) ==
    /\ \A i \in DOMAIN log :
          /\ Answered(f[i]) /\ log[i].ts = use[f[i]].end
          /\ use[f[i]].question # Absent => log[i].question = use[f[i]].question
    /\ \A i, j \in DOMAIN log : f[i] = f[j] => i = j
    /\ \A c \in Use : Answered(c) /\ c \notin lost => \E i \in DOMAIN log : f[i] = c
Logged == \E f \in [DOMAIN log -> Use] : Writes(f)

FunnelInv ==
    FunnelTypeOK /\ InOrder /\ InOwn /\ OnlyMade /\ SameHistory /\ Outcomes /\ Logged

-----------------------------------------------------------------------------
LEMMA ConstantsDiffer ==
  /\ NSessions \in Nat /\ NUses \in Nat /\ MaxClock \in Nat /\ Slack \in Nat
  /\ MinSearches \in Nat \ {0} /\ MaxStarts \in Nat /\ MaxLost \in Nat
  /\ Absent \notin Questions /\ Absent \notin Time /\ Absent \notin ToolUse
  /\ \A h \in SUBSET Use : Absent # h
  BY FunnelAssumption

LEMMA UseFields ==
  ASSUME FunnelTypeOK, NEW c \in Use, use[c] # Absent
  PROVE  /\ use[c] \in ToolUse
         /\ use[c].by \in Session /\ use[c].ts \in Time /\ use[c].kind \in {"lookup", "call"}
         /\ use[c].question \in Questions \cup {Absent} /\ use[c].end \in Time \cup {Absent}
         /\ use[c].status \in {"no-result", "ok", "wrapper-error", "shell-error"}
  <1>1. use[c] \in ToolUse
    BY DEF FunnelTypeOK
  <1>2. QED
    BY <1>1 DEF ToolUse

LEMMA InitFunnelInv == FunnelInit => FunnelInv
  <1> SUFFICES ASSUME FunnelInit PROVE FunnelInv
    OBVIOUS
  <1>1. FunnelTypeOK
    BY ConstantsDiffer DEF FunnelInit, FunnelTypeOK, Time
  <1>2. InOrder /\ InOwn /\ OnlyMade /\ SameHistory
    BY DEF FunnelInit, InOrder, InOwn, OnlyMade, SameHistory
  <1>3. Outcomes
    BY DEF FunnelInit, Outcomes
  <1>4. Logged
    <2> DEFINE f == [i \in {} |-> i]
    <2>1. DOMAIN log = {} /\ f \in [DOMAIN log -> Use]
      BY DEF FunnelInit
    <2>2. \A c \in Use : ~ Answered(c)
      BY DEF FunnelInit, Answered
    <2>3. Writes(f)
      BY <2>1, <2>2 DEF Writes
    <2>4. QED
      BY <2>1, <2>3 DEF Logged
  <1>5. QED
    BY <1>1, <1>2, <1>3, <1>4 DEF FunnelInv

LEMMA LogKept ==
  ASSUME Logged, UNCHANGED <<use, log, lost>> PROVE Logged'
  BY DEF Logged, Writes, Answered

LEMMA TickKeeps ==
  ASSUME FunnelInv, FunnelTick PROVE FunnelInv'
  <1> USE DEF FunnelInv, FunnelTick
  <1>1. FunnelTypeOK'
    BY ConstantsDiffer DEF FunnelTypeOK, Time
  <1>2. InOrder' /\ InOwn' /\ OnlyMade' /\ SameHistory'
    BY DEF InOrder, InOwn, OnlyMade, SameHistory
  <1>3. \A c \in Use : use[c] # Absent => use[c].ts \in Nat /\ clock \in Nat
    BY UseFields DEF FunnelTypeOK, Time
  <1>4. Outcomes'
    BY <1>3 DEF Outcomes
  <1>5. Logged'
    BY LogKept
  <1>6. QED
    BY <1>1, <1>2, <1>4, <1>5

LEMMA StartKeeps ==
  ASSUME FunnelInv, NEW s \in Session, Start(s) PROVE FunnelInv'
  <1> USE DEF FunnelInv, Start
  <1>1. FunnelTypeOK'
    BY ConstantsDiffer DEF FunnelTypeOK
  <1>2. \A t \in Session : t # s => held'[t] = held[t]
    BY DEF FunnelTypeOK
  <1>3. held'[s] = {}
    BY DEF FunnelTypeOK
  <1>4. InOrder'
    BY DEF InOrder
  <1>5. InOwn' /\ OnlyMade'
    BY <1>2, <1>3, UseFields DEF InOwn, OnlyMade
  <1>6. SameHistory'
    BY <1>2, <1>3 DEF SameHistory
  <1>7. Outcomes'
    BY DEF Outcomes
  <1>8. Logged'
    BY LogKept
  <1>9. QED
    BY <1>1, <1>4, <1>5, <1>6, <1>7, <1>8

LEMMA ForkKeeps ==
  ASSUME FunnelInv, NEW s \in Session, NEW t \in Session, Fork(s, t) PROVE FunnelInv'
  <1> USE DEF FunnelInv, Fork
  <1>1. FunnelTypeOK'
    BY DEF FunnelTypeOK
  <1>2. /\ \A r \in Session : r # t => held'[r] = held[r] /\ results'[r] = results[r]
        /\ held'[t] = held[s] /\ results'[t] = results[s] /\ s # t
    BY DEF FunnelTypeOK
  <1>3. InOrder'
    BY DEF InOrder
  <1>4. InOwn'
    BY <1>2, UseFields DEF InOwn
  <1>5. OnlyMade'
    BY <1>2 DEF OnlyMade
  <1>6. SameHistory'
    BY <1>2 DEF SameHistory
  <1>7. Outcomes'
    <2>1. ASSUME NEW c \in Use, use[c] # Absent, use[c].end # Absent PROVE c \in results'[use[c].by]
      BY <1>2, <2>1, UseFields DEF Outcomes, InOwn
    <2>2. \A r \in Session : \A c \in results'[r] : use[c] # Absent /\ use[c].end # Absent
      BY <1>2 DEF Outcomes
    <2>3. QED
      BY <2>1, <2>2 DEF Outcomes
  <1>8. Logged'
    BY LogKept
  <1>9. QED
    BY <1>1, <1>3, <1>4, <1>5, <1>6, <1>7, <1>8

LEMMA TalkKeeps ==
  ASSUME FunnelInv, NEW s \in Session, Talk(s) PROVE FunnelInv'
  <1> USE DEF FunnelInv
  <1>1. held' = held
    BY DEF Talk, Write, FunnelTypeOK
  <1>2. FunnelTypeOK'
    BY <1>1 DEF FunnelTypeOK, Talk, Write
  <1>3. InOrder' /\ InOwn' /\ OnlyMade' /\ SameHistory'
    BY <1>1 DEF InOrder, InOwn, OnlyMade, SameHistory, Talk
  <1>4. Outcomes' /\ Logged'
    BY LogKept DEF Outcomes, Talk
  <1>5. QED
    BY <1>2, <1>3, <1>4

LEMMA MakeKeeps ==
  ASSUME FunnelInv, NEW s \in Session, NEW c \in Use, NEW kind \in {"lookup", "call"},
         NEW q \in Questions \cup {Absent}, Make(s, c, kind, q)
  PROVE  FunnelInv'
  <1> DEFINE new == [by |-> s, ts |-> clock, kind |-> kind, question |-> q,
                     end |-> Absent, status |-> "no-result"]
  <1> USE DEF FunnelInv
  <1>1. /\ held[s] # Absent /\ held[s] \in SUBSET Use /\ use[c] = Absent
        /\ \A d \in Use : use[d] = Absent => c <= d
        /\ UNCHANGED <<clock, results, log, lost, starts>>
    BY DEF Make, FunnelTypeOK
  <1>2. /\ held' \in [Session -> {Absent} \cup SUBSET Use] /\ held'[s] = held[s] \cup {c}
        /\ \A t \in Session : t # s => held'[t] = held[t]
    BY DEF Make, Write, FunnelTypeOK
  <1>3. new \in ToolUse
    BY DEF ToolUse, FunnelTypeOK
  <1>4. /\ use' \in [Use -> ToolUse \cup {Absent}] /\ use'[c] = new
        /\ \A d \in Use : d # c => use'[d] = use[d]
    BY <1>3 DEF Make, FunnelTypeOK
  <1>5. /\ use'[c].by = s /\ use'[c].ts = clock /\ use'[c].end = Absent
        /\ use'[c].status = "no-result" /\ use'[c] # Absent
    BY <1>3, <1>4, ConstantsDiffer
  <1>6. span' \in [Session -> Time \X Time]
    BY DEF Make, Write, FunnelTypeOK
  <1>7. FunnelTypeOK'
    BY <1>1, <1>2, <1>4, <1>6 DEF FunnelTypeOK
  <1> HIDE DEF new
  <1>8. \A d \in Use : c < d => use[d] = Absent
    BY <1>1 DEF InOrder
  <1>9. \A d \in Use : use[d] # Absent => d < c
    BY <1>1, <1>8 DEF Use
  <1>10. InOrder'
    BY <1>1, <1>4, <1>5, <1>8, <1>9 DEF InOrder, Use
  <1>11. \A t \in Session : held[t] # Absent => c \notin held[t]
    BY <1>1 DEF OnlyMade
  <1>12. InOwn'
    <2>1. ASSUME NEW d \in Use, use'[d] # Absent
          PROVE  held'[use'[d].by] # Absent /\ d \in held'[use'[d].by]
      <3>1. CASE d = c
        BY <1>1, <1>2, <1>5, <3>1, ConstantsDiffer
      <3>2. CASE d # c
        <4>1. use'[d] = use[d] /\ use[d].by \in Session /\ held[use[d].by] # Absent /\ d \in held[use[d].by]
          BY <1>4, <2>1, <3>2, UseFields DEF InOwn
        <4>2. CASE use[d].by = s
          BY <1>1, <1>2, <4>1, <4>2, ConstantsDiffer
        <4>3. CASE use[d].by # s
          BY <1>2, <4>1, <4>3
        <4>4. QED
          BY <4>2, <4>3
      <3>3. QED
        BY <3>1, <3>2
    <2>2. QED
      BY <2>1 DEF InOwn
  <1>13. OnlyMade'
    <2>1. ASSUME NEW t \in Session, held'[t] # Absent, NEW d \in held'[t] PROVE use'[d] # Absent
      <3>1. CASE d = c
        BY <1>5, <3>1
      <3>2. CASE d # c
        <4>1. held[t] # Absent /\ d \in held[t] /\ d \in Use
          BY <1>1, <1>2, <2>1, <3>2 DEF FunnelTypeOK
        <4>2. QED
          BY <1>4, <3>2, <4>1 DEF OnlyMade
      <3>3. QED
        BY <3>1, <3>2
    <2>2. QED
      BY <2>1 DEF OnlyMade
  <1>14. SameHistory'
    <2>1. ASSUME NEW t \in Session, NEW r \in Session, held'[t] # Absent, held'[r] # Absent,
                 NEW d \in held'[t], d \in held'[r], NEW l \in Use, l <= d, t # r
          PROVE  l \in held'[t] <=> l \in held'[r]
      <3>1. held[t] # Absent /\ held[r] # Absent /\ held[t] \in SUBSET Use /\ held[r] \in SUBSET Use
        BY <1>1, <1>2, <2>1 DEF FunnelTypeOK
      <3>2. d # c
        BY <1>2, <1>11, <2>1, <3>1
      <3>3. d \in held[t] /\ d \in held[r]
        BY <1>2, <2>1, <3>2
      <3>4. d < c /\ d \in Use
        BY <1>9, <3>1, <3>3 DEF OnlyMade
      <3>5. l # c
        BY <2>1, <3>4 DEF Use
      <3>6. l \in held[t] <=> l \in held[r]
        BY <2>1, <3>1, <3>3 DEF SameHistory
      <3>7. QED
        BY <1>2, <3>5, <3>6
    <2>2. QED
      BY <2>1 DEF SameHistory
  <1>15. Outcomes'
    <2>1. clock \in Nat
      BY DEF FunnelTypeOK, Time
    <2>2. \A t \in Session : \A d \in results[t] : d \in Use /\ d # c
      BY <1>1 DEF Outcomes, FunnelTypeOK
    <2>3. ASSUME NEW d \in Use, use'[d] # Absent
          PROVE  /\ use'[d].ts <= clock
                 /\ use'[d].end = Absent => use'[d].status = "no-result"
                 /\ use'[d].end # Absent => use'[d].ts <= use'[d].end /\ d \in results[use'[d].by]
      BY <1>4, <1>5, <2>1, <2>3 DEF Outcomes
    <2>4. \A t \in Session : \A d \in results[t] : use'[d] # Absent /\ use'[d].end # Absent
      BY <1>4, <2>2 DEF Outcomes
    <2>5. QED
      BY <1>1, <2>3, <2>4 DEF Outcomes
  <1>16. Logged'
    <2>1. PICK f \in [DOMAIN log -> Use] : Writes(f)
      BY DEF Logged
    <2>2. \A d \in Use : Answered(d)' <=> Answered(d)
      BY <1>1, <1>4, <1>5 DEF Answered
    <2>3. \A i \in DOMAIN log : f[i] # c
      BY <1>1, <2>1 DEF Writes, Answered
    <2>4. Writes(f)'
      BY <1>1, <1>4, <2>1, <2>2, <2>3 DEF Writes
    <2>5. QED
      BY <1>1, <2>1, <2>4 DEF Logged
  <1>17. QED
    BY <1>7, <1>10, <1>12, <1>13, <1>14, <1>15, <1>16

\* What the end of a call changes.
LEMMA EndIs ==
  ASSUME FunnelInv, NEW c \in Use,
         NEW st \in {"ok", "wrapper-error", "shell-error"}, End(c, st)
  PROVE  /\ use[c] # Absent /\ use[c].end = Absent /\ held' = held /\ UNCHANGED <<clock, starts>>
         /\ use' \in [Use -> ToolUse \cup {Absent}] /\ use'[c] # Absent
         /\ use'[c].by = use[c].by /\ use'[c].ts = use[c].ts /\ use'[c].question = use[c].question
         /\ use'[c].end = clock /\ use'[c].status = st
         /\ \A d \in Use : d # c => use'[d] = use[d]
         /\ results' \in [Session -> SUBSET Use] /\ results'[use[c].by] = results[use[c].by] \cup {c}
         /\ \A s \in Session : s # use[c].by => results'[s] = results[s]
         /\ span' \in [Session -> Time \X Time]
  <1> USE DEF FunnelInv
  <1>1. use[c] # Absent /\ use[c].end = Absent /\ UNCHANGED <<clock, starts>>
    BY DEF End
  <1>2. use[c].by \in Session /\ use[c] \in ToolUse
    BY <1>1, UseFields
  <1>3. held' = held
    BY <1>2 DEF End, Write, FunnelTypeOK
  <1>4. clock \in Time
    BY DEF FunnelTypeOK
  <1> DEFINE ended == [use[c] EXCEPT !.end = clock, !.status = st]
  <1>5. /\ ended \in ToolUse /\ ended.by = use[c].by /\ ended.ts = use[c].ts
        /\ ended.question = use[c].question /\ ended.end = clock /\ ended.status = st
    BY <1>2, <1>4 DEF ToolUse
  <1>6. /\ use' \in [Use -> ToolUse \cup {Absent}] /\ use'[c] = ended
        /\ \A d \in Use : d # c => use'[d] = use[d]
    <2>1. use' = [use EXCEPT ![c] = ended]
      BY DEF End, FunnelTypeOK
    <2>2. use \in [Use -> ToolUse \cup {Absent}]
      BY DEF FunnelTypeOK
    <2> HIDE DEF ended
    <2>3. QED
      BY <1>5, <2>1, <2>2
  <1>7. use'[c] # Absent
    BY <1>5, <1>6, ConstantsDiffer
  <1>8. /\ results' \in [Session -> SUBSET Use] /\ results'[use[c].by] = results[use[c].by] \cup {c}
        /\ \A s \in Session : s # use[c].by => results'[s] = results[s]
    BY <1>2 DEF End, FunnelTypeOK
  <1>9. span' \in [Session -> Time \X Time]
    BY <1>2, <1>4 DEF End, Write, FunnelTypeOK
  <1> HIDE DEF ended
  <1>10. QED
    BY <1>1, <1>3, <1>5, <1>6, <1>7, <1>8, <1>9

\* All but the log is kept by the end of a call.
LEMMA EndKeeps ==
  ASSUME FunnelInv, NEW c \in Use,
         NEW st \in {"ok", "wrapper-error", "shell-error"}, End(c, st),
         lost' \subseteq Use, log' \in Seq([ts : Time, question : Questions]), Logged'
  PROVE  FunnelInv'
  <1> USE DEF FunnelInv
  <1>1. FunnelTypeOK'
    BY EndIs DEF FunnelTypeOK
  <1>2. \A d \in Use : use'[d] = Absent <=> use[d] = Absent
    BY EndIs
  <1>3. \A d \in Use : use[d] # Absent => use'[d].by = use[d].by /\ use'[d].ts = use[d].ts
    BY EndIs
  <1>4. held' = held /\ clock' = clock
    BY EndIs
  <1>5. InOrder' /\ OnlyMade' /\ SameHistory'
    BY <1>2, <1>4 DEF InOrder, OnlyMade, SameHistory, FunnelTypeOK
  <1>6. InOwn'
    BY <1>2, <1>3, <1>4 DEF InOwn
  <1>7. Outcomes'
    <2>1. \A d \in Use : d # c => use'[d] = use[d]
      BY EndIs
    <2>2. \A s \in Session : results[s] \subseteq results'[s] /\ results'[s] \subseteq results[s] \cup {c}
      BY EndIs
    <2>3. use'[c].ts <= clock /\ use'[c].end = clock /\ c \in results'[use'[c].by] /\ use'[c] # Absent
      <3>1. /\ use[c] # Absent /\ use'[c].ts = use[c].ts /\ use'[c].by = use[c].by /\ use'[c] # Absent
            /\ use'[c].end = clock /\ results'[use[c].by] = results[use[c].by] \cup {c}
        BY EndIs
      <3>2. use[c].ts <= clock
        BY <3>1 DEF Outcomes
      <3>3. QED
        BY <3>1, <3>2
    <2>4. clock # Absent
      BY ConstantsDiffer DEF FunnelTypeOK
    <2>5. ASSUME NEW d \in Use, use'[d] # Absent
          PROVE  /\ use'[d].ts <= clock
                 /\ use'[d].end = Absent => use'[d].status = "no-result"
                 /\ use'[d].end # Absent => use'[d].ts <= use'[d].end /\ d \in results'[use'[d].by]
      <3>1. CASE d = c
        BY <2>3, <2>4, <3>1
      <3>2. CASE d # c
        <4>1. use'[d] = use[d] /\ use[d].by \in Session
          BY <2>1, <2>5, <3>2, UseFields
        <4>2. QED
          BY <2>2, <2>5, <4>1 DEF Outcomes
      <3>3. QED
        BY <3>1, <3>2
    <2>6. ASSUME NEW s \in Session, NEW d \in results'[s] PROVE use'[d] # Absent /\ use'[d].end # Absent
      <3>1. CASE d = c
        BY <2>3, <2>4, <3>1
      <3>2. CASE d # c
        <4>1. d \in results[s] /\ d \in Use
          BY <2>2, <3>2 DEF FunnelTypeOK
        <4>2. QED
          BY <2>1, <3>2, <4>1 DEF Outcomes
      <3>3. QED
        BY <3>1, <3>2
    <2>7. QED
      BY <1>4, <2>5, <2>6 DEF Outcomes
  <1>8. QED
    BY <1>1, <1>5, <1>6, <1>7

LEMMA AnswerKeeps ==
  ASSUME FunnelInv, NEW c \in Use, Answer(c) PROVE FunnelInv'
  <1> USE DEF FunnelInv
  <1>1. End(c, "ok") /\ lost' = lost
    BY DEF Answer
  <1>2. PICK q \in Questions :
           /\ use[c].question # Absent => q = use[c].question
           /\ log' = Append(log, [ts |-> clock, question |-> q])
    BY DEF Answer
  <1> DEFINE rec == [ts |-> clock, question |-> q]
             Recs == [ts : Time, question : Questions]
  <1>3. rec \in Recs /\ log \in Seq(Recs)
    BY DEF FunnelTypeOK
  <1>4. rec.ts = clock /\ rec.question = q
    OBVIOUS
  <1> HIDE DEF rec, Recs
  <1>5. /\ log' \in Seq(Recs) /\ Len(log) \in Nat /\ DOMAIN log = 1 .. Len(log)
        /\ DOMAIN log' = 1 .. Len(log) + 1 /\ log'[Len(log) + 1] = rec
        /\ \A i \in DOMAIN log : log'[i] = log[i]
    BY <1>2, <1>3 DEF rec
  <1>6. PICK f \in [DOMAIN log -> Use] : Writes(f)
    BY DEF Logged
  <1> DEFINE k == Len(log) + 1
  <1>7. /\ k \in DOMAIN log' /\ k \notin DOMAIN log /\ DOMAIN log \subseteq DOMAIN log'
         /\ \A i \in DOMAIN log' : i = k \/ i \in DOMAIN log
    BY <1>5
  <1> HIDE DEF k
  <1>8. PICK g \in [DOMAIN log' -> Use] : g[k] = c /\ \A i \in DOMAIN log : g[i] = f[i]
    <2> DEFINE h == [i \in DOMAIN log' |-> IF i \in DOMAIN log THEN f[i] ELSE c]
    <2>1. h \in [DOMAIN log' -> Use] /\ h[k] = c /\ \A i \in DOMAIN log : h[i] = f[i]
      BY <1>7
    <2>2. QED
      BY <2>1
  <1>9. \A d \in Use : d # c => use'[d] = use[d]
    BY <1>1, EndIs
  <1>10. /\ use[c] # Absent /\ use[c].end = Absent /\ use'[c] # Absent /\ use'[c].end = clock
        /\ use'[c].status = "ok" /\ use'[c].question = use[c].question
    BY <1>1, EndIs
  <1>11. ~ Answered(c) /\ Answered(c)' /\ \A d \in Use : d # c => (Answered(d)' <=> Answered(d))
    BY <1>9, <1>10 DEF Answered, Outcomes
  <1>12. \A i \in DOMAIN log : f[i] \in Use /\ f[i] # c
    BY <1>6, <1>11 DEF Writes
  <1>13. Writes(g)'
    <2>1. ASSUME NEW i \in DOMAIN log'
          PROVE  /\ Answered(g[i])' /\ log'[i].ts = use'[g[i]].end
                 /\ use'[g[i]].question # Absent => log'[i].question = use'[g[i]].question
      <3>1. CASE i = k
        <4>1. log'[i] = rec /\ g[i] = c
          BY <1>5, <1>8, <3>1 DEF k
        <4>2. QED
          BY <1>2, <1>4, <1>10, <1>11, <4>1
      <3>2. CASE i # k
        <4>1. i \in DOMAIN log /\ g[i] = f[i] /\ log'[i] = log[i]
          BY <1>5, <1>8, <1>7, <2>1, <3>2
        <4>2. Answered(f[i])' /\ use'[f[i]] = use[f[i]]
          BY <1>6, <1>9, <1>11, <1>12, <4>1 DEF Writes
        <4>3. QED
          BY <1>6, <4>1, <4>2 DEF Writes
      <3>3. QED
        BY <3>1, <3>2
    <2>2. \A i, j \in DOMAIN log' : g[i] = g[j] => i = j
      BY <1>6, <1>8, <1>7, <1>12 DEF Writes
    <2>3. ASSUME NEW d \in Use, Answered(d)', d \notin lost' PROVE \E i \in DOMAIN log' : g[i] = d
      <3>1. CASE d = c
        BY <1>8, <1>7, <3>1
      <3>2. CASE d # c
        <4>1. PICK i \in DOMAIN log : f[i] = d
          BY <1>1, <1>6, <1>11, <2>3, <3>2 DEF Writes
        <4>2. QED
          BY <1>8, <1>7, <4>1
      <3>3. QED
        BY <3>1, <3>2
    <2>4. QED
      BY <2>1, <2>2, <2>3 DEF Writes
  <1>14. Logged'
    BY <1>8, <1>13 DEF Logged
  <1>15. lost' \subseteq Use
    BY <1>1 DEF FunnelTypeOK
  <1>16. QED
    BY <1>1, <1>5, <1>14, <1>15, EndKeeps DEF Recs

\* A call that ends without a record.
LEMMA SilentEnd ==
  ASSUME FunnelInv, NEW c \in Use, NEW st \in {"ok", "wrapper-error", "shell-error"}, End(c, st),
         log' = log, lost' = IF st = "ok" THEN lost \cup {c} ELSE lost
  PROVE  FunnelInv'
  <1> USE DEF FunnelInv
  <1>1. PICK f \in [DOMAIN log -> Use] : Writes(f)
    BY DEF Logged
  <1>2. \A d \in Use : d # c => use'[d] = use[d]
    BY EndIs
  <1>3. use[c] # Absent /\ use[c].end = Absent /\ use'[c].status = st
    BY EndIs
  <1>4. ~ Answered(c) /\ \A d \in Use : d # c => (Answered(d)' <=> Answered(d))
    BY <1>2, <1>3 DEF Answered, Outcomes
  <1>5. \A i \in DOMAIN log : f[i] \in Use /\ f[i] # c
    BY <1>1, <1>4 DEF Writes
  <1>6. ASSUME NEW d \in Use, Answered(d)', d \notin lost' PROVE \E i \in DOMAIN log : f[i] = d
    <2>1. d # c
      BY <1>3, <1>6 DEF Answered
    <2>2. Answered(d) /\ d \notin lost
      BY <1>4, <1>6, <2>1
    <2>3. QED
      BY <1>1, <2>2 DEF Writes
  <1>7. \A i \in DOMAIN log : Answered(f[i])' /\ use'[f[i]] = use[f[i]]
    BY <1>1, <1>2, <1>4, <1>5 DEF Writes
  <1>8. Writes(f)'
    BY <1>1, <1>6, <1>7 DEF Writes
  <1>9. Logged'
    BY <1>1, <1>8 DEF Logged
  <1>10. lost' \subseteq Use /\ log' \in Seq([ts : Time, question : Questions])
    BY DEF FunnelTypeOK
  <1>11. QED
    BY <1>9, <1>10, EndKeeps

LEMMA FunnelStep == FunnelInv /\ [FunnelNext]_funnelVars => FunnelInv'
  <1> SUFFICES ASSUME FunnelInv, [FunnelNext]_funnelVars PROVE FunnelInv'
    OBVIOUS
  <1>1. CASE FunnelTick
    BY <1>1, TickKeeps
  <1>2. ASSUME NEW s \in Session, Start(s) PROVE FunnelInv'
    BY <1>2, StartKeeps
  <1>3. ASSUME NEW s \in Session, Talk(s) PROVE FunnelInv'
    BY <1>3, TalkKeeps
  <1>4. ASSUME NEW s \in Session, NEW t \in Session, Fork(s, t) PROVE FunnelInv'
    BY <1>4, ForkKeeps
  <1>5. ASSUME NEW s \in Session, NEW c \in Use, Search(s, c) PROVE FunnelInv'
    BY <1>5, MakeKeeps DEF Search
  <1>6. ASSUME NEW s \in Session, NEW c \in Use, NEW q \in Questions \cup {Absent}, Ask(s, c, q)
        PROVE  FunnelInv'
    BY <1>6, MakeKeeps DEF Ask
  <1>7. ASSUME NEW c \in Use, Answer(c) PROVE FunnelInv'
    BY <1>7, AnswerKeeps
  <1>8. ASSUME NEW c \in Use, AnswerUnlogged(c) PROVE FunnelInv'
    BY <1>8, SilentEnd DEF AnswerUnlogged
  <1>9. ASSUME NEW c \in Use, NEW st \in {"wrapper-error", "shell-error"}, Break(c, st) PROVE FunnelInv'
    BY <1>9, SilentEnd DEF Break
  <1>10. CASE UNCHANGED funnelVars
    BY <1>10, LogKept DEF funnelVars, FunnelInv, FunnelTypeOK, InOrder, InOwn, OnlyMade, SameHistory, Outcomes
  <1>11. QED
    BY <1>1, <1>2, <1>3, <1>4, <1>5, <1>6, <1>7, <1>8, <1>9, <1>10 DEF FunnelNext

\* What the funnel reads stays in its range: transcripts, tool uses, the log.
THEOREM FunnelTypeCorrect == FunnelSpec => []FunnelTypeOK
  <1>1. FunnelSpec => []FunnelInv
    BY InitFunnelInv, FunnelStep, PTL DEF FunnelSpec
  <1>2. FunnelInv => FunnelTypeOK
    BY DEF FunnelInv
  <1>3. QED
    BY <1>1, <1>2, PTL

-----------------------------------------------------------------------------
LEMMA LeastNat ==
  ASSUME NEW S \in SUBSET Nat, S # {}
  PROVE  \E m \in S : \A x \in S : m <= x
  <1>1. PICK m \in S : \A x \in S : ~ (<<x, m>> \in OpToRel(<, Nat))
    BY NatLessThanWellFounded, WFMin
  <1>2. \A x \in S : ~ (x < m)
    BY <1>1 DEF OpToRel
  <1>3. QED
    BY <1>2

LEMMA LargestNat ==
  ASSUME NEW N \in Nat, NEW S \in SUBSET (0 .. N), S # {}
  PROVE  \E m \in S : \A x \in S : x <= m
  <1> DEFINE D == {N - x : x \in S}
  <1>1. D \in SUBSET Nat /\ D # {}
    <2>1. \A x \in S : N - x \in Nat
      OBVIOUS
    <2>2. QED
      BY <2>1
  <1>2. PICK d \in D : \A x \in D : d <= x
    BY <1>1, LeastNat
  <1>3. PICK m \in S : d = N - m
    OBVIOUS
  <1>4. \A x \in S : N - m <= N - x
    BY <1>2, <1>3
  <1>5. QED
    BY <1>4

\* What holds of 0 and of the next of each holds up to N.
LEMMA UpTo ==
  ASSUME NEW N \in Nat, NEW S, 0 \in S, \A n \in 1 .. N : n - 1 \in S => n \in S
  PROVE  0 .. N \subseteq S
  <1> DEFINE Bad == (0 .. N) \ S
  <1> SUFFICES ASSUME Bad # {} PROVE FALSE
    OBVIOUS
  <1>1. Bad \in SUBSET Nat
    OBVIOUS
  <1>2. PICK n \in Bad : \A x \in Bad : n <= x
    BY <1>1, LeastNat
  <1>3. n \in 1 .. N /\ n - 1 \in 0 .. N /\ n - 1 < n
    BY <1>2
  <1>4. QED
    BY <1>2, <1>3

\* A function that is recursive on 0 .. K exists.
LEMMA RecursionExists ==
  ASSUME NEW K \in Nat, NEW X, NEW x \in X, NEW G \in [1 .. K -> [X -> X]]
  PROVE  \E m \in [0 .. K -> X] : m[0] = x /\ \A n \in 1 .. K : m[n] = G[n][m[n - 1]]
  <1> DEFINE Upto(k, m) == m[0] = x /\ \A n \in 1 .. k : m[n] = G[n][m[n - 1]]
             Done == {k \in 0 .. K : \E m \in [0 .. K -> X] : Upto(k, m)}
  <1>1. 0 \in Done
    <2> DEFINE m == [n \in 0 .. K |-> x]
    <2>1. m \in [0 .. K -> X] /\ Upto(0, m) /\ 0 \in 0 .. K
      OBVIOUS
    <2> HIDE DEF m, Upto
    <2>2. QED
      BY <2>1
  <1>2. ASSUME NEW k \in 1 .. K, k - 1 \in Done PROVE k \in Done
    <2>1. PICK m \in [0 .. K -> X] : Upto(k - 1, m)
      BY <1>2
    <2> DEFINE h == [m EXCEPT ![k] = G[k][m[k - 1]]]
    <2>2. k \in 0 .. K /\ k - 1 \in 0 .. K /\ m[k - 1] \in X /\ G[k][m[k - 1]] \in X
      OBVIOUS
    <2>3. h \in [0 .. K -> X] /\ h[k] = G[k][m[k - 1]] /\ \A n \in 0 .. K : n # k => h[n] = m[n]
      BY <2>2
    <2> HIDE DEF h
    <2>4. ASSUME NEW n \in 1 .. k PROVE h[n] = G[n][h[n - 1]]
      <3>1. n \in 1 .. K /\ n \in 0 .. K /\ n - 1 \in 0 .. K /\ n - 1 # k
        OBVIOUS
      <3>2. h[n - 1] = m[n - 1]
        BY <2>3, <3>1
      <3>3. CASE n = k
        BY <2>3, <3>2, <3>3
      <3>4. CASE n # k
        <4>1. n \in 1 .. (k - 1)
          BY <3>4
        <4>2. m[n] = G[n][m[n - 1]] /\ h[n] = m[n]
          BY <2>1, <2>3, <3>1, <3>4, <4>1
        <4>3. QED
          BY <3>2, <4>2
      <3>5. QED
        BY <3>3, <3>4
    <2>5. Upto(k, h)
      BY <2>1, <2>3, <2>4
    <2> HIDE DEF Upto
    <2>6. QED
      BY <2>2, <2>3, <2>5
  <1> HIDE DEF Done
  <1>3. 0 .. K \subseteq Done
    BY <1>1, <1>2, UpTo
  <1>4. K \in Done
    BY <1>3
  <1>5. QED
    BY <1>4 DEF Done

-----------------------------------------------------------------------------
\* Transcripts that are there: all that the funnel scans are.
There(ss) == ss \subseteq Session /\ \A s \in ss : held[s] # Absent

LEMMA HoldersHold ==
  ASSUME FunnelInv, NEW ss, There(ss), NEW c \in Use
  PROVE  /\ Holders(c, ss) \subseteq ss /\ Holders(c, ss) \in SUBSET Session
         /\ Holders(c, ss) # {} => use[c] # Absent
  BY DEF There, Holders, FunnelInv, OnlyMade

\* The copy that is kept is that of the session that made the call.
LEMMA KeptByOwn ==
  ASSUME FunnelInv, NEW ss, There(ss), NEW c \in Kept(ss), use[c].by \in ss
  PROVE  KeptIn(c, ss) = use[c].by
  <1> DEFINE own == use[c].by
             Rest(s) == \A t \in Holders(c, ss) \ {s} : Precedes(c, s, t)
  <1>1. c \in Use /\ use[c] # Absent
    BY HoldersHold DEF Kept
  <1>2. own \in Holders(c, ss)
    BY <1>1 DEF Holders, FunnelInv, InOwn
  <1>3. Rest(own)
    BY DEF Precedes
  <1>4. KeptIn(c, ss) \in Holders(c, ss) /\ Rest(KeptIn(c, ss))
    BY <1>2, <1>3 DEF KeptIn
  <1>5. CASE KeptIn(c, ss) # own
    BY <1>2, <1>4, <1>5 DEF Precedes
  <1>6. QED
    BY <1>5

LEMMA StatusOfOwn ==
  ASSUME FunnelInv, NEW ss, There(ss), NEW c \in Kept(ss), use[c].by \in ss
  PROVE  StatusIn(KeptIn(c, ss), c) = use[c].status
  <1>1. c \in Use /\ use[c] # Absent
    BY HoldersHold DEF Kept
  <1>2. KeptIn(c, ss) = use[c].by
    BY KeptByOwn
  <1>3. QED
    BY <1>1, <1>2 DEF StatusIn, FunnelInv, Outcomes

\* What routing gives to a transcript is given to the one that ran latest.
LEMMA LatestExists ==
  ASSUME FunnelTypeOK, NEW hs \in SUBSET Session, hs # {}
  PROVE  \E s \in hs : \A t \in hs \ {s} : Latest(s, t)
  <1> DEFINE Ends == {span[s][2] : s \in hs}
  <1>1. \A s \in Session : span[s][2] \in Time
    BY DEF FunnelTypeOK
  <1>2. Ends \in SUBSET (0 .. MaxClock) /\ Ends # {}
    BY <1>1 DEF Time
  <1>3. PICK e \in Ends : \A x \in Ends : x <= e
    BY <1>2, LargestNat, ConstantsDiffer
  <1> DEFINE Last == {s \in hs : span[s][2] = e}
  <1>4. hs \in SUBSET (0 .. NSessions)
    BY ConstantsDiffer DEF Session
  <1>5. Last \in SUBSET (0 .. NSessions) /\ Last # {}
    BY <1>3, <1>4
  <1>6. PICK s \in Last : \A x \in Last : x <= s
    BY <1>5, LargestNat, ConstantsDiffer
  <1>7. ASSUME NEW t \in hs, t # s PROVE Latest(s, t)
    <2>1. span[t][2] <= e /\ span[s][2] = e /\ span[t][2] \in Nat /\ e \in Nat
      BY <1>1, <1>3, <1>6 DEF Time
    <2>2. span[t][2] = e => t <= s /\ t \in Nat /\ s \in Nat
      BY <1>5, <1>6, <1>7
    <2>3. QED
      BY <1>7, <2>1, <2>2 DEF Latest
  <1>8. QED
    BY <1>6, <1>7

LEMMA RoutedToLatest ==
  ASSUME FunnelInv, NEW ss, There(ss), NEW c \in Use, Holders(c, ss) # {}
  PROVE  /\ RoutedIn(c, ss) \in Holders(c, ss)
         /\ \A t \in Holders(c, ss) \ {RoutedIn(c, ss)} : Latest(RoutedIn(c, ss), t)
  <1>1. \E s \in Holders(c, ss) : \A t \in Holders(c, ss) \ {s} : Latest(s, t)
    BY HoldersHold, LatestExists DEF FunnelInv
  <1>2. QED
    BY <1>1 DEF RoutedIn

LEMMA LatestIsOrder ==
  ASSUME FunnelTypeOK, NEW s \in Session, NEW t \in Session, s # t, Latest(s, t)
  PROVE  ~ Latest(t, s) /\ span[t][2] <= span[s][2]
  <1>1. span[s][2] \in Time /\ span[t][2] \in Time
    BY DEF FunnelTypeOK
  <1>2. span[s][2] \in Nat /\ span[t][2] \in Nat
    BY <1>1 DEF Time
  <1>3. s \in Nat /\ t \in Nat
    BY DEF Session
  <1>4. QED
    BY <1>2, <1>3 DEF Latest

LEMMA ExploringSearched ==
  ASSUME FunnelInv, NEW ss, There(ss), NEW s \in Exploring(ss)
  PROVE  s \in ss /\ \E l \in Use : l \in Routed(s, "lookup", ss)
  <1>1. s \in ss /\ Cardinality(Routed(s, "lookup", ss)) >= MinSearches
    BY DEF Exploring
  <1>2. Routed(s, "lookup", ss) # {}
    BY <1>1, ConstantsDiffer, FS_EmptySet
  <1>3. Routed(s, "lookup", ss) \subseteq Use
    BY DEF Routed
  <1>4. QED
    BY <1>1, <1>2, <1>3

LEMMA CountedOnceHolds == FunnelInv => CountedOnce
  <1> SUFFICES ASSUME FunnelInv, NEW since \in 0 .. clock, NEW u \in Unread
               PROVE  LET ss == Scanned(<<since, clock>>, u)
                      IN  /\ \A c \in Kept(ss) : use[c].by \in ss => StatusIn(KeptIn(c, ss), c) = use[c].status
                          /\ \A s \in Exploring(ss), t \in ss :
                                ~ (held[s] \subseteq held[t] /\ span[s][2] < span[t][2])
                          /\ Routing(ss) = "FAIL" =>
                                \A s \in Bypassed(ss) : \A c \in held[s] :
                                    use[c].kind = "call" => \E l \in Routed(s, "lookup", ss) : l > c
    BY DEF CountedOnce
  <1> DEFINE ss == Scanned(<<since, clock>>, u)
  <1>1. There(ss)
    BY DEF There, Scanned
  <1> HIDE DEF ss
  <1>2. ASSUME NEW c \in Kept(ss), use[c].by \in ss PROVE StatusIn(KeptIn(c, ss), c) = use[c].status
    BY <1>1, <1>2, StatusOfOwn
  <1>3. ASSUME NEW s \in Exploring(ss), NEW t \in ss, held[s] \subseteq held[t], span[s][2] < span[t][2]
        PROVE  FALSE
    <2>1. PICK l \in Use : l \in Routed(s, "lookup", ss)
      BY <1>1, ExploringSearched
    <2>2. s \in Holders(l, ss) /\ RoutedIn(l, ss) = s
      BY <2>1 DEF Routed
    <2>3. t \in Holders(l, ss) /\ s \in Session /\ t \in Session
      BY <1>1, <1>3, <2>2 DEF Holders, There
    <2>4. span[s][2] \in Nat /\ span[t][2] \in Nat
      BY <2>3 DEF FunnelInv, FunnelTypeOK, Time
    <2>5. s # t
      BY <1>3, <2>4
    <2>6. Latest(s, t)
      BY <1>1, <2>2, <2>3, <2>5, RoutedToLatest
    <2>7. QED
      BY <1>3, <2>3, <2>4, <2>5, <2>6, LatestIsOrder DEF FunnelInv
  <1>4. ASSUME NEW s \in Bypassed(ss), NEW c \in held[s], use[c].kind = "call"
        PROVE  \E l \in Routed(s, "lookup", ss) : l > c
    <2>1. s \in Exploring(ss) /\ Routed(s, "call", ss) = {} /\ s \in ss /\ s \in Session /\ held[s] # Absent
      BY <1>1 DEF Bypassed, Exploring, There
    <2>2. PICK l \in Use : l \in Routed(s, "lookup", ss)
      BY <1>1, <2>1, ExploringSearched
    <2>3. c \in Use /\ s \in Holders(c, ss)
      BY <1>4, <2>1 DEF Holders, FunnelInv, FunnelTypeOK
    <2> DEFINE t == RoutedIn(c, ss)
    <2>4. t \in Holders(c, ss) /\ t # s /\ Latest(t, s)
      <3>1. t # s
        BY <1>4, <2>1, <2>3 DEF Routed
      <3>2. QED
        BY <1>1, <2>3, <3>1, RoutedToLatest
    <2>5. t \in Session /\ t \in ss /\ held[t] # Absent /\ c \in held[t]
      BY <1>1, <2>4 DEF Holders, There
    <2> HIDE DEF t
    <2>6. s \in Holders(l, ss) /\ RoutedIn(l, ss) = s /\ l \in held[s] /\ use[l].kind = "lookup"
      BY <2>2 DEF Routed, Holders
    <2>7. ASSUME l <= c PROVE FALSE
      <3>1. l \in held[t]
        BY <1>4, <2>1, <2>5, <2>6, <2>7 DEF FunnelInv, SameHistory
      <3>2. t \in Holders(l, ss)
        BY <2>5, <3>1 DEF Holders
      <3>3. Latest(s, t)
        BY <1>1, <2>4, <2>6, <3>2, RoutedToLatest
      <3>4. QED
        BY <2>1, <2>4, <2>5, <3>3, LatestIsOrder DEF FunnelInv
    <2>8. l > c
      BY <2>3, <2>7 DEF Use
    <2>9. QED
      BY <2>2, <2>8
  <1>5. QED
    BY <1>2, <1>3, <1>4 DEF ss

-----------------------------------------------------------------------------
\* What the matching looks at: the calls that are kept and answered.
Done(c, ss) == c \in Kept(ss) /\ StatusIn(KeptIn(c, ss), c) = "ok"

\* The matching, call by call: what is free and matched after n calls.
States == [free : SUBSET (DOMAIN log), matched : SUBSET Use]
Matching(m, ss, w) ==
    /\ m \in [0 .. NUses -> States]
    /\ m[0] = [free |-> LogOf(w, TRUE), matched |-> {}]
    /\ \A n \in 1 .. NUses : m[n] = AfterCall(n, ss, m[n - 1])
    /\ Match(ss, w, TRUE) = m[NUses]

LEMMA LeastOf ==
  ASSUME NEW is \in SUBSET Nat, is # {} PROVE Least(is) \in is
  BY LeastNat DEF Least

\* A call takes nothing or one of its candidates, which are free and near it.
LEMMA CallTakes ==
  ASSUME FunnelTypeOK, NEW ss, NEW n \in Use, NEW x \in States
  PROVE  LET y == AfterCall(n, ss, x)
             k == KeptIn(n, ss)
             cs == Candidates(n, k, x.free)
         IN  /\ ~ Done(n, ss) \/ cs = {} => y = x
             /\ Done(n, ss) /\ cs # {} => \E i \in cs : y = [free |-> x.free \ {i}, matched |-> x.matched \cup {n}]
             /\ cs \subseteq x.free
             /\ \A i \in cs : use[n].ts <= log[i].ts + Slack /\ log[i].ts <= EndIn(k, n) + Slack
             /\ y \in States
  <1> DEFINE y == AfterCall(n, ss, x)
             k == KeptIn(n, ss)
             cs == Candidates(n, k, x.free)
  <1>1. /\ cs \subseteq x.free
        /\ \A i \in cs : use[n].ts <= log[i].ts + Slack /\ log[i].ts <= EndIn(k, n) + Slack
    BY DEF Candidates
  <1>2. x.free \in SUBSET (DOMAIN log) /\ x.matched \in SUBSET Use
    BY DEF States
  <1>3. DOMAIN log \subseteq Nat
    BY DEF FunnelTypeOK
  <1>4. ~ Done(n, ss) \/ cs = {} => y = x
    BY DEF AfterCall, Done
  <1>5. ASSUME Done(n, ss), cs # {}
        PROVE  \E i \in cs : y = [free |-> x.free \ {i}, matched |-> x.matched \cup {n}]
    <2>1. Least(cs) \in cs
      BY <1>1, <1>2, <1>3, <1>5, LeastOf
    <2>2. y = [free |-> x.free \ {Least(cs)}, matched |-> x.matched \cup {n}]
      BY <1>5 DEF AfterCall, Done
    <2>3. QED
      BY <2>1, <2>2
  <1>6. y \in States
    <2>1. CASE ~ Done(n, ss) \/ cs = {}
      BY <1>4, <2>1
    <2>2. CASE Done(n, ss) /\ cs # {}
      <3>1. PICK i \in cs : y = [free |-> x.free \ {i}, matched |-> x.matched \cup {n}]
        BY <1>5, <2>2
      <3>2. QED
        BY <1>2, <3>1 DEF States
    <2>3. QED
      BY <2>1, <2>2
  <1>7. QED
    BY <1>1, <1>4, <1>5, <1>6

LEMMA MatchingExists ==
  ASSUME FunnelTypeOK, NEW ss, NEW w PROVE \E m : Matching(m, ss, w)
  <1> DEFINE start == [free |-> LogOf(w, TRUE), matched |-> {}]
             G == [n \in 1 .. NUses |-> [x \in States |-> AfterCall(n, ss, x)]]
             Def(m) == m = [n \in 0 .. NUses |-> IF n = 0 THEN start ELSE AfterCall(n, ss, m[n - 1])]
  <1>1. start \in States
    BY DEF States, LogOf
  <1>2. \A n \in 1 .. NUses, x \in States : AfterCall(n, ss, x) \in States
    BY CallTakes DEF Use
  <1>3. G \in [1 .. NUses -> [States -> States]]
    BY <1>2
  <1>4. \A n \in 1 .. NUses, x \in States : G[n][x] = AfterCall(n, ss, x)
    OBVIOUS
  <1> HIDE DEF start, G
  <1>5. PICK m \in [0 .. NUses -> States] : m[0] = start /\ \A n \in 1 .. NUses : m[n] = G[n][m[n - 1]]
    BY <1>1, <1>3, RecursionExists, ConstantsDiffer
  <1>6. \A n \in 1 .. NUses : n - 1 \in 0 .. NUses /\ n \in 0 .. NUses /\ n # 0
    BY ConstantsDiffer
  <1>7. \A n \in 1 .. NUses : m[n] = AfterCall(n, ss, m[n - 1])
    BY <1>4, <1>5, <1>6
  <1>8. \A n \in 0 .. NUses : n = 0 \/ n \in 1 .. NUses
    BY ConstantsDiffer
  <1>9. Def(m)
    BY <1>5, <1>7, <1>8
  <1>10. ASSUME NEW g, Def(g) PROVE g = m
    <2> DEFINE Same == {n \in 0 .. NUses : g[n] = m[n]}
    <2>1. \A n \in 0 .. NUses : g[n] = IF n = 0 THEN start ELSE AfterCall(n, ss, g[n - 1])
      BY <1>10
    <2>2. 0 \in Same
      BY <1>5, <2>1, ConstantsDiffer
    <2>3. \A n \in 1 .. NUses : n - 1 \in Same => n \in Same
      BY <1>6, <1>7, <2>1
    <2> HIDE DEF Same
    <2>4. 0 .. NUses \subseteq Same
      BY <2>2, <2>3, UpTo, ConstantsDiffer
    <2>5. \A n \in 0 .. NUses : g[n] = m[n]
      BY <2>4 DEF Same
    <2>6. DOMAIN g = 0 .. NUses /\ g = [n \in DOMAIN g |-> g[n]]
      BY <1>10
    <2>7. QED
      BY <1>5, <2>5, <2>6
  <1>11. Match(ss, w, TRUE) = (CHOOSE g : Def(g))[NUses]
    BY DEF Match, start
  <1> HIDE DEF Def
  <1>12. Def(CHOOSE g : Def(g))
    BY <1>9
  <1>13. Match(ss, w, TRUE) = m[NUses]
    BY <1>10, <1>11, <1>12
  <1>14. QED
    BY <1>5, <1>7, <1>13 DEF Matching, start

-----------------------------------------------------------------------------
\* A window of which the funnel reads transcripts that are there, no record has
\* been lost, and f says whose the records are.
Whole(f, ss, w) ==
    /\ FunnelInv /\ There(ss) /\ lost = {} /\ ~ AtEdge(w)
    /\ f \in [DOMAIN log -> Use] /\ Writes(f)

InTheWindow(c, w) == Answered(c) /\ InWindow(use[c].end, w)

LEMMA AnsweredTimes ==
  ASSUME FunnelInv, NEW c \in Use, Answered(c)
  PROVE  use[c].ts \in Nat /\ use[c].end \in Nat /\ use[c].ts <= use[c].end
  <1>1. use[c] # Absent /\ use[c].end # Absent
    BY DEF Answered, FunnelInv, Outcomes
  <1>2. use[c].ts \in Time /\ use[c].end \in Time
    BY <1>1, UseFields DEF FunnelInv
  <1>3. QED
    BY <1>1, <1>2 DEF FunnelInv, Outcomes, Time

LEMMA DoneIsAnswered ==
  ASSUME FunnelInv, NEW ss, There(ss), NEW c, Done(c, ss)
  PROVE  c \in Use /\ Answered(c) /\ EndIn(KeptIn(c, ss), c) = use[c].end
  <1>1. c \in Use /\ use[c] # Absent
    BY HoldersHold DEF Kept, Done
  <1>2. QED
    BY <1>1 DEF StatusIn, EndIn, Answered, Done

LEMMA OwnRecord ==
  ASSUME NEW f, NEW ss, NEW w, Whole(f, ss, w), NEW c \in Use, InTheWindow(c, w)
  PROVE  \E i \in LogOf(w, TRUE) : f[i] = c
  <1>1. PICK i \in DOMAIN log : f[i] = c
    BY DEF Whole, Writes, InTheWindow
  <1>2. InWindow(log[i].ts, w)
    BY <1>1 DEF Whole, Writes, InTheWindow
  <1>3. QED
    BY <1>1, <1>2 DEF LogOf

LEMMA RecordedInWindow ==
  ASSUME NEW f, NEW ss, NEW w, Whole(f, ss, w), NEW i \in LogOf(w, TRUE)
  PROVE  f[i] \in Use /\ InTheWindow(f[i], w) /\ log[i].ts = use[f[i]].end
  BY DEF Whole, Writes, LogOf, InTheWindow

\* The record a call takes is its own or that of a call it is near.
LEMMA TakenIsNear ==
  ASSUME NEW f, NEW ss, NEW w, Whole(f, ss, w), NEW n \in Use, Done(n, ss),
         NEW free \in SUBSET LogOf(w, TRUE), NEW i \in Candidates(n, KeptIn(n, ss), free)
  PROVE  i \in LogOf(w, TRUE) /\ (f[i] = n \/ Takes(n, f[i])) /\ InTheWindow(n, w)
  <1>1. i \in free /\ use[n].ts <= log[i].ts + Slack /\ log[i].ts <= EndIn(KeptIn(n, ss), n) + Slack
    BY DEF Candidates
  <1>2. Answered(n) /\ EndIn(KeptIn(n, ss), n) = use[n].end
    BY DoneIsAnswered DEF Whole
  <1>3. f[i] \in Use /\ InTheWindow(f[i], w) /\ log[i].ts = use[f[i]].end
    BY <1>1, RecordedInWindow
  <1>4. f[i] = n \/ Takes(n, f[i])
    BY <1>1, <1>2, <1>3 DEF Takes, InTheWindow
  <1>5. InTheWindow(n, w)
    BY <1>2, <1>3, <1>4 DEF InTheWindow, Whole, AtEdge
  <1>6. QED
    BY <1>1, <1>4, <1>5

\* As many records are taken as calls are matched, all of them with a record
\* of their own in the window.
Even(x, n, w) ==
    /\ x.free \subseteq LogOf(w, TRUE)
    /\ x.matched \subseteq {c \in Use : c <= n /\ InTheWindow(c, w)}
    /\ Cardinality(LogOf(w, TRUE) \ x.free) = Cardinality(x.matched)

LEMMA FiniteRecords ==
  ASSUME FunnelTypeOK, NEW w
  PROVE  /\ \A is \in SUBSET LogOf(w, TRUE) : IsFiniteSet(is)
         /\ \A cs \in SUBSET Use : IsFiniteSet(cs)
  <1>1. DOMAIN log = 1 .. Len(log) /\ Len(log) \in Nat
    BY DEF FunnelTypeOK
  <1>2. IsFiniteSet(1 .. Len(log)) /\ IsFiniteSet(1 .. NUses)
    BY <1>1, ConstantsDiffer, FS_Interval
  <1>3. LogOf(w, TRUE) \subseteq 1 .. Len(log)
    BY <1>1 DEF LogOf
  <1>4. QED
    BY <1>2, <1>3, FS_Subset DEF Use

LEMMA StaysEven ==
  ASSUME NEW f, NEW ss, NEW w, Whole(f, ss, w), NEW m, Matching(m, ss, w)
  PROVE  \A n \in 0 .. NUses : Even(m[n], n, w)
  <1> DEFINE S == {n \in 0 .. NUses : Even(m[n], n, w)}
             L == LogOf(w, TRUE)
  <1>1. FunnelTypeOK
    BY DEF Whole, FunnelInv
  <1>2. 0 \in S
    <2>1. m[0] = [free |-> L, matched |-> {}]
      BY DEF Matching
    <2> HIDE DEF L
    <2>2. m[0].free = L /\ m[0].matched = {} /\ L \ m[0].free = {}
      BY <2>1
    <2>3. Even(m[0], 0, w)
      BY <2>2 DEF Even, L
    <2>4. QED
      BY <2>3, ConstantsDiffer
  <1>3. ASSUME NEW n \in 1 .. NUses, n - 1 \in S PROVE n \in S
    <2> DEFINE x == m[n - 1]
               k == KeptIn(n, ss)
               cs == Candidates(n, k, x.free)
    <2>1. n - 1 \in 0 .. NUses /\ n \in 0 .. NUses /\ n \in Use
      BY ConstantsDiffer DEF Use
    <2>2. x \in States /\ m[n] = AfterCall(n, ss, x)
      BY <2>1 DEF Matching
    <2>3. Even(x, n - 1, w)
      BY <1>3
    <2>4. \A c \in x.matched : c \in Use /\ c <= n - 1 /\ c # n /\ c <= n /\ InTheWindow(c, w)
      BY <2>1, <2>3 DEF Even, Use
    <2>5. ~ Done(n, ss) \/ cs = {} => m[n] = x
      BY <1>1, <2>1, <2>2, CallTakes
    <2>6. Done(n, ss) /\ cs # {} =>
            \E i \in cs : m[n] = [free |-> x.free \ {i}, matched |-> x.matched \cup {n}]
      <3> HIDE DEF x
      <3>1. Done(n, ss) /\ cs # {} =>
              \E i \in cs : AfterCall(n, ss, x) = [free |-> x.free \ {i}, matched |-> x.matched \cup {n}]
        BY <1>1, <2>1, <2>2, CallTakes
      <3>2. QED
        BY <2>2, <3>1
    <2> HIDE DEF x, k, L
    <2>7. CASE ~ Done(n, ss) \/ cs = {}
      <3>1. Even(x, n, w)
        BY <2>3, <2>4 DEF Even
      <3>2. QED
        BY <2>1, <2>5, <2>7, <3>1
    <2>8. CASE Done(n, ss) /\ cs # {}
      <3>1. PICK i \in cs : m[n] = [free |-> x.free \ {i}, matched |-> x.matched \cup {n}]
        BY <2>6, <2>8
      <3>2. x.free \in SUBSET L
        BY <2>3 DEF Even, L
      <3>3. i \in L /\ InTheWindow(n, w)
        BY <2>1, <2>8, <3>1, <3>2, TakenIsNear DEF L, k
      <3>4. i \in x.free
        BY <3>1 DEF Candidates
      <3>5. L \ (x.free \ {i}) = (L \ x.free) \cup {i} /\ i \notin L \ x.free
        BY <3>3, <3>4
      <3>6. IsFiniteSet(L \ x.free) /\ IsFiniteSet(x.matched) /\ n \notin x.matched
        BY <1>1, <2>4, FiniteRecords DEF L
      <3>7. /\ Cardinality((L \ x.free) \cup {i}) = Cardinality(L \ x.free) + 1
            /\ Cardinality(x.matched \cup {n}) = Cardinality(x.matched) + 1
        BY <3>5, <3>6, FS_AddElement
      <3>8. m[n].free = x.free \ {i} /\ m[n].matched = x.matched \cup {n}
        BY <3>1
      <3>9. Cardinality(L \ m[n].free) = Cardinality(m[n].matched)
        BY <2>3, <3>5, <3>7, <3>8 DEF Even, L
      <3>10. \A c \in m[n].matched : c \in Use /\ c <= n /\ InTheWindow(c, w)
        BY <2>1, <2>4, <3>3, <3>8
      <3>11. Even(m[n], n, w)
        BY <3>2, <3>8, <3>9, <3>10 DEF Even, L
      <3>12. QED
        BY <2>1, <3>11
    <2>9. QED
      BY <2>7, <2>8
  <1> HIDE DEF S
  <1>4. 0 .. NUses \subseteq S
    BY <1>2, <1>3, UpTo, ConstantsDiffer
  <1>5. QED
    BY <1>4 DEF S

\* When an answered call in the window has no record, a record is left over.
LEMMA SomethingLeft ==
  ASSUME NEW f, NEW ss, NEW w, Whole(f, ss, w),
         NEW d \in Use, InTheWindow(d, w), d \notin Match(ss, w, TRUE).matched
  PROVE  Match(ss, w, TRUE).free # {}
  <1> SUFFICES ASSUME Match(ss, w, TRUE).free = {} PROVE FALSE
    OBVIOUS
  <1> DEFINE L == LogOf(w, TRUE)
             M == Match(ss, w, TRUE).matched
             Mine == {i \in L : f[i] \in M}
             g == [i \in Mine |-> f[i]]
  <1>1. FunnelTypeOK
    BY DEF Whole, FunnelInv
  <1>2. PICK m : Matching(m, ss, w)
    BY <1>1, MatchingExists
  <1>3. Even(Match(ss, w, TRUE), NUses, w)
    <2>1. NUses \in 0 .. NUses
      BY ConstantsDiffer
    <2>2. Even(m[NUses], NUses, w)
      BY <1>2, <2>1, StaysEven
    <2>3. Match(ss, w, TRUE) = m[NUses]
      BY <1>2 DEF Matching
    <2>4. QED
      BY <2>2, <2>3
  <1>4. M \in SUBSET Use /\ (\A c \in M : InTheWindow(c, w)) /\ Cardinality(L) = Cardinality(M)
    <2>1. L \ {} = L
      OBVIOUS
    <2>2. QED
      BY <1>3, <2>1 DEF Even
  <1>5. IsFiniteSet(L) /\ IsFiniteSet(Mine)
    BY <1>1, FiniteRecords
  <1>6. PICK j \in L : f[j] = d
    BY OwnRecord
  <1>7. Mine \in SUBSET (L \ {j})
    BY <1>6
  <1>8. g \in Surjection(Mine, M)
    <2>1. ASSUME NEW c \in M PROVE \E i \in Mine : f[i] = c
      <3>1. c \in Use /\ InTheWindow(c, w)
        BY <1>4
      <3>2. PICK i \in L : f[i] = c
        BY <3>1, OwnRecord
      <3>3. QED
        BY <3>2
    <2>2. QED
      BY <2>1 DEF Surjection
  <1> HIDE DEF L, M, Mine, g
  <1>9. Cardinality(M) <= Cardinality(Mine)
    BY <1>5, <1>8, FS_Surjection
  <1>10. IsFiniteSet(L \ {j}) /\ Cardinality(L \ {j}) = Cardinality(L) - 1
    BY <1>5, <1>6, FS_RemoveElement
  <1>11. Cardinality(Mine) <= Cardinality(L \ {j})
    BY <1>7, <1>10, FS_Subset
  <1>12. Cardinality(L) \in Nat /\ Cardinality(Mine) \in Nat
    BY <1>5, FS_CardinalityType
  <1>13. QED
    BY <1>4, <1>9, <1>10, <1>11, <1>12

\* Record j is that of call n, and it is free.
OwnIsFree(f, w, n, j, free) == free \in SUBSET LogOf(w, TRUE) /\ j \in free /\ f[j] = n

\* Among calls that ask different questions each finds its own record only.
LEMMA OnlyItsOwn ==
  ASSUME NEW f, NEW ss, NEW w, Whole(f, ss, w), Distinguished, NEW n \in Use, Done(n, ss),
         NEW j, NEW free, OwnIsFree(f, w, n, j, free)
  PROVE  Candidates(n, KeptIn(n, ss), free) = {j}
  <1> USE DEF OwnIsFree
  <1> DEFINE k == KeptIn(n, ss)
             cs == Candidates(n, k, free)
             near == {i \in free : use[n].ts <= log[i].ts + Slack /\ log[i].ts <= EndIn(k, n) + Slack}
             same == {i \in near : log[i].question = use[n].question}
  <1>1. cs = IF same # {} THEN same ELSE near
    BY DEF Candidates
  <1>2. Answered(n) /\ EndIn(k, n) = use[n].end
    BY DoneIsAnswered DEF Whole
  <1>3. use[n].ts \in Nat /\ use[n].end \in Nat /\ use[n].ts <= use[n].end /\ Slack \in Nat
    BY <1>2, AnsweredTimes, ConstantsDiffer DEF Whole
  <1>4. log[j].ts = use[n].end /\ j \in LogOf(w, TRUE) /\ j \in DOMAIN log
    BY RecordedInWindow DEF LogOf
  <1>5. j \in near
    BY <1>2, <1>3, <1>4
  <1>6. use[n].question # Absent => log[j].question = use[n].question
    BY <1>4 DEF Whole, Writes
  <1>7. ASSUME NEW i \in cs PROVE i = j
    <2>1. i \in LogOf(w, TRUE) /\ i \in DOMAIN log /\ (f[i] = n \/ Takes(n, f[i]))
      BY <1>7, TakenIsNear DEF LogOf
    <2>2. CASE f[i] = n
      BY <1>4, <2>1, <2>2 DEF Whole, Writes
    <2>3. CASE Takes(n, f[i])
      <3>1. f[i] \in Use
        BY <2>1 DEF Whole
      <3>2. /\ use[n].question # Absent /\ use[f[i]].question # Absent
            /\ use[n].question # use[f[i]].question
        BY <2>3, <3>1 DEF Distinguished
      <3>3. log[i].question = use[f[i]].question
        BY <2>1, <3>2 DEF Whole, Writes
      <3>4. j \in same
        BY <1>5, <1>6, <3>2
      <3>5. i \in same
        BY <1>1, <1>7, <3>4
      <3>6. QED
        BY <3>2, <3>3, <3>5
    <2>4. QED
      BY <2>1, <2>2, <2>3
  <1>8. cs # {}
    BY <1>1, <1>5
  <1>9. QED
    BY <1>7, <1>8

\* Up to each call, all that ended in the window are matched and no record of a
\* later one is taken.
Right(x, n, f, ss, w) ==
    /\ x.free \subseteq LogOf(w, TRUE)
    /\ \A i \in LogOf(w, TRUE) \ x.free : f[i] <= n
    /\ \A c \in Use : Done(c, ss) /\ c <= n /\ InWindow(use[c].end, w) => c \in x.matched

LEMMA StaysRight ==
  ASSUME NEW f, NEW ss, NEW w, Whole(f, ss, w), Distinguished, NEW m, Matching(m, ss, w)
  PROVE  \A n \in 0 .. NUses : Right(m[n], n, f, ss, w)
  <1> DEFINE S == {n \in 0 .. NUses : Right(m[n], n, f, ss, w)}
             L == LogOf(w, TRUE)
  <1>1. FunnelTypeOK
    BY DEF Whole, FunnelInv
  <1>2. 0 \in S
    <2>1. m[0] = [free |-> L, matched |-> {}]
      BY DEF Matching
    <2>2. \A c \in Use : ~ (c <= 0)
      BY DEF Use
    <2> HIDE DEF L
    <2>3. m[0].free = L
      BY <2>1
    <2>4. Right(m[0], 0, f, ss, w)
      BY <2>2, <2>3 DEF Right, L
    <2>5. QED
      BY <2>4, ConstantsDiffer
  <1>3. ASSUME NEW n \in 1 .. NUses, n - 1 \in S PROVE n \in S
    <2> DEFINE x == m[n - 1]
               cs == Candidates(n, KeptIn(n, ss), x.free)
    <2>1. n - 1 \in 0 .. NUses /\ n \in 0 .. NUses /\ n \in Use
      BY ConstantsDiffer DEF Use
    <2>2. x \in States /\ m[n] = AfterCall(n, ss, x)
      BY <2>1 DEF Matching
    <2>3. Right(x, n - 1, f, ss, w)
      BY <1>3
    <2>4. \A i \in L : f[i] \in Use
      BY RecordedInWindow
    <2>5. \A c \in Use : c <= n => c = n \/ c <= n - 1
      BY <2>1 DEF Use
    <2>6. \A c \in Use : c <= n - 1 => c <= n
      BY <2>1 DEF Use
    <2> HIDE DEF x
    <2>7. x.free \in SUBSET L /\ \A i \in L \ x.free : f[i] <= n - 1
      BY <2>3 DEF Right
    <2>8. ~ (n <= n - 1)
      BY <2>1 DEF Use
    <2>9. \A i \in L : f[i] <= n - 1 => f[i] <= n
      BY <2>4, <2>6
    <2>10. CASE ~ Done(n, ss) \/ cs = {}
      <3>1. m[n] = x
        BY <1>1, <2>1, <2>2, <2>10, CallTakes
      <3>2. ASSUME Done(n, ss), InWindow(use[n].end, w) PROVE FALSE
        <4>1. InTheWindow(n, w)
          BY <3>2, DoneIsAnswered DEF InTheWindow, Whole
        <4>2. PICK j \in L : f[j] = n
          BY <2>1, <4>1, OwnRecord
        <4>3. j \in x.free
          BY <2>7, <2>8, <4>2
        <4>4. cs = {j}
          <5>1. OwnIsFree(f, w, n, j, x.free)
            BY <2>7, <4>2, <4>3 DEF OwnIsFree
          <5>2. QED
            BY <2>1, <3>2, <5>1, OnlyItsOwn
        <4>5. QED
          BY <2>10, <3>2, <4>4
      <3>3. Right(x, n, f, ss, w)
        BY <2>3, <2>4, <2>5, <2>6, <3>2 DEF Right
      <3>4. QED
        BY <2>1, <3>1, <3>3
    <2>11. CASE Done(n, ss) /\ cs # {}
      <3>1. \E i \in cs : AfterCall(n, ss, x) = [free |-> x.free \ {i}, matched |-> x.matched \cup {n}]
        BY <1>1, <2>1, <2>2, <2>11, CallTakes
      <3>2. PICK i \in cs : m[n] = [free |-> x.free \ {i}, matched |-> x.matched \cup {n}]
        BY <2>2, <3>1
      <3>3. x.free \in SUBSET L
        BY <2>3 DEF Right
      <3>4. i \in L /\ InTheWindow(n, w)
        BY <2>1, <2>11, <3>2, <3>3, TakenIsNear
      <3>5. PICK j \in L : f[j] = n
        BY <2>1, <3>4, OwnRecord
      <3>6. j \in x.free
        BY <2>7, <2>8, <3>5
      <3>7. cs = {j}
        <4>1. OwnIsFree(f, w, n, j, x.free)
          BY <2>7, <3>5, <3>6 DEF OwnIsFree
        <4>2. QED
          BY <2>1, <2>11, <4>1, OnlyItsOwn
      <3>8. i = j
        BY <3>2, <3>7
      <3>9. m[n].free = x.free \ {j} /\ m[n].matched = x.matched \cup {n}
        BY <3>2, <3>8
      <3>10. \A h \in L \ m[n].free : f[h] <= n
        <4>1. n <= n
          BY <2>1 DEF Use
        <4>2. \A h \in L \ m[n].free : h = j \/ h \in L \ x.free
          BY <3>9
        <4>3. QED
          BY <2>7, <2>9, <3>5, <4>1, <4>2
      <3>11. \A c \in Use : Done(c, ss) /\ c <= n /\ InWindow(use[c].end, w) => c \in m[n].matched
        BY <2>3, <2>5, <3>9 DEF Right
      <3>12. Right(m[n], n, f, ss, w)
        BY <3>3, <3>9, <3>10, <3>11 DEF Right
      <3>13. QED
        BY <2>1, <3>12
    <2>12. QED
      BY <2>10, <2>11
  <1> HIDE DEF S
  <1>4. 0 .. NUses \subseteq S
    BY <1>2, <1>3, UpTo, ConstantsDiffer
  <1>5. QED
    BY <1>4 DEF S

LEMMA AllMatched ==
  ASSUME NEW f, NEW ss, NEW w, Whole(f, ss, w), Distinguished,
         NEW c, Done(c, ss), InWindow(use[c].end, w)
  PROVE  c \in Match(ss, w, TRUE).matched
  <1>1. FunnelTypeOK
    BY DEF Whole, FunnelInv
  <1>2. PICK m : Matching(m, ss, w)
    BY <1>1, MatchingExists
  <1>3. NUses \in 0 .. NUses
    BY ConstantsDiffer
  <1>4. Right(m[NUses], NUses, f, ss, w)
    BY <1>2, <1>3, StaysRight
  <1>5. Match(ss, w, TRUE) = m[NUses]
    BY <1>2 DEF Matching
  <1>6. c \in Use
    BY DoneIsAnswered DEF Whole
  <1>7. c <= NUses
    BY <1>6 DEF Use
  <1>8. QED
    BY <1>4, <1>5, <1>6, <1>7 DEF Right

LEMMA UnloggedIs ==
  ASSUME NEW f, NEW ss, NEW w, Whole(f, ss, w), NEW m, NEW c \in Unlogged(ss, w, m)
  PROVE  c \in Use /\ Done(c, ss) /\ InTheWindow(c, w) /\ c \notin m.matched
  <1>1. Done(c, ss) /\ c \notin m.matched /\ InWindow(EndIn(KeptIn(c, ss), c), w)
    BY DEF Unlogged, Judged, Done
  <1>2. QED
    BY <1>1, DoneIsAnswered DEF InTheWindow, Whole

LEMMA NoFalseUnloggedHolds == FunnelInv => NoFalseUnlogged
  <1> SUFFICES ASSUME FunnelInv, NEW since \in 0 .. clock, NEW u \in Unread,
                      lost = {}, ~ AtEdge(<<since, clock>>)
               PROVE  LET w == <<since, clock>>
                          ss == Scanned(w, u)
                      IN  /\ Reading(ss, w, TRUE) # "no-record-in-log"
                          /\ Distinguished /\ Broken(ss, w) = {} => Execution(ss, w, TRUE) # "FAIL"
    BY DEF NoFalseUnlogged
  <1> DEFINE w == <<since, clock>>
             ss == Scanned(w, u)
             m == Match(ss, w, TRUE)
  <1>1. PICK f \in [DOMAIN log -> Use] : Writes(f)
    BY DEF FunnelInv, Logged
  <1>2. There(ss)
    BY DEF There, Scanned
  <1> HIDE DEF ss
  <1>3. Whole(f, ss, w)
    BY <1>1, <1>2 DEF Whole
  <1> HIDE DEF w
  <1>4. Unlogged(ss, w, m) # {} => m.free # {}
    BY <1>3, UnloggedIs, SomethingLeft
  <1>5. Reading(ss, w, TRUE) # "no-record-in-log"
    <2>1. CASE Unlogged(ss, w, m) = {}
      <3>1. Reading(ss, w, TRUE) = Absent
        BY <2>1 DEF Reading
      <3>2. QED
        BY <3>1, FunnelAssumption
    <2>2. CASE Unlogged(ss, w, m) # {}
      BY <1>4, <2>2 DEF Reading
    <2>3. QED
      BY <2>1, <2>2
  <1>6. ASSUME Distinguished, Broken(ss, w) = {} PROVE Execution(ss, w, TRUE) # "FAIL"
    <2>1. ASSUME NEW c \in Unlogged(ss, w, m) PROVE FALSE
      <3>1. Done(c, ss) /\ InWindow(use[c].end, w) /\ c \notin m.matched
        BY <1>3, UnloggedIs DEF InTheWindow
      <3>2. QED
        BY <1>3, <1>6, <3>1, AllMatched
    <2>2. Unlogged(ss, w, m) \cup Broken(ss, w) = {}
      BY <1>6, <2>1
    <2>3. QED
      BY <2>2 DEF Execution, Verdict
  <1>7. QED
    BY <1>5, <1>6 DEF w, ss

\* A call counts once, whatever transcripts repeat it, and none that was logged
\* is said to be unlogged (mark_copied_calls, mark_routing_copies, match_records).
THEOREM JudgedOnce == FunnelSpec => []FunnelRight
  <1>1. FunnelSpec => []FunnelInv
    BY InitFunnelInv, FunnelStep, PTL DEF FunnelSpec
  <1>2. FunnelInv => FunnelRight
    BY CountedOnceHolds, NoFalseUnloggedHolds DEF FunnelRight
  <1>3. QED
    BY <1>1, <1>2, PTL
===============================================================================
