----------------------------- MODULE GraphHealth -----------------------------
(* The weekly refresh of the code graphs (Refresh-Graphs.ps1), the health   *)
(* record it leaves, and the daily check (Check-GraphifyHealth.ps1) that     *)
(* turns the record into alerts and a status for the dashboards.  The       *)
(* scheduled refresh and one started by hand may overlap: there is no lock. *)
(* Commits land, the local configuration is edited, processes die.  What    *)
(* the check reads is an operator on the state; a refresh lasts less than   *)
(* a day.  Package versions and the texts of alerts are left out.           *)
EXTENDS Integers, FiniteSets, Sequences

CONSTANTS
    Scans, Built,         \* folders, sets of folders that have a graph at first
    Dirs, Envs,           \* dashboard folders, values of GRAPHIFY_DASHBOARD_DIRS
    Configs,              \* the contents the configuration file may have
    Size, Threshold,      \* commit -> node count, the drift that is reported, in percent
    StaleAfter,           \* days
    None,
    MaxTime, MaxCommits, MaxRuns, MaxEdits, MaxFaults   \* bounds

Runs == {"task", "manual"}

Targets == [name : STRING, scan : Scans, bad : BOOLEAN]

\* None is no time, no status and no graph.
ConstAssumption ==
    /\ Size \in [0 .. MaxCommits -> Nat \ {0}] /\ Built \subseteq SUBSET Scans
    /\ \A c \in Configs : c.dirs \subseteq Dirs /\ c.targets \in Seq(Targets)
    /\ Threshold \in Nat /\ StaleAfter \in Nat
    /\ {MaxTime, MaxCommits, MaxRuns, MaxEdits, MaxFaults} \subseteq Nat
    /\ None \notin Nat /\ None \notin {"ok", "warn", "error"}
    /\ None \notin [built : Nat, nodes : Nat, sound : BOOLEAN]

VARIABLES
    now, head, config,
    graph,      \* scan -> graph.json: commit, node count, readable or not
    health,     \* health.json; None when missing or torn
    refresh,    \* the runs under way
    task,       \* LastTaskResult of the scheduled task
    lkg,        \* publish-settings.lkg.json: its folders, readable or not
    there,      \* the dashboard folders that exist
    shown,      \* folder -> the status its graphify-health.js shows
    last,       \* the last check
    made, goodDirs, kept, \* history: when a scan's graph was last refreshed; the
                          \* folders of the last valid configuration a check saw,
                          \* and whether that check could save them
    runs, edits, faults

vars == <<now, head, config, graph, health, refresh, task, lkg, there, shown,
          last, made, goodDirs, kept, runs, edits, faults>>
world == <<now, head, config, there, edits>>
checked == <<lkg, shown, last, goodDirs, kept>>

Fault == faults < MaxFaults /\ faults' = faults + 1
NoFault == UNCHANGED faults

-----------------------------------------------------------------------------
\* GraphifyConfig.ps1: a configuration is a file that may be missing or no
\* JSON object, with settings and targets that may each be bad.
Parsed(c) == c.file = "object"
TargetsBad(c) ==
    \/ c.targets = <<>>
    \/ \E i \in DOMAIN c.targets : c.targets[i].bad
    \/ \E i, j \in DOMAIN c.targets : i # j /\ c.targets[i].name = c.targets[j].name
Valid(c) == Parsed(c) /\ ~ c.badKey /\ ~ c.badDirs /\ ~ TargetsBad(c)
FileDirs(c) == IF Parsed(c) THEN c.dirs ELSE {}

\* The settings file that is missing or was emptied, which reads as no settings
\* and is not reported, and the one that does not parse.
Empty == [dirs |-> {}, sound |-> TRUE]
Torn == [dirs |-> {}, sound |-> FALSE]

Init ==
    /\ now = 0 /\ head = 0 /\ config \in {c \in Configs : Valid(c)}
    /\ \E b \in Built : graph =
          [s \in Scans |-> IF s \in b THEN [built |-> 0, nodes |-> Size[0], sound |-> TRUE] ELSE None]
    /\ health = None
    /\ refresh = [r \in Runs |-> None] /\ task = "never"
    /\ lkg = Empty /\ there = Dirs /\ shown = [d \in Dirs |-> None] /\ last = None
    /\ made = [s \in Scans |-> None] /\ goodDirs = {} /\ kept = TRUE
    /\ runs = 0 /\ edits = 0 /\ faults = 0

-----------------------------------------------------------------------------
\* The refresh.  A failed target's record has no counts.
Failed(t) == [name |-> t.name, scan |-> t.scan, ok |-> FALSE, nodes |-> None,
              headMatch |-> None, drift |-> FALSE]

Moved(m, n) == 100 * (IF m < n THEN n - m ELSE m - n) > Threshold * m

\* The baseline of the drift: the target's record in the health read at the start.
Before(prev, t) ==
    IF prev = None THEN None
    ELSE LET ok == {i \in DOMAIN prev.targets : prev.targets[i].name = t.name /\ prev.targets[i].nodes # None}
         IN  IF ok = {} THEN None
             ELSE prev.targets[CHOOSE i \in ok : \A j \in ok : i <= j].nodes

Drifted(prev, t, n) == Before(prev, t) # None /\ Moved(Before(prev, t), n)

LastSuccess(prev) == IF prev = None THEN None ELSE prev.lastSuccess

\* Every exit writes LastTaskResult when the scheduler started the run.
Exit(r, code) ==
    /\ refresh' = [refresh EXCEPT ![r] = None]
    /\ task' = IF r = "task" THEN code ELSE task

Begin(r) ==
    /\ refresh[r] = None /\ runs < MaxRuns /\ runs' = runs + 1
    /\ IF Valid(config)
       THEN /\ refresh' = [refresh EXCEPT ![r] =
                   [targets |-> config.targets, step |-> "extract", records |-> <<>>, prev |-> health]]
            /\ task' = IF r = "task" THEN "running" ELSE task
            /\ UNCHANGED health
       ELSE /\ health' = [exit |-> 1, configError |-> TRUE, lastSuccess |-> LastSuccess(health), targets |-> <<>>]
            /\ Exit(r, "1")
    /\ UNCHANGED <<world, checked, graph, made, faults>>

\* The target a run is at, and the step that records its outcome.
Target(r) == refresh[r].targets[Len(refresh[r].records) + 1]
AtTarget(r, step) ==
    /\ refresh[r] # None /\ Len(refresh[r].records) < Len(refresh[r].targets)
    /\ refresh[r].step = step
Record(r, rec) ==
    refresh' = [refresh EXCEPT ![r].records = Append(@, rec), ![r].step = "extract"]

\* graphify extract, the same for the same commit, then cluster-only, whose
\* failure is only logged.
Extract(r) ==
    /\ AtTarget(r, "extract")
    /\ LET t == Target(r) IN
       \/ /\ graph[t.scan] = None /\ NoFault
          /\ Record(r, Failed(t)) /\ UNCHANGED graph
       \/ /\ graph[t.scan] # None /\ Fault
          /\ Record(r, Failed(t))
          /\ graph' \in {graph, [graph EXCEPT ![t.scan].sound = FALSE]}
       \/ /\ graph[t.scan] # None
          /\ \E sound \in BOOLEAN :
                /\ sound => NoFault
                /\ ~ sound => Fault
                /\ graph' = [graph EXCEPT ![t.scan] = [built |-> head, nodes |-> Size[head], sound |-> sound]]
          /\ refresh' = [refresh EXCEPT ![r].step = "stats"]
    /\ UNCHANGED <<world, checked, health, task, made, runs>>

\* Counts and commit come from graph.json, HEAD, which graph-meta.json repeats,
\* from the repository, later.
Stats(r) ==
    /\ AtTarget(r, "stats")
    /\ LET t == Target(r)
           g == graph[t.scan]
       IN  IF g.sound
           THEN /\ Record(r, [name |-> t.name, scan |-> t.scan, ok |-> TRUE, nodes |-> g.nodes,
                              headMatch |-> g.built = head, drift |-> Drifted(refresh[r].prev, t, g.nodes)])
                /\ made' = [made EXCEPT ![t.scan] = now]
           ELSE Record(r, Failed(t)) /\ UNCHANGED made
    /\ UNCHANGED <<world, checked, graph, health, task, runs, faults>>

AllOk(records) == \A i \in DOMAIN records : records[i].ok

Finish(r) ==
    /\ refresh[r] # None /\ Len(refresh[r].records) = Len(refresh[r].targets)
    /\ LET done == refresh[r]
           ok == AllOk(done.records)
       IN  /\ health' = [exit |-> IF ok THEN 0 ELSE 1, configError |-> FALSE,
                         lastSuccess |-> IF ok THEN now ELSE LastSuccess(done.prev),
                         targets |-> done.records]
           /\ Exit(r, IF ok THEN "0" ELSE "1")
    /\ UNCHANGED <<world, checked, graph, made, runs, faults>>

\* Killed or thrown: the health record stays, or is torn when it was being written.
Kill(r) ==
    /\ refresh[r] # None /\ Fault
    /\ health' \in {health} \cup
          (IF Len(refresh[r].records) = Len(refresh[r].targets) THEN {None} ELSE {})
    /\ Exit(r, "killed")
    /\ UNCHANGED <<world, checked, graph, made, runs>>

-----------------------------------------------------------------------------
\* The daily check.  What it finds in the record, the task and the configuration.
Rec == IF health = None THEN {} ELSE {health.targets[i] : i \in DOMAIN health.targets}
Aborted == health # None /\ health.configError

\* Neither the environment nor the configuration says which folders.
Unsaid(env) == env = None /\ (~ Parsed(config) \/ config.badDirs)

\* Mutant: a record without a failure is trusted whatever its age.
BugStale == FALSE

Stale == health # None /\ health.lastSuccess # None /\ now - health.lastSuccess > StaleAfter

Errors ==
    {code \in {"config-invalid", "no-health-record", "refresh-config", "refresh-failed",
               "target-failed", "stale", "never-succeeded", "task-result"} :
        CASE code = "config-invalid"   -> ~ Valid(config)
          [] code = "no-health-record" -> health = None
          [] code = "refresh-config"   -> Aborted /\ Valid(config)
          [] code = "refresh-failed"   -> health # None /\ ~ Aborted /\ health.exit # 0
          [] code = "target-failed"    -> \E t \in Rec : ~ t.ok
          [] code = "stale"            -> Stale
          [] code = "never-succeeded"  -> health # None /\ health.lastSuccess = None
          [] code = "task-result"      -> task \notin {"0", "never"} /\ ~ (task = "1" /\ Aborted)}

\* readable: the call that reads the settings file does not fail.
Warnings(env, readable) ==
    {code \in {"head-behind", "count-drift", "lkg-unreadable"} :
        IF code = "lkg-unreadable" THEN Unsaid(env) /\ ~ readable
        ELSE \E t \in Rec : t.ok /\ IF code = "head-behind" THEN t.headMatch = FALSE ELSE t.drift}

Status(errors, warnings) ==
    IF errors # {} THEN "error" ELSE IF warnings # {} THEN "warn" ELSE "ok"

\* What the settings file may be after a save, which throws with the old file
\* in place, emptied or cut short; the error is caught.
Written(ok) ==
    IF ok THEN {[dirs |-> FileDirs(config), sound |-> TRUE]} ELSE {lkg, Empty, Torn}

\* Mutant: the settings of any configuration that can be read are kept.
BugSaved(ok) == IF Parsed(config) THEN Written(ok) ELSE {lkg}

\* Only a valid configuration becomes last-known-good, without the environment.
Saved(ok) == IF Valid(config) THEN Written(ok) ELSE {lkg}

\* The folders a check publishes to: a configuration that does not say falls
\* back to the last-known-good one, if that can be read.
DashDirs(env, readable) ==
    LET own == IF env # None THEN env ELSE FileDirs(config)
    IN  IF Unsaid(env) /\ readable THEN own \cup lkg.dirs ELSE own

\* settings: the check's one call on the settings file succeeds, a save with a
\* valid configuration and a read with one that does not say.  A read for the
\* sake of python_exe alone changes no folder and is left out.
Check(env, failing, settings) ==
    LET readable == settings /\ lkg.sound
        dirs == DashDirs(env, readable)
        errors == Errors \cup (IF dirs \subseteq there THEN {} ELSE {"dashboard-dir-missing"})
        status == Status(errors, Warnings(env, readable))
    IN  /\ failing \subseteq dirs \cap there
        /\ settings \/ Valid(config) \/ Unsaid(env)
        /\ IF failing = {} /\ settings THEN NoFault ELSE Fault
        /\ shown' = [d \in Dirs |-> IF d \in (dirs \cap there) \ failing THEN status ELSE shown[d]]
        /\ lkg' \in Saved(settings)
        /\ goodDirs' = IF Valid(config) THEN FileDirs(config) ELSE goodDirs
        /\ kept' = IF Valid(config) THEN settings ELSE kept
        /\ last' = [status |-> status,
                    excused |-> failing \cup (Dirs \ there) \cup
                                (IF Unsaid(env) /\ kept /\ settings THEN {} ELSE Dirs \ dirs)]
        /\ UNCHANGED <<world, graph, health, refresh, task, made, runs>>

-----------------------------------------------------------------------------
Idle == \A r \in Runs : refresh[r] = None
still == <<graph, health, refresh, task, checked, made, runs, faults>>

Tick == /\ now < MaxTime /\ Idle /\ now' = now + 1
        /\ UNCHANGED <<still, head, config, there, edits>>
Commit == /\ head < MaxCommits /\ head' = head + 1
          /\ UNCHANGED <<still, now, config, there, edits>>

Edits == edits < MaxEdits /\ edits' = edits + 1
EditConfig(c) == /\ Edits /\ c # config /\ config' = c
                 /\ UNCHANGED <<still, now, head, there>>
RemoveDir(d) == /\ Edits /\ d \in there /\ there' = there \ {d}
                /\ shown' = [shown EXCEPT ![d] = None]
                /\ UNCHANGED <<graph, health, refresh, task, lkg, last, goodDirs, kept, made, runs, faults,
                               now, head, config>>

Next ==
    \/ Tick \/ Commit
    \/ \E c \in Configs : EditConfig(c)
    \/ \E d \in Dirs : RemoveDir(d)
    \/ \E r \in Runs : Begin(r) \/ Extract(r) \/ Stats(r) \/ Finish(r) \/ Kill(r)
    \/ \E env \in Envs \cup {None}, failing \in SUBSET Dirs, settings \in BOOLEAN :
          Check(env, failing, settings)

Spec == Init /\ [][Next]_vars

-----------------------------------------------------------------------------
\* Each variable stays in its range.
TypeOK ==
    /\ now \in 0 .. MaxTime /\ head \in 0 .. MaxCommits /\ config \in Configs
    /\ \A s \in Scans :
          /\ graph[s] = None \/ graph[s] \in [built : 0 .. head, nodes : Nat, sound : BOOLEAN]
          /\ made[s] = None \/ made[s] \in 0 .. now
    /\ task \in {"never", "running", "0", "1", "killed"}
    /\ there \subseteq Dirs /\ \A d \in Dirs : shown[d] \in {None, "ok", "warn", "error"}
    /\ runs \in 0 .. MaxRuns /\ edits \in 0 .. MaxEdits /\ faults \in 0 .. MaxFaults

\* A status without an error vouches for the graphs: of the targets of the last
\* run, each was refreshed within the limit, whatever failed, died, or ran at
\* the same time in between.
OkIsEarned ==
    Errors = {} => \A t \in Rec : made[t.scan] # None /\ now - made[t.scan] <= StaleAfter

\* After a check that found an error, no dashboard of the last valid configuration
\* goes on showing "ok", be the configuration lost or broken since.  Two failures
\* that are caught leave one behind: the settings could not be saved when the
\* configuration was last valid, or they cannot be read now (last.excused).
NoStaleOk ==
    last # None /\ last.status = "error" => \A d \in goodDirs \ last.excused : shown[d] # "ok"
=============================================================================
