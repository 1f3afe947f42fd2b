---------------------------- MODULE PendingCount ----------------------------
(* capture_failure_records of evidence-capture/pipeline.py, run by the      *)
(* backstop while drains and starts go on: it scans the manifests of its    *)
(* own store, lists the .draining files, and then reads the pending file    *)
(* and each listed file, counting every failure once.                       *)
EXTENDS PendingLog

CONSTANT Own   \* the store of the counting backstop

ASSUME OwnAssumption == Own \in Stores

VARIABLES
    step,      \* where the count is
    listed,    \* .draining files found by the glob and not read yet
    counted,   \* records counted
    problem,   \* a file or a line that could not be read was reported
    onRecord,  \* history: records on record when the count began
    moved      \* history: an append or a drain was under way during the count

count == <<step, listed, counted, problem, onRecord, moved>>

CInit ==
    /\ Init
    /\ step = "idle"
    /\ listed = {}
    /\ counted = {}
    /\ problem = FALSE
    /\ onRecord = {}
    /\ moved = FALSE

Quiet == \A p \in Procs : pc[p] \notin Appending \cup Draining

\* scan_manifests: the failed manifests of this store.
CountManifests ==
    /\ step \in {"idle", "done"}
    /\ step' = "glob"
    /\ counted' = manifests[Own]
    /\ listed' = {}
    /\ problem' = FALSE
    /\ onRecord' = recorded
    /\ moved' = ~Quiet
    /\ UNCHANGED vars

\* The list of files is complete before the first is read.
ListDraining ==
    /\ step = "glob"
    /\ step' = "pend"
    /\ listed' = {f \in Files : where[f] = "work"}
    /\ UNCHANGED <<vars, counted, problem, onRecord, moved>>

\* Mutant: a line that does not parse is passed over.
BugTake(f) ==
    /\ counted' = counted \cup LinesOf(f).whole
    /\ problem' = problem

\* One file's lines: each record once, each line that does not parse a problem.
Take(f) ==
    /\ counted' = counted \cup LinesOf(f).whole
    /\ problem' = (problem \/ LinesOf(f).torn # {})

CountPend ==
    /\ step = "pend"
    /\ step' = "files"
    /\ IF Pend = {} THEN UNCHANGED <<counted, problem>> ELSE \E f \in Pend : Take(f)
    /\ UNCHANGED <<vars, listed, onRecord, moved>>

\* A listed file that is gone was finished by its drain: passed over.
CountDraining ==
    /\ step = "files"
    /\ \E f \in listed :
         /\ listed' = listed \ {f}
         /\ IF where[f] = "work" THEN Take(f) ELSE UNCHANGED <<counted, problem>>
    /\ UNCHANGED <<vars, step, onRecord, moved>>

CountDone ==
    /\ step = "files"
    /\ listed = {}
    /\ step' = "done"
    /\ UNCHANGED <<vars, listed, counted, problem, onRecord, moved>>

CountStep == CountManifests \/ ListDraining \/ CountPend \/ CountDraining \/ CountDone

CNext ==
    \/ CountStep
    \/ Next /\ UNCHANGED <<step, listed, counted, problem, onRecord>>
            /\ moved' = (moved \/ step \notin {"idle", "done"})

CSpec == CInit /\ [][CNext]_<<vars, count>>

-----------------------------------------------------------------------------
\* Types; a finished count has read every file it listed.
CTypeOK ==
    /\ step = "done" => listed = {}
    /\ step \in {"idle", "glob", "pend", "files", "done"}
    /\ listed \subseteq Files
    /\ counted \subseteq Recs
    /\ problem \in BOOLEAN
    /\ onRecord \subseteq Recs
    /\ moved \in BOOLEAN

(* While nothing moves, the count is complete or says that it is not: a     *)
(* dead drain's leftovers, duplicate lines and lines that do not parse      *)
(* included (pipeline.py:1077-1079, "unknown, never zero").  Only a failure *)
(* that another store's drain recorded is left to that store's count.       *)
QuietCountComplete ==
    step = "done" /\ ~moved =>
        problem \/ onRecord \subseteq counted \cup UNION {manifests[s] : s \in Stores \ {Own}}

=============================================================================
