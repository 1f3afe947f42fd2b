--------------------------------- MODULE Audit ---------------------------------
(* The audit of the dependency screen.  build_sheet samples candidates into   *)
(* a blind sheet for the owner and keeps the screen's values apart; the owner *)
(* labels, seals and commits it; score compares; an amendment of the screen   *)
(* is put on record; admission_check decides by all of it.  The owner edits   *)
(* at any time, and any command may die.  The intervals, the bases of labels  *)
(* and the list of a sheet's episodes, which the owner leaves alone, are left *)
(* out, and an episode has one category of each sort.                         *)
EXTENDS Integers, FiniteSetsExt

CONSTANTS
    Unwritten,
    N,          \* the episodes 1 .. N, by started_at
    Sample,     \* how many a sheet takes
    MaxSheets, MaxSaves, MaxAuditFaults    \* bounds

Episodes == 1 .. N
Sheets == 1 .. MaxSheets
Amending == {"live_remote"}                  \* AMEND_ON_MISS
Categories == Amending \cup {"network"}
Labels == {"needed", "not_needed"}

\* What a labels file and a screen file may hold.
Values == {v \in [Categories -> {"no", "unknown"}] : v["network"] = "no"}
Labellings == UNION {[eps -> [Categories -> Labels \cup {Unwritten}]] : eps \in SUBSET Episodes}
LabelFiles == [sealed : BOOLEAN, label : Labellings]
Screens == UNION {[eps -> Values] : eps \in SUBSET Episodes}

AuditAssumption ==
    /\ {N, Sample, MaxSheets, MaxSaves, MaxAuditFaults} \subseteq Nat /\ Sample > 0
    /\ Unwritten \notin LabelFiles /\ Unwritten \notin Screens

VARIABLES
    sheet,      \* the labels files: what they hold, or Unwritten
    head,       \* their last commits
    shown,      \* the screen files: episode -> category -> value, or Unwritten
    result,     \* the scored audits, or Unwritten
    builder, scorer, amender,    \* the commands at work, or Unwritten
    saves, auditFaults

files == <<sheet, head, shown, result>>
auditVars == <<files, builder, scorer, amender, saves, auditFaults>>

Blank(eps) == [sealed |-> FALSE, label |-> [e \in eps |-> [c \in Categories |-> Unwritten]]]

AuditInit ==
    /\ sheet = [k \in Sheets |-> Unwritten] /\ head = sheet /\ shown = sheet /\ result = sheet
    /\ builder = Unwritten /\ scorer = Unwritten /\ amender = Unwritten /\ saves = 0 /\ auditFaults = 0

-----------------------------------------------------------------------------
(* The sheet.                                                              *)

Numbers == {k \in Sheets : sheet[k] # Unwritten}
Covered == UNION {DOMAIN shown[k] : k \in Numbers}
AuditFirst(S) == {e \in S : Cardinality({d \in S : d < e}) < Sample}

\* Which episodes are candidates, and what their screen says, may be anything.
BuildSheet ==
    /\ builder = Unwritten /\ Cardinality(Numbers) < MaxSheets
    /\ \A k \in Numbers : result[k] # Unwritten /\ shown[k] # Unwritten
    /\ \E candidates \in SUBSET (Episodes \ Covered) \ {{}}, screen \in [Episodes -> Values] :
          LET k == Cardinality(Numbers) + 1
              eps == AuditFirst(candidates)
          IN  /\ sheet' = [sheet EXCEPT ![k] = Blank(eps)]
              /\ builder' = [k |-> k, show |-> [e \in eps |-> screen[e]]]
    /\ UNCHANGED <<head, shown, result, scorer, amender, saves, auditFaults>>

ShowScreen ==
    /\ builder # Unwritten /\ shown[builder.k] = Unwritten
    /\ shown' = [shown EXCEPT ![builder.k] = builder.show]
    /\ UNCHANGED <<sheet, head, result, builder, scorer, amender, saves, auditFaults>>

\* The commit of both files, which may fail.
CommitSheet ==
    /\ builder # Unwritten /\ shown[builder.k] # Unwritten /\ builder' = Unwritten
    /\ head' \in {head, [head EXCEPT ![builder.k] = sheet[builder.k]]}
    /\ UNCHANGED <<sheet, shown, result, scorer, amender, saves, auditFaults>>

-----------------------------------------------------------------------------
(* The owner (external).                                                   *)

\* The labels are filled in or changed and sealed, or the seal is taken back.  A
\* save while the sheet is being scored is noted in the scorer.
Save(k) ==
    /\ k \in Numbers /\ saves < MaxSaves /\ saves' = saves + 1
    /\ \E saved \in {[sealed |-> TRUE, label |-> l] : l \in [DOMAIN sheet[k].label -> [Categories -> Labels]]}
                    \cup {[sheet[k] EXCEPT !.sealed = FALSE]} :
          sheet' = [sheet EXCEPT ![k] = saved]
    /\ scorer' = IF scorer # Unwritten /\ scorer.k = k THEN [scorer EXCEPT !.raced = TRUE] ELSE scorer
    /\ UNCHANGED <<head, shown, result, builder, amender, auditFaults>>

AuditCommit(k) ==
    /\ k \in Numbers /\ head' = [head EXCEPT ![k] = sheet[k]]
    /\ UNCHANGED <<sheet, shown, result, builder, scorer, amender, saves, auditFaults>>

-----------------------------------------------------------------------------
(* The score.                                                              *)

\* The labels are all there, sealed, and as they were committed.
LabelsSealed(k) ==
    /\ sheet[k] # Unwritten /\ shown[k] # Unwritten /\ sheet[k].sealed
    /\ \A e \in DOMAIN shown[k], c \in Categories : sheet[k].label[e][c] \in Labels
    /\ head[k] = sheet[k]

Score(k) ==
    /\ scorer = Unwritten /\ LabelsSealed(k)
    /\ scorer' = [k |-> k, label |-> Unwritten, raced |-> FALSE]
    /\ UNCHANGED <<files, builder, amender, saves, auditFaults>>

ReadSheet ==
    /\ scorer # Unwritten /\ scorer.label = Unwritten
    /\ scorer' = [scorer EXCEPT !.label = sheet[scorer.k].label]
    /\ UNCHANGED <<files, builder, amender, saves, auditFaults>>

\* The categories with a false negative.
Missed(label, show) == {c \in Categories : \E e \in DOMAIN show : show[e][c] = "no" /\ label[e][c] = "needed"}

\* The labels file is hashed, and the result is written over an earlier one.
WriteResult ==
    /\ scorer # Unwritten /\ scorer.label # Unwritten /\ scorer' = Unwritten
    /\ LET k == scorer.k IN
           result' = [result EXCEPT ![k] =
               [hash |-> sheet[k], amend |-> Missed(scorer.label, shown[k]) \cap Amending, amended |-> FALSE,
                raced |-> scorer.raced]]
    /\ UNCHANGED <<sheet, head, shown, builder, amender, saves, auditFaults>>

-----------------------------------------------------------------------------
(* The amendment: the result is read and written back.                     *)

RecordAmendment(k) ==
    /\ amender = Unwritten /\ result[k] # Unwritten
    /\ amender' = [k |-> k, result |-> [result[k] EXCEPT !.amended = TRUE]]
    /\ UNCHANGED <<files, builder, scorer, saves, auditFaults>>

WriteAmendment ==
    /\ amender # Unwritten /\ amender' = Unwritten
    /\ result' = [result EXCEPT ![amender.k] = amender.result]
    /\ UNCHANGED <<sheet, head, shown, builder, scorer, saves, auditFaults>>

\* A command is killed.
AuditDie ==
    /\ auditFaults < MaxAuditFaults /\ auditFaults' = auditFaults + 1
    /\ {builder, scorer, amender} # {Unwritten}
    /\ builder' \in {builder, Unwritten} /\ scorer' \in {scorer, Unwritten} /\ amender' \in {amender, Unwritten}
    /\ UNCHANGED <<files, saves>>

AuditNext ==
    \/ BuildSheet \/ ShowScreen \/ CommitSheet
    \/ ReadSheet \/ WriteResult \/ WriteAmendment \/ AuditDie
    \/ \E k \in Sheets : Save(k) \/ AuditCommit(k) \/ Score(k) \/ RecordAmendment(k)

AuditSpec == AuditInit /\ [][AuditNext]_auditVars

-----------------------------------------------------------------------------
(* The admission: what it asks of the audit.  That the episode is still a   *)
(* candidate, with a payload and a review case by case, it asks as well.    *)

Audits(e) == {k \in Numbers : result[k] # Unwritten /\ e \in DOMAIN shown[k]}
Pending(r) == r.amend # {} /\ ~ r.amended

\* Mutant: the labels may change once they are scored.
BugAdmitted(e) == Audits(e) # {} /\ ~ Pending(result[Max(Audits(e))])

Admitted(e) ==
    /\ Audits(e) # {}
    /\ LET r == result[Max(Audits(e))] IN ~ Pending(r) /\ r.hash = sheet[Max(Audits(e))]

-----------------------------------------------------------------------------
\* Each variable stays in its range.
AuditTypeOK ==
    /\ \A k \in Sheets : result[k] # Unwritten => sheet[k] # Unwritten /\ shown[k] # Unwritten
    /\ saves \in 0 .. MaxSaves /\ auditFaults \in 0 .. MaxAuditFaults

\* An admitted episode stands on labels that the owner sealed, and where they
\* name a miss in a category that demands it, on an amendment recorded after
\* that miss was counted: whatever is saved, committed, scored and amended in
\* between, short of a save while the score itself is read.
AdmittedOnLabels ==
    \A e \in Episodes : Admitted(e) =>
        LET k == Max(Audits(e)) IN
            \/ result[k].raced
            \/ /\ sheet[k].sealed
               /\ \/ Missed(sheet[k].label, shown[k]) \cap Amending = {}
                  \/ result[k].amended
=============================================================================
