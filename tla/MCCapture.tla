------------------------------ MODULE MCCapture ------------------------------
(* The state machines around a captured episode that no other run has, in    *)
(* one run: each initial state has one of them at work and the others at     *)
(* rest in a fixed state.  They share nothing; together they are what is     *)
(* decided about an episode: its turn and packet, its client, its verdict,   *)
(* and the row that the measurements take it for.                            *)
EXTENDS Turns, Trust, Verdict, Rows, TLC

CONSTANTS b1, b2

VARIABLES tool

captureVars == <<tool, turnsVars, vars, verdictVars, rowsVars>>

\* Two builds with a version each.
MCVersionOf == (b1 :> "v1") @@ (b2 :> "v2")

\* A turn that nothing speaks against; one that shows what it read of another
\* session's worktree and changed files by commands only; one that fetched; one
\* that delegated what the join cannot find; and owners who rule out all that
\* is unknown, or exclude by X3.
Doing(what) == [tool |-> what, places |-> IF what \in {"edit", "read"} THEN {"checkout"} ELSE {}, verbs |-> {},
                parsed |-> TRUE, acts |-> {}, wrote |-> {}, shown |-> {}]
Edit == [Doing("edit") EXCEPT !.wrote = {"line"}]
Plain == [origin |-> "human", first |-> FALSE, attached |-> FALSE, gaps |-> FALSE, calls |-> {Edit},
          agents |-> {}, named |-> {}, names |-> FALSE, refers |-> FALSE, earlier |-> {}]
MCJoinedTurns ==
    { Plain,
      [Plain EXCEPT !.calls = {[Doing("shell") EXCEPT !.acts = {[does |-> "write", at |-> "unresolved", names |-> FALSE]}],
                               [Doing("read") EXCEPT !.places = {"lane"}, !.shown = {"line"}],
                               [Edit EXCEPT !.places = {"notes"}]}],
      [Plain EXCEPT !.calls = {Edit, [Doing("shell") EXCEPT !.verbs = {"network"}]}],
      [Plain EXCEPT !.calls = {Doing("shell"), Doing("delegate")},
                    !.agents = {[found |-> FALSE, beyond |-> FALSE, calls |-> {}]}] }

Says(rules, t) == [r \in OwnerResolvable |-> IF r \in rules THEN t ELSE Unset]

MCOwnerFiles == {Says(OwnerResolvable, "no"), Says({"X3"}, "yes")}

ASSUME TurnsAssumption /\ ConstAssumption /\ VerdictAssumption /\ RowsAssumption

\* A machine at rest starts in one of its initial states.
Rest ==
    /\ tool # "trust" => installed = <<b1>>
    /\ tool # "verdict" => phase = "started" /\ complete

CaptureInit ==
    /\ tool \in {"turns", "trust", "verdict", "rows"}
    /\ Init /\ TurnsInit /\ VerdictInit /\ RowsInit
    /\ Rest

Turning(A) == /\ tool = "turns" /\ A
              /\ UNCHANGED <<tool, vars, verdictVars, rowsVars>>
Trusting(A) == /\ tool = "trust" /\ A
               /\ UNCHANGED <<tool, turnsVars, verdictVars, rowsVars>>
Judging(A) == /\ tool = "verdict" /\ A
              /\ UNCHANGED <<tool, turnsVars, vars, rowsVars>>
Telling(A) == /\ tool = "rows" /\ A
              /\ UNCHANGED <<tool, turnsVars, vars, verdictVars>>

CaptureNext ==
    \/ Turning(TurnsNext) \/ Trusting(Next)
    \/ Judging(VerdictNext) \/ Telling(RowsNext)

CaptureSpec == CaptureInit /\ [][CaptureNext]_captureVars
=============================================================================
