------------------------------- MODULE Screen -------------------------------
(* The dependency screen: what the calls of a joined turn say of the facts   *)
(* that the rules rest on.  A call has the places its paths name, what its   *)
(* commands are, whether they parsed, and the lines it wrote and was shown.  *)
(* The order of the calls tells only untracked_input, which no rule asks.    *)

CONSTANT Lines      \* contents of lines that are long enough to be compared

Tri == {"yes", "no", "unknown"}
CategoriesOf == [X3 |-> {"live_remote", "outward_action", "other_session", "network"},
                 X4 |-> {"attachment", "external_path", "external_repository", "memory_or_scratch"}]
Categories == CategoriesOf.X3 \cup CategoriesOf.X4

\* classify_path
Category == [checkout |-> {}, notes |-> {"memory_or_scratch"}, lane |-> {"other_session"},
             repository |-> {"external_repository"}, elsewhere |-> {"external_path"}]

\* The tools that name no path: most have a category of their own.
Reaches == [delegate |-> {"other_session"}, web |-> {"network"}, outward |-> {"outward_action"},
            remote |-> {"live_remote"}, plain |-> {}]
Tools == {"shell", "edit", "read"} \cup DOMAIN Reaches

\* What a segment of a command does, and where: in the checkout, outside of it,
\* or where the transcript does not tell (cd into a variable); a script or a
\* runner may name a file of the checkout to execute.
Acts == [does : {"write", "git", "inline", "exec"}, at : {"checkout", "outside", "unresolved"}, names : BOOLEAN]

Call == [tool : Tools, places : SUBSET DOMAIN Category, verbs : SUBSET CategoriesOf.X3,
         parsed : BOOLEAN, acts : SUBSET Acts, wrote : SUBSET Lines, shown : SUBSET Lines]

\* A subagent that the turn calls: its transcript may not be there, its calls
\* are those within the turn, and it may be at work after the turn is over.
Delegation == [found : BOOLEAN, beyond : BOOLEAN, calls : SUBSET Call]

\* A turn as the join hands it over, with what its prompt says: the categories
\* it names, whether it names a file of an earlier turn or points back.
Turn == [origin : {"human", "other"}, first : BOOLEAN, attached : BOOLEAN, gaps : BOOLEAN,
         calls : SUBSET Call, agents : SUBSET Delegation,
         named : SUBSET Categories, names : BOOLEAN, refers : BOOLEAN, earlier : SUBSET Lines]

-----------------------------------------------------------------------------
\* referenced_subagents: what it found is observed with the turn's own calls.
CallsOf(t) == t.calls \cup UNION {a.calls : a \in {d \in t.agents : d.found}}
Unfollowed(t) == {a \in t.agents : ~ a.found \/ a.beyond}

\* What one command touched, by its verbs and by its paths.
ShellObservations(k) == k.verbs \cup UNION {Category[p] : p \in k.places}

Touched(k) ==
    CASE k.tool = "shell" -> ShellObservations(k)
      [] k.tool \in {"edit", "read"} -> UNION {Category[p] : p \in k.places}
      [] OTHER -> Reaches[k.tool]

Observing(t, c) == {k \in CallsOf(t) : c \in Touched(k)}
Edited(t) == {k \in CallsOf(t) : k.tool = "edit" /\ k.places = {"checkout"}}

\* Lines that an edit wrote, wherever it did.
EditLines(t) == UNION {k.wrote : k \in {e \in CallsOf(t) : e.tool = "edit"}}
ReadLines(t, c) == UNION {k.shown : k \in Observing(t, c)}

Sufficient(t) ==
    /\ ~ t.gaps /\ Unfollowed(t) = {} /\ ~ t.attached
    /\ \A k \in CallsOf(t) : k.tool = "shell" => k.parsed

Needed(t, c) ==
    \/ c \in t.named
    \/ EditLines(t) \cap ReadLines(t, c) # {}
    \/ c = "attachment" /\ t.attached

Required(t, c) ==
    IF Needed(t, c) THEN "yes"
    ELSE IF Observing(t, c) = {} /\ Sufficient(t) THEN "no" ELSE "unknown"

PriorRequired(t) ==
    IF t.first THEN "no"
    ELSE IF t.names \/ EditLines(t) \cap t.earlier # {} THEN "yes"
    ELSE IF t.refers \/ ~ Sufficient(t) THEN "unknown" ELSE "no"

\* _shell_repo_mutations: acts that changed the checkout, or may have.
Mutations(k) == {a \in k.acts : a.at # "outside" \/ (a.does = "exec" /\ a.names)}

Effect(t) ==
    IF Edited(t) # {} THEN "files"
    ELSE IF \E k \in CallsOf(t) : k.tool = "shell" /\ Mutations(k) # {} THEN "shell" ELSE "none"

Screened(t) ==
    [origin |-> t.origin, edits |-> Effect(t), sufficient |-> Sufficient(t),
     deps |-> [c \in Categories |-> Required(t, c)], prior |-> PriorRequired(t), first |-> t.first]
=============================================================================
