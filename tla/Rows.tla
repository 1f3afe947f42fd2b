--------------------------------- MODULE Rows ---------------------------------
(* The episode builder: one row per packet, with the calls of the turn that  *)
(* the packet's brief was for.  A row is found over transcripts that are     *)
(* copied when a session is forked and frozen in other roots; prompts are    *)
(* typed, queued, sent by the harness, blocked or rewritten; a brief may be  *)
(* empty and a packet lost.  A build reads what there is at that time, so it *)
(* is an operator over the state.  A hook's brief follows its prompt at      *)
(* once.  Token counts, slash commands, traffic classes and what the rows    *)
(* repeat of the packet are left out.                                        *)
EXTENDS Integers, Sequences, FiniteSetsExt, Functions

CONSTANTS
    Sessions, RowTexts, Odd, NoPlace,    \* Odd: a text no packet was made for
    Tolerance,                           \* PROMPT_TIME_TOLERANCE_S
    MaxAsked, MaxEntries, MaxMoment, MaxRowFaults    \* bounds

RowsAssumption ==
    /\ Odd \notin RowTexts /\ {Tolerance, MaxAsked, MaxEntries, MaxMoment, MaxRowFaults} \subseteq Nat
    /\ NoPlace \notin Nat

VARIABLES
    moment,
    asked,    \* prompts, as the hook saw them; a packet is named by its prompt
    file,     \* root, session -> its transcript, empty without one; root 1 comes first
    queue,    \* session -> the texts that wait for their delivery
    rowFaults

rowsVars == <<moment, asked, file, queue, rowFaults>>

Roots == {1, 2}
Live == 2

RowsInit ==
    /\ moment = 0 /\ asked = <<>> /\ rowFaults = 0
    /\ file = [f \in Roots \X Sessions |-> <<>>]
    /\ queue = [s \in Sessions |-> <<>>]

-----------------------------------------------------------------------------
(* Sessions and their transcripts (external).                              *)

WrittenIn(s) == file[<<Live, s>>]
Room(s, n) == Len(WrittenIn(s)) + n <= MaxEntries
Add(s, es) == file' = [file EXCEPT ![<<Live, s>>] = WrittenIn(s) \o es]
Event(kind, text, k, s) == [kind |-> kind, text |-> text, ts |-> moment, of |-> k, session |-> s]

\* The prompt whose response runs, 0 at first: what a call is made for.
Begins(e) == e.kind = "prompt" \/ (e.kind = "candidate" /\ e.of # 0)
TurnOf(es) == LET b == {i \in DOMAIN es : Begins(es[i])} IN IF b = {} THEN 0 ELSE es[Max(b)].of

\* The hook makes a packet, or none; the packet has a brief, or an empty one.
\* The client stores the prompt, as it is or rewritten.
StorePrompt(s, text, how) ==
    /\ Len(asked) < MaxAsked /\ Room(s, 2)
    /\ \E packet \in {"none", "kept"}, brief \in BOOLEAN, stored \in {text, Odd} :
          /\ packet = "none" => ~ brief /\ stored = text
          /\ asked' = Append(asked, [session |-> s, text |-> text, made |-> moment,
                                     how |-> how, packet |-> packet, brief |-> brief])
          /\ LET k == Len(asked')
             IN  Add(s, <<Event(IF how = "meta" THEN "candidate" ELSE "prompt", stored, k, s)>>
                        \o (IF brief THEN <<Event("brief", NoPlace, k, s)>> ELSE <<>>))
    /\ UNCHANGED <<moment, rowFaults>>

\* One session; the others are its forks.
Type(s, text) ==
    /\ WrittenIn(s) # <<>> \/ (asked = <<>> /\ s = Min(Sessions))
    /\ queue[s] = <<>> /\ StorePrompt(s, text, "typed") /\ UNCHANGED queue

Meta(s, text) == WrittenIn(s) # <<>> /\ StorePrompt(s, text, "meta") /\ UNCHANGED queue

Enqueue(s, text) ==
    /\ WrittenIn(s) # <<>> /\ queue[s] = <<>> /\ Room(s, 1)
    /\ queue' = [queue EXCEPT ![s] = <<text>>]
    /\ Add(s, <<Event("candidate", text, 0, s)>>)
    /\ UNCHANGED <<moment, asked, rowFaults>>

Dequeue(s) ==
    /\ queue[s] # <<>> /\ StorePrompt(s, Head(queue[s]), "queued")
    /\ queue' = [queue EXCEPT ![s] = <<>>]

\* Another hook blocks the prompt after its packet was made.
BlockPrompt(s, text) ==
    /\ Len(asked) < MaxAsked /\ WrittenIn(s) # <<>> /\ queue[s] = <<>>
    /\ asked' = Append(asked, [session |-> s, text |-> text, made |-> moment,
                               how |-> "blocked", packet |-> "kept", brief |-> FALSE])
    /\ UNCHANGED <<moment, file, queue, rowFaults>>

MakeCall(s) ==
    /\ WrittenIn(s) # <<>> /\ Room(s, 1)
    /\ Add(s, <<Event("call", NoPlace, TurnOf(WrittenIn(s)), s)>>)
    /\ UNCHANGED <<moment, asked, queue, rowFaults>>

\* A fork begins with the history of another session.
Fork(s, t) ==
    /\ WrittenIn(s) # <<>> /\ WrittenIn(t) = <<>>
    /\ rowFaults < MaxRowFaults /\ rowFaults' = rowFaults + 1
    /\ file' = [file EXCEPT ![<<Live, t>>] = WrittenIn(s)]
    /\ UNCHANGED <<moment, asked, queue>>

\* A copy in a root that comes first on the command line.
Freeze(s) ==
    /\ WrittenIn(s) # <<>> /\ file[<<1, s>>] = <<>>
    /\ rowFaults < MaxRowFaults /\ rowFaults' = rowFaults + 1
    /\ file' = [file EXCEPT ![<<1, s>>] = WrittenIn(s)]
    /\ UNCHANGED <<moment, asked, queue>>

\* A packet is lost, or its copies differ: the row has no hash and no session.
LosePacket(k) ==
    /\ asked[k].packet = "kept"
    /\ rowFaults < MaxRowFaults /\ rowFaults' = rowFaults + 1
    /\ \E p \in {"lost", "conflict"} : asked' = [asked EXCEPT ![k].packet = p]
    /\ UNCHANGED <<moment, file, queue>>

RowsTick == moment < MaxMoment /\ moment' = moment + 1 /\ UNCHANGED <<asked, file, queue, rowFaults>>

RowsNext ==
    \/ \E s \in Sessions : \/ \E text \in RowTexts : \/ Type(s, text) \/ Meta(s, text)
                                                    \/ Enqueue(s, text) \/ BlockPrompt(s, text)
                           \/ Dequeue(s) \/ MakeCall(s) \/ Freeze(s) \/ \E t \in Sessions : Fork(s, t)
    \/ \E k \in DOMAIN asked : LosePacket(k)
    \/ RowsTick

RowsSpec == RowsInit /\ [][RowsNext]_rowsVars

-----------------------------------------------------------------------------
(* One build.                                                              *)

\* What is known of the packet itself.
Readable(k) == asked[k].packet = "kept"
Packets == {k \in DOMAIN asked : asked[k].packet # "none"}
FilesThere == {f \in DOMAIN file : file[f] # <<>>}
EarliestRoot(fs) == {f \in fs : \A g \in fs : f[1] <= g[1]}

\* Where the brief of a packet is.
BriefHits(k) ==
    UNION {{<<f, i>> : i \in {j \in DOMAIN file[f] : file[f][j].kind = "brief" /\ file[f][j].of = k}} :
             f \in FilesThere}

\* Those in the transcript of its session, or of the entry's when it cannot be read.
Own(k) == {h \in BriefHits(k) : h[1][2] = (IF Readable(k) THEN asked[k].session ELSE file[h[1]][h[2]].session)}

\* _pick_transcript
PickedFiles(k) ==
    LET own == Own(k)
        pool == IF own # {} THEN own ELSE BriefHits(k)
        ofSession == {f \in FilesThere : Readable(k) /\ f[2] = asked[k].session}
    IN  EarliestRoot(IF pool # {} THEN {h[1] : h \in pool} ELSE ofSession)

Matches(k, e) == Readable(k) /\ e.kind \in {"prompt", "candidate"} /\ e.text = asked[k].text

\* _prompt_before: back to another packet's brief, the nearest text that
\* matches, or else the nearest prompt.
PromptBefore(k, es, at) ==
    LET briefs == {i \in 1 .. at - 1 : es[i].kind = "brief" /\ es[i].of # k}
        span == (IF briefs = {} THEN 1 ELSE Max(briefs) + 1) .. at - 1
        hits == {i \in span : Matches(k, es[i])}
        others == {i \in span : es[i].kind = "prompt"}
    IN  IF hits # {} THEN Max(hits) ELSE IF others # {} THEN Max(others) ELSE NoPlace

\* _anchor_by_prompt: a delivery outranks a candidate, one time is one delivery,
\* several are none; without any, the last prompt shortly before the packet.
AnchorByPrompt(k, es) ==
    LET Near(i) == asked[k].made - es[i].ts \in - Tolerance .. Tolerance
        hits(kind) == {i \in DOMAIN es : es[i].kind = kind /\ Matches(k, es[i]) /\ Near(i)}
        found == IF hits("prompt") # {} THEN hits("prompt") ELSE hits("candidate")
        before == {i \in DOMAIN es : es[i].kind = "prompt" /\ es[i].ts <= asked[k].made /\ Near(i)}
    IN  IF Cardinality({es[i].ts : i \in found}) = 1 THEN Min(found)
        ELSE IF found # {} \/ before = {} THEN NoPlace ELSE Max(before)

\* build_row: the window begins at the brief, or at the prompt without one.
Row(k) ==
    LET files == PickedFiles(k)
        f == IF Cardinality(files) = 1 THEN CHOOSE x \in files : TRUE ELSE NoPlace
        at == {h[2] : h \in {x \in BriefHits(k) : x[1] = f}}
        anchor == IF f = NoPlace THEN NoPlace
                  ELSE IF at # {} THEN PromptBefore(k, file[f], Min(at))
                  ELSE IF Readable(k) THEN AnchorByPrompt(k, file[f]) ELSE NoPlace
    IN  [file |-> f, brief |-> at # {},
         start |-> IF anchor # NoPlace /\ at # {} THEN Min(at) ELSE anchor,
         reason |-> CASE asked[k].packet = "lost" -> "missing_packet"
                      [] asked[k].packet = "conflict" -> "sha_conflict"
                      [] Cardinality(files) > 1 -> "ambiguous_transcript_session"
                      [] files = {} -> "missing_transcript"
                      [] asked[k].brief /\ at = {} -> "brief_not_found"
                      [] OTHER -> IF anchor = NoPlace THEN "other" ELSE "joined"]

Build == [k \in Packets |-> Row(k)]
Placed(rows) == {k \in DOMAIN rows : rows[k].start # NoPlace}
Starts(rows, f) == {rows[k].start : k \in {j \in Placed(rows) : rows[j].file = f}}

\* Mutant: other packets' starts end no turn.
BugEnds(rows, k, i) == file[rows[k].file][i].kind = "prompt"

\* window_end: the next prompt, another packet's brief, or its start.
Ends(rows, k, i) ==
    LET e == file[rows[k].file][i]
    IN  \/ e.kind = "prompt" \/ (e.kind = "brief" /\ e.of # k)
        \/ i \in Starts(rows, rows[k].file) \ {rows[k].start}

Window(rows, k) ==
    LET length == Len(file[rows[k].file])
        ends == {i \in rows[k].start + 1 .. length : Ends(rows, k, i)}
    IN  rows[k].start .. (IF ends = {} THEN length ELSE Min(ends) - 1)

\* observe: the calls of the window.
ObservedCalls(rows, k) == {i \in Window(rows, k) : file[rows[k].file][i].kind = "call"}

-----------------------------------------------------------------------------
\* Each variable stays in its range.
RowsTypeOK ==
    /\ moment \in 0 .. MaxMoment /\ Len(asked) <= MaxAsked /\ rowFaults \in 0 .. MaxRowFaults
    /\ \A f \in FilesThere : \A i \in DOMAIN file[f] : file[f][i].of \in 0 .. Len(asked)

\* A prompt of the harness that its row could not be placed at stays in the turn before it.
Unplaced(rows, j) ==
    asked[j].how = "meta" /\ (j \in Placed(rows) => file[rows[j].file][rows[j].start].of # j)

\* The row of a packet whose brief was injected has the calls that were made
\* for its prompt and no others, in whichever transcript it was found; all of
\* them, if no other row begins among them.
TurnObserved ==
    LET rows == Build
    IN  \A k \in Placed(rows) : rows[k].brief =>
            LET es == file[rows[k].file]
                observed == ObservedCalls(rows, k)
                made == {i \in DOMAIN es : es[i].kind = "call" /\ es[i].of = k}
            IN  /\ \A i \in observed : es[i].of = k \/ Unplaced(rows, es[i].of)
                /\ \/ made \subseteq observed
                   \/ \E i \in Starts(rows, rows[k].file) : rows[k].start < i /\ i < Max(made)
===============================================================================
