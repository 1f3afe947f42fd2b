-------------------------------- MODULE Turns --------------------------------
(* Which turn of a transcript, and which packet of the Evidence Compiler,   *)
(* a captured episode is about.  Neither is named by the hook's input: the  *)
(* join looks for the prompt's hash near the time the start hook saw, the   *)
(* link for a packet with that hash inside the episode's bounds.  Prompts   *)
(* of one session are typed, queued behind a running turn, blocked by other *)
(* hooks and repeated; the two start hooks run at the same time; packets    *)
(* get lost; turns end with and without a Stop hook; a pass joins what      *)
(* seems to be over.  Envelopes, subagents and the packet's head are left   *)
(* out.                                                                      *)
EXTENDS Integers, Sequences, FiniteSets

CONSTANTS
    PromptTexts, Unmade,
    NPrompts, MaxEvents, MaxTime, MaxLost,   \* bounds
    Delay,    \* the longest time from a prompt to its delivery: the hooks' timeout
    Exact,    \* EXACT_WINDOW_S
    Skew,     \* HOOK_START_SKEW_S
    Idle      \* IDLE_S

TurnsAssumption ==
    /\ {NPrompts, MaxEvents, MaxTime, MaxLost, Delay, Exact, Skew, Idle} \subseteq Nat
    /\ Delay <= Exact /\ Idle > 0
    /\ Unmade \notin Nat

\* A typed prompt, one queued behind a turn, and one that no human sent.
Kinds == {"plain", "queued", "notice"}

VARIABLES
    now,
    prompts,    \* in the order they were submitted
    tr,         \* the transcript: deliveries of prompts, and calls
    running,    \* the prompt whose turn runs, or 0
    stopDue,    \* its Stop hook is about to run
    pointer,    \* open/<session>: the prompt of the episode, or 0
    ep,         \* prompt -> its episode's join, Unmade before
    packet,     \* prompt -> when its packet was made, Unmade without one
    lost        \* packets that are no longer found

turnsVars == <<now, prompts, tr, running, stopDue, pointer, ep, packet, lost>>

Prompt == DOMAIN prompts

TurnsInit ==
    /\ now = 0 /\ prompts = <<>> /\ tr = <<>> /\ running = 0 /\ stopDue = FALSE
    /\ pointer = 0 /\ ep = <<>> /\ packet = <<>> /\ lost = {}

-----------------------------------------------------------------------------
\* The session.  One prompt at a time is with the start hooks.
Waiting == {k \in Prompt : prompts[k].state = "hooks"}
Session == <<tr, running, stopDue>>
SessionRecords == <<pointer, ep, packet, lost>>

Submit(text, kind) ==
    /\ Len(prompts) < NPrompts /\ Waiting = {} /\ ~ stopDue
    /\ kind = "queued" <=> running # 0
    /\ prompts' = Append(prompts, [text |-> text, kind |-> kind, asked |-> now, at |-> Unmade, state |-> "hooks"])
    /\ ep' = Append(ep, Unmade) /\ packet' = Append(packet, Unmade)
    /\ UNCHANGED <<now, Session, pointer, lost>>

\* The start hook of the capture, and that of the Evidence Compiler.
Capture(k) ==
    /\ k \in Waiting /\ prompts[k].at = Unmade
    /\ prompts' = [prompts EXCEPT ![k].at = now]
    /\ pointer' = k
    /\ UNCHANGED <<now, Session, ep, packet, lost>>

Compile(k) ==
    /\ k \in Waiting /\ packet[k] = Unmade
    /\ packet' = [packet EXCEPT ![k] = now]
    /\ UNCHANGED <<now, prompts, Session, pointer, ep, lost>>

DeliverPrompt(k) ==
    /\ k \in Waiting /\ Len(tr) < MaxEvents
    /\ prompts[k].kind = "queued" => running # 0
    /\ prompts' = [prompts EXCEPT ![k].state = "delivered"]
    /\ tr' = Append(tr, [ts |-> now, of |-> k, call |-> FALSE])
    /\ running' = IF running = 0 THEN k ELSE running
    /\ UNCHANGED <<now, stopDue, SessionRecords>>

Block(k) ==
    /\ k \in Waiting
    /\ prompts' = [prompts EXCEPT ![k].state = "blocked"]
    /\ UNCHANGED <<now, Session, SessionRecords>>

CallTool ==
    /\ running # 0 /\ Len(tr) < MaxEvents
    /\ tr' = Append(tr, [ts |-> now, of |-> running, call |-> TRUE])
    /\ UNCHANGED <<now, prompts, running, stopDue, SessionRecords>>

TurnEnds ==
    /\ running # 0 /\ Waiting = {}
    /\ running' = 0 /\ stopDue' \in BOOLEAN
    /\ UNCHANGED <<now, prompts, tr, SessionRecords>>

Lose(k) ==
    /\ packet[k] # Unmade /\ k \notin lost /\ Cardinality(lost) < MaxLost
    /\ lost' = lost \cup {k}
    /\ UNCHANGED <<now, prompts, Session, pointer, ep, packet>>

Tick ==
    /\ now < MaxTime /\ \A k \in Waiting : now - prompts[k].asked < Delay
    /\ now' = now + 1
    /\ UNCHANGED <<prompts, Session, SessionRecords>>

-----------------------------------------------------------------------------
\* find_turn: of the deliveries of this text within the window the nearest,
\* the earlier of two.
Dist(k, i) == IF tr[i].ts < prompts[k].at THEN prompts[k].at - tr[i].ts ELSE tr[i].ts - prompts[k].at
Hits(k) == {i \in DOMAIN tr : ~ tr[i].call /\ prompts[tr[i].of].text = prompts[k].text /\ Dist(k, i) <= Exact}

\* Mutant: the first one in the transcript.
BugNearest(k) == CHOOSE i \in Hits(k) : \A j \in Hits(k) : i <= j

Nearest(k) == CHOOSE i \in Hits(k) : \A j \in Hits(k) \ {i} :
                 Dist(k, i) < Dist(k, j) \/ (Dist(k, i) = Dist(k, j) /\ i < j)

\* window_end: a typed prompt ends the turn before it, and nothing else does.
KindAt(i) == prompts[tr[i].of].kind
EndsTurn(i) == ~ tr[i].call /\ KindAt(i) = "plain"
WindowEnd(s) ==
    LET later == {i \in s + 1 .. Len(tr) : EndsTurn(i)}
    IN  IF later = {} THEN Len(tr) + 1 ELSE CHOOSE i \in later : \A j \in later : i <= j

\* observe: a queued human prompt in a turn, or one that began it.
Interleaved(s, e) == \E i \in s .. e - 1 : ~ tr[i].call /\ KindAt(i) = "queued"
Answered(s, e) == \E i \in s .. e - 1 : tr[i].call

\* Mutant: no upper bound.
BugInBounds(k, ended) ==
    {j \in Prompt \ lost : packet[j] # Unmade /\ prompts[j].text = prompts[k].text
                           /\ prompts[k].at - Skew <= packet[j]}

\* resolve_link: exactly one packet of this text inside the bounds.
InBounds(k, ended) ==
    {j \in Prompt \ lost : /\ packet[j] # Unmade /\ prompts[j].text = prompts[k].text
                           /\ prompts[k].at - Skew <= packet[j] /\ packet[j] <= ended}

Resolve(old, k, ended) ==
    IF old.state # "none" THEN old
    ELSE LET found == InBounds(k, ended)
         IN  CASE Cardinality(found) = 0 -> old
               [] Cardinality(found) = 1 -> [state |-> "linked", packet |-> CHOOSE j \in found : TRUE, until |-> ended]
               [] OTHER -> [state |-> "ambiguous", packet |-> 0, until |-> ended]

Unlinked == [state |-> "none", packet |-> 0, until |-> 0]

\* join and the rest of finalize; a prompt that is not found leaves the episode open.
Joined(k, by) ==
    IF Hits(k) = {} THEN ep[k]
    ELSE LET s == Nearest(k)
             e == WindowEnd(s)
             ended == IF by = "end" /\ e > Len(tr) THEN now ELSE tr[e - 1].ts
         IN  [by |-> by, start |-> s, end |-> e, ended |-> ended, read |-> Len(tr),
              link |-> Resolve(IF ep[k] = Unmade THEN Unlinked ELSE ep[k].link, k, ended),
              clear |-> KindAt(s) # "notice" /\ ~ Interleaved(s, e) /\ Answered(s, e)]

\* The Stop hook joins the pointer's episode, unless a Stop hook has (or it is
\* materialized, which a clear one may be).
StopHook ==
    /\ stopDue /\ stopDue' = FALSE
    /\ IF pointer # 0 /\ (ep[pointer] = Unmade \/ ep[pointer].by = "maintain")
       THEN \/ ep' = [ep EXCEPT ![pointer] = Joined(pointer, "end")] /\ pointer' = 0
            \/ ep[pointer] # Unmade /\ ep[pointer].clear /\ UNCHANGED <<ep, pointer>>
       ELSE UNCHANGED <<ep, pointer>>
    /\ UNCHANGED <<now, prompts, tr, running, packet, lost>>

StopLost ==
    /\ stopDue /\ stopDue' = FALSE
    /\ UNCHANGED <<now, prompts, tr, running, SessionRecords>>

\* _turn_over: a later episode of the session, or a transcript at rest.
TurnOver(k) ==
    \/ \E j \in Prompt : prompts[j].at # Unmade /\ prompts[j].at > prompts[k].at
    \/ tr # <<>> /\ now - tr[Len(tr)].ts >= Idle

Maintain(k) ==
    /\ prompts[k].at # Unmade /\ ep[k] = Unmade /\ TurnOver(k)
    /\ ep' = [ep EXCEPT ![k] = Joined(k, "maintain")]
    /\ UNCHANGED <<now, prompts, Session, pointer, packet, lost>>

\* reconcile
Reconcile(k) ==
    /\ ep[k] # Unmade /\ ep[k].link.state = "none"
    /\ ep' = [ep EXCEPT ![k].link = Resolve(@, k, ep[k].ended)]
    /\ UNCHANGED <<now, prompts, Session, pointer, packet, lost>>

TurnsNext ==
    \/ \E text \in PromptTexts, kind \in Kinds : Submit(text, kind)
    \/ \E k \in Prompt :
          \/ Capture(k) \/ Compile(k) \/ DeliverPrompt(k) \/ Block(k) \/ Lose(k)
          \/ Maintain(k) \/ Reconcile(k)
    \/ CallTool \/ TurnEnds \/ Tick \/ StopHook \/ StopLost

TurnsSpec == TurnsInit /\ [][TurnsNext]_turnsVars

-----------------------------------------------------------------------------
\* Each variable stays in its range.
TurnsTypeOK ==
    /\ now \in 0 .. MaxTime /\ running \in 0 .. Len(prompts) /\ pointer \in 0 .. Len(prompts)
    /\ \A k \in Prompt : prompts[k].kind \in Kinds /\ prompts[k].state \in {"hooks", "delivered", "blocked"}
    /\ \A i \in DOMAIN tr : tr[i].of \in Prompt /\ tr[i].ts \in 0 .. now
    /\ Len(ep) = Len(prompts) /\ Len(packet) = Len(prompts) /\ lost \subseteq Prompt

Joins == {k \in Prompt : ep[k] # Unmade}

\* Another's delivery is taken only if the own is not in the transcript that
\* was read, or if that one was delivered as soon after the start hook as its
\* own may be.
OwnDelivery ==
    \A k \in Joins :
        LET of == tr[ep[k].start].of
        IN  of = k \/ /\ prompts[of].text = prompts[k].text
                      /\ \/ \A i \in 1 .. ep[k].read : tr[i].call \/ tr[i].of # k
                         \/ Dist(k, ep[k].start) <= Delay

Span(k) == ep[k].start .. ep[k].end - 1

\* What an episode that counts as a clear human turn is judged by, no other
\* human prompt's episode is judged by, unless they are joined to one delivery:
\* a prompt that was blocked and sent again, or two so near each other that
\* both hooks take the same.
OwnWindow ==
    \A j, k \in Joins :
        (ep[j].clear /\ KindAt(ep[k].start) # "notice" /\ ep[j].start # ep[k].start)
            => Span(j) \cap Span(k) = {}

\* An episode is joined to its own prompt's delivery and judged by that turn
\* alone, although the join knows only a hash and a time, however prompts are
\* queued, blocked and repeated, and whenever a Stop hook or a pass joins.
JoinedToOwn == OwnDelivery /\ OwnWindow

\* An episode is linked to its own prompt's packet.  Another's is taken only
\* if its own does not exist, was lost or was made outside the bounds the link
\* was resolved in; that other prompt came at most the skew earlier, or it was
\* typed before the end of the turn the episode was joined to.
LinkOfThisTurn ==
    \A k \in Joins :
        LET j == ep[k].link.packet
            until == ep[k].link.until
        IN  ep[k].link.state = "linked" /\ j # k =>
                /\ packet[k] = Unmade \/ k \in lost \/ packet[k] > until \/ packet[k] < prompts[k].at - Skew
                /\ IF j < k THEN prompts[k].at - packet[j] <= Skew ELSE prompts[j].asked <= until

=============================================================================
