----------------------------- MODULE GraphFunnel -----------------------------
(* The graphify funnel: it reads the transcripts of sessions and the query  *)
(* log of a window of time and judges routing, execution and measurement.   *)
(* Sessions search, call graphify and are continued in new transcripts that *)
(* repeat what came before; calls overlap, fail, and lose their records.    *)
(* The funnel only reads: its verdicts are operators on the state, taken at *)
(* any time, with any file unreadable.  Sessions and tool uses are numbered *)
(* in the order they come; a session is one unit (its main thread).         *)
EXTENDS Naturals, FiniteSets, Sequences

CONSTANTS
    NSessions, NUses,     \* sessions, tool uses
    Questions,            \* what is asked
    Absent,               \* no transcript, no tool use, no question, no end
    MaxClock, Slack,      \* the last instant; MATCH_SLACK
    MinSearches,          \* MAIN_MIN_SEARCHES
    MaxStarts, MaxLost    \* bounds: sessions that are no continuation, lost records

Session == 1 .. NSessions
Use == 1 .. NUses
Time == 0 .. MaxClock

\* A tool use as its record and its result tell of it.
ToolUse ==
    [by : Session, ts : Time, kind : {"lookup", "call"}, question : Questions \cup {Absent},
     end : Time \cup {Absent}, status : {"no-result", "ok", "wrapper-error", "shell-error"}]

ASSUME FunnelAssumption ==
    /\ NSessions \in Nat /\ NUses \in Nat /\ MaxClock \in Nat /\ Slack \in Nat
    /\ MinSearches \in Nat \ {0} /\ MaxStarts \in Nat /\ MaxLost \in Nat
    /\ Absent \notin Questions /\ Absent \notin Time /\ Absent # "no-record-in-log"
    /\ Absent \notin ToolUse /\ \A h \in SUBSET Use : Absent # h

VARIABLES
    clock,
    held,      \* session -> the tool uses in its transcript, Absent without one
    results,   \* session -> those with a result there
    span,      \* session -> the first and the last instant in its transcript
    use,       \* tool use -> who made it, when, what it is, how it ended
    log,       \* the query log
    lost,      \* the answered calls whose record was not written
    starts     \* sessions started anew

funnelVars == <<clock, held, results, span, use, log, lost, starts>>

FunnelInit ==
    /\ clock = 0
    /\ held = [s \in Session |-> Absent] /\ results = [s \in Session |-> {}]
    /\ span = [s \in Session |-> <<0, 0>>]
    /\ use = [c \in Use |-> Absent] /\ log = <<>> /\ lost = {}
    /\ starts = 0

Write(s, ids) == /\ held' = [held EXCEPT ![s] = @ \cup ids]
                 /\ span' = [span EXCEPT ![s] = <<@[1], clock>>]

FunnelTick ==
    /\ clock < MaxClock
    /\ clock' = clock + 1
    /\ UNCHANGED <<held, results, span, use, log, lost, starts>>

Start(s) ==
    /\ held[s] = Absent /\ starts < MaxStarts
    /\ starts' = starts + 1
    /\ held' = [held EXCEPT ![s] = {}] /\ span' = [span EXCEPT ![s] = <<clock, clock>>]
    /\ UNCHANGED <<clock, results, use, log, lost>>

\* A continued or forked session: its transcript repeats the other's.
Fork(s, t) ==
    /\ held[s] # Absent /\ held[t] = Absent
    /\ held' = [held EXCEPT ![t] = held[s]]
    /\ results' = [results EXCEPT ![t] = results[s]]
    /\ span' = [span EXCEPT ![t] = span[s]]
    /\ UNCHANGED <<clock, use, log, lost, starts>>

\* Anything else that goes on in a session: its transcript has the time.
Talk(s) ==
    /\ held[s] # Absent /\ span[s][2] # clock
    /\ Write(s, {})
    /\ UNCHANGED <<clock, results, use, log, lost, starts>>

Make(s, c, kind, question) ==
    /\ held[s] # Absent /\ use[c] = Absent /\ \A d \in Use : use[d] = Absent => c <= d
    /\ Write(s, {c})
    /\ use' = [use EXCEPT ![c] =
          [by |-> s, ts |-> clock, kind |-> kind, question |-> question,
           end |-> Absent, status |-> "no-result"]]
    /\ UNCHANGED <<clock, results, log, lost, starts>>

Search(s, c) == Make(s, c, "lookup", Absent)

\* A question may be written so that the funnel does not find it.
Ask(s, c, q) == Make(s, c, "call", q)

\* The wrapper logs an answered query when it ends, or its record is lost; the
\* result follows.
End(c, status) ==
    /\ use[c] # Absent /\ use[c].kind = "call" /\ use[c].end = Absent
    /\ use' = [use EXCEPT ![c].end = clock, ![c].status = status]
    /\ results' = [results EXCEPT ![use[c].by] = @ \cup {c}]
    /\ Write(use[c].by, {})
    /\ UNCHANGED <<clock, starts>>

Answer(c) ==
    /\ End(c, "ok")
    /\ \E q \in Questions :
          /\ use[c].question # Absent => q = use[c].question
          /\ log' = Append(log, [ts |-> clock, question |-> q])
    /\ UNCHANGED lost

AnswerUnlogged(c) ==
    /\ End(c, "ok")
    /\ Cardinality(lost) < MaxLost /\ lost' = lost \cup {c}
    /\ UNCHANGED log

Break(c, status) ==
    /\ End(c, status)
    /\ UNCHANGED <<log, lost>>

FunnelNext ==
    \/ FunnelTick
    \/ \E s \in Session :
          \/ Start(s) \/ Talk(s)
          \/ \E t \in Session : Fork(s, t)
          \/ \E c \in Use : Search(s, c) \/ \E q \in Questions \cup {Absent} : Ask(s, c, q)
    \/ \E c \in Use :
          \/ Answer(c) \/ AnswerUnlogged(c)
          \/ \E st \in {"wrapper-error", "shell-error"} : Break(c, st)

FunnelSpec == FunnelInit /\ [][FunnelNext]_funnelVars

-----------------------------------------------------------------------------
\* What the funnel reads: ss are the transcripts it scans, w its window.
\* discover_sessions: those that can be read and overlap the window.
Scanned(w, unread) ==
    {s \in Session \ unread : held[s] # Absent /\ span[s][2] >= w[1] /\ span[s][1] <= w[2]}

\* load_log: the records of the window, with a slack on both sides.
InWindow(t, w) == w[1] <= t + Slack /\ t <= w[2] + Slack
LogOf(w, readable) == {i \in DOMAIN log : readable /\ InWindow(log[i].ts, w)}

\* What a transcript says of a call: without its result, only that it was made.
StatusIn(s, c) == IF c \in results[s] THEN use[c].status ELSE "no-result"
EndIn(s, c) == IF c \in results[s] THEN use[c].end ELSE use[c].ts

\* mark_copied_calls: of a call's copies, the one kept is in the session its
\* record names, else in the one that started first, then by its id.
Precedes(c, s, t) ==
    IF (use[c].by = s) # (use[c].by = t) THEN use[c].by = s
    ELSE IF span[s][1] # span[t][1] THEN span[s][1] < span[t][1] ELSE s < t

Holders(c, ss) == {s \in ss : c \in held[s]}
KeptIn(c, ss) == CHOOSE s \in Holders(c, ss) : \A t \in Holders(c, ss) \ {s} : Precedes(c, s, t)
Kept(ss) == {c \in Use : Holders(c, ss) # {} /\ use[c].kind = "call"}

\* mark_routing_copies: a tool use stays with the holder that ran latest.
Latest(s, t) == IF span[s][2] # span[t][2] THEN span[s][2] > span[t][2] ELSE s > t
RoutedIn(c, ss) == CHOOSE s \in Holders(c, ss) : \A t \in Holders(c, ss) \ {s} : Latest(s, t)
Routed(s, kind, ss) == {c \in Use : s \in Holders(c, ss) /\ use[c].kind = kind /\ RoutedIn(c, ss) = s}

\* Mutant: the first record near a call is taken, whatever was asked.
BugCandidates(c, s, free) ==
    {i \in free : use[c].ts <= log[i].ts + Slack /\ log[i].ts <= EndIn(s, c) + Slack}

\* match_records: in the order they were made, each answered call takes the
\* first free record near it, of the same question if there is one.
Candidates(c, s, free) ==
    LET near == {i \in free : use[c].ts <= log[i].ts + Slack /\ log[i].ts <= EndIn(s, c) + Slack}
        same == {i \in near : log[i].question = use[c].question}
    IN  IF same # {} THEN same ELSE near

Least(is) == CHOOSE i \in is : \A j \in is : i <= j

AfterCall(c, ss, m) ==
    IF c \notin Kept(ss) \/ StatusIn(KeptIn(c, ss), c) # "ok" THEN m
    ELSE LET cs == Candidates(c, KeptIn(c, ss), m.free)
         IN  IF cs = {} THEN m
             ELSE [free |-> m.free \ {Least(cs)}, matched |-> m.matched \cup {c}]

Match(ss, w, readable) ==
    LET m[n \in 0 .. NUses] ==
            IF n = 0 THEN [free |-> LogOf(w, readable), matched |-> {}]
            ELSE AfterCall(n, ss, m[n - 1])
    IN  m[NUses]

-----------------------------------------------------------------------------
Verdict(bad, some) == IF bad THEN "FAIL" ELSE IF some THEN "PASS" ELSE "INSUFFICIENT"

\* Routing: a session that searched enough, not counting what routing gives
\* to another, should have called graphify.
Exploring(ss) == {s \in ss : Cardinality(Routed(s, "lookup", ss)) >= MinSearches}
Bypassed(ss) == {s \in Exploring(ss) : Routed(s, "call", ss) = {}}
Routing(ss) == Verdict(Bypassed(ss) # {}, Exploring(ss) # {})

\* Execution: the kept calls that ended in the window.
Judged(ss, w) == {c \in Kept(ss) : InWindow(EndIn(KeptIn(c, ss), c), w)}
Recovered(c, ss) ==
    \E d \in Kept(ss) : /\ KeptIn(d, ss) = KeptIn(c, ss)
                        /\ StatusIn(KeptIn(d, ss), d) = "ok" /\ use[d].ts >= use[c].ts
Unlogged(ss, w, m) ==
    {c \in Judged(ss, w) : StatusIn(KeptIn(c, ss), c) = "ok"} \ m.matched
Broken(ss, w) ==
    {c \in Judged(ss, w) : \/ StatusIn(KeptIn(c, ss), c) = "wrapper-error"
                           \/ StatusIn(KeptIn(c, ss), c) = "shell-error" /\ ~ Recovered(c, ss)}
Execution(ss, w, readable) ==
    Verdict(Unlogged(ss, w, Match(ss, w, readable)) \cup Broken(ss, w) # {}, Judged(ss, w) # {})

\* How an unlogged call is read: an unreadable log says nothing of it.
Reading(ss, w, readable) ==
    LET m == Match(ss, w, readable)
    IN  IF Unlogged(ss, w, m) = {} THEN Absent
        ELSE IF ~ readable THEN "log-unusable"
        ELSE IF m.free # {} THEN "unattributed-records-present"
        ELSE "no-record-in-log"

-----------------------------------------------------------------------------
\* Each variable stays in its range.
FunnelTypeOK ==
    /\ clock \in Time /\ lost \subseteq Use /\ starts \in 0 .. MaxStarts
    /\ held \in [Session -> {Absent} \cup SUBSET Use]
    /\ results \in [Session -> SUBSET Use]
    /\ span \in [Session -> Time \X Time]
    /\ use \in [Use -> ToolUse \cup {Absent}]
    /\ log \in Seq([ts : Time, question : Questions])

Unread == {{}} \cup {{s} : s \in Session}

\* Whatever the window and whichever transcript is unreadable, a call whose own
\* transcript was read counts once, as what it came to, however often other
\* transcripts repeat it (graphify_funnel.py:995-1003); a session that was
\* continued and has done nothing since is no exploration of its own
\* (graphify_funnel.py:1024-1032), and none that called graphify after its
\* lookups is said to have bypassed it.
CountedOnce ==
    \A since \in 0 .. clock, u \in Unread :
        LET w == <<since, clock>>
            ss == Scanned(w, u)
        IN  /\ \A c \in Kept(ss) : use[c].by \in ss => StatusIn(KeptIn(c, ss), c) = use[c].status
            /\ \A s \in Exploring(ss), t \in ss :
                  ~ (held[s] \subseteq held[t] /\ span[s][2] < span[t][2])
            /\ Routing(ss) = "FAIL" =>
                  \A s \in Bypassed(ss) : \A c \in held[s] :
                      use[c].kind = "call" => \E l \in Routed(s, "lookup", ss) : l > c

\* The record of a call is one that another call may take.
Answered(c) == use[c] # Absent /\ use[c].status = "ok"
Takes(d, c) ==
    /\ c # d /\ Answered(c) /\ Answered(d)
    /\ use[d].ts <= use[c].end + Slack /\ use[c].end <= use[d].end + Slack

\* A call that ended just before the window, near one that ended in it.
AtEdge(w) == \E c, d \in Use : Takes(d, c) /\ InWindow(use[c].end, w) /\ ~ InWindow(use[d].end, w)

\* No call may take the record of one that asks the same, or of which it is
\* not known what one of the two asks.
Distinguished ==
    \A c, d \in Use :
        Takes(d, c) => /\ Absent \notin {use[c].question, use[d].question}
                       /\ use[c].question # use[d].question

\* When the log can be read, an answered call is said to have no record in it
\* only if a record was not written.  When all were, no execution fails but by
\* a call that broke, provided calls that overlap ask different questions: of
\* two with the same one, or with one the funnel does not find, the first
\* takes the record of the one that ends first (graphify_funnel.py:1052-1065).
\* Neither holds at the edge of the window: a call that ended before it has
\* lost its own record and takes any that is near.
NoFalseUnlogged ==
    \A since \in 0 .. clock, u \in Unread :
        LET w == <<since, clock>>
            ss == Scanned(w, u)
        IN  lost = {} /\ ~ AtEdge(w) =>
              /\ Reading(ss, w, TRUE) # "no-record-in-log"
              /\ Distinguished /\ Broken(ss, w) = {} => Execution(ss, w, TRUE) # "FAIL"

\* A call counts once in the funnel, whatever transcripts repeat it, and the
\* funnel names no answered call unlogged that was logged.
FunnelRight == CountedOnce /\ NoFalseUnlogged
=============================================================================
