----------------------------- MODULE PendingLog -----------------------------
(* The pending-failure file of evidence-capture/pipeline.py: a start whose  *)
(* stores cannot take its manifest appends one line to a file shared by all *)
(* stores of the machine; the maintenance pass of any store moves the file  *)
(* aside (a ".draining" file), turns each line into a failed manifest in    *)
(* its own store, puts back what it could not turn, and unlinks.            *)
(*                                                                          *)
(* Every record is appended by a process of its own, so a record names its  *)
(* process.  maintain.lock makes the passes of one store sequential, so a   *)
(* store names its drainer.  The append lock and the claim locks are the    *)
(* locks of FileLock, here as their abstract holder (Mutex).                *)
(*                                                                          *)
(* A file's text is the records on its well-formed lines and those on lines *)
(* that do not parse; the tail of a ragged file is text with no newline.    *)
EXTENDS Naturals

CONSTANTS
    Recs,      \* failure records, each with the start hook that writes it
    Stores,    \* metadata stores, each with its maintenance pass
    Files,     \* inodes
    Junk,      \* a line that does not parse and holds no complete record
    None,      \* nobody, no file
    MaxFaults  \* bound on deaths and failed or short system calls

ASSUME ConstAssumption ==
    /\ Recs \cap Stores = {}
    /\ Junk \notin Recs
    /\ None \notin Recs \cup Stores
    /\ None \notin Files
    /\ MaxFaults \in Nat

Procs == Recs \cup Stores

VARIABLES
    where,      \* "pend", "work" (a .draining file) or "free", per file
    text,       \* the lines of each file
    ragged,     \* files that end in the middle of a line
    appender,   \* holder of the append lock
    claimer,    \* holder of each .draining file's claim lock
    pc,         \* where each process is
    fd,         \* the file each process has open for appending
    glob,       \* .draining files a pass has listed and not tried yet
    claimed,    \* .draining files a pass holds
    unread,     \* claimed files a pass has not read yet
    readable,   \* claimed files a pass has read and will unlink
    buf,        \* lines of the file being read, not yet processed
    retry,      \* lines a pass could not turn into manifests
    manifests,  \* failed manifests in each store
    recorded,   \* history: records whose append completed
    faults      \* deaths and failed calls so far

files   == <<where, text, ragged>>
locks   == <<appender, claimer>>
pass    == <<glob, claimed, unread, readable, buf, retry>>
history == <<manifests, recorded>>
vars    == <<files, locks, pc, fd, pass, history, faults>>

Texts == [whole : SUBSET Recs, torn : SUBSET (Recs \cup {Junk})]

NoText == [whole |-> {}, torn |-> {}]

\* One line: of a record, or of text that does not parse.
Good(r) == [whole |-> {r}, torn |-> {}]
Bad(x)  == [whole |-> {}, torn |-> {x}]

Plus(t, u)  == [whole |-> t.whole \cup u.whole, torn |-> t.torn \cup u.torn]
Minus(t, u) == [whole |-> t.whole \ u.whole, torn |-> t.torn \ u.torn]

\* The records a text still holds, on well-formed lines or not.
Holds(t) == t.whole \cup (t.torn \ {Junk})

\* What splitlines returns: a ragged tail is one more line that does not parse.
LinesOf(f) == IF f \in ragged THEN Plus(text[f], Bad(Junk)) ELSE text[f]

Pend == {f \in Files : where[f] = "pend"}

StarterDone == {"pending", "lost", "dead"}
Appending   == {"wait", "open", "write", "unlock", "unlockerr"}
Draining    == {"orphans", "claim", "claimwait", "replace", "claimunlock",
                "read", "line", "unlink", "release"}

Init ==
    /\ where = [f \in Files |-> "free"]
    /\ text = [f \in Files |-> NoText]
    /\ ragged = {}
    /\ appender = None
    /\ claimer = [f \in Files |-> None]
    /\ pc = [p \in Procs |-> "idle"]
    /\ fd = [p \in Procs |-> None]
    /\ glob = [d \in Stores |-> {}]
    /\ claimed = [d \in Stores |-> {}]
    /\ unread = [d \in Stores |-> {}]
    /\ readable = [d \in Stores |-> {}]
    /\ buf = [d \in Stores |-> NoText]
    /\ retry = [d \in Stores |-> NoText]
    /\ manifests = [d \in Stores |-> {}]
    /\ recorded = {}
    /\ faults = 0

Fault == faults < MaxFaults /\ faults' = faults + 1

-----------------------------------------------------------------------------
(* append_line, by a start hook (record_pending) or by a drain putting back *)

Payload(p) == IF p \in Recs THEN Good(p) ELSE retry[p]

\* record_pending is called: the start could not write its manifest.
Record(r) ==
    /\ pc[r] = "idle"
    /\ pc' = [pc EXCEPT ![r] = "wait"]
    /\ UNCHANGED <<files, locks, fd, pass, history, faults>>

AppendLock(p) ==
    /\ pc[p] = "wait"
    /\ appender = None
    /\ appender' = p
    /\ pc' = [pc EXCEPT ![p] = "open"]
    /\ UNCHANGED <<files, claimer, fd, pass, history, faults>>

\* What follows a failed append: the start is lost; the drain keeps its
\* claimed files for the next pass.
GiveUp(p) ==
    /\ pc' = [pc EXCEPT ![p] = IF p \in Recs THEN "lost" ELSE "unlink"]
    /\ readable' = IF p \in Stores THEN [readable EXCEPT ![p] = {}] ELSE readable

\* APPEND_LOCK_WAIT_S passed while others held the lock.
AppendTimeout(p) ==
    /\ pc[p] = "wait"
    /\ appender # None
    /\ Fault
    /\ GiveUp(p)
    /\ UNCHANGED <<files, locks, fd, glob, claimed, unread, buf, retry, history>>

\* A name for a new file: nobody still refers to this one.
Unused(f) ==
    /\ where[f] = "free"
    /\ \A d \in Stores : f \notin glob[d] \cup claimed[d]

\* path.open("ab"): the pending file, created when there is none.
OpenPend(p) ==
    /\ pc[p] = "open"
    /\ \E f \in Files :
         /\ IF Pend = {} THEN Unused(f) ELSE f \in Pend
         /\ where' = [where EXCEPT ![f] = "pend"]
         /\ fd' = [fd EXCEPT ![p] = f]
    /\ pc' = [pc EXCEPT ![p] = "write"]
    /\ UNCHANGED <<text, ragged, locks, pass, history, faults>>

\* The bytes of u at the end of f: on a ragged file the first line is glued
\* to the tail and no longer parses.
Glued(f, u) ==
    IF f \notin ragged THEN {Plus(text[f], u)}
    ELSE {Plus(text[f], Plus(Minus(u, Good(x)), Bad(x))) : x \in u.whole \cup u.torn}

\* One write call of all lines.
WriteLines(p) ==
    /\ pc[p] = "write"
    /\ \E t \in Glued(fd[p], Payload(p)) : text' = [text EXCEPT ![fd[p]] = t]
    /\ ragged' = ragged \ {fd[p]}
    /\ pc' = [pc EXCEPT ![p] = "unlock"]
    /\ recorded' = recorded \cup ({p} \cap Recs)
    /\ UNCHANGED <<where, locks, fd, pass, manifests, faults>>

\* The write stops short (the disk is full) after some of the lines, in the
\* middle of the next one or right before it, and raises.
WriteShort(p) ==
    /\ pc[p] = "write"
    /\ Fault
    /\ \E w \in SUBSET Payload(p).whole, b \in SUBSET Payload(p).torn :
         LET some == [whole |-> w, torn |-> b]
         IN  /\ some # Payload(p)
             /\ IF some = NoText THEN text' = text
                ELSE \E t \in Glued(fd[p], some) : text' = [text EXCEPT ![fd[p]] = t]
             /\ \/ ragged' = ragged \cup {fd[p]}
                \/ ragged' = IF some = NoText THEN ragged ELSE ragged \ {fd[p]}
    /\ pc' = [pc EXCEPT ![p] = "unlockerr"]
    /\ UNCHANGED <<where, locks, fd, pass, history>>

AppendUnlock(p) ==
    /\ pc[p] = "unlock"
    /\ appender' = None
    /\ fd' = [fd EXCEPT ![p] = None]
    /\ pc' = [pc EXCEPT ![p] = IF p \in Recs THEN "pending" ELSE "unlink"]
    /\ UNCHANGED <<files, claimer, pass, history, faults>>

AppendFailed(p) ==
    /\ pc[p] = "unlockerr"
    /\ appender' = None
    /\ fd' = [fd EXCEPT ![p] = None]
    /\ GiveUp(p)
    /\ UNCHANGED <<files, claimer, glob, claimed, unread, buf, retry, history, faults>>

-----------------------------------------------------------------------------
(* drain_pending, by the maintenance pass of store d                        *)

BeginDrain(d) ==
    /\ pc[d] = "idle"
    /\ pc' = [pc EXCEPT ![d] = "orphans"]
    /\ glob' = [glob EXCEPT ![d] = {f \in Files : where[f] = "work"}]
    /\ retry' = [retry EXCEPT ![d] = NoText]
    /\ UNCHANGED <<files, locks, fd, claimed, unread, readable, buf, history, faults>>

\* Mutant: a .draining file left by a dead drain is left alone.
BugSkipOrphan(d) ==
    /\ pc[d] = "orphans"
    /\ \E f \in glob[d] : glob' = [glob EXCEPT ![d] = @ \ {f}]
    /\ UNCHANGED <<files, locks, pc, fd, claimed, unread, readable, buf, retry, history, faults>>

\* A listed .draining file is claimed when its claim lock is free and the
\* file still exists.
TakeOrphan(d) ==
    /\ pc[d] = "orphans"
    /\ \E f \in glob[d] :
         /\ glob' = [glob EXCEPT ![d] = @ \ {f}]
         /\ IF claimer[f] = None /\ where[f] = "work"
            THEN /\ claimer' = [claimer EXCEPT ![f] = d]
                 /\ claimed' = [claimed EXCEPT ![d] = @ \cup {f}]
            ELSE UNCHANGED <<claimer, claimed>>
    /\ UNCHANGED <<files, appender, pc, fd, unread, readable, buf, retry, history, faults>>

OrphansDone(d) ==
    /\ pc[d] = "orphans"
    /\ glob[d] = {}
    /\ pc' = [pc EXCEPT ![d] = IF Pend = {} THEN "read" ELSE "claimwait"]
    /\ unread' = IF Pend = {} THEN [unread EXCEPT ![d] = claimed[d]] ELSE unread
    /\ UNCHANGED <<files, locks, fd, glob, claimed, readable, buf, retry, history, faults>>

\* claim_pending: the append lock, the rename, the unlock.  The claim lock of
\* the new name was taken before, so the file is never seen unclaimed.
ClaimLock(d) ==
    /\ pc[d] = "claimwait"
    /\ appender = None
    /\ appender' = d
    /\ pc' = [pc EXCEPT ![d] = "replace"]
    /\ UNCHANGED <<files, claimer, fd, pass, history, faults>>

ClaimTimeout(d) ==
    /\ pc[d] = "claimwait"
    /\ appender # None
    /\ Fault
    /\ pc' = [pc EXCEPT ![d] = "read"]
    /\ unread' = [unread EXCEPT ![d] = claimed[d]]
    /\ UNCHANGED <<files, locks, fd, glob, claimed, readable, buf, retry, history>>

\* Mutant: the file is moved aside before its claim lock is held.
BugReplace(d) ==
    /\ pc[d] = "replace"
    /\ pc' = [pc EXCEPT ![d] = "claimunlock"]
    /\ \E f \in Pend : /\ where' = [where EXCEPT ![f] = "work"]
                       /\ claimed' = [claimed EXCEPT ![d] = @ \cup {f}]
    /\ UNCHANGED <<text, ragged, locks, fd, glob, unread, readable, buf, retry, history, faults>>

Replace(d) ==
    /\ pc[d] = "replace"
    /\ pc' = [pc EXCEPT ![d] = "claimunlock"]
    /\ \E f \in Pend : /\ where' = [where EXCEPT ![f] = "work"]
                       /\ claimer' = [claimer EXCEPT ![f] = d]
                       /\ claimed' = [claimed EXCEPT ![d] = @ \cup {f}]
    /\ UNCHANGED <<text, ragged, appender, fd, glob, unread, readable, buf, retry, history, faults>>

\* os.replace raises: another drain moved the file first.
ReplaceMissing(d) ==
    /\ pc[d] = "replace"
    /\ Pend = {}
    /\ pc' = [pc EXCEPT ![d] = "claimunlock"]
    /\ UNCHANGED <<files, locks, fd, pass, history, faults>>

\* os.replace raises: the file is open elsewhere (Windows) or the disk fails.
ReplaceFails(d) ==
    /\ pc[d] = "replace"
    /\ Pend # {}
    /\ Fault
    /\ pc' = [pc EXCEPT ![d] = "claimunlock"]
    /\ UNCHANGED <<files, locks, fd, pass, history>>

ClaimUnlock(d) ==
    /\ pc[d] = "claimunlock"
    /\ appender' = None
    /\ pc' = [pc EXCEPT ![d] = "read"]
    /\ unread' = [unread EXCEPT ![d] = claimed[d]]
    /\ UNCHANGED <<files, claimer, fd, glob, claimed, readable, buf, retry, history, faults>>

ReadFile(d) ==
    /\ pc[d] = "read"
    /\ \E f \in unread[d] :
         /\ unread' = [unread EXCEPT ![d] = @ \ {f}]
         /\ readable' = [readable EXCEPT ![d] = @ \cup {f}]
         /\ buf' = [buf EXCEPT ![d] = LinesOf(f)]
    /\ pc' = [pc EXCEPT ![d] = "line"]
    /\ UNCHANGED <<files, locks, fd, glob, claimed, retry, history, faults>>

\* Mutant: a file that could not be read is unlinked with the others.
BugReadFails(d) ==
    /\ pc[d] = "read"
    /\ Fault
    /\ \E f \in unread[d] : /\ unread' = [unread EXCEPT ![d] = @ \ {f}]
                            /\ readable' = [readable EXCEPT ![d] = @ \cup {f}]
    /\ UNCHANGED <<files, locks, pc, fd, glob, claimed, buf, retry, history>>

\* The file stays as it is for the next drain.
ReadFails(d) ==
    /\ pc[d] = "read"
    /\ Fault
    /\ \E f \in unread[d] : unread' = [unread EXCEPT ![d] = @ \ {f}]
    /\ UNCHANGED <<files, locks, pc, fd, glob, claimed, readable, buf, retry, history>>

\* A well-formed line: its manifest is written unless the store has one.
LineRecorded(d) ==
    /\ pc[d] = "line"
    /\ \E r \in buf[d].whole :
         /\ buf' = [buf EXCEPT ![d] = Minus(@, Good(r))]
         /\ manifests' = [manifests EXCEPT ![d] = @ \cup {r}]
    /\ UNCHANGED <<files, locks, pc, fd, glob, claimed, unread, readable, retry, recorded, faults>>

\* The manifest cannot be written, or does not read back.
LineFails(d) ==
    /\ pc[d] = "line"
    /\ Fault
    /\ \E r \in buf[d].whole \ manifests[d] :
         /\ buf' = [buf EXCEPT ![d] = Minus(@, Good(r))]
         /\ retry' = [retry EXCEPT ![d] = Plus(@, Good(r))]
         /\ \/ manifests' = manifests
            \/ manifests' = [manifests EXCEPT ![d] = @ \cup {r}]
    /\ UNCHANGED <<files, locks, pc, fd, glob, claimed, unread, readable, recorded>>

\* A line that does not parse goes back as it is, in every pass.
LineTorn(d) ==
    /\ pc[d] = "line"
    /\ \E x \in buf[d].torn :
         /\ buf' = [buf EXCEPT ![d] = Minus(@, Bad(x))]
         /\ retry' = [retry EXCEPT ![d] = Plus(@, Bad(x))]
    /\ UNCHANGED <<files, locks, pc, fd, glob, claimed, unread, readable, history, faults>>

LinesDone(d) ==
    /\ pc[d] = "line"
    /\ buf[d] = NoText
    /\ pc' = [pc EXCEPT ![d] = "read"]
    /\ UNCHANGED <<files, locks, fd, pass, history, faults>>

\* All claimed files read: what could not be turned goes back first.
ReadDone(d) ==
    /\ pc[d] = "read"
    /\ unread[d] = {}
    /\ pc' = [pc EXCEPT ![d] = IF retry[d] = NoText THEN "unlink" ELSE "wait"]
    /\ UNCHANGED <<files, locks, fd, pass, history, faults>>

Unlink(d) ==
    /\ pc[d] = "unlink"
    /\ \E f \in readable[d] :
         /\ readable' = [readable EXCEPT ![d] = @ \ {f}]
         /\ where' = [where EXCEPT ![f] = "free"]
         /\ text' = [text EXCEPT ![f] = NoText]
         /\ ragged' = ragged \ {f}
    /\ UNCHANGED <<locks, pc, fd, glob, claimed, unread, buf, retry, history, faults>>

\* work.unlink raises: the file stays; its lines may now be on disk twice.
UnlinkFails(d) ==
    /\ pc[d] = "unlink"
    /\ Fault
    /\ \E f \in readable[d] : readable' = [readable EXCEPT ![d] = @ \ {f}]
    /\ UNCHANGED <<files, locks, pc, fd, glob, claimed, unread, buf, retry, history>>

UnlinkDone(d) ==
    /\ pc[d] = "unlink"
    /\ readable[d] = {}
    /\ pc' = [pc EXCEPT ![d] = "release"]
    /\ UNCHANGED <<files, locks, fd, pass, history, faults>>

ReleaseClaims(d) ==
    /\ pc[d] = "release"
    /\ claimer' = [f \in Files |-> IF f \in claimed[d] THEN None ELSE claimer[f]]
    /\ claimed' = [claimed EXCEPT ![d] = {}]
    /\ pc' = [pc EXCEPT ![d] = "idle"]
    /\ UNCHANGED <<files, appender, fd, glob, unread, readable, buf, retry, history, faults>>

-----------------------------------------------------------------------------
\* A process dies: the system drops its locks and closes its handle.
Die(p) ==
    /\ pc[p] \in Appending \cup Draining
    /\ Fault
    /\ appender' = IF appender = p THEN None ELSE appender
    /\ claimer' = [f \in Files |-> IF claimer[f] = p THEN None ELSE claimer[f]]
    /\ fd' = [fd EXCEPT ![p] = None]
    /\ IF p \in Recs
       THEN /\ pc' = [pc EXCEPT ![p] = "dead"]
            /\ UNCHANGED pass
       ELSE /\ pc' = [pc EXCEPT ![p] = "idle"]
            /\ glob' = [glob EXCEPT ![p] = {}]
            /\ claimed' = [claimed EXCEPT ![p] = {}]
            /\ unread' = [unread EXCEPT ![p] = {}]
            /\ readable' = [readable EXCEPT ![p] = {}]
            /\ buf' = [buf EXCEPT ![p] = NoText]
            /\ retry' = [retry EXCEPT ![p] = NoText]
    /\ UNCHANGED <<files, history>>

AppendStep(p) == AppendLock(p) \/ OpenPend(p) \/ WriteLines(p) \/ AppendUnlock(p) \/ AppendFailed(p)

DrainStep(d) ==
    \/ TakeOrphan(d) \/ OrphansDone(d)
    \/ ClaimLock(d) \/ Replace(d) \/ ReplaceMissing(d) \/ ClaimUnlock(d)
    \/ ReadFile(d) \/ LineRecorded(d) \/ LineTorn(d) \/ LinesDone(d) \/ ReadDone(d)
    \/ Unlink(d) \/ UnlinkDone(d) \/ ReleaseClaims(d)

FaultStep ==
    \/ \E p \in Procs : AppendTimeout(p) \/ WriteShort(p) \/ Die(p)
    \/ \E d \in Stores : ClaimTimeout(d) \/ ReplaceFails(d) \/ ReadFails(d) \/ LineFails(d) \/ UnlinkFails(d)

Next ==
    \/ \E r \in Recs : Record(r)
    \/ \E p \in Procs : AppendStep(p)
    \/ \E d \in Stores : BeginDrain(d) \/ DrainStep(d)
    \/ FaultStep

Spec == Init /\ [][Next]_vars

\* Processes go on; maintenance runs again and again (every start hook that
\* finds it due launches it, and the scheduled backstop); a poller gets the
\* append lock if it is free again and again.
Fairness ==
    /\ \A p \in Procs : WF_vars(AppendStep(p)) /\ SF_vars(AppendLock(p))
    /\ \A d \in Stores : /\ WF_vars(BeginDrain(d))
                          /\ WF_vars(DrainStep(d))
                          /\ SF_vars(ClaimLock(d))

FairSpec == Spec /\ Fairness

-----------------------------------------------------------------------------
\* Types; the pending path names at most one file.
TypeOK ==
    /\ where \in [Files -> {"free", "pend", "work"}]
    /\ \A f, g \in Pend : f = g
    /\ text \in [Files -> Texts]
    /\ ragged \subseteq Files
    /\ appender \in Procs \cup {None}
    /\ claimer \in [Files -> Stores \cup {None}]
    /\ pc \in [Procs -> {"idle"} \cup StarterDone \cup Appending \cup Draining]
    /\ fd \in [Procs -> Files \cup {None}]
    /\ glob \in [Stores -> SUBSET Files]
    /\ claimed \in [Stores -> SUBSET Files]
    /\ unread \in [Stores -> SUBSET Files]
    /\ readable \in [Stores -> SUBSET Files]
    /\ buf \in [Stores -> Texts]
    /\ retry \in [Stores -> Texts]
    /\ manifests \in [Stores -> SUBSET Recs]
    /\ recorded \subseteq Recs
    /\ faults \in 0 .. MaxFaults

InManifests == UNION {manifests[d] : d \in Stores}

OnDisk == UNION {Holds(text[f]) : f \in Files}

(* A failure whose record was written is never lost: whatever dies or       *)
(* fails between any two calls of two drains, it is in a failed manifest or *)
(* still in the pending file or a .draining file (pipeline.py:451-461).     *)
NoLoss == recorded \subseteq InManifests \cup OnDisk

(* Drains of two stores never both record one failure while nothing dies or *)
(* fails: a live drain elsewhere keeps its own (pipeline.py:457-460).       *)
RecordedByOneStore ==
    faults = 0 => \A d, e \in Stores : d # e => manifests[d] \cap manifests[e] = {}

OnTornLine(r) == \E f \in Files : r \in text[f].torn

(* Every recorded failure becomes a failed manifest in the end, unless its  *)
(* line was glued to text a short write left behind: a .draining file of a  *)
(* dead drain is taken up, and what was put back is drained again.          *)
EventuallyRecorded ==
    \A r \in Recs : r \in recorded ~> r \in InManifests \/ OnTornLine(r)
=============================================================================
