# Verification of claude-tools

TLA+ models of the parts of this repository in which several processes, files
or moments meet: the evidence tools (capture, archive, twin, episodes) and
graphify. TLC checks them on small instances, and TLAPS proofs show what
matters most for every instance. All source paths are relative to the
repository (`src/` here).

## 1. Inventory

claude-tools is a collection of Python and PowerShell tools around Claude Code
sessions. Hooks and scheduled passes share files without a server; most other
tools are one-shot programs that read a tree and print a report.

| component | state it keeps | operations | what makes it correct |
|---|---|---|---|
| file locks (`pipeline.py` 185-300) | a lock file and the OS lock on an open handle to it | `_try_lock`, `_wait_lock`, `_unlock` | one holder per path; a dead holder refuses nobody; pollers get on |
| pending-failure file (`pipeline.py` 179-535, 1073-1109) | one file shared by all stores of the machine, `.draining` files, claim locks | `record_pending`, `append_line`, `claim_pending`, `drain_pending`, `capture_failure_records` | a written failure is never lost, becomes a manifest, and is counted |
| episode lifecycle (`pipeline.py`, `review.py`, `rescreen.py`, `store.py`) | a manifest per episode, `open/<session>`, `snapshots/`, `payloads/`, `tmp/` | start hook, Stop hook, maintenance pass, review, sweep, expiry, pointer retirement, rescreen | the Stop's join stands; a materialized payload is final and backed; content is never dropped unlogged |
| transcript join (`join.py`), link reconciliation (`linkage.py`) | the join and the link in the manifest | `find_turn`, `join`, `resolve_link`, `reconcile` | an episode is about its own turn and its own packet |
| manifest rules (`manifest.py`), decision (`review.py`) | exclusions, funnel, review state | `evaluate_rules`, `compute_funnel`, `refresh`, `decide` | a payload is staged only for an admissible episode |
| client identity (`client_identity.py`) | identity cache, boundary records | `observe`, `resolve`, `client_for`, `load_boundary`, `boundary_for` | a trusted episode ran under a client that was tested |
| content store and expiry (`store.py`, `review.py`) | snapshots, payloads, causal states, `DELETIONS.log`, seals, metadata commits | `verified_delete`, `expire`, `valid_seal`, `commit_meta` | deletion exactly when due and unsealed; logged; verified |
| causal capture (`causal*.py`) | start and end states, registrations | `capture_overlay`, attribution, `materialize_overlay`, `admit`, `register`, `authorize_run` | states are restorable; every change is the agent's; nothing missing is taken as satisfied; one predicate |
| snapshot taking (`snapshot.py`) | a staging directory | `take_snapshot` | a snapshot published complete is one state of the tree |
| clone builder (`clone_builder.py`) | an intermediate store, the clone, a record | `build_clone`, `prove_clone`, `reconstruct` | the clone holds what existed at the start and no more |
| backstop and audit (`backstop.py`, `audit.py`, `report.py`) | a status file; sheets, labels, results | `run_backstop`, `health`; `build_sheet`, `score`, `record_amendment`, `admission_check` | silence is never health; admission stands on sealed labels |
| worktree evacuation (`evidence-archive/`) | an archive, staged parts, receipts | `evacuate`, `verify_receipt` | "safe to remove" means every packet is archived |
| evidence twin (`evidence-twin/twin.py`) | an archive of runs, a ledger | `run_batch`, `run_one`, `ledger_from_archives`, `report` | the ceiling holds; the bench is sighted only by real runs |
| evidence episodes (`build_episodes.py`) | none (batch) | `build_row`, `window_end`, `observe` | a row has the calls of its own turn |
| graphify | graphs, `health.json`, dashboards, last-known-good settings; a query log | refresh, daily check; the funnel | an ok is earned; each call is judged once and by its own record |
| screening (`screen.py`) | the screening in the manifest | `screen` | what it cannot see is unknown, never clear |
| isolation, footprints, relevance, ctxdex, ctxcheck, gates, skillspector, local-audit, scheduling | reports, an index | one-shot | pure checks of text and trees |

**How they interact.** A start hook (`capture_start.py`) writes a manifest and
the session's pointer and may start a detached maintenance pass; a Stop hook
(`capture_end.py`) follows the pointer, joins the transcript, seals the causal
end and reviews. A maintenance pass drains pending failures, re-joins and
reviews what the hooks left, reconciles links, expires content and retires
pointers. The backstop runs a pass on a schedule and reports. All of them share
files; the only synchronisation is the file lock: `maintain.lock` (one pass or
rescreen at a time), one lock per episode, one append lock, one claim lock per
`.draining` file. What a review stages as payload is later admitted (causal
evidence, registration, screen audit), cloned and replayed by the twin.

**Hard behaviours.** Processes die between any two calls (hooks are killed at
their timeout); copies of a manifest are kept between a read and a write; the
pending file is shared between stores whose passes are not synchronised; the
checkout moves while it is read in several passes; nothing names the turn an
episode is about, so it is looked for by hash and time; time-outs race slow
writers (120 s, 24 h, 72 h, 90 d); deletions fail and are retried; people edit
labels, registrations and settings at any time. `PROJECT.json` lists each
hazard at its line.

## 2. Plan

1. `Mutex`, `FileLock`, `PendingLog`, `PendingCount`, `Episode`, `Evacuate`,
   `Snapshot`, `CausalEvidence`: the protocols of the shared files and what the
   hooks keep of the checkout. Done and proved.
2. What is decided about one episode: `Turns`, `Trust`, `Verdict` (on
   `Screen`), and what it is measured as, `Rows`. Done, model-checked together
   by the run `capture`, and proved.
3. From the episode to a measured pair of runs: `Registration`, `Causal`,
   `Clone`, `Twin`, `Audit`, `Backstop`. Done, run `replay`, and proved. What
   becomes of the content: `Retention`. Done, run `live`, its safety proved.
4. `GraphFunnel`, `GraphHealth`. Done, run `graph`, and proved.
5. To prove next: a refinement for the pending file and for the registration
   (what a caller relies on, as `Mutex` is for the lock).
6. To model next: `ctxdex`'s index and purge, footprints over a set of path
   kinds, the launch of detached passes from several stores.

## 3. Modules

Every module with a state machine has `TypeOK`, its properties at the end, and
next to some definitions a `Bug...` variant, the mutant that shows that a
property can fail.

### Mutex, FileLock
`FileLock` has one step per system call of `_try_lock` and `_unlock`:
`OpenFile`, `OpenFails`, `FlockTaken`, `FlockBusy`, `CheckSame`, `CheckGone`
(at most `MaxTries` rounds, 3 in the code), `PosixUnlink`, `Unlock`,
`WindowsUnlink`; `posix` says which of the two releases the platform uses, and
an unlink may fail. `path` is the inode the path names, `flock` the owner of each
inode's OS lock, `fd` what each process has open. An inode may be reused as soon
as nothing refers to it. A death closes the handle and drops the lock and leaves
the file. `Mutex` is what the callers rely on; `Holder` maps the process past
the identity check to it.

### PendingLog, PendingCount
`PendingLog` models `append_line`, `record_pending`, `drain_pending`,
`_drain_claimed` and `claim_pending`. Locks are `Mutex` holders. A file's text is
the set of records on lines that parse and the set of lines that do not; whether
it ends in the middle of a line is `ragged`. Every record has a process of its
own; every store has one drain at a time (`maintain.lock`). Faults, each bounded
by `MaxFaults`: short write, append and claim time-out, rename, read, manifest
write and unlink failing, death. A claim lock is taken before the file it guards
has its name, so `Replace` takes both at once; sweeping stray claim locks
(pipeline.py:473-478) changes nothing the properties see and is left out.
`PendingCount` adds the backstop's count, one read per step, beside it.

### Episode
One episode of one session with two turns: `m` (manifest), `ptr`
(`open/<session>`), `place` (where the snapshot is), `logged`
(`DELETIONS.log`), `lock` (the episode lock), and `cp`, the copy of the
manifest each process holds. Processes: `start`, `stop` (of the turn that just
ended), `maintain`, and the commands in `Tools` (`rescreen`, `expire`; the runs
have `rescreen`, since the command `expire` does what the end of a maintenance
pass does anyway: `Expire(p)` is one action of either). A join
and a rule evaluation have any outcome; a failed snapshot or start is an
exclusion for good. Ages are classes (killed 120 s, rejoin 24 h, stale 72 h,
expired 90 d), and `Tick` moves to the next one at any time, so a 24 h old
pass may meet a hook of the same turn. `clobbered` records that a copy read
without the lock overwrote a later write; the two action properties hold until
then. A deletion is two steps, as `verified_delete` has it: `RevExclude` and
`ExpireDelete` remove the tree (store.py:432), `RevLog` and `ExpireLog` append to
`DELETIONS.log` (435). A process cut short between them leaves a deletion that
no record tells of; `unlogged` says that this has happened, and the two
invariants about content allow it and nothing else (`Deleted`). Left out here:
seals (nondeterministic: content due may stay, see `Retention`), a payload that does not verify when it is adopted (see
`Verdict`), other episodes (the `other` pointer value stands for them), a
staging directory an hour old in which a review is still working.

### Names
A module that proves or checks several components at once EXTENDS them, so their
names must differ. `Turns`, `Verdict`, `Rows`, `Snapshot`, `CausalEvidence`,
`Causal`, `Clone`, `Twin`, `Audit`, `Backstop` and `GraphFunnel` therefore put
their own name into `Init`, `Next`, `Spec`, `TypeOK` and the assumption
(`TurnsInit`, `TurnsNext`, ...), and into an action where two components have
one of the same name (`CloneRecord`, `AuditCommit`, `RecordPass`).

### Turns
The session as the hooks cannot see it: prompts are typed, queued behind a
running turn or sent by a notice (`Submit`), both start hooks run at some time
before the delivery (`Capture`, `Compile`), the prompt is delivered or blocked
(`DeliverPrompt`, `Block`), the agent works (`CallTool`), turns end with or
without a Stop (`TurnEnds`, `StopLost`), packets get lost. `Hits` and `Nearest`
are `find_turn`, `WindowEnd` and `EndsTurn` the window, `Resolve` is
`resolve_link`; `StopHook`, `Maintain` and `Reconcile` are the callers. Time is
in steps, `Delay` the hooks' timeout, `Exact`, `Skew` and `Idle` the code's
constants. `JoinedToOwn` has two halves: a join is at the delivery of the
episode's own prompt (`OwnDelivery`) and its window holds the calls of its own
turn (`OwnWindow`).

### Trust
`installed` is the sequence of executables that were at the client's path
(an update replaces the file under a running process), `proc` the running one.
`Start` sees path, size and time; `Sha` and `Hashed` are `client_for` with its
cache; `Trusted` is `load_boundary`, `Bounded` `boundary_for`; `Finalize` and
`Rebound` call them. `Test` and `Accept` write the boundary records.

### Screen, Verdict
`Screen` is `screen()` over a turn whose calls are already classified: the tool,
the places its paths lead to, the verbs and mutations of a shell command, what
it wrote and was shown, and the subagents it started, found or not. `Sufficient`
and `Required` are the questions of provenance, `Mutations` and `Effect` those
of remote effects, for all eight categories; `Screened` is the record put into
the manifest.

`Verdict`: the facts about an episode (origin, edits, sufficiency,
dependencies, prior state) as the screening of one of `JoinedTurns` gives them,
the owner's file and what the code computes of them: `Evaluate`
(`evaluate_rules`), `Compute` (`compute_funnel`), `Refresh` (`refresh`),
`Decide`, `Conclude`, `Class` (`blocker_partition`, of the manifest refreshed
with the owner's file of now, as report.py:241-243 does it). The actions are all
that changes an input: kill, join (also one whose checkout is gone), lost join,
rescreen, a changed client (`Reidentified`), relink, the owner. `Admissible`
says once more, from the documents, when a payload may be staged; `cleared`
records whether it was.

Whatever writes the manifest holds the episode's lock and is one step. The
owner's file is edited under no lock, so a review is two: `ReviewReads` reads
the file (review.py:590) into `word`, and `Review`, `Adopt` or `ReviewDies` goes
on with that, whatever `OwnerDecides` has written since. `lockedBy` keeps the
others out meanwhile; it is also how a Stop hook that lost its join goes on to
review an episode that is still open (pipeline.py:1018-1027). A payload is
admissible by the word the review read; a word that is withdrawn after that is
not heard. The report has no such window: its class is what a review begun now
would do.

### Retention
Days, per-kind content (`payloads`, `snapshots`, `causal`), dates, seals that
are committed, extended and withdrawn, and a pass that goes over the kinds:
`Keep`, `Take`, `Remove` or `RemoveFails` (half a directory stays), `Append`
(`DELETIONS.log`), `Note` (the manifest). `Sums` says by which `SHA256SUMS` a
kind is looked up among the seals.

### Registration
`register` (check, exclusive create, write, commit, unlink when the commit
fails) and the guard of a replay; a registrar may die at any step,
`CommitFails` may have committed, `Edit` and `CommitByHand` are a person's. The
guard verifies twice, in `authorize_run` and again in `admit`, and each
verification is three reads with anything between them: the file (`ReadEntry`,
`RereadEntry`; causal_admit.py:99), HEAD's version against the working tree
(`Compare`, 107-109) and the history (`Count`, 111). `ls-files` and `diff` are
one step, since a file that git tracks stays tracked. `raced` holds the
launchers whose file changed between the read and the comparison: such a
launcher goes on with a predicate that git never had, and `OnePredicate` says
that this is the only way to one.

### Causal, CausalEvidence
`Causal`: a file is a text and its line endings. Each pass of `capture_overlay`
over the paths is a step (`ReadHead`, `List`, `Read`, `Hash`, `Manifest`, list
again, `ReadAgain`, `ReadThird`, `Seal`), and `ChangeFile` and `MoveHead` happen
between any two. `ReadFiles` is what the byte passes read, `KeptBytes` which
paths keep their bytes. `Materialized` and `Faithful` are `materialize_overlay`
and its verification, `Unattributed` the attribution, `CausalAdmit` the
conjunction of what the admission asks of them. `CausalEvidence`: the stages of the two hooks in
order, each of which may raise and skip the rest of its row (`Raise`), what they
put into the manifest (`got`), `Classify` (`classify_worktrees`), `ToolDrift`,
and `Reasons`, all that `admit` refuses for.

### Snapshot
`take_snapshot` and whoever works in the repository meanwhile. The checkout is
`head`, `index` (with its modification time `stamp` and `lock`, the presence of
`index.lock`) and `work`; the taker's state is what its first pass has read
(`first`), how far the pass is (`done`) and whether the second pass saw
something else (`differs`). A read is a git call or a file; `Sees` says what it
gets from the checkout of its moment and `Stage` in which order the reads come:
status and HEAD in parallel, the index's time and bytes, the locks, the
artifacts in parallel, the bytes of the paths that the first status calls
untracked or changed. A git call that covers many paths reads each path by
itself, as `git status` does. `SecondPass` begins phase 3, `Publish` is phase 4
and `Fail` every other end. `Rebuilt` is what `reconstruct` (clone_builder.py)
makes of a snapshot, and the properties compare it with the checkout of the
moment the second bracket began (`mid`). Every write of the index is taken to
change its modification time; `diff-index` is the difference of what `ls-tree`
and `ls-files` list and is no read of its own.

Two things the brackets cannot see are hypotheses of `CheckoutOfOneMoment`, and
TLC finds a counterexample without either: a content that goes and comes back
between two reads, and an index written between the first status call and the
reading of its modification time. In the latter, a commit takes a path away that
the first status saw clean, the first reads of HEAD and index see the new commit,
and the file goes before the second status, which reports as little as the
first; the comment at snapshot.py:335 expects such a write to fail the snapshot.
The index alone needs no hypothesis.

### Clone
The objects are those of the start and, per name (branch, tag, stash, reflog), a
commit and a blob. `Fetch`, `CloneStore`, `Strip`, `Break` (one of the code's
own `SABOTAGE` steps), `Prove` (P1-P8, P10), `Rebuild` (P9), `CloneRecord`; `Move`
changes the source's names at any time, and `Error` ends a build anywhere.

### Twin
`plan` (pairs of arms, Lab controls first), `dir` (each run's `meta.json`),
`aside` (invalid attempts), `book` (the ledger), the batch with its copy of the
ledger and its step (`twinStep`), and a run: the client writes events
(`WriteEvent`), the harness reads them (`ReadEvent`, with the kill at the cap), a
timer runs (`Wall`). `SaveMeta`, `Book`, `SetAside` are three steps, and `Die` may
come between any two. The ledger command runs at any time, beside a batch too,
and is two steps, `ReadArchive` (`Kept` is what it finds) and `RebuildLedger`;
`RebuildDies` leaves a torn ledger. `Units` and `Plans` are `plan()`;
`LabVerdict`, `Scored`, `Incomplete`, `BenchBlind` are the report, which is asked
at any moment.

What was spent and is in no ledger is kept in histories that no ledger is
consulted for. `unsaved` grows when a batch dies before a run's `meta.json` is
whole. `behind` says, for the ledger file, the batch's copy and the ledger being
rebuilt, how many tokens came on file after it was made: a `SaveMeta` adds, a
copy hands its number on, a rebuild starts at 0. `CeilingKept` subtracts
`unsaved` and what the copy in use is behind, so a rebuild that forgets an
attempt breaks it (`BugKept` forgets those set aside).

### Rows
Transcripts in two roots (sessions, forks, frozen copies; an absent transcript
is the empty one), prompts that are typed, queued, sent by the harness or
blocked, packets that are kept, lost or in conflict. A session grows by
`StorePrompt` (a prompt, with its brief right behind it), `BlockPrompt`,
`Enqueue` and `MakeCall`; `Fork` and `Freeze` copy it, `LosePacket` is the
archive's part. `Row` is `build_row` with `_pick_transcript` (`PickedFiles`),
`_prompt_before` and `_anchor_by_prompt`; a row without a place has `NoPlace`.
`Ends` and `Window` are the window over all rows, `ObservedCalls` its calls.
Every call carries the prompt it was made for, which the builder does not see.

### Audit
`sheet`, `head` (its last commit), `shown`, `result`; the commands
`BuildSheet`-`ShowScreen`-`CommitSheet`, `Score`-`ReadSheet`-`WriteResult`,
`RecordAmendment`-`WriteAmendment`, each of which may be interrupted by the
owner (`Save`, `AuditCommit`) or die (`AuditDie`). `Admitted` is `admission_check`.

### Backstop
Captures that begin, fail and are on record some time later; passes with
`Begin`, `CheckStores`, `Maintain` or `GiveUp`, `Overdue`, `RecordPass`; a status file
that may become unreadable; `Health` is `health`.

### GraphFunnel, GraphHealth
`GraphFunnel`: sessions search, call graphify, talk (`Talk`: their transcript
gets a later time) and are continued in transcripts that repeat what came
before; calls end with a record in the log, without one, or break. `Scanned`,
`KeptIn` (`mark_copied_calls`), `RoutedIn` (`mark_routing_copies`), `Match` with
`AfterCall` (`match_records`) and the three verdicts are operators on that state,
for every window and every unreadable transcript. `Slack` is `MATCH_SLACK`. What
`FunnelRight` says about unlogged calls excepts two cases, and TLC finds a
counterexample in either: calls that overlap and are not `Distinguished` by their
questions, where one takes the other's record; and the edge of the window
(`AtEdge`), where a call that ended before the window has no record of its own
left and takes its neighbour's.
`GraphHealth`: `Begin`, `Extract`, `Stats`, `Finish`, `Kill` of a scheduled and
a manual refresh, commits and edits of the configuration, and `Check`, the daily
check with its last-known-good settings and the dashboards it reaches. Both
errors about these settings that the code catches are in it: a save may fail
(Check-GraphifyHealth.ps1:87-90) and leave the old file, an empty or a torn one
(`Written`), and a read may fail or not parse (97-103), which is the warning
`lkg-unreadable` and adds no folder (`DashDirs`). After either a dashboard that
left the configuration keeps its last status; `kept` says whether the settings
were saved when the configuration was last valid, and `NoStaleOk` excuses those
folders only.

### Evacuate
One archive, worktrees with one packet store each, and runs of
`evacuate --apply`. `store` is what is under each name (a content, nothing, or
something that is no regular file), `archive` what is under `packets/<id>` or
`quarantine/`, and the rest are the local variables of each run: the listing
(`before`, `todo`, in sorted order), the file in hand (`cur`), what was read
(`digest`, `seen`), the verdicts (`blocked`, `verified`) and whether the second
listing differed (`changed`). The actions are the steps between which something
else can happen: `List`, then per file `Unsupported`, `ReadFails`, `Repeated`
(its packet id was met before) or `Read`, then `Match`, `Link` or `CopyFails`,
`Recheck` or `RecheckFails`; at the end `Relist` and `Conclude`, which writes
the receipt. `Change` is whoever writes into a packet store meanwhile. The
seven per-file results are kept as far as they differ for the verdict: blocking
or verified. A staged copy is private to its run, so staging has no state.

## 4. Runs

| run | instance | states | shows |
|---|---|---|---|
| `lock` | 3 pollers, 4 inodes, 2 rounds, 1 death, both platforms | 248 k | exclusion, refusal only by a contender, refinement of `Mutex`, no livelock |
| `pending` | 2 records, 2 stores, 3 files, 1 fault, with the count | 1.3 M | no loss; one store per record without faults; a quiet count is complete or reports a problem |
| `live` | `PendingLog` (1 record, 2 stores, 3 files, 2 faults), `Retention` (3 days) | 141 k | recorded failures become manifests; a seal holds, deletions are recorded, expired content leaves |
| `episode` | 2 turns, maintenance, rescreen, 2 faults | 1.7 M | join, payload and deletion invariants |
| `episode_live` | 2 turns, maintenance, 1 fault | 445 k | termination, adoption, retried deletion |
| `snapshot` | `Snapshot` (2 files, 2 contents, 2 commits, 2 starts, 3 changes), `CausalEvidence` | 2.2 M | a published snapshot is the checkout of one moment, under two hypotheses; nothing missing is taken as satisfied |
| `evacuate` | 2 runs, 2 worktrees, 2 names, 2 contents, 1 change, 1 fault | 284 k | receipts stay true, nothing is replaced, a sound worktree is reported safe |
| `capture` | `Turns`, `Trust`, `Verdict`, `Rows` | 1.8 M | what is decided about an episode, and what it is measured as |
| `replay` | `Registration`, `Causal`, `Clone`, `Twin`, `Audit`, `Backstop` | 3.4 M | what a replay starts from and what is measured |
| `graph` | `GraphFunnel` (2 sessions, 2 tool uses, 2 questions, a slack of 1), `GraphHealth` | 0.7 M | the funnel's verdicts and the health status |

`live`, `snapshot`, `capture`, `replay` and `graph` hold several state machines
that share nothing: `tool` says which of them is at work, the others rest in a
fixed initial state, and every property is about one of them. The state space is
the sum of theirs, not the product. Their modules EXTEND the components, so that
a property checked is the very definition a theorem is about; only `MCLive` has
an INSTANCE, of `PendingLog`. `graph` is checked up to a permutation of the
questions, which nothing in the funnel tells apart but by equality.

Why the bounds are enough: three processes are the fewest for the interesting
lock race (holder, stale contender, creator), and a fourth inode lets the path
be recreated while two old ones are open. Two records and two stores give a
record put back beside a new one and two drains that meet, with a death in
either; two faults in `live` allow a death after a failed call. An
episode has two Stop hooks at most before the pointer belongs to another one,
and two faults cut a review short twice. In `evacuate` the two contents claim
one packet id, except the second under the second name, which is invalid: one
store can hold a duplicate, a conflict or a quarantined file, and two runs can
race for one target. In `snapshot` three changes are enough for a commit (index
and HEAD) and a file, for a file changed twice between the reads, and for an
index that is rewritten and rewritten back; the mutants need two of them.

In `capture`, two prompts of one text, up to three transcript entries and two
steps of time let a prompt be delivered before or after its hook, be queued,
blocked and sent again, with a Stop that is late or lost; two builds and two
episodes let an update come between launch, start and hash; two owner's files
and four joined turns reach every class of the report; two sessions, two prompts
and five entries give a fork, a queued prompt and a brief of another turn. In
`live`, three days and two faults let a seal run out while a removal stopped
half way.

In `replay`, one path with two texts, three endings and three commits is
enough for every rule about line endings; two changes while a state is sealed
let a file change and change back; four runs of the twin are two pairs, one
rerun allowed by the archive; one rebuild of the ledger (`MaxRebuilds`), in the
plan of a single pair, meets a rerun, a batch beside it and a death of either,
and beside a running client it is neither read nor written, as the two touch
nothing in common; two registrars and two launchers race, and with
two faults a registrar is told wrongly that git failed and the file is then
committed by hand; two sheets let the second
audit depend on the first; two overlapping passes and two captures let a
failure begin before one pass and after the other. In `graph`, two sessions and
two uses give a copy and two calls that overlap, and three instants with a
slack of one a window with something on both sides of its edge; one edit, one
fault and two refreshes give a lost configuration with a half-failed or a killed
run.

Two violation runs show where the code does something else than its own
documentation says (`findings` in `PROJECT.json`): a review undone by a
rescreen's stale write (`episode_rescreen`) and a packet file rewritten after
its verdict, which the second listing does not see (`evacuate_rewrite`).
Disagreements that no run states are told in the notes of `hazards`: a failure
hidden from the count by a drain (pipeline.py:1080), an end state sealed at
another turn's Stop (997), a join repeated for ever (1189), a failure put on
record after the pass that judged its hook's time (backstop.py:160), a deletion
that no record tells of (store.py:432), an owner's word withdrawn while a review
goes on (review.py:590), a predicate that changes between its reading and its
comparison (causal_admit.py:99), a dashboard left behind by settings that could
not be saved or read (Check-GraphifyHealth.ps1:87-103), an invalid
twin run that counts as data (twin.py:540), two batches with one ledger, or a
rebuild beside one (twin.py:489), a logged call that is said to have written
nothing because a call from before the window took its record (graphify_funnel.py:1052).

## 5. Fairness

- `FileLock`: a live process continues its call, callers poll
  (`_wait_lock`), and opening the lock file does not fail for ever.
- `PendingLog`: processes continue; maintenance runs again and again, launched
  by start hooks and by the scheduled backstop; a poller gets the append lock
  when it is free again and again (each wait is bounded by 2 s and a pass tries
  again).
- `Episode`: hooks and passes continue until they die, passes are started again
  and again, time passes, and an orphaned staging directory is old at some
  later pass. Nothing is assumed of prompts, of Stop hooks, or of which outcome
  a join has.
- `Evacuate`: a run continues until it is killed, and the tool is run again
  ("re-run before removing", evacuate_worktree.py:304). Changes and faults are
  finitely many.
- `Retention`: passes begin again and again and go on unless they die, and days
  pass. Nothing is assumed of seals: they may be extended at any time within
  the days of the model, after which they have run out.

The other modules state safety only: the code promises no progress of a session,
an owner or a client.

## 6. Proofs

Every theorem holds for every value of the constants that satisfies the
component's named assumption (`ConstAssumption`, `TurnsAssumption`, ...), which
the runs evaluate. Every component has a theorem of type correctness, so that no
run checks types, and every safety property of a passing run has a theorem. The
proofs are in

| module | about | safety theorems |
|---|---|---|
| `FileLock_proofs` | `FileLock`, `Mutex` | `Exclusion`, `NoFalseRefusal`, `Refinement` |
| `PendingLog_proofs` | `PendingLog`, `PendingCount` | `NothingLost`, `OneStoreRecords`, `QuietCount` |
| `Episode_proofs` | `Episode` | `StopJoinIsKept`, `MaterializedIsFinal`, `PayloadsBacked`, `SnapshotNeverDropped` |
| `Evacuate_proofs` | `Evacuate` | `ReceiptsStayTrue`, `ArchiveNeverOverwritten` |
| `Retention_proofs` | `Retention` | `DeletionsRecorded`, `SealsHold` |
| `Capture_proofs` | `Turns`, `Trust`, `Verdict`, `Rows`, `Snapshot`, `CausalEvidence` | `JoinedRight`, `LinkedRight`, `TrustEarned`, `Stands`, `RowsObserved`, `IndexKept`, `CheckoutKept`, `AllWasSeen` |
| `Replay_proofs` | `Registration`, `Causal`, `Clone`, `Twin`, `Audit`, `Backstop` | `RegistrationNeverReplaced`, `SealedRestores`, `AdmittedIsTheAgents`, `HoldsStartOnly`, `CeilingHolds`, `SightEarned`, `OnLabels`, `NothingHidden` |
| `Graph_proofs` | `GraphHealth`, `GraphFunnel` | `Earned`, `ErrorShown`, `JudgedOnce` |

The property each one is about is in `PROJECT.json`. The inductive invariants:

- *Lock.* `LockInv` adds to the types that a process past the OS lock owns the
  lock of the inode it has open (`Owns`), nobody else owns one
  (`OwnedByActive`), and the path names the holder's inode (`HeldPath`). Without
  `HeldPath` two processes could hold different inodes. Exclusion follows;
  `MetInv` adds who met whom for `RefusedOnlyByContender`, and the refinement
  maps every step to a `Mutex` step or a stutter.
- *Pending file.* The invariant behind `NoLoss` says where a drain's records
  are between its reads and its unlinks: a file that will be unlinked
  (`readable`) has each of its records in a manifest, in `buf`, in `retry`, or
  already back in the pending file; a claimed file is changed by its claimer
  only. As long as no fault has happened (`Calm`), a record is on one line of one
  file (`Clean`, `Single`), so that one store records it. `CountInv` says that
  while nothing has moved the count has, or will read, every file (`Covered`).
- *Episode.* A snapshot that is gone is logged, about to be, or `unlogged`: only
  the process between the two steps of a deletion knows, so the invariant names
  its place (`Unlogged`). `ContentInv` extends this to the copies of the
  manifest (`Backed`: a copy that says materialized is as true as the manifest,
  so writing a stale one back is harmless for them), says that a review that has
  staged the snapshot finds it there (`Staging`; the sweep spares it and the lock
  excludes other reviews), and that there is no content before the start hook's
  (`Early`). `CopyInv` is what the two action properties need: until a copy is
  written back without the lock, the copy of the lock's holder is the manifest
  (`Fresh`), or differs from it in the review it is about to record (`Alike`).
  The start hook takes no lock, so a pass that took the hook for killed may have
  its manifest replaced under it; `Behind` and `Starting` say that nothing has
  been joined or materialized then.
- *Evacuation.* `ArchiveKept` says that no step replaces what the archive
  holds. `RunOK` says of a run that has no blocking verdict so far that all it
  has read is archived, except the file in hand (`ReadArchived`), and likewise
  every packet id it remembers (`SeenArchived`): a duplicate is reported as
  verified on the strength of the latter, also when the first copy's own verdict
  was an error, but then the run is blocked.

- *Retention.* `PassOK` says what the place of a pass tells about the content it
  is at; from it, what is gone is logged as verified. `SealInv` is about the
  kinds sealed before they were due (`early`): such content is whole and no pass
  is about to remove it. The causal states hang on the snapshot's seal, so it
  needs that they have its date until a removal of either begins (`SameDate`).
- *Turns.* Nothing names the turn of an episode, so `TurnsInv` says how close the
  hooks, the delivery and the transcript are in time (`HooksRan`, `Told`). Of a
  join it keeps (`JoinOK`) that it is at a delivery of the same text, namely its
  own, or one as near, or one found while its own was not in the transcript; and
  that no turn begins inside its window. Of a link (`LinkOK`), that its own packet
  was not within the bounds, and will not be. The hypotheses are that the exact
  tolerance is at least the hooks' timeout (`Delay <= Exact`: `EXACT_WINDOW_S` is
  600 s, and a hook is taken for killed after 120 s, `KILLED_AFTER_S`) and that
  a session counts as idle only after some time (`Idle > 0`: `IDLE_S`); without
  the latter a pass may join a turn that is about to go on.
- *Trust.* Executables are only added to `installed`, so an index into it names a
  build for ever. `EpisodeOK` says that a hash on an episode is that of the
  executable it ran under, although the cache and the path may have moved on;
  `RecordOK` that an accepted boundary record has the hash of a tested build.
- *Verdict.* `VerdictInv` needs little beside the types (`CompleteEnded`): what is
  hard is that the code's decision, computed from copies and flags and from the
  owner's file as it was read, agrees with `Admissible`, which is stated from the
  documents. `Partition` does the same for
  the report's classes, of which an episode has exactly one.
- *Rows.* `Transcript` says of every file that it has each prompt once, with its
  brief right behind it, that a call is of the last prompt before it, and that
  entries of the own session follow those of the session it was forked from;
  a frozen copy is a beginning of the live file. `WindowIsOwn` derives from it
  that the calls in a row's window are those of the row's prompt, whichever of
  the copies was picked and by whatever of the two ways it was placed.
- *Snapshot.* The modification time of the index only grows and is read before
  its bytes, so an equal time at the end means the same bytes (`IndexInv`).
  `CheckInv` carries, for each path and through both passes, what a reading still
  says about the checkout now or at the time the second pass began (`FileSeenFirst`,
  `FileSeenAgain`); what cannot come back has not gone.
- *Causal evidence.* `Unbroken`: if no error is on record, each stage that has
  been passed recorded what it is for. An admission without a refusal then means
  that everything was seen (`NothingRefused`), and a class of the other worktree
  means what it says (`ClassMeans`).
- *Registration.* One registrar at a time is making the file (`OneMaker`), and
  the history in git is only extended. `Verifications` says what each of the three
  reads leaves behind: past the comparison, what was read is in the history
  (`Had`) unless the launcher is in `raced`; past the count of a history of one, it
  is the first version, and stays it.
- *Causal.* `CalmDraft`: while nothing changes, what the hook has read so far is
  the checkout. A state sealed in calm is restored byte for byte from it
  (`Rebuilds`), and comparing two restored checkouts is comparing the sealed
  states (`ComparedAsRebuilt`), so a change that no agent wrote refuses admission.
- *Clone.* `ProofsHold`: each proof that passed still holds of the clone when the
  record is written, but for P5 when the source has moved meanwhile.
- *Twin.* `Money`: what was spent is in the archive, or about to be (`Unfiled`),
  or `unsaved`. `Ledgers`: each of the three ledgers, the file, the batch's copy
  and the one being rebuilt, covers what is in the archive but for what it is
  `behind`, and the copy for the run about to be booked (`Owed`). Neither mentions
  how a ledger was made, so a rebuilt one has to cover the archive itself:
  `ReadArchive` establishes it with `behind.rebuild = 0`, set-aside attempts
  included. Both speak of sums over finite sets, which the library defines by a
  recursive function over the subsets, with a CHOOSE of the next element. That
  this function exists (`FoldExists`) and that the order does not matter
  (`SumsOrder`, `SumAdds`, `SumDrops`) follows by minimal counterexample, from
  the well-foundedness of the naturals (`LeastNat`, `Smallest`); so does what
  becomes of a pipe of unread events (`WrittenIs`). `KeyIsNew` is a pigeonhole
  argument: among one more number than the ledger has keys one is free, so a
  rerun never replaces an attempt. `InvalidKnown` carries `SightIsEarned`: a run
  on file as invalid is the one the batch is booking, or `stuck`.
- *Audit.* Every result was computed from labels that were sealed then, unless
  someone wrote between the check and the reading (`raced`), in the hands of a
  scorer, of an amender, or on file (`Commands`, `Scored`).
- *Backstop.* The record of a pass is dated to when it began, so a failure that a
  later hook left cannot be behind it; `ok` of `health` needs `Unseen = {}`.
- *Graph health.* A refresh ends on the day it began (`RefreshedToday`), so a
  record of success is as old as the oldest graph it names (`SuccessBacked`); an
  ok of the daily check rests on both. `SettingsKept`: if the last save succeeded,
  the settings file has the folders of the last valid configuration.
- *Graph funnel.* `FunnelInv` says of the world that tool uses are numbered as
  they come (`InOrder`), that two transcripts with a tool use in common have all
  that came before it in common (`SameHistory`), that a result is of an ended
  call and in its own transcript (`Outcomes`), and that each record was written
  by one call (`Writes`). What the funnel computes from it is proved of its
  operators. The matching is a recursive function; that it exists is
  `RecursionExists`, and its properties hold by a minimal counterexample over
  the calls (`UpTo`). `Even`: as many records are taken as calls are matched,
  each of which has a record of its own in the window, so that with an unmatched
  call something is left over (`SomethingLeft`, by counting). `Right`: with
  distinct questions a call takes its own record only, so all are matched.

Left to TLC: the liveness properties (`NoLivelock` and those of `live`,
`evacuate` and `episode_live`), since the prover has no rules for fairness, and
the two refuted claims.

## 7. Not modelled

`PROJECT.json` lists every component with what was left out of it. In short:

- *Text.* What a shell command, a path or a prompt says (`shell_paths.py`,
  `footprints.py`, the classifiers of `screen.py`): `Screen` begins with the
  classified calls. Traffic classes, reports,
  ctxcheck, the gates: functions from text to a verdict, whose outcomes are
  sets the models choose from.
- *Input and output.* The harnesses that test a client's boundary, the desktop
  probes, `isolation.py`, the launching of hidden or detached processes, the
  scanner watch, local-audit's prompts.
- *State nobody else depends on.* `maintenance_due` probes `maintain.lock` by
  taking it (pipeline.py:940): a pass that starts in that moment is skipped, and
  the next hook or the backstop starts another. The state files of an operation
  in progress (snapshot.py:377) are copied once and compared by nothing.
  `built_at_commit` (Refresh-Graphs.ps1:180) is read by people. A refresh that
  failed leaves no baseline for the drift (192): `GraphHealth` has it, and a
  drift is a warning only.
- *ctxdex.* Indexing and purging are transactions of SQLite over text; the index
  is rebuilt by hand and nothing else reads it.
- *Measurements.* Relevance, the twin's statistics, confidence intervals:
  arithmetic over finished rows.
