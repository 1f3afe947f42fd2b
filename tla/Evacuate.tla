------------------------------ MODULE Evacuate ------------------------------
(* evidence-archive/evacuate_worktree.py: runs with --apply copy the packet *)
(* files of a worktree into an archive they share and report whether the    *)
(* worktree is safe to remove.  The compiler may write packets meanwhile,   *)
(* calls fail, and a run may be killed between any two of its steps.        *)
(*                                                                          *)
(* A file's content stands for its bytes and its hash.  A staged copy has a *)
(* name of its own (pid and random), so it is private to its run; one that  *)
(* is left behind is never looked at again: staging is not kept here, and   *)
(* looking whether the target exists, staging and os.link are one step,     *)
(* since os.link fails when the target exists by then.  The worktrees have  *)
(* one directory name: they share one quarantine directory.                 *)
EXTENDS Naturals

CONSTANTS
    Runs,       \* runs of the tool, each again and again
    Trees,      \* worktrees
    TreeOf,     \* the worktree of each run
    Names,      \* file names in a packet store, numbered in sorted order
    Contents,   \* byte contents
    Ids,        \* packet ids
    Claims,     \* the id a file validly claims, by name and content, or None
    Initial,    \* the packet stores at the beginning
    Odd,        \* an entry that is not a regular file
    None,
    MaxChanges, \* bound on changes of the stores
    MaxFaults   \* bound on failing calls and deaths

ASSUME ConstAssumption ==
    /\ TreeOf \in [Runs -> Trees]
    /\ Names \subseteq Nat
    /\ Claims \in [Names -> [Contents -> Ids \cup {None}]]
    /\ Initial \subseteq [Trees -> [Names -> Contents \cup {None}]]
    /\ None \notin Names \cup Contents \cup Ids
    /\ Odd \notin Contents \cup {None}
    /\ Ids \cap (Names \X Contents) = {}
    /\ None \notin [Names -> Contents \cup {None}]
    /\ MaxChanges \in Nat /\ MaxFaults \in Nat

VARIABLES
    store,     \* what each name of each worktree's packet store is
    archive,   \* what is under packets/ and quarantine/
    pc,        \* where each run is
    before,    \* names a run listed
    todo,      \* names it has not handled yet
    cur,       \* the name it is handling
    digest,    \* what it read under each name
    seen,      \* what it read first for each packet id
    blocked,   \* names with a blocking verdict
    verified,  \* names it reports as verified
    changed,   \* runs whose second listing differed
    receipt,   \* the files of a run's last receipt, if that says safe_to_remove
    changes,
    faults

locals == <<before, todo, cur, digest, seen, blocked, verified, changed>>
vars == <<store, archive, pc, locals, receipt, changes, faults>>

Targets == Ids \cup (Names \X Contents)

\* Where a file goes: packets/<id>, or quarantine/ under its name and hash.
Target(n, c) == IF Claims[n][c] = None THEN <<n, c>> ELSE Claims[n][c]

Listing(r) == {n \in Names : store[TreeOf[r]][n] # None}

Source(r) == store[TreeOf[r]][cur[r]]
Raw(r) == digest[r][cur[r]]
Archived(r) == archive[Target(cur[r], Raw(r))]

Init ==
    /\ store \in Initial
    /\ archive = [t \in Targets |-> None]
    /\ pc = [r \in Runs |-> "idle"]
    /\ before = [r \in Runs |-> {}]
    /\ todo = [r \in Runs |-> {}]
    /\ cur = [r \in Runs |-> None]
    /\ digest = [r \in Runs |-> [n \in Names |-> None]]
    /\ seen = [r \in Runs |-> [i \in Ids |-> None]]
    /\ blocked = [r \in Runs |-> {}]
    /\ verified = [r \in Runs |-> {}]
    /\ changed = {}
    /\ receipt = [r \in Runs |-> None]
    /\ changes = 0
    /\ faults = 0

Go(r, l) == pc' = [pc EXCEPT ![r] = l]

Fault == faults < MaxFaults /\ faults' = faults + 1

\* The verdict on one name: verified, or blocking.
Judge(r, n, ok) ==
    /\ verified' = IF ok THEN [verified EXCEPT ![r] = @ \cup {n}] ELSE verified
    /\ blocked' = IF ok THEN blocked ELSE [blocked EXCEPT ![r] = @ \cup {n}]

\* The run ends and its local variables with it.
Return(r) ==
    /\ Go(r, "idle")
    /\ before' = [before EXCEPT ![r] = {}]
    /\ todo' = [todo EXCEPT ![r] = {}]
    /\ cur' = [cur EXCEPT ![r] = None]
    /\ digest' = [digest EXCEPT ![r] = [n \in Names |-> None]]
    /\ seen' = [seen EXCEPT ![r] = [i \in Ids |-> None]]
    /\ blocked' = [blocked EXCEPT ![r] = {}]
    /\ verified' = [verified EXCEPT ![r] = {}]
    /\ changed' = changed \ {r}

-----------------------------------------------------------------------------
\* The run begins: the packet store is listed, if there is one.
List(r) ==
    /\ pc[r] = "idle"
    /\ before' = [before EXCEPT ![r] = Listing(r)]
    /\ todo' = [todo EXCEPT ![r] = Listing(r)]
    /\ \/ Go(r, "next")
       \/ Listing(r) = {} /\ Go(r, "conclude")
    /\ UNCHANGED <<store, archive, cur, digest, seen, blocked, verified, changed,
                   receipt, changes, faults>>

\* n is the next name, in sorted order.
Take(r, n) ==
    /\ pc[r] = "next"
    /\ n \in todo[r] /\ \A m \in todo[r] : n <= m
    /\ todo' = [todo EXCEPT ![r] = @ \ {n}]
    /\ UNCHANGED <<store, archive, before, changed, receipt, changes>>

\* The next name is no regular file, or none any more.
Unsupported(r) ==
    /\ \E n \in Names : /\ Take(r, n)
                        /\ store[TreeOf[r]][n] \in {None, Odd}
                        /\ Judge(r, n, FALSE)
    /\ UNCHANGED <<pc, cur, digest, seen, faults>>

ReadFails(r) ==
    /\ Fault
    /\ \E n \in Names : Take(r, n) /\ Judge(r, n, FALSE)
    /\ UNCHANGED <<pc, cur, digest, seen>>

\* The next file is read: it has content c, and claims the packet id i.
ReadAs(r, n, c, i) ==
    /\ Take(r, n)
    /\ c = store[TreeOf[r]][n] /\ c \in Contents
    /\ i = Claims[n][c]
    /\ digest' = [digest EXCEPT ![r] = [@ EXCEPT ![n] = c]]

\* Mutant: a repeated packet id is a duplicate, whatever the content.
BugRepeated(r) ==
    /\ \E n \in Names, c \in Contents, i \in Ids :
         ReadAs(r, n, c, i) /\ seen[r][i] # None /\ Judge(r, n, TRUE)
    /\ UNCHANGED <<pc, cur, seen, faults>>

\* Its packet id was read before in this run: duplicate or conflict.
Repeated(r) ==
    /\ \E n \in Names, c \in Contents, i \in Ids :
         ReadAs(r, n, c, i) /\ seen[r][i] # None /\ Judge(r, n, seen[r][i] = c)
    /\ UNCHANGED <<pc, cur, seen, faults>>

\* It is a packet whose id is read first, or no valid packet: it is archived.
Read(r) ==
    /\ \E n \in Names, c \in Contents, i \in Ids \cup {None} :
         /\ ReadAs(r, n, c, i)
         /\ i # None => seen[r][i] = None
         /\ seen' = [seen EXCEPT ![r] = [j \in Ids |-> IF j = i THEN c ELSE @[j]]]
         /\ cur' = [cur EXCEPT ![r] = n]
    /\ Go(r, "archive")
    /\ UNCHANGED <<blocked, verified, faults>>

-----------------------------------------------------------------------------
\* The verdict on the current file; the run goes on to the next one.
Done(r, ok) ==
    /\ Judge(r, cur[r], ok)
    /\ cur' = [cur EXCEPT ![r] = None]
    /\ Go(r, "next")
    /\ UNCHANGED <<store, before, todo, digest, seen, changed, receipt, changes>>

\* Mutant: whatever the archive holds already is a conflict.
BugMatch(r) ==
    /\ pc[r] = "archive"
    /\ Archived(r) # None
    /\ Done(r, FALSE)
    /\ UNCHANGED <<archive, faults>>

\* The target exists, before the copy or when os.link refuses: it is compared.
Match(r) ==
    /\ pc[r] = "archive"
    /\ Archived(r) # None
    /\ Done(r, Archived(r) = Raw(r))
    /\ UNCHANGED <<archive, faults>>

\* Mutant: the staged copy is renamed into place.
BugLink(r) ==
    /\ pc[r] = "archive"
    /\ archive' = [archive EXCEPT ![Target(cur[r], Raw(r))] = Raw(r)]
    /\ Go(r, "recheck")
    /\ UNCHANGED <<store, locals, receipt, changes, faults>>

\* The copy is staged, read back and linked: the target did not exist.
Link(r) ==
    /\ pc[r] = "archive"
    /\ Archived(r) = None
    /\ archive' = [archive EXCEPT ![Target(cur[r], Raw(r))] = Raw(r)]
    /\ Go(r, "recheck")
    /\ UNCHANGED <<store, locals, receipt, changes, faults>>

\* Writing, reading back, or linking the copy fails; nothing is published.
CopyFails(r) ==
    /\ pc[r] = "archive" /\ Fault
    /\ Done(r, FALSE)
    /\ UNCHANGED archive

\* The source is read again; it may have changed or be gone.
Recheck(r) ==
    /\ pc[r] = "recheck"
    /\ Done(r, Source(r) = Raw(r))
    /\ UNCHANGED <<archive, faults>>

RecheckFails(r) ==
    /\ pc[r] = "recheck" /\ Fault
    /\ Done(r, FALSE)
    /\ UNCHANGED archive

-----------------------------------------------------------------------------
\* All names handled: the store is listed again, and only names are compared.
Relist(r) ==
    /\ pc[r] = "next"
    /\ todo[r] = {}
    /\ changed' = IF Listing(r) = before[r] THEN changed ELSE changed \cup {r}
    /\ Go(r, "conclude")
    /\ UNCHANGED <<store, archive, before, todo, cur, digest, seen, blocked, verified,
                   receipt, changes, faults>>

SafeToRemove(r) ==
    /\ blocked[r] = {}
    /\ before[r] \subseteq verified[r]
    /\ r \notin changed

\* The receipt is written.
Conclude(r) ==
    /\ pc[r] = "conclude"
    /\ receipt' = [receipt EXCEPT ![r] = IF SafeToRemove(r) THEN digest[r] ELSE None]
    /\ Return(r)
    /\ UNCHANGED <<store, archive, changes, faults>>

\* The run is killed, or raises: no receipt.
Die(r) ==
    /\ pc[r] # "idle" /\ Fault
    /\ Return(r)
    /\ UNCHANGED <<store, archive, receipt, changes>>

\* The compiler, or anyone, writes or removes a file of a packet store.
Change(t, n) ==
    /\ changes < MaxChanges /\ changes' = changes + 1
    /\ \E c \in Contents \cup {None, Odd} : store' = [store EXCEPT ![t] = [@ EXCEPT ![n] = c]]
    /\ UNCHANGED <<archive, pc, locals, receipt, faults>>

Step(r) ==
    \/ List(r) \/ Unsupported(r) \/ Repeated(r) \/ Read(r) \/ Match(r)
    \/ Link(r) \/ Recheck(r) \/ Relist(r) \/ Conclude(r)

Next ==
    \/ \E r \in Runs : \/ Step(r)
                       \/ ReadFails(r) \/ CopyFails(r) \/ RecheckFails(r) \/ Die(r)
    \/ \E t \in Trees, n \in Names : Change(t, n)

Spec == Init /\ [][Next]_vars

\* A run goes on until it is killed; "re-run before removing" is done.
FairSpec == Spec /\ \A r \in Runs : WF_vars(Step(r))

-----------------------------------------------------------------------------
\* Types; what is read is always the content of a regular file.
TypeOK ==
    /\ store \in [Trees -> [Names -> Contents \cup {None, Odd}]]
    /\ archive \in [Targets -> Contents \cup {None}]
    /\ pc \in [Runs -> {"idle", "next", "archive", "recheck", "conclude"}]
    /\ before \in [Runs -> SUBSET Names]
    /\ todo \in [Runs -> SUBSET Names]
    /\ cur \in [Runs -> Names \cup {None}]
    /\ digest \in [Runs -> [Names -> Contents \cup {None}]]
    /\ seen \in [Runs -> [Ids -> Contents \cup {None}]]
    /\ blocked \in [Runs -> SUBSET Names]
    /\ verified \in [Runs -> SUBSET Names]
    /\ changed \subseteq Runs
    /\ receipt \in [Runs -> [Names -> Contents \cup {None}] \cup {None}]
    /\ changes \in 0 .. MaxChanges
    /\ faults \in 0 .. MaxFaults
    /\ \A r \in Runs : pc[r] \in {"archive", "recheck"} =>
                           cur[r] \in Names /\ Raw(r) \in Contents

(* A receipt that says "safe to remove" stays true: every file the run read *)
(* is in the archive, byte for byte, under its own target, however many     *)
(* runs of this and other worktrees publish at the same time, also for a    *)
(* file that was only recognised as a duplicate of another one in the same  *)
(* store (evacuate_worktree.py:18-32, 281-297).                             *)
ReceiptsVerify ==
    \A r \in Runs : receipt[r] # None =>
        \A n \in Names : receipt[r][n] # None =>
            archive[Target(n, receipt[r][n])] = receipt[r][n]

(* Nothing in the archive is ever replaced (evacuate_worktree.py:26-27).    *)
NeverOverwritten ==
    [][\A t \in Targets : archive[t] # None => archive'[t] = archive[t]]_vars

\* A store no run can report safe: something that is no file, one id with two
\* contents, or an id the archive holds with another content.
Stuck(r) ==
    LET s == store[TreeOf[r]] IN
    \E m, n \in Names :
        \/ s[m] = Odd
        \/ /\ s[m] \in Contents /\ s[n] \in Contents
           /\ Target(m, s[m]) = Target(n, s[n]) /\ s[m] # s[n]
        \/ s[m] \in Contents /\ archive[Target(m, s[m])] \notin {None, s[m]}

(* A killed or failed run spoils nothing: run again, the tool reports the   *)
(* worktree safe again and again, unless its content stands against it      *)
(* (evacuate_worktree.py:18-22, "the next run copies the file again").      *)
EventuallySafe ==
    \A r \in Runs : []<>Stuck(r) \/ []<>(receipt[r] # None)

(* "Only an --apply run whose every file is archived and verified reports   *)
(* safe_to_remove" (evacuate_worktree.py:28-29): when a run finds at its    *)
(* second listing that nothing stands against the worktree, every file that *)
(* is there at that moment is in the archive.                               *)
SafeMeansArchived ==
    [][\A r \in Runs :
         pc[r] = "next" /\ pc'[r] = "conclude" /\ SafeToRemove(r)' =>
             \A n \in Names : LET c == store[TreeOf[r]][n] IN
                 c \in Contents => archive[Target(n, c)] = c]_vars
=============================================================================
