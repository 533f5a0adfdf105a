------------------------------- MODULE Watcher -------------------------------
(***************************************************************************)
(* Automatic indexing of one repository: the scanners of                   *)
(* src/repomesh/watcher.py, of which a session advisory lock elects one;   *)
(* the row of repository_watches they share with the API                   *)
(* (coordination/watches.py); registration; and, seen from there, the jobs *)
(* that index the repository.                                              *)
(*                                                                         *)
(* What a working tree holds, its commit included, is a member of          *)
(* Contents, and stands for its fingerprint too.  What one reads of a tree *)
(* while it changes, or of an index while a pass rewrites it, may be any   *)
(* content.  Time is in three facts of the row: whether the observation    *)
(* has been stable for the debounce, and whether a change has been pending *)
(* for less or for more than the maximum wait.                             *)
(***************************************************************************)
EXTENDS Integers

CONSTANTS
  Contents,        \* what the working tree may hold
  None,
  Scanners,        \* repomesh watch processes
  Debounce,        \* watch_debounce_seconds > 0
  DefaultEnabled,  \* watch_default_enabled
  Misordered       \* contents whose files the two fingerprints take in different orders

ASSUME SettingsAssumption == Debounce \in BOOLEAN /\ DefaultEnabled \in BOOLEAN
ASSUME MisorderedAssumption == Misordered \subseteq Contents
Rows == [enabled : BOOLEAN, submitted : Contents \cup {None}, observed : Contents \cup {None},
         stable : BOOLEAN, pending : {"no", "young", "due"}]

ASSUME NoneAssumption == None \notin Contents /\ None \notin Scanners /\ None \notin Rows

VARIABLES
  tree,     \* the working tree
  index,    \* what repositories.commit_sha and the file manifest describe
  client,   \* a registration: "absent", "added" to SQLite, "done" with its preference
  wish,     \* the auto_index it asks for, until then
  row,      \* the row of repository_watches
  last,     \* the job in last_job_id
  other,    \* any other job of the repository that is not finished
  reading,  \* what the running index pass has read of the tree
  elected,  \* the holder of the session advisory lock
  scan      \* what each scanner is doing, and the values it carries along

repo == <<tree, index>>
registration == <<client, wish>>
queue == <<last, other, reading>>
scanning == <<elected, scan>>
vars == <<repo, registration, row, queue, scanning>>

Locals == [pc : {"down", "idle", "hashing", "checked", "marked", "ready"},
           fp : Contents \cup {None}, idx : Contents \cup {None}, draft : Rows \cup {None}]

Idle == [pc |-> "idle", fp |-> None, idx |-> None, draft |-> None]

WatcherTypeOK ==
  /\ tree \in Contents
  /\ index \in Contents
  /\ client \in {"absent", "added", "done"} /\ wish \in BOOLEAN \cup {None}
  /\ client = "added" => wish \in BOOLEAN
  /\ row \in Rows \cup {None}
  /\ last \in {"none", "waiting", "running", "completed", "failed"}
  /\ other \in {"none", "waiting", "running"}
  /\ reading \in Contents \cup {None}
  /\ elected \in Scanners \cup {None}
  /\ scan \in [Scanners -> Locals]

Init ==
  /\ tree \in Contents /\ index \in Contents
  /\ client = "absent" /\ wish = None
  /\ row = None
  /\ last = "none" /\ other = "none" /\ reading = None
  /\ elected = None
  /\ scan = [s \in Scanners |-> Idle]

Goto(s, pc) == scan' = [scan EXCEPT ![s].pc = pc]

\* A transaction of observe holds the row lock.
RowLocked == \E s \in Scanners : scan[s].pc \in {"marked", "ready"}

Active == last \in {"waiting", "running"} \/ other # "none"

-----------------------------------------------------------------------------
(* The user, the API and the CLI                                           *)

\* What is read file by file while one content takes the place of another is some of each, which
\* may be any content.
Blend(before, after) == IF before = after THEN {after} ELSE Contents

\* Saving, deleting, committing or switching branches.  A scan that finds a file deleted which it
\* has discovered but not hashed yet has no fingerprint.
Edit(c) ==
  /\ c # tree
  /\ tree' = c
  /\ reading' \in IF reading = None THEN {None} ELSE Blend(reading, c)
  /\ \E fps \in [Scanners -> Contents \cup {None}] :
       /\ \A s \in Scanners :
            fps[s] \in IF scan[s].pc = "hashing" THEN Blend(scan[s].fp, c) \cup {None}
                      ELSE {scan[s].fp}
       /\ scan' = [s \in Scanners |-> [scan[s] EXCEPT !.fp = fps[s]]]
  /\ UNCHANGED <<index, registration, row, last, other, elected>>

\* Mutant: no default for pending_since's absence.
FreshRowBare(on) ==
  [enabled |-> on, submitted |-> None, observed |-> None, stable |-> FALSE, pending |-> None]

FreshRow(on) ==
  [enabled |-> on, submitted |-> None, observed |-> None, stable |-> FALSE, pending |-> "no"]

\* INSERT ... ON CONFLICT DO NOTHING
Ensured(on) == IF row = None THEN FreshRow(on) ELSE row

EnsureRow(on) == row' = Ensured(on)

\* A request without a preference asks for the default.
AddRepository(preference) ==
  /\ client = "absent"
  /\ client' = "added"
  /\ wish' = IF preference = None THEN DefaultEnabled ELSE preference
  /\ UNCHANGED <<repo, row, queue, scanning>>

EnsurePreference ==
  /\ client = "added"
  /\ client' = "done" /\ wish' = None
  /\ EnsureRow(wish)
  /\ UNCHANGED <<repo, queue, scanning>>

\* set_enabled, which makes sure of the row first.
Pause ==
  /\ client # "absent"
  /\ ~RowLocked
  /\ row' = [Ensured(FALSE) EXCEPT !.enabled = FALSE]
  /\ UNCHANGED <<repo, registration, queue, scanning>>

Resume ==
  /\ client # "absent"
  /\ ~RowLocked
  /\ LET known == Ensured(TRUE)
     IN  row' = IF known.enabled THEN known
                ELSE [known EXCEPT !.enabled = TRUE, !.submitted = None, !.pending = "young"]
  /\ UNCHANGED <<repo, registration, queue, scanning>>

\* One request at a time is outstanding: two of them are run one after the other anyway.
SubmitOther ==
  /\ client # "absent"
  /\ other = "none"
  /\ other' = "waiting"
  /\ UNCHANGED <<repo, registration, row, last, reading, scanning>>

\* The successor of the latest automatic job takes its place in last_job_id.
Resubmit ==
  /\ last \in {"completed", "failed"}
  /\ ~RowLocked
  /\ last' = "waiting"
  /\ UNCHANGED <<repo, registration, row, other, reading, scanning>>

CancelWaiting ==
  /\ \/ last = "waiting" /\ last' = "failed" /\ UNCHANGED other
     \/ other = "waiting" /\ other' = "none" /\ UNCHANGED last
  /\ UNCHANGED <<repo, registration, row, reading, scanning>>

-----------------------------------------------------------------------------
(* The jobs, as the watcher sees them                                      *)

ClaimJob ==
  /\ "running" \notin {last, other}
  /\ \/ last = "waiting" /\ last' = "running" /\ UNCHANGED other
     \/ other = "waiting" /\ other' = "running" /\ UNCHANGED last
  /\ reading' = tree
  /\ UNCHANGED <<repo, registration, row, scanning>>

Restart(left) ==
  /\ reading # None
  /\ index' = left
  /\ reading' = tree
  /\ UNCHANGED <<tree, registration, row, last, other, scanning>>

\* A retry, or a takeover after a lost lease: part of what was read may be in the index.
RestartPass == \E left \in Blend(index, reading) : Restart(left)

\* A pass takes files whose vectors an earlier one could not delete out of the index before it
\* puts back those that exist: the manifest is then not even a blend of old and new.
LeaveGap ==
  /\ reading # None
  /\ \E left \in Contents \ Blend(index, reading) : Restart(left)

CompletePass ==
  /\ reading # None
  /\ index' = reading
  /\ reading' = None
  /\ last' = IF last = "running" THEN "completed" ELSE last
  /\ other' = IF other = "running" THEN "none" ELSE other
  /\ UNCHANGED <<tree, registration, row, scanning>>

\* It fails, is cancelled or completes with errors.
FailPass ==
  /\ reading # None
  /\ index' \in Contents
  /\ reading' = None
  /\ last' = IF last = "running" THEN "failed" ELSE last
  /\ other' = IF other = "running" THEN "none" ELSE other
  /\ UNCHANGED <<tree, registration, row, scanning>>

-----------------------------------------------------------------------------
(* run_once                                                                *)

\* The lock, the repositories with their commits, ensure and the enabled set; then hashing.
Begin(s) ==
  /\ scan[s].pc = "idle"
  /\ elected = None
  /\ client # "absent"
  /\ EnsureRow(DefaultEnabled)
  /\ row'.enabled
  /\ elected' = s
  /\ scan' = [scan EXCEPT ![s] = [Idle EXCEPT !.pc = "hashing", !.fp = tree, !.idx = index]]
  /\ UNCHANGED <<repo, registration, queue>>

\* A pass that finds the repository paused has still made sure of the row.
BeginPaused(s) ==
  /\ scan[s].pc = "idle"
  /\ elected = None
  /\ client # "absent"
  /\ EnsureRow(DefaultEnabled)
  /\ ~row'.enabled
  /\ UNCHANGED <<repo, registration, queue, scanning>>

\* The manifest is read long after the commit, and a pass may be replacing it file by file.
IndexedSeen(commit) ==
  Blend(commit, index) \cup (IF reading = None THEN {} ELSE Blend(index, reading))

\* The manifest; then SELECT 1 on the elected session.
ReadManifest(s, idx) ==
  /\ scan[s].pc = "hashing" /\ scan[s].fp # None
  /\ elected = s
  /\ scan' = [scan EXCEPT ![s].pc = "checked", ![s].idx = idx]
  /\ UNCHANGED <<repo, registration, row, queue, elected>>

FinishHashing(s) == \E idx \in IndexedSeen(scan[s].idx) : ReadManifest(s, idx)

\* A scan meets such a gap.
SeeGap(s) ==
  /\ reading # None
  /\ \E idx \in Contents \ IndexedSeen(scan[s].idx) : ReadManifest(s, idx)

\* SELECT 1 fails: psycopg.Error ends the pass.
SessionLost(s) ==
  /\ scan[s].pc = "hashing"
  /\ elected # s
  /\ scan' = [scan EXCEPT ![s] = Idle]
  /\ UNCHANGED <<repo, registration, row, queue, elected>>

Release(s) == elected' = IF elected = s THEN None ELSE elected

\* record_error under the lock of the row; the scan goes on without observe, to other
\* repositories and its end.
SkipObserve(s) ==
  /\ scan[s].pc = "hashing"
  /\ ~RowLocked
  /\ scan' = [scan EXCEPT ![s] = Idle]
  /\ Release(s)
  /\ UNCHANGED <<repo, registration, row, queue>>

\* FileNotFoundError for a file that was there when it was discovered.
FileVanished(s) == scan[s].fp = None /\ SkipObserve(s)

\* git does not answer, the root is not allowed any more, a file or SQLite cannot be read.
ScanFails(s) == scan[s].fp # None /\ SkipObserve(s)

-----------------------------------------------------------------------------
(* observe, one transaction: the row is locked, its observation updated,   *)
(* the readiness read, the job inserted                                    *)

ObserveNothing(s) ==
  /\ scan[s].pc = "checked"
  /\ ~row.enabled
  /\ scan' = [scan EXCEPT ![s] = Idle]
  /\ Release(s)
  /\ UNCHANGED <<repo, registration, row, queue>>

\* Equal files give different digests when the two sides hash them in different orders.
Differs(idx, fp) == idx # fp \/ fp \in Misordered

\* Mutant: a completed job is taken to have indexed what it was submitted for.
SubmittedTrusting(idx, fp) == row.submitted

\* Mutant: any finished job is compared with the manifest, a failed one too.
SubmittedRetrying(idx, fp) ==
  IF Differs(idx, fp) /\ row.submitted = fp /\ ~Active THEN None ELSE row.submitted

\* Successful work is compared with the persisted manifest; unless that manifest holds the
\* content, it was not submitted.
Submitted(idx, fp) ==
  IF Differs(idx, fp) /\ row.submitted = fp /\ last = "completed" /\ ~Active
  THEN None ELSE row.submitted

\* Mutant: every observation of a pending change starts its wait anew.
PendingRestarted(submitted, fp) ==
  IF submitted = fp THEN "no" ELSE "young"

PendingSince(submitted, fp) ==
  IF submitted = fp THEN "no" ELSE IF row.pending = "no" THEN "young" ELSE row.pending

\* Mutant: the enabled set read when the pass began is relied on.
MarkPaused(s) ==
  /\ scan[s].pc = "checked"
  /\ ~RowLocked
  /\ LET fp == scan[s].fp
         submitted == Submitted(scan[s].idx, fp)
     IN  scan' = [scan EXCEPT
           ![s].pc = "marked", ![s].idx = None,
           ![s].draft = [enabled   |-> row.enabled,
                         submitted |-> submitted,
                         observed  |-> fp,
                         stable    |-> IF row.observed = fp THEN row.stable ELSE ~Debounce,
                         pending   |-> PendingSince(submitted, fp)]]
  /\ UNCHANGED <<repo, registration, row, queue, elected>>

Mark(s) ==
  /\ scan[s].pc = "checked"
  /\ row.enabled
  /\ ~RowLocked
  /\ LET fp == scan[s].fp
         submitted == Submitted(scan[s].idx, fp)
     IN  scan' = [scan EXCEPT
           ![s].pc = "marked", ![s].idx = None,
           ![s].draft = [enabled   |-> TRUE,
                         submitted |-> submitted,
                         observed  |-> fp,
                         stable    |-> IF row.observed = fp THEN row.stable ELSE ~Debounce,
                         pending   |-> PendingSince(submitted, fp)]]
  /\ UNCHANGED <<repo, registration, row, queue, elected>>

\* Mutant: a submission does not wait for active jobs.
ReadyAnyway(draft) ==
  /\ draft.observed # draft.submitted
  /\ draft.stable \/ draft.pending = "due"

Ready(draft) ==
  /\ draft.observed # draft.submitted
  /\ draft.stable \/ draft.pending = "due"
  /\ ~Active

NotReady(s) ==
  /\ scan[s].pc = "marked"
  /\ ~Ready(scan[s].draft)
  /\ row' = scan[s].draft
  /\ scan' = [scan EXCEPT ![s] = Idle]
  /\ Release(s)
  /\ UNCHANGED <<repo, registration, queue>>

FindReady(s) ==
  /\ scan[s].pc = "marked"
  /\ Ready(scan[s].draft)
  /\ Goto(s, "ready")
  /\ UNCHANGED <<repo, registration, row, queue, elected>>

\* The row lock does not keep the API from submitting a job since.
Submit(s) ==
  /\ scan[s].pc = "ready"
  /\ row' = [scan[s].draft EXCEPT !.submitted = scan[s].fp, !.pending = "no"]
  /\ last' = "waiting"
  /\ scan' = [scan EXCEPT ![s] = Idle]
  /\ Release(s)
  /\ UNCHANGED <<repo, registration, other, reading>>

-----------------------------------------------------------------------------
(* Time and failures                                                       *)

DebouncePasses ==
  /\ row # None /\ row.observed # None /\ ~RowLocked
  /\ row' = [row EXCEPT !.stable = TRUE]
  /\ UNCHANGED <<repo, registration, queue, scanning>>

MaxWaitPasses ==
  /\ row # None /\ row.pending = "young" /\ ~RowLocked
  /\ row' = [row EXCEPT !.pending = "due"]
  /\ UNCHANGED <<repo, registration, queue, scanning>>

\* PostgreSQL ends the session, and with it the advisory lock.
LoseElection ==
  /\ elected # None
  /\ elected' = None
  /\ UNCHANGED <<repo, registration, row, queue, scan>>

\* A crash, or a database error that ends the pass: an open transaction is rolled back.
Crash(s) ==
  /\ scan[s].pc \notin {"idle", "down"}
  /\ scan' = [scan EXCEPT ![s] = [Idle EXCEPT !.pc = "down"]]
  /\ Release(s)
  /\ UNCHANGED <<repo, registration, row, queue>>

Revive(s) ==
  /\ scan[s].pc = "down"
  /\ scan' = [scan EXCEPT ![s] = Idle]
  /\ UNCHANGED <<repo, registration, row, queue, elected>>

-----------------------------------------------------------------------------

User ==
  \/ \E c \in Contents : Edit(c)
  \/ \E preference \in BOOLEAN \cup {None} : AddRepository(preference)
  \/ Pause \/ Resume \/ SubmitOther \/ Resubmit \/ CancelWaiting

Job == ClaimJob \/ CompletePass \/ FailPass

Scan(s) ==
  \/ Begin(s) \/ FinishHashing(s) \/ FileVanished(s) \/ SessionLost(s) \/ ObserveNothing(s)
  \/ Mark(s) \/ NotReady(s) \/ FindReady(s) \/ Submit(s) \/ Revive(s)

Next ==
  \/ User \/ EnsurePreference
  \/ Job \/ RestartPass \/ LeaveGap
  \/ \E s \in Scanners : Scan(s) \/ SeeGap(s) \/ ScanFails(s) \/ BeginPaused(s) \/ Crash(s)
  \/ DebouncePasses \/ MaxWaitPasses \/ LoseElection

Spec == Init /\ [][Next]_vars

\* Workers work, scanners poll and are restarted, and time passes, a row lock being held for
\* less than either wait; users, the API and failures promise nothing.
Fairness ==
  /\ WF_vars(ClaimJob) /\ WF_vars(CompletePass \/ FailPass)
  /\ \A s \in Scanners : WF_vars(Scan(s))
  /\ SF_vars(DebouncePasses) /\ SF_vars(MaxWaitPasses)

FairSpec == Spec /\ Fairness
-----------------------------------------------------------------------------
(* Properties                                                              *)

Automatic == row # None /\ row.enabled

\* What list tells of an enabled watch whose scanner is online and whose last scan met no error.
State ==
  CASE last \in {"waiting", "running"}   -> last
    [] row.observed # row.submitted      -> "pending_changes"
    [] last = "failed"                   -> "needs_attention"
    [] OTHER                             -> "watching"

Failure == LoseElection \/ \E s \in Scanners : Crash(s)

Gap == LeaveGap \/ \E s \in Scanners : SeeGap(s)

\* Scans that begin again and again do not all fail, by edits or otherwise.
ScansSucceed ==
  \A s \in Scanners :
    []<>(scan[s].pc = "hashing") => []<>(scan[s].pc = "checked")

\* From some point on nobody edits or asks for anything, the scanner stays up, and passes have
\* no deletions to make good (Indexer!SteadyIndex).
Calm == <>[][~User /\ ~Failure /\ ~Gap]_vars /\ ScansSucceed

\* From some point on the watcher stays up and has the jobs to itself; edits may go on.
Undisturbed == <>[][~SubmitOther /\ ~Resubmit /\ ~CancelWaiting /\ ~Failure]_vars

\* Edits are never lost: whatever was changed, reverted, paused, resubmitted, half indexed or
\* observed late before, the index comes to describe the tree; and where it does not, because
\* the job for this very content did not complete, the dashboard says so.
IndexCatchesUp ==
  Calm => <>[](Automatic => \/ State = "watching" /\ index = tree
                            \/ State = "needs_attention" /\ row.submitted = tree)

\* A failed, cancelled or partially failed job is not recreated forever for unchanged content,
\* and neither is a completed one: once the edits stop, the submissions do.
SubmissionsCease == Calm => <>[]~Active

\* Edits that go on forever cannot postpone a pending change forever, as long as some scans
\* succeed between them: it is submitted, or is none any more, or updates are paused.
PendingIsSubmitted ==
  Undisturbed /\ ScansSucceed =>
    (Automatic /\ row.pending # "no" ~> ~Automatic \/ row.pending = "no")

\* Pausing stops future automatic submissions, also of the scan that is under way.
PauseHolds == [][\A s \in Scanners : Submit(s) => row.enabled]_vars

\* No automatic job is submitted while the previous one waits or runs: changes made meanwhile
\* are coalesced into one follow-up job, however many scanners believe to be elected and
\* whenever the previous one is resubmitted.
OneAutomaticJob ==
  [][\A s \in Scanners : Submit(s) => last \notin {"waiting", "running"}]_vars
=============================================================================
