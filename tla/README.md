# RepoMesh in TLA+

RepoMesh indexes local Git repositories for code search. An HTTP API accepts index requests,
a watcher detects edits and submits jobs by itself, worker processes execute the jobs, and
searches read the result. All authority over jobs is in PostgreSQL
(`src/repomesh/coordination/`); the index itself is a SQLite database and a vector store
(Qdrant or SQLite), which take no part in PostgreSQL transactions. These modules specify the
coordination of jobs, the worker processes, the indexing passes over the two stores, the
watcher and the chunker, check them with TLC and prove the central invariants with TLAPS.
Paths below are relative to the repository.

## Inventory

| Component | State | Operations | Correct when |
|---|---|---|---|
| Job coordination, `coordination/repository.py` and `migrations/` | tables `jobs`, `repository_execution`, `job_attempts`, `workers`; row lock of an open `mutation_guard` | submit, resubmit, import, cancel; register, heartbeat, stop; claim with clean-up; renew, guard, finish (complete, cancel, fail, retry) | one running job per repository, fencing of superseded workers, bounded attempts, final outcomes, a history that explains them, no job forgotten |
| Worker, `worker.py` | program counter, the claimed `Job`, events `lost` and `cancel`, heartbeat thread, registry session | `register`, `run_once`, `execute` with `check`, `mutation`, `progress`, `heartbeat`, `run`, `close` | writes to the stores only as owner, stops soon after it ceased to be, always lets go |
| Job facade, `jobs.py` | none | `submit`, `cancel`, `wait` | forwards |
| Indexer, `indexing.py` with `db.py` and `providers.py` | `files`, `chunks`, `vector_synced`, `pending_vector_deletions`, vectors by file | delete pass, file pass with hash, read, chunk, embed, replace; repository status | after a clean pass both stores hold the chunks of the current files and nothing else, after any crash a later pass gets there |
| Watcher, `watcher.py`, `coordination/watches.py` | `repository_watches`, advisory lock | `ensure`, `set_enabled`, `observe`, `record_error`, scan | every lasting edit leads to a job, at most one active watch job, paused means no submission, a failed job is not resubmitted for the same content |
| Registration, `api.py` | `repositories`, `repository_watches` | `add_repository` | one repository per root, the caller's `auto_index` is kept |
| Retrieval, `retrieval.py` | none | lexical, dense, hybrid search | hits exist and belong to the repository; fusion respects the rankings |
| Chunker, `chunking.py` | none | symbol and line windows, chunk ids | every line of a symbol, or of a file without symbols, is covered; ids are unique within a file |
| Discovery, answers, dashboard, CLI, metrics, configuration | none that others rely on | | |

How they interact. API and watcher insert jobs; workers poll `claim_job`, hold a claim by a
lease with a *generation*, renew it from a heartbeat thread, and pass every write to SQLite
or the vector store through `mutation_guard`, a PostgreSQL transaction that locks the
repository's row in `repository_execution`. Claims skip a locked row, inserts of jobs and
finishes wait for it. Workers share nothing with each other but the database. The watcher
reads the SQLite manifest that workers write.

What is hard. Two or more processes at every step; a process paused anywhere, including
inside its guard; leases that expire under a live worker; calls that commit without being
heard of; cancellations that race with completions; a second thread in every worker; worker
ids used twice; a clean-up that is bounded per poll; imported rows with other budgets. Each
is a hazard in `PROJECT.json` at its line, with the properties that watch it.

## Modules

| Module | What it is |
|---|---|
| `Coordination` | The PostgreSQL side. One action per transaction of `CoordinationRepository`. |
| `JobLifecycle` | The abstract life of a job: absent, waiting, running, done. `Coordination` refines it. |
| `Worker` | Worker processes with two threads each, extending `Coordination`. |
| `Indexer` | One repository: work tree, SQLite rows, vectors, and the passes between them. |
| `Watcher` | One watched repository: its row, the scanners, registration, and its jobs as the watcher sees them. |
| `Chunking` | How one file is cut into chunks: symbols, and windows that overlap. |
| `CoordinationProofs`, `WorkerProofs`, `JobLifecycleProofs`, `IndexerProofs`, `WatcherProofs`, `ChunkingProofs` | Theorems about these modules, checked by TLAPS. |
| `HistoryProofs` | Theorems about what happens to one job of `Coordination` over time, and to the counters of the workers. |
| `RefinementProofs` | `Coordination` implements `JobLifecycle`. |
| `MCCoordination`, `MCWorker`, `MCChunking` | Symmetry sets and small constants for TLC. |

### Coordination

`jobs[j]` is the row of job `j` (`NoRow` for an id not used yet), `active[r]` is
`repository_execution.active_job_id`, `attempts[j]` the sequence of `job_attempts` rows by
lease generation, `workers[w]` the registry row, and `guard[r]` the handle that holds the row
lock of an open `mutation_guard`.

A committed transaction is one action. PostgreSQL runs them at READ COMMITTED, and each of
them locks the job row it changes before it tests it, so nothing another transaction does
falls between. The two places where a lock is waited for or passed over are kept: an insert
into `jobs` takes a key-share lock on the `repository_execution` row its foreign key names
and waits for an open guard, `_finish` waits for it too, and `claim_job` passes over it
(`FOR UPDATE OF j,r SKIP LOCKED`). `mutation_guard` is the only transaction that lasts:
`EnterGuard` takes the lock and checks ownership, `ExitGuard` is its commit, rollback or lost
connection, and everything else may happen in between.

`claim_job` walks over up to 32 rows in one transaction. `ClaimJob(w, C, j)` and
`ClaimNothing(w, C)` are its two outcomes, where `C` is the set of rows given up on the way
(cancelled, or out of attempts). The order of the walk (priority, then age) is left open,
because `SKIP LOCKED` passes over whatever is locked at that moment: any selectable row may
come next. That is also why "nothing to do" is possible while a job could run.

A *handle* `<<j, g>>` stands for the `Job` object a claim returned. `HandleUse` lets any
handle ever issued be used at any time, which is every interleaving of live, paused and
superseded workers. Time is three booleans that only its passing changes: a lease has
expired (`LeaseExpires`), a retry delay is over (`RetryFallsDue`), a registry row is older
than `worker_offline_seconds` (`WorkerFallsSilent`). A clock comparison and the update it
guards are one step.

Left out: progress counters and `job_file_errors` (data nobody decides on; their updates are
accepted or refused exactly as `OWNED` says), error texts, display timestamps, priorities,
the full or incremental mode, the read-only queries and `migrate`. The `trigger` column is
left out, so a job the watcher inserts is a `SubmitJob` without a key. A repeated key or a
second resubmission changes nothing in the code and is a disabled action here.

### Worker

Each process has a main thread (`pc`) and a heartbeat thread (`beat`). Every step is at most
one PostgreSQL transaction, so a pause between any two calls is an ordinary behaviour. The
events `lost` and `cancel` of `execute` are `lost` and `told`. Between two mutations the main
thread is at `work`; `EnterMutation` passes `check` and the guard, `Boundary` is the check in
front of one write to SQLite or the vector store, `StoreWrite` that write. The check and the
write are two steps because they are two calls. A psycopg error may mean that the call took
effect: `TakeJobUnheard` and `CompleteUnheard` are claims and completions that committed
without an answer. `Crash` ends a process anywhere and rolls its guard back. `SessionDrops`
(switched by a constant) ends the guard's session under a process that lives on: the case
`docs/DISTRIBUTED_DESIGN.md` limits its promise for. `late` counts writes made after a check
would have refused them.

`session[w]` is the process that registered `w` last. `OfflineAfterLease` says how the
settings relate: a lease is renewed at most one lease time after the last registry heartbeat,
so with `worker_offline_seconds` at twice `job_lease_seconds` (the defaults, 60 and 30) a
silent worker's lease has expired before its id can be registered again.

### JobLifecycle

No lease, worker or lock: jobs are accepted with a budget, at most one per repository runs,
each start uses up budget, a doomed (cancelled) job is not started, done is final. Under the
mapping in `Coordination` (`phase` from `status`, `left` from `max - attempt`, `doomed` from
`cancel`) one claim may settle several jobs and dispatch one in a single step, which is why
`Dispatch` takes a set.

### Indexer

The tree, the `files` rows with their chunks (`rows`; every transaction of `db.py` changes the
two together), `pending_vector_deletions` (`pending`) and the vectors by path. A content of a
file stands for its bytes, its hash, its chunks and its vectors: what matters is which content
each store was last made from. `RepositoryIndexer.index` is cut at every access to the tree
or a store: reading the manifest (`StartPass`), deleting rows with a tombstone, sweeping
vectors, dropping the tombstone (`DeleteRows`, `SweepVectors`, `FinishDeletion`); hashing or
skipping a file (`Hash`, `Skip`), reading it again (`Read`), marking its row, clearing and
writing its vectors, replacing its rows, dropping a tombstone left from before (`MarkDirty`,
`ClearVectors`, `Upsert`, `Replace`, `Settle`). The manifest is the copy read at the start, as
in the code, because the deletion loop changes rows behind it.

Each failure the code handles has its action. An unavailable vector store has done what was
asked or has not (`SweepUnavailable`, `VectorsUnavailable`); a file error is a failing read,
chunker, embedder or SQLite transaction (`FileFails`, `DeletionFails`) and the pass goes on;
lost leases, cancellations, failing progress reports and crashes end it (`Interrupt`). `Edit`
changes the tree at any time. `deferred` and `edited` are history: what disturbed this pass.

One pass at a time writes: that is `NoStaleWriter` of `Worker`. The one late write
`OneLateWrite` allows a process whose PostgreSQL session was cut is not in `Indexer`, nor is a
vector operation that Qdrant carries out after the process that sent it has died;
`docs/DISTRIBUTED_DESIGN.md:102-107` excludes both from its promises. Commit ids and the
status of the repository, counts and progress are left out. The order of paths is left open.

### Watcher

One repository; the watch rows of different repositories have nothing in common but the
election. A content of the working tree, its commit included, stands for its fingerprint too,
and `index` for what the SQLite manifest and `repositories.commit_sha` describe. The scan of
`run_once` is cut where it touches something others change: the lock, the commit and the
enabled set (`Begin`), the tree while it hashes, the manifest (`FinishHashing`, which ends
with the `SELECT 1` on the elected session), and `observe`. Hashing takes time: an `Edit`
during it leaves any fingerprint, since some files were read before and some after
(`Blend`), or none: a file deleted between its discovery and its hashing raises, `run_once`
records the error and skips `observe` (`FileVanished`; `fp` is `None` until then). `ScanFails` is
the same end for any other reason: git, SQLite, a root that is not allowed any more. The manifest is read while a pass may be replacing it file by file, and later than
the commit, so that it too may be anything (`IndexedSeen`).

`observe` is one transaction under the lock of the watch row, but it reads `jobs`, which that
lock does not protect. It is three steps: the update of the observation (`Mark`, into a
draft that nobody else sees), the test for readiness (`FindReady` or `NotReady`), the insert
(`Submit`). `RowLocked` makes `Pause`, `Resume` and `Resubmit` wait, all of which update
that row; a manual submission, a cancellation and the steps of workers go on in between.
Losing the session (`LoseElection`) takes the advisory lock from a scanner that goes on, so
two scanners may be inside `observe` calls at once, up to the row lock.

`last` is the job in `last_job_id`, `other` any other unfinished job of the repository.
Workers claim one at a time and read the tree as they go. A pass that starts over (`RestartPass`)
has left in the index part of what it read. Part of old and part of new is not all that can be
there, though: `index` first deletes the rows of files whose vectors an earlier pass could not
delete, even if those files are back, and puts them in again later (`indexing.py:77-88`). The
manifest then lacks files that neither version lacks. `LeaveGap` is a pass that starts over from
there and `SeeGap(s)` a scan that reads it, actions of their own because `Calm` below is about
them; a pass that ends without completing may leave anything (`FailPass`). Which worker, lease and attempt it is belongs to
`Coordination` and `Worker`. Time is in three facts of the row: the observation is older than
`watch_debounce_seconds` (`stable`), the change has been pending for less or more than
`watch_max_wait_seconds` (`pending`). `Debounce` FALSE stands for a debounce of zero.

Registration is two writes: the SQLite row (`AddRepository`), then the preference
(`EnsurePreference`), and a scan in between may create the watch row with the default.
Pausing and resuming are possible as soon as the SQLite row exists, and make sure of the watch
row themselves. A repository is registered once in the model. `Misordered` names the contents for which
watcher and manifest hash their files in different orders (see the findings). Of
`record_error`, the text it stores, the state `scan_error` that shows it and the time of the last
check are left out; that it waits for the row lock and that `observe` does not follow are not.

### Chunking

`CodeChunker.chunk` step by step: the symbols of a file in order, or the whole file
(`Fallback`); one chunk for a symbol that fits (`TakeSymbol`); one turn of the window loop per
`Window`. A file is its number of lines, a symbol its first and last line. Which symbols
tree-sitter finds is any sequence that nodes of a tree can give (`Tree`): nested, apart,
meeting on a line, or sharing one. The settings are any integers, as in `config.py`, which
does not validate them.

## Runs

| Run | Instance | What it shows |
|---|---|---|
| `coordination` | 2 jobs, 1 repository, 2 workers, budget 2, limit 32; symmetric in jobs and workers | all safety properties of `Coordination` and its refinement of `JobLifecycle` |
| `coordination_liveness` | 2 jobs, 1 repository, 1 worker, 1 key, legacy attempts 2, clean-up limit 1, no symmetry | `BudgetRespected` for imported rows; `EveryJobSettles`, `CancelIsHonoured` under `Fairness` |
| `worker` | 1 job, 2 processes with ids of their own, budget 2 | every step of a worker is a step of `Coordination` (`Spec` as a property); `NoStaleWriter` |
| `worker_shared_id` | 1 job, 2 processes with one id, sessions may drop | `OneLateWrite`, `OldProcessFenced`, and `LostWorkerLetsGo` under `WorkerFairness` |
| `worker_short_offline` | as above, `OfflineAfterLease` FALSE, no drops | `OldProcessFenced` fails: see the findings below |
| `indexer` | 1 path, absent or with one of 3 contents | `SyncedMeansSynced`, `NothingForgotten`, `QuietPassIndexes`, `QuietPassSyncs`, `FullPassRepairs`, `SteadyIndex`, and `Converges` under `FairSpec` |
| `indexer_reverted_edit` | 1 path, 2 contents | `QuietPassRepairs` fails: see the findings |
| `indexer_stray` | 1 path, 1 content | `QuietPassSweeps` fails: see the findings |
| `watch` | 2 contents, 1 scanner, debounce and automatic updates on | `PauseHolds`, `OneAutomaticJob`, and `IndexCatchesUp`, `SubmissionsCease`, `PendingIsSubmitted` under `Fairness` |
| `watch_resubmits_forever` | as above, one content in `Misordered` | `SubmissionsCease` fails: see the findings |
| `chunking` | up to 7 lines and 2 symbols, 10 settings, with windows longer than, as long as and shorter than a symbol, empty windows, no overlap, full overlap and gaps | `EveryLineKept`, `WindowsAdvance`, `NeighboursOverlap`, `ChunksFit`, and `ChunkingEnds` |
| `chunk_ids` | up to 7 lines and 2 symbols, one ordinary setting | `DistinctIds` fails: see the findings |

Every module but `Worker` also has a type invariant in its run (`TypeOK`, `IndexerTypeOK`,
`WatcherTypeOK`, `ChunkTypeOK`); that of `Worker` is `WorkerTypeOK`.

Bounds. There is no artificial bound in the actions: attempts end because budgets end, and ids
end because `Jobs` is finite. Two jobs are what it takes for one to wait for, overtake or be
reclaimed beside another in a repository, and for one claim to give up one job and start the
other; two workers or processes are a superseded one and its successor; a budget of 2 is the
smallest with both a retry (or a reclaim) and an exhausted budget. A legacy job with two
attempts is at the configured budget. The worker runs have one job: what they ask is between
processes of one job, and what happens between jobs is asked of `Coordination`, which they
refine. In `Indexer` nothing is counted and passes, edits and failures are unlimited; three
contents tell the manifest, the chunks and the tree apart. What happens between paths (one
fails, the next goes on; the deletion loop and the file loop handle the same path) is covered,
for any number of them, by the theorems below. In `Watcher`
two contents are an edit and its reversal; the theorems cover any number of scanners, and one
scanner that may lose its election, fail, crash and start again at every step is what the
liveness properties are about. With one scanner the run says nothing of `OneAutomaticJob`'s
clause about several that believe to be elected; the theorem does. In `Chunking`, `MaxLines` and `MaxSymbols` bound the file: seven
lines are three windows of the longest window with overlap, two symbols meet, nest and share
lines. Chunking ends, hence its `CHECK_DEADLOCK FALSE`. The runs with violations stop at the
first counterexample.

Mutants. Next to the definitions they change, the modules hold operators marked `Mutant`:
the plausible bug each property is there to find (a dropped reservation test, a lease
comparison left out, a join that waits for a thread that has returned). They are used by no
specification.

## Fairness

`Coordination!Fairness` assumes weakly that retry delays pass, that guards end
(transactions end, dead sessions are closed), that a stopped or silent worker is restarted,
and that an attempt ends: its worker reports or its lease expires. The last one is an
assumption about indexing, not a guarantee of the code: the heartbeat thread renews the lease
of a main thread that hangs. Claiming is assumed strongly, because a worker may stop or fall
silent and be restarted again and again, and what is assumed is that its polls do not miss a
runnable row for ever. `run` polls in a loop (`worker.py:173-181`) and `SKIP LOCKED` misses a
row only while someone else holds it.

`WorkerFairness` says that both threads of a process go on: every call they make returns or
fails, by `statement_timeout` and the timeouts of the providers.

`FairSpec` of `Indexer` says that a pass which is not broken off goes on and that somebody asks
for another one. The second half is an assumption about use: the watcher asks for a pass when
hashes differ, retries and users ask for others, but nothing in the code asks for one because
vector writes were put off.

`Fairness` of `Watcher`: a waiting job is claimed and a pass ends (as above), a scanner that is up polls
(`watcher.py:98-103`) and a crashed one is restarted, all weakly. The two clocks are assumed
strongly, since the time that passes while a row lock is held also counts, but the model's
clock facts change only between transactions. Users, the API and failures promise nothing:
`IndexCatchesUp` and `SubmissionsCease` assume that at some point the user rests and the
scanner stays up, that not all of its scans fail (`ScansSucceed`), and that passes come to have no deletions of present files to make good
(`Calm`), and nothing else about what came before. The last of these is where `Watcher` relies
on `Indexer`: while no such deletion is outstanding, a manifest that describes the tree goes on
describing it at every step of every pass (`SteadyIndex`), any other goes from old to new one
file and one transaction at a time (`Blend`), and a pass without errors whose vector calls
succeed leaves none outstanding (`QuietPassSyncs`). Without the assumption, a
vector store that stays down and a scan that meets the gap of every pass could submit a job
each time. `PendingIsSubmitted` lets
the edits go on for ever and assumes only that nobody else keeps the queue of the repository
occupied, that the scanner stays up (`Undisturbed`), and `ScansSucceed`. The code does not guarantee
`ScansSucceed`: a deletion at the wrong moment fails a scan, and edits may delete for ever. It is
an assumption about the edits (some scan finds a moment without one), and without it the property
is false: `repository_fingerprint` opens the files that `discover_files` listed
(`watcher.py:28-30`), and if one was deleted in between, FileNotFoundError ends the scan of the
repository before `observe` (`watcher.py:84-86`), the only place that looks at the maximum wait.
Edits that go on creating and deleting files (a build in the tree, say) can so postpone a pending
change for ever, against "Continuous edits cannot postpone forever"
(`tests/test_watch_and_operations.py:100`); the dashboard shows `scan_error` meanwhile. Other
failures may happen again and again. `IndexCatchesUp` has two outcomes, as documented: the index
describes the tree, or the job for this very content did not complete, is not recreated, and
the dashboard says `needs_attention`.

`FairSpec` of `Chunking` says that the function goes on.

## Proofs

`CoordinationProofs` proves, for all `Jobs`, `Repos`, `Workers`, `Keys`, budgets and limits
that satisfy the assumptions of `Coordination` (`None` is not a member of the other sets; the
numbers are positive), that `Spec` implies always

- `TypeOK` (`TypeCorrect`),
- `ReservationMatchesRunning` (`ReservationHolds`),
- `GuardHolderOwns` (`GuardFences`),
- `BudgetRespected` (`BudgetHolds`).

The inductive invariant is `CoordinationInv` (`Coordinated`). None of its parts is inductive
alone. `GuardHolderOwns` needs `ReservationMatchesRunning`: a guard is entered because
`active` names the job, and it stays valid because a claim or finish that could change the
running job finds the row locked. The reservation needs `TypeOK` and that a row with an id
names a repository. `BudgetRespected` needs `HandlesMatchRows`: `schedule_retry` compares the
attempt number its *handle* carries, and that this is the number in the row it owns follows
from generations counting attempt rows. The proof has one lemma per transaction; the two
claims share lemmas about the rows given up on the way.

`HistoryProofs` proves what `Coordination` promises about a single job: `HistoryExplainsStatus`
(`HistoryHolds`), `ReclaimedAfterExpiry` (`ReclaimedHolds`), `TerminalIsFinal`
(`FinishedForGood`), `LeaseStaysExpired` (`ExpiredForGood`) and `CancelWins`
(`CancellationWins`), and `CountersBacked` (`CountersHold`). A transaction may change several jobs (a claim gives some up and starts
another), but it does one of six things to each: nothing, inserts it, asks it to stop, closes its
attempt, starts it, or lets time pass for it (`Fate`, with one lemma per kind of transaction in
`StepFate`). The invariant `HistoryInv` (`Recorded`) adds to `CoordinationInv` that exactly
running jobs have a lease and that no absent one is cancelled (`Leased`), without which an
expiring lease could touch a finished row. The action properties follow from `Fate` under that invariant. `CountersBacked` is stronger than
it looks: a registry row does not know which attempts it has counted, so the
proof shows that whatever raises a counter by one also ends an attempt of that worker that
was open before, and that an attempt which has ended is never rewritten. Its invariant is
`CountersInv`, on top of `HistoryInv`.

`WorkerProofs` proves, for any number of processes, of ids they share or do not, of jobs and
repositories,

- `WorkerSpec => Spec` (`WorkersUseCoordination`): every step of a process, with its crashes,
  unheard answers and dropped sessions, is one transaction of `Coordination` or none. All
  theorems about `Coordination` therefore hold of the workers, and those two proof modules
  lend `WorkerProofs` their invariants;
- `WorkerTypeOK` (`WorkerTypesHold`);
- `NoStaleWriter` (`NoStaleWriters`) and, from it, that no two processes are ever inside
  mutations of one repository (`WritersAreAlone`), under the hypothesis `~SessionsDrop`:
  PostgreSQL ends no session whose process lives on. With drops both are false, and that is
  the case `docs/DISTRIBUTED_DESIGN.md` limits its promise for;
- `OneLateWrite` (`OneLateWriteHolds`), drops or not;
- `OldProcessFenced` (`OldProcessesAreFenced`), under the hypothesis `OfflineAfterLease`, which
  the default settings satisfy. Without it the run `worker_short_offline` refutes it.

The inductive invariant `WorkerInv` (`WorkersCoordinated`) adds to `HistoryInv` and the types:
a process has a handle exactly while it executes (`HandleWhileExecuting`); its handle names an
attempt row of its own worker id (`HandlesNameAttempts`), and no other process has the same
(`HandlesDiffer`), because a claim that is heard opens a new generation; a process inside
its mutation still has its guard (`GuardsKept`, the conjunct that needs `~SessionsDrop`);
a process that has written late is stopped by its next check (`LateWritersAreFenced`). That
last one is inductive because ownership, once lost, does not come back to a handle, and a
cancellation is not withdrawn (`FenceKept`). For the fence of old processes it adds that a silent
worker id has no live lease (`SilenceEndsLeases`) and that whoever owns a job has the session of its
id (`OwnersHaveSessions`). TLC has checked `WorkerInv` on the instances of all three worker runs.

`IndexerProofs` proves, for all sets of paths and contents (of which `None` is no member, nor a
row), that the `Spec` of `Indexer` implies `IndexerTypeOK`, `SyncedMeansSynced`,
`NothingForgotten`, `QuietPassIndexes`, `QuietPassSyncs`, `FullPassRepairs` and `SteadyIndex`: every safety
property that the run `indexer` checks. The inductive invariant `IInv`
(`Indexing`) says where the pass stands, that the manifest is still current for every path not
yet handled and not deleted (`Snapshot`, why the skip test must exclude deleted paths), how the
stores may lag each other inside one file (`StoreOrder`: while vectors are being written the
row is absent or marked), and what holds of the paths already handled as long as nothing
disturbed the pass (`SyncProgress`, `IndexProgress`). At the end of a pass no path is left to
handle, which gives the three properties of undisturbed passes. `SteadyIndex`, which holds also in
passes with errors, takes a further invariant, `Steady`: of a tree nobody edits, a path still
to be deleted exists only if its deletion was put off earlier, and the digest in hand is the
file's. The proof has one lemma per
action. TLC has checked `IInv` for two paths, one of them with two contents.

`RefinementProofs` proves that `Coordination` implements `JobLifecycle` (`ImplementsLifecycle`:
`Spec => LifecycleSpec`). One lemma per transaction names the abstract step: a submission or
import is an `Accept`, a claim a `Dispatch` or a `Settle` with the set of jobs it gives up, a
finish a `Settle` or `PutBack`, and renewals, guards, registry calls and time are stutters. The
steps need `CoordinationInv`: that a claim finds no other job running in the repository it
takes is `ReservationMatchesRunning`, that a retry has budget left is `HandlesMatchRows`.
`JobLifecycleProofs` proves what the abstract specification promises (`RunsAreExclusive`,
`WaitingJobsCanStart`, `JobsEnd`), which `Coordination` inherits.

`WatcherProofs` proves `WatcherTypeOK`, `PauseHolds` and `OneAutomaticJob` for any number of
scanners and contents. The invariant `WInv` says that one transaction at a time has the row
(`OneLocker`) and what stays true while it does (`LockHolds`): the watch stays enabled and,
once the test for readiness has passed, the last automatic job stays finished, because
resubmitting it would have to update the same row.

`ChunkingProofs` proves `ChunkTypeOK`, `EveryLineKept`, `WindowsAdvance`, `NeighboursOverlap`
and `ChunksFit` for files of any length with any number of symbols and all settings. The invariant
`CInv` is that of the loop: where the next window begins relative to the last one (`Latest`),
that no window before the last reaches the end of its piece (`Behind`), and that every line before
the next window is covered (`CoveredSoFar`).

Every invariant and every action property of the passing runs is a theorem. Only model-checked
is liveness (`EveryJobSettles`, `CancelIsHonoured`, `LostWorkerLetsGo`, `Converges`,
`IndexCatchesUp`, `SubmissionsCease`, `PendingIsSubmitted`, `ChunkingEnds`): fairness is about
ENABLED, which is out of the prover's reach. `IndexCatchesUp` and `SubmissionsCease` hold for
two contents and one scanner as checked, and no theorem extends them.

## Findings

`worker_short_offline`. `docs/DISTRIBUTED_DESIGN.md:72-74` says that registry session tokens
fence old processes after the reuse of a worker id. No update of a job looks at a session:
`OWNED` compares id, worker id, generation, status and expiry. What fences the old process is
its expired lease, and that only if `worker_offline_seconds` is long enough, which
`config.py:60-61` does not ask for. With a shorter value the id passes to a new process while
the old one still owns, and finishes, its job. Writes stay exclusive even then
(the generation and the guard do not depend on the id); what breaks is the documented fence.

`indexer_reverted_edit`. `index` hashes a file (`indexing.py:111`) and opens it again for its
content (line 124). An edit in between that is later reverted leaves chunks of the edit under
the hash of the original. Incremental passes skip the file, and the watcher, which compares
hashes, sees nothing to do, although `docs/WATCH_OPERATIONS.md:53-55` says that it "repairs an
edit that a worker read and that was reverted before the next scan". `QuietPassIndexes` is
what holds (the manifest has the right hash) and `FullPassRepairs` what helps.

`indexer_stray`. Vectors of a new file are written (line 151) before its row (line 159), and
`mark_vector_dirty` marks only rows that exist. A pass that ends in between, or a SQLite
error, leaves vectors nothing leads to; if the file is indexed again they are replaced, if it
is deleted first they stay, against `README.md:62` ("Remove deleted-file chunks from both
stores."). `NothingForgotten` shows that this window is the only one. Searches drop such hits,
since they read the rows of their hits from SQLite.

`watch_resubmits_forever`. Watcher and manifest are compared by digests over their files in
order. `repository_fingerprint` takes `discover_files`' order, `sorted` over `Path` objects
(`repositories.py:181`), which compare part by part; `run_once` sorts path strings
(`watcher.py:73`). With `app/x.py` and `app.py` in one tree the first order is `app/x.py`,
`app.py` and the second `app.py`, `app/x.py`. The digests then differ for equal contents, and
after each completed automatic job `observe` takes the submitted fingerprint back
(`watches.py:93-102`) and submits another job. `docs/WATCH_OPERATIONS.md:46-47` says that not
even a failed job "is recreated forever for unchanged content". With orders that agree,
`SubmissionsCease` holds (run `watch`).

`chunk_ids`. A chunk's id is made of repository, path, line range and the hash of those lines
(`chunking.py:314`). Every symbol becomes a chunk, nested ones too, so a class and its method on
one line have the same id, `chunks.id` is UNIQUE (`db.py:36`), and `replace_file_chunks` fails
for that file in every pass. `README.md:62` promises "no duplicate chunk IDs". Windows of one
piece never clash (`WindowsAdvance`).

## Not modelled, and the plan

Not modelled: retrieval and rank fusion (pure ranking over what two stores return, without
state; that a file may be replaced between ranking and reading its rows is noted in the
hazards), parsing, embedding and generation (external), path validation and ignore rules
(sequential input handling), answers, dashboard, CLI output, metrics, configuration and wiring
(presentation), and the race between registration and a scan as a property: `Watcher` has its
steps, but no line of the repository promises which preference wins.

To come: theorems about the safety part of the liveness arguments, for any constants. That a
waiting job whose repository is free is selectable, that a lost or cancelled process has a
step that lets go, and that a content which was submitted and completed is either indexed or
differs from the manifest. The jobs that `Watcher` sees are not a refinement of `JobLifecycle`:
its variables are the slot `last_job_id` and one slot for the others, which are used again
for the next job, while a job of `JobLifecycle` is done for good. What `Watcher` takes from
`Indexer` is stated there as `QuietPassIndexes` and `SteadyIndex`, not as a refinement: its
`index` is what the manifest describes, at the level of contents of the whole tree.
