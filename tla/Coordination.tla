---------------------------- MODULE Coordination ----------------------------
(***************************************************************************)
(* The PostgreSQL side of RepoMesh: durable jobs, leases with a fencing    *)
(* generation, the reservation of a repository by one running job, the     *)
(* mutation guard and the worker registry                                  *)
(* (src/repomesh/coordination/repository.py and its migrations).           *)
(*                                                                         *)
(* One action is one committed transaction of CoordinationRepository.  The *)
(* exception is mutation_guard, whose transaction stays open while a       *)
(* worker writes to the index: it is EnterGuard followed later by          *)
(* ExitGuard, and guard[r] is the row lock it holds in between.            *)
(*                                                                         *)
(* Time is three facts that only its passing makes true: a lease has       *)
(* expired, a retry's delay is over, a registry row is older than          *)
(* worker_offline_seconds.                                                 *)
(*                                                                         *)
(* A handle <<j, g>> is the Job value a claim returned (job and lease      *)
(* generation; the worker and the attempt are those of that job_attempts   *)
(* row).  Any handle ever issued may be used at any time: this is every    *)
(* interleaving of live, paused and superseded processes.                  *)
(***************************************************************************)
EXTENDS Integers, FiniteSets, Sequences

CONSTANTS
  Jobs,            \* job ids (uuid4: a new row always takes an unused one)
  Repos,           \* repository ids
  Workers,         \* worker ids
  Keys,            \* idempotency keys
  None,            \* NULL
  MaxRetries,      \* settings.job_max_retries
  CleanupLimit,    \* rows one claim_job may look at: range(32)
  LegacyAttempts   \* attempt numbers found in imported pre-distributed jobs

ASSUME NoneAssumption ==
  None \notin Jobs \cup Workers \cup Keys \cup Repos \cup (Jobs \X Nat)
ASSUME MaxRetriesAssumption == MaxRetries \in Nat \ {0}
ASSUME CleanupLimitAssumption == CleanupLimit \in Nat \ {0}
ASSUME LegacyAttemptsAssumption == LegacyAttempts \subseteq Nat

VARIABLES
  jobs,      \* table jobs
  active,    \* repository_execution.active_job_id
  attempts,  \* table job_attempts, by job and lease generation
  workers,   \* table workers
  guard      \* the row lock an open mutation_guard holds on repository_execution

vars == <<jobs, active, attempts, workers, guard>>

Completed == {"completed", "completed_with_errors"}
Terminal == Completed \cup {"failed", "cancelled"}
Waiting == {"queued", "retrying"}
Status == Terminal \cup Waiting \cup {"running"}

Row == [status: Status \cup {"absent"}, repo: Repos \cup {None},
        key: Keys \cup {None}, parent: Jobs \cup {None},
        attempt: Nat, max: Nat, gen: Nat, worker: Workers \cup {None},
        lease: {"none", "live", "expired"}, cancel: BOOLEAN, ready: BOOLEAN]

\* An id no row has yet.
NoRow == [status |-> "absent", repo |-> None, key |-> None, parent |-> None,
          attempt |-> 0, max |-> 0, gen |-> 0, worker |-> None,
          lease |-> "none", cancel |-> FALSE, ready |-> TRUE]

Attempt == [worker: Workers, attempt: Nat, reclaimed: BOOLEAN,
            outcome: Terminal \cup {"open", "expired", "retrying"}]

Registration == [status: {"none", "idle", "busy", "stopped"},
                 current: Jobs \cup {None}, stale: BOOLEAN,
                 completed: Nat, failed: Nat]

Unregistered == [status |-> "none", current |-> None, stale |-> FALSE,
                 completed |-> 0, failed |-> 0]

Init ==
  /\ jobs = [j \in Jobs |-> NoRow]
  /\ active = [r \in Repos |-> None]
  /\ attempts = [j \in Jobs |-> << >>]
  /\ workers = [w \in Workers |-> Unregistered]
  /\ guard = [r \in Repos |-> None]

-----------------------------------------------------------------------------
(* Jobs enter the table.  The insert takes a key-share lock on the         *)
(* repository_execution row its foreign key names, so it waits for an open *)
(* mutation guard on that repository.                                      *)

Larger(a, b) == IF a >= b THEN a ELSE b

Exists(j) == jobs[j].status /= "absent"

KeyIsFree(key) == key = None \/ \A k \in Jobs : jobs[k].key /= key

Insert(j, row) ==
  /\ ~Exists(j)
  /\ guard[row.repo] = None
  /\ jobs' = [jobs EXCEPT ![j] = row]
  /\ UNCHANGED <<active, attempts, workers, guard>>

\* A key that already names a job returns that job or is refused: nothing changes.
SubmitJob(j, r, key) ==
  /\ KeyIsFree(key)
  /\ Insert(j, [NoRow EXCEPT !.status = "queued", !.repo = r, !.key = key,
                             !.max = MaxRetries])

\* A job has one successor; asking again returns it.
ResubmitJob(j, old) ==
  /\ jobs[old].status \in Terminal
  /\ \A k \in Jobs : jobs[k].parent /= old
  /\ Insert(j, [NoRow EXCEPT !.status = "queued", !.repo = jobs[old].repo,
                             !.parent = old, !.max = MaxRetries])

\* Mutant: an imported job keeps the default budget.
LegacyMaxUnraised(a) == MaxRetries

LegacyMax(a) == Larger(MaxRetries, Larger(a + 1, 2))

\* A finished legacy job keeps its status; any other is queued again, or cancelled
\* if that was asked, with at least one attempt counted and one left.
ImportLegacyJob(j, r, key, old, a, cancel) ==
  /\ KeyIsFree(key)
  /\ Insert(j, [NoRow EXCEPT
       !.status = IF old \in Terminal THEN old
                  ELSE IF cancel THEN "cancelled" ELSE "queued",
       !.repo = r, !.key = key, !.cancel = cancel,
       !.attempt = IF old \in Terminal THEN a ELSE Larger(1, a),
       !.max = LegacyMax(a)])

\* A waiting job is cancelled at once; a running one is left to its worker.
CancelledRow(j) ==
  [jobs[j] EXCEPT !.cancel = TRUE, !.status = IF @ \in Waiting THEN "cancelled" ELSE @]

\* Mutant: the update has no condition on the status.
RequestCancelAnyStatus(j) ==
  /\ Exists(j)
  /\ jobs' = [jobs EXCEPT ![j] =
       [jobs[j] EXCEPT !.cancel = TRUE, !.status = IF @ = "running" THEN @ ELSE "cancelled"]]
  /\ UNCHANGED <<active, attempts, workers, guard>>

RequestCancel(j) ==
  /\ jobs[j].status \in Waiting \cup {"running"}
  /\ jobs' = [jobs EXCEPT ![j] = CancelledRow(j)]
  /\ UNCHANGED <<active, attempts, workers, guard>>

-----------------------------------------------------------------------------
(* The worker registry.  Every call carries a session; one that is not the *)
(* row's session matches no row and changes nothing, so these are the      *)
(* calls made with the row's own session.                                  *)

Registered(w) == workers[w].status \in {"idle", "busy"}

RegisterWorker(w) ==
  /\ workers[w].status \in {"none", "stopped"} \/ workers[w].stale
  /\ workers' = [workers EXCEPT ![w] =
       [@ EXCEPT !.status = "idle", !.current = None, !.stale = FALSE]]
  /\ UNCHANGED <<jobs, active, attempts, guard>>

\* The main loop reports no job; the heartbeat thread reports the job it was started
\* for, which may have been finished or taken over by then.
HeartbeatWorker(w, current) ==
  /\ Registered(w)
  /\ workers' = [workers EXCEPT ![w] =
       [@ EXCEPT !.status = IF current = None THEN "idle" ELSE "busy",
                 !.current = current, !.stale = FALSE]]
  /\ UNCHANGED <<jobs, active, attempts, guard>>

StopWorker(w) ==
  /\ workers[w].status /= "none"
  /\ workers' = [workers EXCEPT ![w] =
       [@ EXCEPT !.status = "stopped", !.current = None, !.stale = FALSE]]
  /\ UNCHANGED <<jobs, active, attempts, guard>>

Reported(w) ==
  {None} \cup {j \in Jobs : \E g \in DOMAIN attempts[j] : attempts[j][g].worker = w}

-----------------------------------------------------------------------------
(* claim_job.  One transaction walks over at most CleanupLimit rows: it    *)
(* gives up the hopeless ones (the set C) and stops at the first row it    *)
(* can start.  FOR UPDATE SKIP LOCKED passes over any row or repository    *)
(* another transaction has locked at that moment, so which selectable row  *)
(* it takes, and which it leaves, is a free choice; a repository under an  *)
(* open guard is always passed over.                                       *)

\* Mutant: expired runs are not looked for.
RunnableWaitingOnly(j) == jobs[j].status \in Waiting /\ jobs[j].ready

Runnable(j) ==
  \/ jobs[j].status \in Waiting /\ jobs[j].ready
  \/ jobs[j].status = "running" /\ jobs[j].lease = "expired"

\* Mutant: the reservation of the repository is not consulted.
SelectableUnreserved(j, C) ==
  /\ Runnable(j)
  /\ guard[jobs[j].repo] = None

\* Mutant: only the job row is locked, FOR UPDATE OF j SKIP LOCKED.
SelectableUnderGuard(j, C) ==
  /\ Runnable(j)
  /\ active[jobs[j].repo] \in C \cup {None, j}

\* Selected once the jobs in C have been given up.
Selectable(j, C) ==
  /\ Runnable(j)
  /\ guard[jobs[j].repo] = None
  /\ active[jobs[j].repo] \in C \cup {None, j}

\* Mutant: off by one in the budget.
HopelessTooLate(j) == jobs[j].cancel \/ jobs[j].attempt > jobs[j].max

\* Mutant: an expired run is started again although its cancellation was requested.
HopelessByBudget(j) == jobs[j].attempt >= jobs[j].max

Hopeless(j) == jobs[j].cancel \/ jobs[j].attempt >= jobs[j].max

\* Mutant: the outcome of the attempt is written as the status of the job.
VerdictExpired(j) == IF jobs[j].cancel THEN "cancelled" ELSE "expired"

\* Mutant: an exhausted budget is looked at first.
VerdictByBudget(j) == IF jobs[j].attempt >= jobs[j].max THEN "failed" ELSE "cancelled"

Verdict(j) == IF jobs[j].cancel THEN "cancelled" ELSE "failed"

GivesUp(C) ==
  /\ \A c \in C : Selectable(c, C) /\ Hopeless(c)
  /\ IsFiniteSet(C)

GivenUpRow(c) ==
  [jobs[c] EXCEPT !.status = Verdict(c), !.worker = None, !.lease = "none"]

ReposOf(C) == {jobs[c].repo : c \in C}

CloseAttempt(history, outcome) ==
  [history EXCEPT ![Len(history)].outcome = outcome]

GivenUpHistory(c) ==
  IF jobs[c].status = "running" THEN CloseAttempt(attempts[c], Verdict(c)) ELSE attempts[c]

\* Mutant: every job given up counts as failed.
AfterGivingUpCountsAll(w, C) ==
  LET c == workers[w].current
  IN IF c \in C /\ jobs[c].status = "running" /\ jobs[c].worker = w
     THEN [workers[w] EXCEPT !.current = None, !.status = "idle", !.failed = @ + 1]
     ELSE workers[w]

\* The registry row of the worker whose expired job was given up, if it still shows it.
AfterGivingUp(w, C) ==
  LET c == workers[w].current
  IN IF c \in C /\ jobs[c].status = "running" /\ jobs[c].worker = w
     THEN [workers[w] EXCEPT !.current = None, !.status = "idle",
                             !.failed = @ + (IF Verdict(c) = "failed" THEN 1 ELSE 0)]
     ELSE workers[w]

\* claim_job returns None.
ClaimNothing(w, C) ==
  /\ Registered(w)
  /\ GivesUp(C)
  /\ Cardinality(C) <= CleanupLimit
  /\ jobs' = [j \in Jobs |-> IF j \in C THEN GivenUpRow(j) ELSE jobs[j]]
  /\ active' = [r \in Repos |-> IF r \in ReposOf(C) THEN None ELSE active[r]]
  /\ attempts' = [j \in Jobs |-> IF j \in C THEN GivenUpHistory(j) ELSE attempts[j]]
  /\ workers' = [v \in Workers |-> AfterGivingUp(v, C)]
  /\ UNCHANGED guard

StartedRow(j, w) ==
  [jobs[j] EXCEPT !.status = "running", !.worker = w, !.lease = "live",
                  !.gen = @ + 1, !.attempt = @ + 1]

\* Mutant: the flag is computed after the row was updated to running.
StartedHistoryLateFlag(j, w) ==
  LET past == IF jobs[j].status = "running" THEN CloseAttempt(attempts[j], "expired")
              ELSE attempts[j]
  IN Append(past, [worker |-> w, attempt |-> jobs[j].attempt + 1,
                   reclaimed |-> TRUE, outcome |-> "open"])

StartedHistory(j, w) ==
  LET reclaimed == jobs[j].status = "running"
      past == IF reclaimed THEN CloseAttempt(attempts[j], "expired") ELSE attempts[j]
  IN Append(past, [worker |-> w, attempt |-> jobs[j].attempt + 1,
                   reclaimed |-> reclaimed, outcome |-> "open"])

\* claim_job returns j.
ClaimJob(w, C, j) ==
  /\ Registered(w)
  /\ GivesUp(C)
  /\ Cardinality(C) < CleanupLimit
  /\ j \notin C
  /\ Selectable(j, C)
  /\ ~Hopeless(j)
  /\ jobs' = [k \in Jobs |-> IF k = j THEN StartedRow(j, w)
                             ELSE IF k \in C THEN GivenUpRow(k) ELSE jobs[k]]
  /\ active' = [r \in Repos |-> IF r = jobs[j].repo THEN j
                                ELSE IF r \in ReposOf(C) THEN None ELSE active[r]]
  /\ attempts' = [k \in Jobs |-> IF k = j THEN StartedHistory(j, w)
                                 ELSE IF k \in C THEN GivenUpHistory(k) ELSE attempts[k]]
  /\ workers' = [v \in Workers |->
       IF v = w THEN [AfterGivingUp(w, C) EXCEPT !.status = "busy", !.current = j,
                                                 !.stale = FALSE]
       ELSE AfterGivingUp(v, C)]
  /\ UNCHANGED guard

-----------------------------------------------------------------------------
(* What a worker does with its handle.                                     *)

\* Mutant: the generation is not compared.
OwnedByWorker(j, g) ==
  /\ g \in DOMAIN attempts[j]
  /\ jobs[j].status = "running"
  /\ jobs[j].worker = attempts[j][g].worker
  /\ jobs[j].lease = "live"

\* Mutant: the expiry of the lease is not compared.
OwnedForever(j, g) ==
  /\ g \in DOMAIN attempts[j]
  /\ jobs[j].status = "running"
  /\ jobs[j].gen = g
  /\ jobs[j].worker = attempts[j][g].worker

\* OWNED: the row this handle may still act on.
Owned(j, g) ==
  /\ g \in DOMAIN attempts[j]
  /\ jobs[j].status = "running"
  /\ jobs[j].gen = g
  /\ jobs[j].worker = attempts[j][g].worker
  /\ jobs[j].lease = "live"

RenewLease(j, g) ==
  /\ Owned(j, g)
  /\ jobs' = [jobs EXCEPT ![j].lease = "live"]
  /\ UNCHANGED <<active, attempts, workers, guard>>

\* mutation_guard up to its first check: the row lock, the reservation, the lease.
EnterGuard(j, g) ==
  LET r == jobs[j].repo
  IN /\ Exists(j)
     /\ guard[r] = None
     /\ active[r] = j
     /\ Owned(j, g)
     /\ guard' = [guard EXCEPT ![r] = <<j, g>>]
     /\ UNCHANGED <<jobs, active, attempts, workers>>

\* Commit, rollback or a lost connection ends the guard's transaction.
ExitGuard(r) ==
  /\ guard[r] /= None
  /\ guard' = [guard EXCEPT ![r] = None]
  /\ UNCHANGED <<jobs, active, attempts, workers>>

\* The registry row of the worker that finished its job.
CreditedRow(w, status) ==
  [workers[w] EXCEPT !.status = "idle", !.current = None,
                     !.completed = @ + (IF status \in Completed THEN 1 ELSE 0),
                     !.failed = @ + (IF status = "failed" THEN 1 ELSE 0)]

\* _finish; a requested cancellation wins over what the worker reports.  Its update of
\* repository_execution waits for an open guard.
Finish(j, g, asked) ==
  LET r == jobs[j].repo
      status == IF jobs[j].cancel THEN "cancelled" ELSE asked
      w == attempts[j][g].worker
  IN /\ Owned(j, g)
     /\ guard[r] = None
     /\ jobs' = [jobs EXCEPT ![j] =
          [@ EXCEPT !.status = status, !.worker = None, !.lease = "none",
                    !.ready = (status /= "retrying")]]
     /\ active' = [active EXCEPT ![r] = IF @ = j THEN None ELSE @]
     /\ attempts' = [attempts EXCEPT ![j][g].outcome = status]
     /\ workers' = IF workers[w].current /= j THEN workers
                   ELSE [workers EXCEPT ![w] = CreditedRow(w, status)]
     /\ UNCHANGED guard

CompleteJob(j, g) == \E status \in Completed : Finish(j, g, status)

CancelJob(j, g) == Finish(j, g, "cancelled")

\* The budget is the one the handle carries.
ScheduleRetry(j, g) ==
  /\ g \in DOMAIN attempts[j]
  /\ Finish(j, g, IF attempts[j][g].attempt >= jobs[j].max THEN "failed" ELSE "retrying")

-----------------------------------------------------------------------------
(* Time passes.                                                            *)

LeaseExpires(j) ==
  /\ jobs[j].lease = "live"
  /\ jobs' = [jobs EXCEPT ![j].lease = "expired"]
  /\ UNCHANGED <<active, attempts, workers, guard>>

RetryFallsDue(j) ==
  /\ jobs[j].status = "retrying"
  /\ ~jobs[j].ready
  /\ jobs' = [jobs EXCEPT ![j].ready = TRUE]
  /\ UNCHANGED <<active, attempts, workers, guard>>

WorkerFallsSilent(w) ==
  /\ Registered(w)
  /\ ~workers[w].stale
  /\ workers' = [workers EXCEPT ![w].stale = TRUE]
  /\ UNCHANGED <<jobs, active, attempts, guard>>

-----------------------------------------------------------------------------

LegacyStatus == {"queued", "running"} \cup Terminal

Submission(j) ==
  \/ \E r \in Repos, key \in Keys \cup {None} : SubmitJob(j, r, key)
  \/ \E old \in Jobs : ResubmitJob(j, old)
  \/ \E r \in Repos, key \in Keys \cup {None}, old \in LegacyStatus,
        a \in LegacyAttempts, cancel \in BOOLEAN : ImportLegacyJob(j, r, key, old, a, cancel)

HandleUse(j, g) ==
  \/ RenewLease(j, g)
  \/ EnterGuard(j, g)
  \/ CompleteJob(j, g)
  \/ CancelJob(j, g)
  \/ ScheduleRetry(j, g)

RegistryCall(w) ==
  \/ RegisterWorker(w)
  \/ \E current \in Reported(w) : HeartbeatWorker(w, current)
  \/ StopWorker(w)

Claim(w) ==
  \/ \E C \in SUBSET Jobs : ClaimNothing(w, C)
  \/ \E C \in SUBSET Jobs, j \in Jobs : ClaimJob(w, C, j)

Time ==
  \/ \E j \in Jobs : LeaseExpires(j) \/ RetryFallsDue(j)
  \/ \E w \in Workers : WorkerFallsSilent(w)

Next ==
  \/ \E j \in Jobs : Submission(j)
  \/ \E j \in Jobs : RequestCancel(j)
  \/ \E w \in Workers : RegistryCall(w)
  \/ \E w \in Workers : Claim(w)
  \/ \E j \in Jobs : \E g \in DOMAIN attempts[j] : HandleUse(j, g)
  \/ \E r \in Repos : ExitGuard(r)
  \/ Time

Spec == Init /\ [][Next]_vars
-----------------------------------------------------------------------------
(* Properties                                                              *)

\* Every table holds rows of its type.
TypeOK ==
  /\ jobs \in [Jobs -> Row]
  /\ active \in [Repos -> Jobs \cup {None}]
  /\ attempts \in [Jobs -> Seq(Attempt)]
  /\ workers \in [Workers -> Registration]
  /\ guard \in [Repos -> (Jobs \X Nat) \cup {None}]

\* A repository is reserved by a job exactly while that job runs in it, so at most one
\* job per repository runs.  repository_execution and jobs are kept in step by every
\* claim, finish and clean-up, which also have to keep the index
\* one_running_job_per_repository satisfied.
ReservationMatchesRunning ==
  \A r \in Repos, j \in Jobs :
    active[r] = j <=> (jobs[j].status = "running" /\ jobs[j].repo = r)

\* Whoever holds a mutation guard is the latest generation of the running job of that
\* repository, even after its lease expired and other workers polled: mutation_guard's
\* row lock keeps claim_job, _finish and new rows out until the writes are done.
GuardHolderOwns ==
  \A r \in Repos : guard[r] /= None =>
    \E j \in Jobs : /\ active[r] = j
                    /\ jobs[j].status = "running"
                    /\ guard[r] = <<j, jobs[j].gen>>

\* No job is started more often than its budget allows, and a job that waits still has
\* an attempt left and no cancellation on it: claim_job, schedule_retry and the legacy
\* import agree on the budget, so the only rows a claim ever gives up are expired runs.
BudgetRespected ==
  \A j \in Jobs :
    /\ jobs[j].attempt <= jobs[j].max
    /\ jobs[j].status \in Waiting => ~Hopeless(j)

\* What the last attempt row of a job with that status says: nothing before the first
\* claim; otherwise how the job came to be where it is.
LastOutcomes(status) ==
  CASE status = "running" -> {"open"}
    [] status \in Waiting -> {"retrying"}
    [] status = "cancelled" -> {"cancelled", "retrying"}
    [] OTHER -> {status}

\* job_attempts tells the whole story of a job: one row per lease generation, only the
\* last one open and that only while the job runs, every earlier one expired or retried,
\* and the last outcome the one that explains the job's status.
HistoryExplainsStatus ==
  \A j \in Jobs :
    LET n == Len(attempts[j])
    IN /\ n = jobs[j].gen
       /\ \A g \in 1..(n - 1) : attempts[j][g].outcome \in {"expired", "retrying"}
       /\ n > 0 => /\ attempts[j][n].outcome \in LastOutcomes(jobs[j].status)
                   /\ attempts[j][n].attempt = jobs[j].attempt
       /\ jobs[j].status \in {"running", "retrying"} => n > 0
       /\ jobs[j].status = "running" => jobs[j].worker = attempts[j][n].worker

\* An attempt is marked as reclaimed exactly when the one before it expired: the flag
\* was_reclaimed reads is set from the status claim_job saw before its own update.
ReclaimedAfterExpiry ==
  \A j \in Jobs : \A g \in DOMAIN attempts[j] :
    attempts[j][g].reclaimed <=> (g > 1 /\ attempts[j][g - 1].outcome = "expired")

\* A job's lease generation counts its attempt rows and the last of them carries the job's
\* attempt number, so the budget a handle checks is the budget of the row it owns; a row
\* with an id has a repository.  The part of the inductive invariant below the others.
HandlesMatchRows ==
  \A j \in Jobs :
    /\ Len(attempts[j]) = jobs[j].gen
    /\ jobs[j].gen > 0 => attempts[j][jobs[j].gen].attempt = jobs[j].attempt
    /\ Exists(j) => jobs[j].repo \in Repos
    /\ ~Exists(j) => jobs[j].gen = 0

\* The inductive invariant of the proofs.
CoordinationInv ==
  /\ TypeOK
  /\ HandlesMatchRows
  /\ ReservationMatchesRunning
  /\ GuardHolderOwns
  /\ BudgetRespected

\* The attempts of worker w that ended with one of these outcomes.
Ended(w, outcomes) ==
  {h \in UNION {{j} \X DOMAIN attempts[j] : j \in Jobs} :
     /\ attempts[h[1]][h[2]].worker = w
     /\ attempts[h[1]][h[2]].outcome \in outcomes}

\* The registry never credits a worker with more finished or failed jobs than it has
\* attempts that ended so, although _finish and the clean-up in claim_job both count and
\* a late heartbeat may put a finished job back into the row.
CountersBacked ==
  \A w \in Workers :
    /\ workers[w].completed <= Cardinality(Ended(w, Completed))
    /\ workers[w].failed <= Cardinality(Ended(w, {"failed"}))

\* A finished job stays as it finished: no late answer of a superseded worker, no
\* cancellation and no claim touches its status, its generation or its history.
TerminalIsFinal ==
  [][\A j \in Jobs : jobs[j].status \in Terminal =>
       jobs'[j] = jobs[j] /\ attempts'[j] = attempts[j]]_vars

\* An expired lease never comes back to life for the generation that let it expire: a
\* late renewal is refused, only a new claim makes the lease live again.
LeaseStaysExpired ==
  [][\A j \in Jobs : jobs[j].lease = "expired" /\ jobs'[j].lease = "live" =>
       jobs'[j].gen = jobs[j].gen + 1]_vars

\* Once cancellation is requested a job is not started again and ends as cancelled:
\* completion, failure, retry and lease expiry racing with the request all lose to it.
CancelWins ==
  [][\A j \in Jobs : jobs[j].cancel /\ jobs[j].status \notin Terminal =>
       /\ jobs'[j].gen = jobs[j].gen
       /\ jobs'[j].status \in {jobs[j].status, "cancelled"}]_vars

-----------------------------------------------------------------------------
(* Refinement                                                              *)

PhaseOf(status) ==
  CASE status = "absent" -> "absent"
    [] status \in Waiting -> "waiting"
    [] status = "running" -> "running"
    [] OTHER -> "done"

\* What a new row may have left of its budget.
Budgets ==
  {MaxRetries} \cup {LegacyMax(a) - a : a \in LegacyAttempts}
               \cup {LegacyMax(a) - Larger(1, a) : a \in LegacyAttempts}

Lifecycle == INSTANCE JobLifecycle WITH
  phase <- [j \in Jobs |-> PhaseOf(jobs[j].status)],
  place <- [j \in Jobs |-> jobs[j].repo],
  left <- [j \in Jobs |-> jobs[j].max - jobs[j].attempt],
  doomed <- [j \in Jobs |-> jobs[j].cancel]

\* Leases, generations, the reservation, the guard and the clean-up of one claim together
\* implement the abstract life of a job: no more than one running per repository, no more
\* starts than the budget, nothing after done.  One claim may settle several jobs at once.
LifecycleSpec == Lifecycle!Spec

-----------------------------------------------------------------------------
(* Fairness: a registered worker polls again, a stopped or silent one is   *)
(* restarted, transactions end, clocks advance, and an attempt does not    *)
(* last forever: its worker reports a result or its lease expires.  The    *)
(* heartbeat thread renews the lease of a main thread that hangs, so the   *)
(* code itself does not bound an attempt: this last one is an assumption   *)
(* about indexing.                                                         *)

AttemptEnds(j) ==
  \/ LeaseExpires(j)
  \/ \E g \in DOMAIN attempts[j] : CompleteJob(j, g) \/ CancelJob(j, g) \/ ScheduleRetry(j, g)

Fairness ==
  /\ \A j \in Jobs : WF_vars(AttemptEnds(j)) /\ WF_vars(RetryFallsDue(j))
  /\ \A r \in Repos : WF_vars(ExitGuard(r))
  /\ \A w \in Workers : WF_vars(RegisterWorker(w))
  /\ SF_vars(\E w \in Workers : Claim(w) /\ jobs' /= jobs)

FairSpec == Spec /\ Fairness

\* Every job that was ever submitted is finished in the end, whatever crashes, whatever
\* expires and however often workers come and go.
EveryJobSettles ==
  \A j \in Jobs : Exists(j) ~> jobs[j].status \in Terminal

\* A requested cancellation is honoured even when the worker of that job is gone.
CancelIsHonoured ==
  \A j \in Jobs : (jobs[j].cancel /\ jobs[j].status = "running") ~> jobs[j].status = "cancelled"
=============================================================================
