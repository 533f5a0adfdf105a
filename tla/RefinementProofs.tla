-------------------------- MODULE RefinementProofs --------------------------
(***************************************************************************)
(* Coordination implements JobLifecycle, for all jobs, repositories,       *)
(* workers, keys, budgets and clean-up limits: every transaction is one    *)
(* step of the abstract job life or none.                                  *)
(***************************************************************************)
EXTENDS CoordinationProofs

LEMMA Phases ==
  /\ PhaseOf("absent") = "absent"
  /\ \A s \in Waiting : PhaseOf(s) = "waiting"
  /\ PhaseOf("running") = "running"
  /\ \A s \in Terminal : PhaseOf(s) = "done"
  /\ \A s \in Status \cup {"absent"} :
       PhaseOf(s) \in {"waiting", "running"} => s \in Waiting \cup {"running"}
  /\ \A s \in Status \cup {"absent"} : PhaseOf(s) = "running" => s = "running"
BY DEF PhaseOf, Status, Waiting, Terminal, Completed

\* What JobLifecycle sees of a row.
Alike(a, b) ==
  /\ PhaseOf(a.status) = PhaseOf(b.status)
  /\ a.repo = b.repo /\ a.max = b.max /\ a.attempt = b.attempt /\ a.cancel = b.cancel

LEMMA Stutters ==
  ASSUME \A k \in Jobs : Alike(jobs'[k], jobs[k])
  PROVE  UNCHANGED Lifecycle!lifecycle
BY DEF Alike, Lifecycle!lifecycle

LEMMA InitMaps == Init => Lifecycle!Init
BY Phases DEF Init, Lifecycle!Init, NoRow

LEMMA SubmissionMaps ==
  ASSUME CoordinationInv, NEW j \in Jobs, Submission(j)
  PROVE  Lifecycle!Next
<1>1. PICK row \in Row :
        /\ Insert(j, row)
        /\ row.repo \in Repos
        /\ row.status \in Terminal \cup {"queued"}
        /\ row.max - row.attempt \in Budgets
        /\ row.status = "queued" => ~row.cancel /\ row.attempt < row.max
  BY SubmissionInserts
<1>2. jobs \in [Jobs -> Row]
  BY DEF CoordinationInv, TypeOK
<1>3. jobs[j].status = "absent" /\ jobs' = [jobs EXCEPT ![j] = row]
  BY <1>1 DEF Insert, Exists
<1>4. PhaseOf(row.status) \in {"waiting", "done"} /\ row.cancel \in BOOLEAN
      /\ (PhaseOf(row.status) = "waiting" => row.max - row.attempt > 0 /\ ~row.cancel)
  BY <1>1, Phases DEF Waiting, Row, Terminal, Completed
<1>5. Lifecycle!Accept(j, row.repo, row.max - row.attempt, PhaseOf(row.status), row.cancel)
  BY <1>2, <1>3, <1>4, Phases DEF Lifecycle!Accept
<1>6. Lifecycle!Acceptance(j)
  BY <1>1, <1>4, <1>5 DEF Lifecycle!Acceptance
<1> QED
  BY <1>6 DEF Lifecycle!Next

LEMMA CancelMaps ==
  ASSUME CoordinationInv, NEW j \in Jobs, RequestCancel(j)
  PROVE  Lifecycle!Next
<1>1. jobs \in [Jobs -> Row] /\ jobs[j] \in Row
  BY DEF CoordinationInv, TypeOK
<1>2. jobs' = [jobs EXCEPT ![j] = CancelledRow(j)]
      /\ jobs[j].status \in Waiting \cup {"running"}
  BY DEF RequestCancel
<1>3. /\ CancelledRow(j).repo = jobs[j].repo /\ CancelledRow(j).max = jobs[j].max
      /\ CancelledRow(j).attempt = jobs[j].attempt /\ CancelledRow(j).cancel = TRUE
      /\ CancelledRow(j).status =
           IF jobs[j].status \in Waiting THEN "cancelled" ELSE jobs[j].status
  BY <1>1 DEF CancelledRow, Row
<1>4. PhaseOf(CancelledRow(j).status) =
        IF PhaseOf(jobs[j].status) = "waiting" THEN "done" ELSE PhaseOf(jobs[j].status)
  BY <1>2, <1>3, Phases DEF Waiting, Terminal
<1>5. PhaseOf(jobs[j].status) \in {"waiting", "running"}
  BY <1>2, Phases
<1>6. Lifecycle!Cancel(j)
  BY <1>1, <1>2, <1>3, <1>4, <1>5 DEF Lifecycle!Cancel
<1> QED
  BY <1>6 DEF Lifecycle!Next

\* A claim that returns nothing settles the expired runs it gave up.
LEMMA ClaimNothingMaps ==
  ASSUME CoordinationInv, NEW w \in Workers, NEW C \in SUBSET Jobs, ClaimNothing(w, C)
  PROVE  Lifecycle!Next
<1>1. TypeOK /\ GivesUp(C)
      /\ jobs' = [j \in Jobs |-> IF j \in C THEN GivenUpRow(j) ELSE jobs[j]]
  BY DEF CoordinationInv, ClaimNothing
<1>2. \A c \in C : /\ PhaseOf(jobs[c].status) = "running"
                   /\ PhaseOf(GivenUpRow(c).status) = "done"
                   /\ GivenUpRow(c).repo = jobs[c].repo /\ GivenUpRow(c).max = jobs[c].max
                   /\ GivenUpRow(c).attempt = jobs[c].attempt
                   /\ GivenUpRow(c).cancel = jobs[c].cancel
  BY <1>1, GivenUpWereRunning, GivenUpFields, Phases
<1>3. Lifecycle!Settle(C)
  BY <1>1, <1>2 DEF Lifecycle!Settle
<1> QED
  BY <1>3 DEF Lifecycle!Next

\* A claim that returns j settles what it gave up and dispatches j into the room it found.
LEMMA ClaimJobMaps ==
  ASSUME CoordinationInv, NEW w \in Workers, NEW C \in SUBSET Jobs, NEW j \in Jobs,
         ClaimJob(w, C, j)
  PROVE  Lifecycle!Next
<1>1. /\ TypeOK /\ GivesUp(C) /\ j \notin C /\ Selectable(j, C) /\ ~Hopeless(j)
      /\ jobs' = [k \in Jobs |-> IF k = j THEN StartedRow(j, w)
                                 ELSE IF k \in C THEN GivenUpRow(k) ELSE jobs[k]]
  BY DEF CoordinationInv, ClaimJob
<1>2. \A c \in C : /\ PhaseOf(jobs[c].status) = "running"
                   /\ PhaseOf(GivenUpRow(c).status) = "done"
                   /\ GivenUpRow(c).repo = jobs[c].repo /\ GivenUpRow(c).max = jobs[c].max
                   /\ GivenUpRow(c).attempt = jobs[c].attempt
                   /\ GivenUpRow(c).cancel = jobs[c].cancel
  BY <1>1, GivenUpWereRunning, GivenUpFields, Phases
<1>3. /\ PhaseOf(StartedRow(j, w).status) = "running"
      /\ StartedRow(j, w).repo = jobs[j].repo /\ StartedRow(j, w).max = jobs[j].max
      /\ StartedRow(j, w).attempt = jobs[j].attempt + 1
      /\ StartedRow(j, w).cancel = jobs[j].cancel
  BY <1>1, StartedFields, Phases
<1>4. /\ PhaseOf(jobs[j].status) \in {"waiting", "running"}
      /\ ~jobs[j].cancel /\ jobs[j].attempt < jobs[j].max
      /\ \A k \in Jobs :
           (jobs[k].status = "running" /\ jobs[k].repo = jobs[j].repo) => k \in C \cup {j}
  BY <1>1, StartedIsFree, Phases
<1>5. jobs[j].attempt \in Nat /\ jobs[j].max \in Nat
      /\ \A k \in Jobs : jobs[k].status \in Status \cup {"absent"}
  BY <1>1 DEF TypeOK, Row
<1>6. jobs[j].max - jobs[j].attempt > 0
      /\ jobs[j].max - (jobs[j].attempt + 1) = (jobs[j].max - jobs[j].attempt) - 1
  BY <1>4, <1>5
<1>7. \A k \in Jobs \ (C \cup {j}) :
        ~(PhaseOf(jobs[k].status) = "running" /\ jobs[k].repo = jobs[j].repo)
  BY <1>4, <1>5, Phases
<1>8. Lifecycle!Dispatch(C, j)
  BY <1>1, <1>2, <1>3, <1>4, <1>6, <1>7 DEF Lifecycle!Dispatch
<1> QED
  BY <1>8 DEF Lifecycle!Next

\* A report settles its job or puts it back with an attempt left.
LEMMA FinishMaps ==
  ASSUME CoordinationInv, NEW j \in Jobs, NEW g \in DOMAIN attempts[j],
         NEW asked \in Terminal \cup {"retrying"}, Finish(j, g, asked),
         asked = "retrying" => ~(attempts[j][g].attempt >= jobs[j].max)
  PROVE  Lifecycle!Next
<1>1. jobs \in [Jobs -> Row] /\ jobs' \in [Jobs -> Row] /\ Owned(j, g)
  BY TypeFinish DEF CoordinationInv, TypeOK, Finish
<1>2. PhaseOf(jobs[j].status) = "running" /\ attempts[j][g].attempt = jobs[j].attempt
  BY <1>1, OwnedIsCurrent, Phases
<1>3. /\ jobs'[j].status = IF jobs[j].cancel THEN "cancelled" ELSE asked
      /\ jobs'[j].repo = jobs[j].repo /\ jobs'[j].max = jobs[j].max
      /\ jobs'[j].attempt = jobs[j].attempt /\ jobs'[j].cancel = jobs[j].cancel
      /\ \A k \in Jobs \ {j} : jobs'[k] = jobs[k]
  BY FinishFields
<1>4. CASE jobs'[j].status = "retrying"
  <2>1. ~jobs[j].cancel /\ asked = "retrying"
    BY <1>3, <1>4
  <2>2. jobs[j].max - jobs[j].attempt > 0
    <3>1. jobs[j].attempt \in Nat /\ jobs[j].max \in Nat
      BY <1>1 DEF Row
    <3> QED
      BY <1>2, <2>1, <3>1
  <2>3. PhaseOf(jobs'[j].status) = "waiting"
    BY <1>4, Phases DEF Waiting
  <2>4. Lifecycle!PutBack(j)
    BY <1>2, <1>3, <2>1, <2>2, <2>3 DEF Lifecycle!PutBack
  <2> QED
    BY <2>4 DEF Lifecycle!Next
<1>5. CASE jobs'[j].status # "retrying"
  <2>1. PhaseOf(jobs'[j].status) = "done"
    BY <1>3, <1>5, Phases DEF Terminal
  <2>2. Lifecycle!Settle({j})
    BY <1>2, <1>3, <2>1 DEF Lifecycle!Settle
  <2> QED
    BY <2>2 DEF Lifecycle!Next
<1> QED
  BY <1>4, <1>5

\* A step that changes only leases and delays, or no job at all, is invisible.
LEMMA InvisibleMaps ==
  ASSUME CoordinationInv, NEW j \in Jobs, NEW v,
         \/ jobs' = [jobs EXCEPT ![j].lease = v]
         \/ jobs' = [jobs EXCEPT ![j].ready = v]
         \/ jobs' = jobs
  PROVE  UNCHANGED Lifecycle!lifecycle
<1>1. jobs \in [Jobs -> Row]
  BY DEF CoordinationInv, TypeOK
<1>2. ASSUME NEW k \in Jobs PROVE Alike(jobs'[k], jobs[k])
  <2>1. jobs[k] \in Row
    BY <1>1
  <2>2. \/ jobs'[k] = jobs[k]
        \/ jobs'[k] = [jobs[k] EXCEPT !.lease = v]
        \/ jobs'[k] = [jobs[k] EXCEPT !.ready = v]
    BY <1>1
  <2>3. /\ jobs'[k].status = jobs[k].status /\ jobs'[k].repo = jobs[k].repo
        /\ jobs'[k].max = jobs[k].max /\ jobs'[k].attempt = jobs[k].attempt
        /\ jobs'[k].cancel = jobs[k].cancel
    BY <2>1, <2>2 DEF Row
  <2> QED
    BY <2>3 DEF Alike
<1> QED
  BY <1>2, Stutters

\* Every transaction of Coordination is a step of the abstract job life or leaves it alone.
LEMMA StepMaps ==
  ASSUME CoordinationInv, [Next]_vars
  PROVE  [Lifecycle!Next]_(Lifecycle!lifecycle)
<1>1. ASSUME NEW j \in Jobs, NEW g \in DOMAIN attempts[j], HandleUse(j, g)
      PROVE  [Lifecycle!Next]_(Lifecycle!lifecycle)
  <2>1. CASE RenewLease(j, g) \/ EnterGuard(j, g)
    BY <2>1, InvisibleMaps DEF RenewLease, EnterGuard
  <2>2. CASE \E asked \in Terminal \cup {"retrying"} :
               /\ Finish(j, g, asked)
               /\ asked = "retrying" => ~(attempts[j][g].attempt >= jobs[j].max)
    BY <2>2, FinishMaps
  <2> QED
    BY <1>1, <2>1, <2>2, HandleUseCases
<1>2. CASE UNCHANGED jobs
  BY <1>2, Stutters DEF Alike
<1>3. ASSUME NEW w \in Workers, RegistryCall(w) PROVE UNCHANGED jobs
  BY <1>3 DEF RegistryCall, RegisterWorker, HeartbeatWorker, StopWorker
<1>4. ASSUME NEW w \in Workers, Claim(w) PROVE Lifecycle!Next
  BY <1>4, ClaimNothingMaps, ClaimJobMaps DEF Claim
<1>5. ASSUME Time PROVE [Lifecycle!Next]_(Lifecycle!lifecycle)
  <2>1. ASSUME NEW j \in Jobs, LeaseExpires(j) \/ RetryFallsDue(j)
        PROVE  UNCHANGED Lifecycle!lifecycle
    BY <2>1, InvisibleMaps DEF LeaseExpires, RetryFallsDue
  <2>2. ASSUME NEW w \in Workers, WorkerFallsSilent(w) PROVE UNCHANGED jobs
    BY <2>2 DEF WorkerFallsSilent
  <2> QED
    BY <1>2, <1>5, <2>1, <2>2 DEF Time
<1>6. ASSUME NEW r \in Repos, ExitGuard(r) PROVE UNCHANGED jobs
  BY <1>6 DEF ExitGuard
<1> QED
  BY <1>1, <1>2, <1>3, <1>4, <1>5, <1>6, SubmissionMaps, CancelMaps DEF Next, vars

\* Leases, generations, reservations, the guard, retries and the clean-up of one claim
\* implement the abstract life of a job, so that what JobLifecycle promises holds of them.
THEOREM ImplementsLifecycle == Spec => LifecycleSpec
<1>1. Spec => []CoordinationInv
  BY Coordinated
<1>2. CoordinationInv /\ [Next]_vars => [Lifecycle!Next]_(Lifecycle!lifecycle)
  BY StepMaps
<1> QED
  BY <1>1, <1>2, InitMaps, PTL DEF Spec, LifecycleSpec, Lifecycle!Spec
=============================================================================
