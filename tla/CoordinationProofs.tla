------------------------- MODULE CoordinationProofs -------------------------
(* Theorems about Coordination for every set of jobs, repositories, workers *)
(* and keys, every retry budget and every clean-up limit.                   *)
EXTENDS Coordination, TLAPS, SequenceTheorems

-----------------------------------------------------------------------------
(* Rows, registrations and histories keep their types.                      *)

\* Rewriting the outcome of any attempt of a history gives a history.
LEMMA OutcomeType ==
  ASSUME NEW s \in Seq(Attempt), NEW i \in Nat,
         NEW o \in Terminal \cup {"open", "expired", "retrying"}
  PROVE  /\ [s EXCEPT ![i].outcome = o] \in Seq(Attempt)
         /\ Len([s EXCEPT ![i].outcome = o]) = Len(s)
         /\ \A k \in 1..Len(s) :
              /\ [s EXCEPT ![i].outcome = o][k].attempt = s[k].attempt
              /\ [s EXCEPT ![i].outcome = o][k].worker = s[k].worker
              /\ [s EXCEPT ![i].outcome = o][k].reclaimed = s[k].reclaimed
              /\ [s EXCEPT ![i].outcome = o][k].outcome = IF k = i THEN o ELSE s[k].outcome
<1> DEFINE t == [s EXCEPT ![i].outcome = o]
<1>1. DOMAIN s = 1..Len(s) /\ Len(s) \in Nat
  OBVIOUS
<1>2. DOMAIN t = 1..Len(s)
  BY <1>1
<1>3. ASSUME NEW k \in 1..Len(s)
      PROVE  /\ t[k] \in Attempt
             /\ t[k].attempt = s[k].attempt /\ t[k].worker = s[k].worker
             /\ t[k].reclaimed = s[k].reclaimed
             /\ t[k].outcome = IF k = i THEN o ELSE s[k].outcome
  <2>1. s[k] \in Attempt
    BY <1>1
  <2>2. CASE k = i
    <3>1. t[k] = [s[k] EXCEPT !.outcome = o]
      BY <2>2, <1>1
    <3> QED
      BY <2>1, <3>1 DEF Attempt
  <2>3. CASE k # i
    BY <2>1, <2>3, <1>1
  <2> QED
    BY <2>2, <2>3
<1>4. t = [k \in 1..Len(s) |-> t[k]]
  BY <1>2
<1>5. t \in [1..Len(s) -> Attempt]
  BY <1>3, <1>4
<1>6. t \in Seq(Attempt)
  BY <1>5, <1>1
<1>7. Len(t) = Len(s)
  BY <1>2, <1>1, <1>6
<1> QED
  BY <1>3, <1>6, <1>7

LEMMA CloseType ==
  ASSUME NEW s \in Seq(Attempt),
         NEW o \in Terminal \cup {"open", "expired", "retrying"}
  PROVE  CloseAttempt(s, o) \in Seq(Attempt) /\ Len(CloseAttempt(s, o)) = Len(s)
<1>1. Len(s) \in Nat
  OBVIOUS
<1> QED
  BY <1>1, OutcomeType DEF CloseAttempt

\* A row that is given up is a row, with its history closed and its worker's
\* registration freed.
LEMMA GivingUpType ==
  ASSUME TypeOK, NEW C \in SUBSET Jobs
  PROVE  /\ \A c \in C : GivenUpRow(c) \in Row
         /\ \A c \in C : GivenUpHistory(c) \in Seq(Attempt)
         /\ \A v \in Workers : AfterGivingUp(v, C) \in Registration
<1>1. ASSUME NEW c \in C PROVE GivenUpRow(c) \in Row
  <2>1. jobs[c] \in Row
    BY DEF TypeOK
  <2>2. Verdict(c) \in Status \cup {"absent"}
    BY DEF Verdict, Status, Terminal
  <2> QED
    BY <2>1, <2>2 DEF Row, GivenUpRow
<1>2. ASSUME NEW c \in C PROVE GivenUpHistory(c) \in Seq(Attempt)
  <2>1. attempts[c] \in Seq(Attempt) /\ Len(attempts[c]) \in Nat
    BY DEF TypeOK
  <2>2. Verdict(c) \in Terminal
    BY DEF Verdict, Terminal
  <2> QED
    BY <2>1, <2>2, OutcomeType DEF GivenUpHistory, CloseAttempt
<1>3. ASSUME NEW v \in Workers PROVE AfterGivingUp(v, C) \in Registration
  <2> DEFINE c == workers[v].current
             f == IF Verdict(c) = "failed" THEN 1 ELSE 0
  <2>1. workers[v] \in Registration
    BY DEF TypeOK
  <2>2. workers[v].failed + f \in Nat
    BY <2>1 DEF Registration
  <2>3. CASE AfterGivingUp(v, C) = workers[v]
    BY <2>1, <2>3
  <2>4. CASE AfterGivingUp(v, C) = [workers[v] EXCEPT !.current = None, !.status = "idle",
                                                      !.failed = workers[v].failed + f]
    BY <2>1, <2>2, <2>4 DEF Registration
  <2>5. \/ AfterGivingUp(v, C) = workers[v]
        \/ AfterGivingUp(v, C) = [workers[v] EXCEPT !.current = None, !.status = "idle",
                                                    !.failed = workers[v].failed + f]
    BY <2>1 DEF AfterGivingUp, Registration
  <2> QED
    BY <2>3, <2>4, <2>5
<1> QED
  BY <1>1, <1>2, <1>3

\* A row that is started is a row with one more attempt in its history.
LEMMA StartType ==
  ASSUME TypeOK, NEW j \in Jobs, NEW w \in Workers
  PROVE  /\ StartedRow(j, w) \in Row
         /\ StartedHistory(j, w) \in Seq(Attempt)
         /\ Len(StartedHistory(j, w)) = Len(attempts[j]) + 1
<1>1. StartedRow(j, w) \in Row
  <2>1. jobs[j] \in Row
    BY DEF TypeOK
  <2>2. "running" \in Status \cup {"absent"}
    BY DEF Status
  <2>3. /\ jobs[j].gen \in Nat /\ jobs[j].gen + 1 \in Nat
        /\ jobs[j].attempt \in Nat /\ jobs[j].attempt + 1 \in Nat
    BY <2>1 DEF Row
  <2>4. StartedRow(j, w) = [jobs[j] EXCEPT !.status = "running", !.worker = w, !.lease = "live",
                                           !.gen = jobs[j].gen + 1,
                                           !.attempt = jobs[j].attempt + 1]
    BY <2>1 DEF StartedRow, Row
  <2> QED
    BY <2>1, <2>2, <2>3, <2>4 DEF Row
<1> DEFINE past == IF jobs[j].status = "running" THEN CloseAttempt(attempts[j], "expired")
                   ELSE attempts[j]
           row == [worker |-> w, attempt |-> jobs[j].attempt + 1,
                   reclaimed |-> (jobs[j].status = "running"), outcome |-> "open"]
<1>2. past \in Seq(Attempt) /\ Len(past) = Len(attempts[j])
  <2>1. attempts[j] \in Seq(Attempt)
    BY DEF TypeOK
  <2> QED
    BY <2>1, CloseType
<1>3. row \in Attempt
  BY DEF TypeOK, Row, Attempt
<1>4. StartedHistory(j, w) = Append(past, row)
  BY DEF StartedHistory
<1> QED
  BY <1>1, <1>2, <1>3, <1>4
-----------------------------------------------------------------------------
(* Type correctness                                                         *)

LEMMA LegacyMaxType ==
  ASSUME NEW a \in LegacyAttempts
  PROVE  /\ a \in Nat /\ LegacyMax(a) \in Nat \ {0}
         /\ Larger(1, a) \in Nat /\ Larger(1, a) < LegacyMax(a) /\ a < LegacyMax(a)
BY LegacyAttemptsAssumption, MaxRetriesAssumption DEF LegacyMax, Larger

LEMMA InsertType ==
  ASSUME TypeOK, NEW j \in Jobs, NEW row \in Row, Insert(j, row)
  PROVE  TypeOK'
BY DEF TypeOK, Insert

LEMMA TypeSubmission ==
  ASSUME TypeOK, NEW j \in Jobs, Submission(j)
  PROVE  TypeOK'
<1>1. CASE \E r \in Repos, key \in Keys \cup {None} : SubmitJob(j, r, key)
  <2>1. PICK r \in Repos, key \in Keys \cup {None} : SubmitJob(j, r, key)
    BY <1>1
  <2> DEFINE row == [NoRow EXCEPT !.status = "queued", !.repo = r, !.key = key,
                                  !.max = MaxRetries]
  <2>2. row \in Row
    BY MaxRetriesAssumption DEF NoRow, Row, Status, Waiting
  <2>3. Insert(j, row)
    BY <2>1 DEF SubmitJob
  <2> QED
    BY <2>2, <2>3, InsertType
<1>2. CASE \E old \in Jobs : ResubmitJob(j, old)
  <2>1. PICK old \in Jobs : ResubmitJob(j, old)
    BY <1>2
  <2> DEFINE row == [NoRow EXCEPT !.status = "queued", !.repo = jobs[old].repo,
                                  !.parent = old, !.max = MaxRetries]
  <2>2. Insert(j, row)
    BY <2>1 DEF ResubmitJob
  <2>3. row \in Row
    <3>1. jobs[old].repo \in Repos \cup {None}
      BY DEF TypeOK, Row
    <3> QED
      BY <3>1, MaxRetriesAssumption DEF NoRow, Row, Status, Waiting
  <2> QED
    BY <2>2, <2>3, InsertType
<1>3. CASE \E r \in Repos, key \in Keys \cup {None}, old \in LegacyStatus,
              a \in LegacyAttempts, cancel \in BOOLEAN :
             ImportLegacyJob(j, r, key, old, a, cancel)
  <2>1. PICK r \in Repos, key \in Keys \cup {None}, old \in LegacyStatus,
             a \in LegacyAttempts, cancel \in BOOLEAN :
             ImportLegacyJob(j, r, key, old, a, cancel)
    BY <1>3
  <2> DEFINE status == IF old \in Terminal THEN old
                       ELSE IF cancel THEN "cancelled" ELSE "queued"
             b == IF old \in Terminal THEN a ELSE Larger(1, a)
             m == LegacyMax(a)
             row == [NoRow EXCEPT !.status = status, !.repo = r, !.key = key,
                                  !.cancel = cancel, !.attempt = b, !.max = m]
  <2>2. status \in Status /\ b \in Nat /\ m \in Nat
    BY LegacyMaxType DEF Status, Terminal, Waiting
  <2>3. row \in Row
    <3> HIDE DEF status, b, m
    <3> QED
      BY <2>2 DEF NoRow, Row, Status
  <2>4. Insert(j, row)
    BY <2>1 DEF ImportLegacyJob
  <2> QED
    BY <2>3, <2>4, InsertType
<1> QED
  BY <1>1, <1>2, <1>3 DEF Submission

LEMMA TypeRegistry ==
  ASSUME TypeOK, NEW w \in Workers, RegistryCall(w)
  PROVE  TypeOK'
<1>1. workers[w] \in Registration
  BY DEF TypeOK
<1>2. ASSUME NEW status \in {"idle", "busy", "stopped"}, NEW current \in Jobs \cup {None},
             workers' = [workers EXCEPT ![w] =
               [@ EXCEPT !.status = status, !.current = current, !.stale = FALSE]],
             UNCHANGED <<jobs, active, attempts, guard>>
      PROVE  TypeOK'
  <2> DEFINE row == [workers[w] EXCEPT !.status = status, !.current = current, !.stale = FALSE]
  <2>1. row \in Registration
    BY <1>1 DEF Registration
  <2>2. workers' = [workers EXCEPT ![w] = row]
    BY <1>2
  <2> HIDE DEF row
  <2> QED
    BY <1>2, <2>1, <2>2 DEF TypeOK
<1>3. CASE RegisterWorker(w)
  BY <1>2, <1>3 DEF RegisterWorker
<1>4. CASE \E current \in Reported(w) : HeartbeatWorker(w, current)
  <2>1. PICK current \in Jobs \cup {None} : HeartbeatWorker(w, current)
    BY <1>4 DEF Reported
  <2> QED
    BY <1>2, <2>1 DEF HeartbeatWorker
<1>5. CASE StopWorker(w)
  BY <1>2, <1>5 DEF StopWorker
<1> QED
  BY <1>3, <1>4, <1>5 DEF RegistryCall

LEMMA TypeClaim ==
  ASSUME TypeOK, NEW w \in Workers, Claim(w)
  PROVE  TypeOK'
<1>1. ASSUME NEW C \in SUBSET Jobs, ClaimNothing(w, C) PROVE TypeOK'
  BY <1>1, GivingUpType DEF TypeOK, ClaimNothing
<1>2. ASSUME NEW C \in SUBSET Jobs, NEW j \in Jobs, ClaimJob(w, C, j) PROVE TypeOK'
  <2>1. jobs' \in [Jobs -> Row]
    BY <1>2, GivingUpType, StartType DEF TypeOK, ClaimJob
  <2>2. active' \in [Repos -> Jobs \cup {None}]
    BY <1>2 DEF TypeOK, ClaimJob
  <2>3. attempts' \in [Jobs -> Seq(Attempt)]
    BY <1>2, GivingUpType, StartType DEF TypeOK, ClaimJob
  <2>4. workers' \in [Workers -> Registration]
    <3> DEFINE claimer == [AfterGivingUp(w, C) EXCEPT !.status = "busy", !.current = j,
                                                      !.stale = FALSE]
    <3>1. claimer \in Registration
      <4>1. AfterGivingUp(w, C) \in Registration
        BY GivingUpType
      <4> QED
        BY <4>1 DEF Registration
    <3>2. workers' = [v \in Workers |-> IF v = w THEN claimer ELSE AfterGivingUp(v, C)]
      BY <1>2 DEF ClaimJob
    <3> HIDE DEF claimer
    <3> QED
      BY <3>1, <3>2, GivingUpType
  <2>5. guard' \in [Repos -> (Jobs \X Nat) \cup {None}]
    BY <1>2 DEF TypeOK, ClaimJob
  <2> QED
    BY <2>1, <2>2, <2>3, <2>4, <2>5 DEF TypeOK
<1> QED
  BY <1>1, <1>2 DEF Claim

\* Whatever status a worker reports, _finish leaves rows of the right type.
LEMMA TypeFinish ==
  ASSUME TypeOK, NEW j \in Jobs, NEW g \in DOMAIN attempts[j],
         NEW asked \in Terminal \cup {"retrying"}, Finish(j, g, asked)
  PROVE  TypeOK'
<1> DEFINE status == IF jobs[j].cancel THEN "cancelled" ELSE asked
           w == attempts[j][g].worker
           r == jobs[j].repo
<1>1. status \in Terminal \cup {"retrying"}
  BY DEF Terminal
<1>2. attempts[j] \in Seq(Attempt) /\ g \in Nat /\ w \in Workers
  <2>1. attempts[j] \in Seq(Attempt)
    BY DEF TypeOK
  <2>2. g \in Nat /\ attempts[j][g] \in Attempt
    BY <2>1
  <2> QED
    BY <2>1, <2>2 DEF Attempt
<1> HIDE DEF status, w
<1>3. jobs' \in [Jobs -> Row]
  <2> DEFINE row == [jobs[j] EXCEPT !.status = status, !.worker = None, !.lease = "none",
                                    !.ready = (status /= "retrying")]
  <2>1. jobs' = [jobs EXCEPT ![j] = row]
    BY DEF Finish, status
  <2>2. status \in Status \cup {"absent"}
    BY <1>1 DEF Status, Waiting
  <2>3. jobs[j] \in Row
    BY DEF TypeOK
  <2>4. row \in Row
    BY <2>2, <2>3 DEF Row
  <2> HIDE DEF row
  <2> QED
    BY <2>1, <2>4 DEF TypeOK
<1>4. active' \in [Repos -> Jobs \cup {None}]
  BY DEF Finish, TypeOK
<1>5. attempts' \in [Jobs -> Seq(Attempt)]
  <2>1. attempts' = [attempts EXCEPT ![j] = [attempts[j] EXCEPT ![g].outcome = status]]
    BY DEF Finish, TypeOK, status
  <2>2. [attempts[j] EXCEPT ![g].outcome = status] \in Seq(Attempt)
    BY <1>1, <1>2, OutcomeType
  <2> QED
    BY <2>1, <2>2 DEF TypeOK
<1>6. workers' \in [Workers -> Registration]
  <2> DEFINE c == IF status \in Completed THEN 1 ELSE 0
             f == IF status = "failed" THEN 1 ELSE 0
             row == [workers[w] EXCEPT !.status = "idle", !.current = None,
                                       !.completed = workers[w].completed + c,
                                       !.failed = workers[w].failed + f]
  <2>1. workers' = IF workers[w].current /= j THEN workers ELSE [workers EXCEPT ![w] = row]
    <3>1. CreditedRow(w, status) = row
      BY DEF CreditedRow
    <3> QED
      BY <3>1 DEF Finish, status, w
  <2>2. workers[w] \in Registration
    BY <1>2 DEF TypeOK
  <2>3. row \in Registration
    <3>1. workers[w].completed + c \in Nat /\ workers[w].failed + f \in Nat
      BY <2>2 DEF Registration
    <3> QED
      BY <2>2, <3>1 DEF Registration
  <2> HIDE DEF row
  <2> QED
    BY <2>1, <2>2, <2>3 DEF TypeOK
<1>7. guard' \in [Repos -> (Jobs \X Nat) \cup {None}]
  BY DEF Finish, TypeOK
<1> QED
  BY <1>3, <1>4, <1>5, <1>6, <1>7 DEF TypeOK

\* A use of a handle is a renewal, a guard or one of the three ways to finish.
LEMMA HandleUseCases ==
  ASSUME NEW j \in Jobs, NEW g \in DOMAIN attempts[j], HandleUse(j, g)
  PROVE  \/ RenewLease(j, g)
         \/ EnterGuard(j, g)
         \/ \E asked \in Terminal \cup {"retrying"} :
              /\ Finish(j, g, asked)
              /\ asked = "retrying" => ~(attempts[j][g].attempt >= jobs[j].max)
BY DEF HandleUse, CompleteJob, CancelJob, ScheduleRetry, Terminal, Completed
LEMMA LeaseType ==
  ASSUME TypeOK, NEW j \in Jobs
  PROVE  /\ [jobs[j] EXCEPT !.lease = "live"] \in Row
         /\ [jobs[j] EXCEPT !.lease = "expired"] \in Row
         /\ [jobs[j] EXCEPT !.ready = TRUE] \in Row
<1>1. jobs[j] \in Row
  BY DEF TypeOK
<1> QED
  BY <1>1 DEF Row

LEMMA TypeHandleUse ==
  ASSUME TypeOK, NEW j \in Jobs, NEW g \in DOMAIN attempts[j], HandleUse(j, g)
  PROVE  TypeOK'
<1>1. CASE RenewLease(j, g)
  BY <1>1, LeaseType DEF TypeOK, RenewLease
<1>2. CASE EnterGuard(j, g)
  <2>1. g \in Nat
    BY DEF TypeOK
  <2> QED
    BY <1>2, <2>1 DEF TypeOK, EnterGuard
<1>3. CASE \E asked \in Terminal \cup {"retrying"} : Finish(j, g, asked)
  BY <1>3, TypeFinish
<1> QED
  BY <1>1, <1>2, <1>3, HandleUseCases

\* Every step keeps every table well typed.
LEMMA TypeStep ==
  ASSUME TypeOK, [Next]_vars
  PROVE  TypeOK'
<1>1. ASSUME NEW j \in Jobs, Submission(j) PROVE TypeOK'
  BY <1>1, TypeSubmission
<1>2. ASSUME NEW j \in Jobs, RequestCancel(j) PROVE TypeOK'
  <2> DEFINE row == [jobs[j] EXCEPT !.cancel = TRUE,
                       !.status = IF jobs[j].status \in Waiting THEN "cancelled" ELSE jobs[j].status]
  <2>1. jobs[j] \in Row
    BY DEF TypeOK
  <2>2. row \in Row
    BY <2>1 DEF Row, Status, Terminal
  <2>3. jobs' = [jobs EXCEPT ![j] = row]
    BY <1>2 DEF RequestCancel, CancelledRow
  <2> HIDE DEF row
  <2> QED
    BY <1>2, <2>2, <2>3 DEF TypeOK, RequestCancel
<1>3. ASSUME NEW w \in Workers, RegistryCall(w) PROVE TypeOK'
  BY <1>3, TypeRegistry
<1>4. ASSUME NEW w \in Workers, Claim(w) PROVE TypeOK'
  BY <1>4, TypeClaim
<1>5. ASSUME NEW j \in Jobs, NEW g \in DOMAIN attempts[j], HandleUse(j, g) PROVE TypeOK'
  BY <1>5, TypeHandleUse
<1>6. ASSUME NEW r \in Repos, ExitGuard(r) PROVE TypeOK'
  BY <1>6 DEF TypeOK, ExitGuard
<1>7. CASE Time
  <2>1. ASSUME NEW j \in Jobs, LeaseExpires(j) PROVE TypeOK'
    BY <2>1, LeaseType DEF TypeOK, LeaseExpires
  <2>2. ASSUME NEW j \in Jobs, RetryFallsDue(j) PROVE TypeOK'
    BY <2>2, LeaseType DEF TypeOK, RetryFallsDue
  <2>3. ASSUME NEW w \in Workers, WorkerFallsSilent(w) PROVE TypeOK'
    BY <2>3 DEF TypeOK, WorkerFallsSilent, Registration
  <2> QED
    BY <1>7, <2>1, <2>2, <2>3 DEF Time
<1>8. CASE UNCHANGED vars
  BY <1>8 DEF TypeOK, vars
<1> QED
  BY <1>1, <1>2, <1>3, <1>4, <1>5, <1>6, <1>7, <1>8 DEF Next

LEMMA TypeInit == Init => TypeOK
BY DEF Init, TypeOK, NoRow, Row, Status, Terminal, Completed, Waiting, Unregistered, Registration

\* Every table holds rows of its type in every reachable state.
THEOREM TypeCorrect == Spec => []TypeOK
<1>1. Init => TypeOK
  BY TypeInit
<1>2. TypeOK /\ [Next]_vars => TypeOK'
  BY TypeStep
<1> QED
  BY <1>1, <1>2, PTL DEF Spec
-----------------------------------------------------------------------------
(* The inductive invariant                                                  *)

\* What giving up a job leaves of its row and its history.
LEMMA GivenUpFields ==
  ASSUME TypeOK, NEW c \in Jobs
  PROVE  /\ GivenUpRow(c).status = Verdict(c)
         /\ Verdict(c) \in Terminal
         /\ GivenUpRow(c).repo = jobs[c].repo /\ GivenUpRow(c).gen = jobs[c].gen
         /\ GivenUpRow(c).attempt = jobs[c].attempt /\ GivenUpRow(c).max = jobs[c].max
         /\ GivenUpRow(c).cancel = jobs[c].cancel
         /\ Len(GivenUpHistory(c)) = Len(attempts[c])
         /\ \A k \in 1..Len(attempts[c]) :
              GivenUpHistory(c)[k].attempt = attempts[c][k].attempt
<1>1. jobs[c] \in Row /\ attempts[c] \in Seq(Attempt) /\ Len(attempts[c]) \in Nat
  BY DEF TypeOK
<1>2. Verdict(c) \in Terminal
  BY DEF Verdict, Terminal
<1>3. /\ Len(GivenUpHistory(c)) = Len(attempts[c])
      /\ \A k \in 1..Len(attempts[c]) :
           GivenUpHistory(c)[k].attempt = attempts[c][k].attempt
  BY <1>1, <1>2, OutcomeType DEF GivenUpHistory, CloseAttempt
<1> QED
  BY <1>1, <1>2, <1>3 DEF GivenUpRow, Row

\* What starting a job makes of its row and its history.
LEMMA StartedFields ==
  ASSUME TypeOK, NEW j \in Jobs, NEW w \in Workers
  PROVE  /\ StartedRow(j, w).status = "running"
         /\ StartedRow(j, w).repo = jobs[j].repo /\ StartedRow(j, w).gen = jobs[j].gen + 1
         /\ StartedRow(j, w).attempt = jobs[j].attempt + 1
         /\ StartedRow(j, w).max = jobs[j].max
         /\ StartedRow(j, w).cancel = jobs[j].cancel
         /\ Len(StartedHistory(j, w)) = Len(attempts[j]) + 1
         /\ StartedHistory(j, w)[Len(attempts[j]) + 1].attempt = jobs[j].attempt + 1
<1>1. jobs[j] \in Row /\ attempts[j] \in Seq(Attempt) /\ Len(attempts[j]) \in Nat
  BY DEF TypeOK
<1> DEFINE past == IF jobs[j].status = "running" THEN CloseAttempt(attempts[j], "expired")
                   ELSE attempts[j]
           row == [worker |-> w, attempt |-> jobs[j].attempt + 1,
                   reclaimed |-> (jobs[j].status = "running"), outcome |-> "open"]
<1>2. past \in Seq(Attempt) /\ Len(past) = Len(attempts[j])
  BY <1>1, CloseType
<1>3. StartedHistory(j, w) = Append(past, row)
  BY DEF StartedHistory
<1>4. row \in Attempt /\ row.attempt = jobs[j].attempt + 1
  BY <1>1 DEF Row, Attempt
<1> HIDE DEF past, row
<1>5. /\ Len(StartedHistory(j, w)) = Len(attempts[j]) + 1
      /\ StartedHistory(j, w)[Len(attempts[j]) + 1] = row
  BY <1>1, <1>2, <1>3, <1>4
<1> QED
  BY <1>1, <1>4, <1>5 DEF StartedRow, Row

\* The rows a claim gives up all run on an expired lease and hold the reservation of
\* their repository: waiting jobs always have an attempt left.
LEMMA GivenUpWereRunning ==
  ASSUME CoordinationInv, NEW C \in SUBSET Jobs, GivesUp(C), NEW c \in C
  PROVE  /\ jobs[c].status = "running" /\ jobs[c].lease = "expired"
         /\ jobs[c].repo \in Repos
         /\ active[jobs[c].repo] = c
         /\ guard[jobs[c].repo] = None
<1>1. Selectable(c, C) /\ Hopeless(c)
  BY DEF GivesUp
<1>2. jobs[c].status = "running" /\ jobs[c].lease = "expired"
  BY <1>1 DEF CoordinationInv, BudgetRespected, Selectable, Runnable
<1>3. jobs[c].repo \in Repos
  BY <1>2 DEF CoordinationInv, HandlesMatchRows, Exists
<1> QED
  BY <1>1, <1>2, <1>3 DEF CoordinationInv, ReservationMatchesRunning, Selectable

\* The row a submission inserts is new, has a repository and no generation, and waits only
\* with an attempt left and no cancellation.
LEMMA SubmissionInserts ==
  ASSUME CoordinationInv, NEW j \in Jobs, Submission(j)
  PROVE  \E row \in Row :
           /\ Insert(j, row)
           /\ row.repo \in Repos /\ row.gen = 0
           /\ row.status \in Terminal \cup {"queued"}
           /\ row.attempt <= row.max
           /\ row.max - row.attempt \in Budgets
           /\ row.status = "queued" => ~row.cancel /\ row.attempt < row.max
<1>1. CASE \E r \in Repos, key \in Keys \cup {None} : SubmitJob(j, r, key)
  <2>1. PICK r \in Repos, key \in Keys \cup {None} : SubmitJob(j, r, key)
    BY <1>1
  <2> DEFINE row == [NoRow EXCEPT !.status = "queued", !.repo = r, !.key = key,
                                  !.max = MaxRetries]
  <2>2. Insert(j, row)
    BY <2>1 DEF SubmitJob
  <2>3. /\ row \in Row /\ row.repo = r /\ row.gen = 0 /\ row.status = "queued"
        /\ row.attempt = 0 /\ row.max = MaxRetries /\ ~row.cancel
    BY MaxRetriesAssumption DEF NoRow, Row, Status, Waiting
  <2>4. row.max - row.attempt = MaxRetries
    BY <2>3, MaxRetriesAssumption
  <2> HIDE DEF row
  <2> QED
    BY <2>2, <2>3, <2>4, MaxRetriesAssumption DEF Budgets
<1>2. CASE \E old \in Jobs : ResubmitJob(j, old)
  <2>1. PICK old \in Jobs : ResubmitJob(j, old)
    BY <1>2
  <2> DEFINE row == [NoRow EXCEPT !.status = "queued", !.repo = jobs[old].repo,
                                  !.parent = old, !.max = MaxRetries]
  <2>2. Insert(j, row)
    BY <2>1 DEF ResubmitJob
  <2>3. jobs[old].repo \in Repos
    BY <2>1 DEF ResubmitJob, CoordinationInv, HandlesMatchRows, Exists, Terminal, Completed
  <2>4. /\ row \in Row /\ row.repo \in Repos /\ row.gen = 0 /\ row.status = "queued"
        /\ row.attempt = 0 /\ row.max = MaxRetries /\ ~row.cancel
    BY <2>3, MaxRetriesAssumption DEF NoRow, Row, Status, Waiting
  <2>5. row.max - row.attempt = MaxRetries
    BY <2>4, MaxRetriesAssumption
  <2> HIDE DEF row
  <2> QED
    BY <2>2, <2>4, <2>5, MaxRetriesAssumption DEF Budgets
<1>3. CASE \E r \in Repos, key \in Keys \cup {None}, old \in LegacyStatus,
              a \in LegacyAttempts, cancel \in BOOLEAN :
             ImportLegacyJob(j, r, key, old, a, cancel)
  <2>1. PICK r \in Repos, key \in Keys \cup {None}, old \in LegacyStatus,
             a \in LegacyAttempts, cancel \in BOOLEAN :
             ImportLegacyJob(j, r, key, old, a, cancel)
    BY <1>3
  <2> DEFINE status == IF old \in Terminal THEN old
                       ELSE IF cancel THEN "cancelled" ELSE "queued"
             b == IF old \in Terminal THEN a ELSE Larger(1, a)
             row == [NoRow EXCEPT !.status = status, !.repo = r, !.key = key,
                                  !.cancel = cancel, !.attempt = b, !.max = LegacyMax(a)]
  <2>2. /\ status \in Terminal \cup {"queued"}
        /\ status = "queued" => ~cancel
    BY DEF Terminal, Completed
  <2>3. b \in Nat /\ b < LegacyMax(a) /\ LegacyMax(a) \in Nat
    BY LegacyMaxType
  <2>4. LegacyMax(a) - b \in Budgets
    BY DEF Budgets
  <2>5. Insert(j, row)
    BY <2>1 DEF ImportLegacyJob
  <2> HIDE DEF status, b
  <2>6. /\ row.repo = r /\ row.gen = 0 /\ row.status = status /\ row.attempt = b
        /\ row.max = LegacyMax(a) /\ row.cancel = cancel
    BY DEF NoRow
  <2>7. row \in Row
    <3>1. status \in Status
      BY <2>2 DEF Status, Waiting
    <3> QED
      BY <2>3, <3>1 DEF NoRow, Row, Status
  <2>8. row.status = "queued" => ~row.cancel /\ row.attempt < row.max
    BY <2>2, <2>3, <2>6
  <2>9. /\ row.status \in Terminal \cup {"queued"} /\ row.attempt <= row.max
        /\ row.max - row.attempt \in Budgets
    BY <2>2, <2>3, <2>4, <2>6
  <2> HIDE DEF row
  <2> QED
    BY <2>5, <2>6, <2>7, <2>8, <2>9
<1> QED
  BY <1>1, <1>2, <1>3 DEF Submission
\* A step that leaves reservations, histories and guards alone and at most cancels waiting
\* jobs or marks running ones keeps the invariant.
LEMMA QuietStep ==
  ASSUME CoordinationInv, TypeOK', UNCHANGED <<active, attempts, guard>>,
         \A k \in Jobs :
           /\ jobs'[k].repo = jobs[k].repo /\ jobs'[k].gen = jobs[k].gen
           /\ jobs'[k].attempt = jobs[k].attempt /\ jobs'[k].max = jobs[k].max
           /\ \/ jobs'[k].status = jobs[k].status /\ jobs'[k].cancel = jobs[k].cancel
              \/ jobs[k].status = "running" /\ jobs'[k].status = "running"
              \/ jobs[k].status \in Waiting /\ jobs'[k].status = "cancelled"
  PROVE  CoordinationInv'
<1>1. HandlesMatchRows'
  BY DEF CoordinationInv, HandlesMatchRows, Exists, Waiting
<1>2. ReservationMatchesRunning'
  BY DEF CoordinationInv, ReservationMatchesRunning, Waiting
<1>3. GuardHolderOwns'
  BY DEF CoordinationInv, GuardHolderOwns, Waiting
<1>4. BudgetRespected'
  BY DEF CoordinationInv, BudgetRespected, Hopeless, Waiting
<1> QED
  BY <1>1, <1>2, <1>3, <1>4 DEF CoordinationInv

\* So does a step that only rewrites the lease or the delay of a job.
LEMMA LeaseStep ==
  ASSUME CoordinationInv, TypeOK', NEW j \in Jobs, NEW v,
         \/ jobs' = [jobs EXCEPT ![j].lease = v]
         \/ jobs' = [jobs EXCEPT ![j].ready = v],
         UNCHANGED <<active, attempts, guard>>
  PROVE  CoordinationInv'
<1>1. jobs \in [Jobs -> Row]
  BY DEF CoordinationInv, TypeOK
<1>2. ASSUME NEW k \in Jobs
      PROVE  /\ jobs'[k].repo = jobs[k].repo /\ jobs'[k].gen = jobs[k].gen
             /\ jobs'[k].attempt = jobs[k].attempt /\ jobs'[k].max = jobs[k].max
             /\ jobs'[k].status = jobs[k].status /\ jobs'[k].cancel = jobs[k].cancel
  <2>1. jobs[k] \in Row
    BY <1>1
  <2>2. \/ jobs'[k] = jobs[k]
        \/ jobs'[k] = [jobs[k] EXCEPT !.lease = v]
        \/ jobs'[k] = [jobs[k] EXCEPT !.ready = v]
    BY <1>1
  <2> QED
    BY <2>1, <2>2 DEF Row
<1> QED
  BY <1>2, QuietStep

LEMMA InvSubmission ==
  ASSUME CoordinationInv, TypeOK', NEW j \in Jobs, Submission(j)
  PROVE  CoordinationInv'
<1>1. PICK row \in Row :
        /\ Insert(j, row)
        /\ row.repo \in Repos /\ row.gen = 0
        /\ row.status \in Terminal \cup {"queued"}
        /\ row.attempt <= row.max
        /\ row.status = "queued" => ~row.cancel /\ row.attempt < row.max
  BY SubmissionInserts
<1>2. /\ jobs[j].status = "absent" /\ jobs[j].gen = 0
      /\ jobs' = [jobs EXCEPT ![j] = row]
      /\ UNCHANGED <<active, attempts, guard>>
  BY <1>1 DEF Insert, Exists, CoordinationInv, HandlesMatchRows
<1>3. \A k \in Jobs : jobs'[k] = IF k = j THEN row ELSE jobs[k]
  BY <1>2 DEF CoordinationInv, TypeOK
<1>4. HandlesMatchRows'
  BY <1>1, <1>2, <1>3 DEF CoordinationInv, HandlesMatchRows, Exists
<1>5. ReservationMatchesRunning'
  BY <1>1, <1>2, <1>3 DEF CoordinationInv, ReservationMatchesRunning, Terminal, Completed
<1>6. GuardHolderOwns'
  BY <1>1, <1>2, <1>3 DEF CoordinationInv, GuardHolderOwns
<1>7. BudgetRespected'
  <2>1. ~(row.attempt >= row.max) \/ row.status # "queued"
    BY <1>1 DEF Row
  <2> QED
    BY <1>1, <1>2, <1>3, <2>1
    DEF CoordinationInv, BudgetRespected, Hopeless, Waiting, Terminal, Completed
<1> QED
  BY <1>4, <1>5, <1>6, <1>7 DEF CoordinationInv

LEMMA InvClaimNothing ==
  ASSUME CoordinationInv, TypeOK', NEW w \in Workers, NEW C \in SUBSET Jobs,
         ClaimNothing(w, C)
  PROVE  CoordinationInv'
<1>1. TypeOK /\ GivesUp(C)
  BY DEF CoordinationInv, ClaimNothing
<1>2. \A k \in Jobs : jobs'[k] = IF k \in C THEN GivenUpRow(k) ELSE jobs[k]
  BY DEF ClaimNothing
<1>3. HandlesMatchRows'
  <2>1. ASSUME NEW k \in Jobs
        PROVE  /\ Len(attempts'[k]) = jobs'[k].gen
               /\ jobs'[k].gen > 0 => attempts'[k][jobs'[k].gen].attempt = jobs'[k].attempt
    <3>1. CASE k \in C
      <4>1. jobs'[k].gen = jobs[k].gen /\ jobs'[k].attempt = jobs[k].attempt
        BY <1>1, <1>2, <3>1, GivenUpFields
      <4>2. attempts'[k] = GivenUpHistory(k)
        BY <3>1 DEF ClaimNothing
      <4>3. Len(attempts[k]) \in Nat /\ jobs[k].gen = Len(attempts[k])
        BY <1>1 DEF TypeOK, CoordinationInv, HandlesMatchRows
      <4> QED
        BY <1>1, <4>1, <4>2, <4>3, GivenUpFields DEF CoordinationInv, HandlesMatchRows
    <3>2. CASE k \notin C
      BY <1>2, <3>2 DEF ClaimNothing, CoordinationInv, HandlesMatchRows
    <3> QED
      BY <3>1, <3>2
  <2>2. ASSUME NEW k \in Jobs
        PROVE  (Exists(k)' => jobs'[k].repo \in Repos) /\ (~Exists(k)' => jobs'[k].gen = 0)
    BY <1>1, <1>2, GivenUpFields, GivenUpWereRunning
    DEF Exists, CoordinationInv, HandlesMatchRows, Terminal, Completed
  <2> QED
    BY <2>1, <2>2 DEF HandlesMatchRows
<1>4. ReservationMatchesRunning'
  <2>1. \A k \in C : jobs'[k].status # "running" /\ jobs'[k].repo = jobs[k].repo
    BY <1>1, <1>2, GivenUpFields DEF Terminal, Completed
  <2>2. \A r \in Repos : active'[r] = IF r \in ReposOf(C) THEN None ELSE active[r]
    BY DEF ClaimNothing
  <2> QED
    BY <1>1, <1>2, <2>1, <2>2, GivenUpWereRunning, NoneAssumption
    DEF ReposOf, CoordinationInv, ReservationMatchesRunning
<1>5. GuardHolderOwns'
  <2>1. guard' = guard
    BY DEF ClaimNothing
  <2>2. ASSUME NEW r \in Repos, guard[r] /= None, NEW j \in Jobs, active[r] = j,
               jobs[j].status = "running", guard[r] = <<j, jobs[j].gen>>
        PROVE  active'[r] = j /\ jobs'[j] = jobs[j]
    <3>1. jobs[j].repo = r
      BY <2>2 DEF CoordinationInv, ReservationMatchesRunning
    <3>2. r \notin ReposOf(C) /\ j \notin C
      BY <1>1, <2>2, <3>1, GivenUpWereRunning DEF ReposOf
    <3> QED
      BY <1>2, <2>2, <3>2 DEF ClaimNothing
  <2> QED
    BY <2>1, <2>2 DEF CoordinationInv, GuardHolderOwns
<1>6. BudgetRespected'
  BY <1>1, <1>2, GivenUpFields
  DEF CoordinationInv, BudgetRespected, Hopeless, Waiting, Terminal, Completed
<1> QED
  BY <1>3, <1>4, <1>5, <1>6 DEF CoordinationInv
\* The job a claim starts has a repository that nobody else runs in once the given-up jobs
\* are out of it, and an attempt left.
LEMMA StartedIsFree ==
  ASSUME CoordinationInv, NEW C \in SUBSET Jobs, GivesUp(C), NEW j \in Jobs, j \notin C,
         Selectable(j, C), ~Hopeless(j)
  PROVE  /\ jobs[j].status \in Waiting \cup {"running"}
         /\ jobs[j].repo \in Repos
         /\ guard[jobs[j].repo] = None
         /\ ~jobs[j].cancel
         /\ jobs[j].attempt < jobs[j].max
         /\ \A k \in Jobs :
              (jobs[k].status = "running" /\ jobs[k].repo = jobs[j].repo) => k \in C \cup {j}
<1>1. jobs[j].status \in Waiting \cup {"running"} /\ guard[jobs[j].repo] = None
  BY DEF Selectable, Runnable
<1>2. jobs[j].repo \in Repos
  BY <1>1 DEF CoordinationInv, HandlesMatchRows, Exists, Waiting
<1>3. ~jobs[j].cancel /\ jobs[j].attempt < jobs[j].max
  BY DEF Hopeless, CoordinationInv, TypeOK, Row
<1>4. ASSUME NEW k \in Jobs, jobs[k].status = "running", jobs[k].repo = jobs[j].repo
      PROVE  k \in C \cup {j}
  <2>1. active[jobs[j].repo] = k
    BY <1>2, <1>4 DEF CoordinationInv, ReservationMatchesRunning
  <2> QED
    BY <2>1, NoneAssumption DEF Selectable
<1> QED
  BY <1>1, <1>2, <1>3, <1>4

LEMMA InvClaimJob ==
  ASSUME CoordinationInv, TypeOK', NEW w \in Workers, NEW C \in SUBSET Jobs,
         NEW j \in Jobs, ClaimJob(w, C, j)
  PROVE  CoordinationInv'
<1>1. /\ TypeOK /\ GivesUp(C) /\ j \notin C /\ Selectable(j, C) /\ ~Hopeless(j)
      /\ guard' = guard
  BY DEF CoordinationInv, ClaimJob
<1>2. \A k \in Jobs : jobs'[k] = IF k = j THEN StartedRow(j, w)
                                ELSE IF k \in C THEN GivenUpRow(k) ELSE jobs[k]
  BY DEF ClaimJob
<1>3. \A r \in Repos : active'[r] = IF r = jobs[j].repo THEN j
                                   ELSE IF r \in ReposOf(C) THEN None ELSE active[r]
  BY DEF ClaimJob
<1>4. \A k \in Jobs : attempts'[k] = IF k = j THEN StartedHistory(j, w)
                                    ELSE IF k \in C THEN GivenUpHistory(k) ELSE attempts[k]
  BY DEF ClaimJob
<1>5. HandlesMatchRows'
  <2>1. ASSUME NEW k \in Jobs
        PROVE  /\ Len(attempts'[k]) = jobs'[k].gen
               /\ jobs'[k].gen > 0 => attempts'[k][jobs'[k].gen].attempt = jobs'[k].attempt
    <3>1. Len(attempts[k]) \in Nat /\ jobs[k].gen = Len(attempts[k])
      BY <1>1 DEF TypeOK, CoordinationInv, HandlesMatchRows
    <3>2. CASE k = j
      BY <1>1, <1>2, <1>4, <3>1, <3>2, StartedFields
    <3>3. CASE k # j /\ k \in C
      <4>1. jobs'[k].gen = jobs[k].gen /\ jobs'[k].attempt = jobs[k].attempt
        BY <1>1, <1>2, <3>3, GivenUpFields
      <4>2. attempts'[k] = GivenUpHistory(k)
        BY <1>4, <3>3
      <4> QED
        BY <1>1, <3>1, <4>1, <4>2, GivenUpFields DEF CoordinationInv, HandlesMatchRows
    <3>4. CASE k # j /\ k \notin C
      BY <1>2, <1>4, <3>4 DEF CoordinationInv, HandlesMatchRows
    <3> QED
      BY <3>2, <3>3, <3>4
  <2>2. ASSUME NEW k \in Jobs
        PROVE  (Exists(k)' => jobs'[k].repo \in Repos) /\ (~Exists(k)' => jobs'[k].gen = 0)
    <3>1. CASE k = j
      BY <1>1, <1>2, <3>1, StartedFields, StartedIsFree DEF Exists
    <3>2. CASE k # j /\ k \in C
      BY <1>1, <1>2, <3>2, GivenUpFields, GivenUpWereRunning DEF Exists, Terminal, Completed
    <3>3. CASE k # j /\ k \notin C
      BY <1>2, <3>3 DEF Exists, CoordinationInv, HandlesMatchRows
    <3> QED
      BY <3>1, <3>2, <3>3
  <2> QED
    BY <2>1, <2>2 DEF HandlesMatchRows
<1>6. ReservationMatchesRunning'
  <2>1. \A k \in C : jobs'[k].status # "running" /\ jobs'[k].repo = jobs[k].repo
    BY <1>1, <1>2, GivenUpFields DEF Terminal, Completed
  <2>2. jobs'[j].status = "running" /\ jobs'[j].repo = jobs[j].repo
    BY <1>1, <1>2, StartedFields
  <2>3. ASSUME NEW r \in Repos, NEW k \in Jobs
        PROVE  active'[r] = k <=> (jobs'[k].status = "running" /\ jobs'[k].repo = r)
    <3>1. CASE k = j
      <4>1. active[r] = j => jobs[j].repo = r
        BY DEF CoordinationInv, ReservationMatchesRunning
      <4> QED
        BY <1>3, <2>2, <3>1, <4>1, NoneAssumption
    <3>2. CASE k # j /\ k \in C
      BY <1>1, <1>3, <2>1, <3>2, NoneAssumption, GivenUpWereRunning
      DEF ReposOf, CoordinationInv, ReservationMatchesRunning
    <3>3. CASE k # j /\ k \notin C
      <4>1. jobs'[k] = jobs[k]
        BY <1>2, <3>3
      <4>2. CASE r = jobs[j].repo
        BY <1>1, <1>3, <3>3, <4>1, <4>2, StartedIsFree
      <4>3. CASE r # jobs[j].repo /\ r \in ReposOf(C)
        <5>1. PICK c \in C : active[r] = c
          BY <1>1, <4>3, GivenUpWereRunning DEF ReposOf
        <5> QED
          BY <1>3, <3>3, <4>1, <4>3, <5>1, NoneAssumption
          DEF CoordinationInv, ReservationMatchesRunning
      <4>4. CASE r # jobs[j].repo /\ r \notin ReposOf(C)
        BY <1>3, <4>1, <4>4 DEF CoordinationInv, ReservationMatchesRunning
      <4> QED
        BY <4>2, <4>3, <4>4
    <3> QED
      BY <3>1, <3>2, <3>3
  <2> QED
    BY <2>3 DEF ReservationMatchesRunning
<1>7. GuardHolderOwns'
  <2>1. ASSUME NEW r \in Repos, guard[r] /= None, NEW k \in Jobs, active[r] = k,
               jobs[k].status = "running", guard[r] = <<k, jobs[k].gen>>
        PROVE  active'[r] = k /\ jobs'[k] = jobs[k]
    <3>1. jobs[k].repo = r
      BY <2>1 DEF CoordinationInv, ReservationMatchesRunning
    <3>2. r \notin ReposOf(C) /\ k \notin C
      BY <1>1, <2>1, <3>1, GivenUpWereRunning DEF ReposOf
    <3>3. r # jobs[j].repo /\ k # j
      BY <1>1, <2>1, <3>1, StartedIsFree
    <3> QED
      BY <1>2, <1>3, <2>1, <3>2, <3>3
  <2> QED
    BY <1>1, <2>1 DEF CoordinationInv, GuardHolderOwns
<1>8. BudgetRespected'
  <2>1. ASSUME NEW k \in Jobs
        PROVE  /\ jobs'[k].attempt <= jobs'[k].max
               /\ jobs'[k].status \in Waiting =>
                    ~(jobs'[k].cancel \/ jobs'[k].attempt >= jobs'[k].max)
    <3>1. CASE k = j
      <4>1. jobs[j].attempt \in Nat /\ jobs[j].max \in Nat
        BY <1>1 DEF TypeOK, Row
      <4>2. jobs[j].attempt < jobs[j].max
        BY <1>1, StartedIsFree
      <4>3. /\ jobs'[k].attempt = jobs[j].attempt + 1 /\ jobs'[k].max = jobs[j].max
            /\ jobs'[k].status = "running"
        BY <1>1, <1>2, <3>1, StartedFields
      <4> QED
        BY <4>1, <4>2, <4>3 DEF Waiting
    <3>2. CASE k # j /\ k \in C
      BY <1>1, <1>2, <3>2, GivenUpFields
      DEF CoordinationInv, BudgetRespected, Waiting, Terminal, Completed
    <3>3. CASE k # j /\ k \notin C
      BY <1>2, <3>3 DEF CoordinationInv, BudgetRespected, Hopeless
    <3> QED
      BY <3>1, <3>2, <3>3
  <2> QED
    BY <2>1 DEF BudgetRespected, Hopeless
<1> QED
  BY <1>5, <1>6, <1>7, <1>8 DEF CoordinationInv
\* A handle that is still owned is the last attempt of its job, which holds the reservation
\* of its repository.
LEMMA OwnedIsCurrent ==
  ASSUME CoordinationInv, NEW j \in Jobs, NEW g, Owned(j, g)
  PROVE  /\ jobs[j].status = "running" /\ g = jobs[j].gen
         /\ g \in Nat /\ g = Len(attempts[j]) /\ g > 0
         /\ attempts[j] \in Seq(Attempt)
         /\ attempts[j][g].attempt = jobs[j].attempt
         /\ jobs[j].repo \in Repos /\ active[jobs[j].repo] = j
<1>1. attempts[j] \in Seq(Attempt) /\ Len(attempts[j]) \in Nat
  BY DEF CoordinationInv, TypeOK
<1>2. g \in DOMAIN attempts[j] /\ jobs[j].status = "running" /\ g = jobs[j].gen
  BY DEF Owned
<1>3. g = Len(attempts[j]) /\ g > 0 /\ attempts[j][g].attempt = jobs[j].attempt
  BY <1>1, <1>2 DEF CoordinationInv, HandlesMatchRows
<1>4. jobs[j].repo \in Repos
  BY <1>2 DEF CoordinationInv, HandlesMatchRows, Exists
<1> QED
  BY <1>1, <1>2, <1>3, <1>4 DEF CoordinationInv, ReservationMatchesRunning

\* What finishing makes of the rows.
LEMMA FinishFields ==
  ASSUME CoordinationInv, NEW j \in Jobs, NEW g \in DOMAIN attempts[j],
         NEW asked \in Terminal \cup {"retrying"}, Finish(j, g, asked)
  PROVE  /\ jobs'[j].status = IF jobs[j].cancel THEN "cancelled" ELSE asked
         /\ jobs'[j].repo = jobs[j].repo /\ jobs'[j].gen = jobs[j].gen
         /\ jobs'[j].attempt = jobs[j].attempt /\ jobs'[j].max = jobs[j].max
         /\ jobs'[j].cancel = jobs[j].cancel
         /\ \A k \in Jobs \ {j} : jobs'[k] = jobs[k] /\ attempts'[k] = attempts[k]
         /\ Len(attempts'[j]) = Len(attempts[j])
         /\ \A k \in DOMAIN attempts[j] : attempts'[j][k].attempt = attempts[j][k].attempt
         /\ guard' = guard /\ guard[jobs[j].repo] = None
         /\ active' = [active EXCEPT ![jobs[j].repo] = None]
<1> DEFINE status == IF jobs[j].cancel THEN "cancelled" ELSE asked
           row == [jobs[j] EXCEPT !.status = status, !.worker = None, !.lease = "none",
                                  !.ready = (status /= "retrying")]
           history == [attempts[j] EXCEPT ![g].outcome = status]
<1>1. jobs' = [jobs EXCEPT ![j] = row] /\ guard' = guard /\ guard[jobs[j].repo] = None
  BY DEF Finish
<1>2. TypeOK /\ Owned(j, g)
  BY DEF CoordinationInv, Finish
<1>3. jobs[j] \in Row
  BY <1>2 DEF TypeOK
<1>4. /\ row.status = status
      /\ row.repo = jobs[j].repo /\ row.gen = jobs[j].gen
      /\ row.attempt = jobs[j].attempt /\ row.max = jobs[j].max
      /\ row.cancel = jobs[j].cancel
  BY <1>3 DEF Row
<1>5. jobs'[j] = row /\ \A k \in Jobs \ {j} : jobs'[k] = jobs[k]
  <2> HIDE DEF row
  <2> QED
    BY <1>1, <1>2 DEF TypeOK
<1>6. attempts' = [attempts EXCEPT ![j] = history]
  BY <1>2 DEF Finish, TypeOK
<1>7. /\ Len(history) = Len(attempts[j])
      /\ \A k \in DOMAIN attempts[j] : history[k].attempt = attempts[j][k].attempt
  <2>1. attempts[j] \in Seq(Attempt) /\ g \in Nat /\ DOMAIN attempts[j] = 1..Len(attempts[j])
    BY <1>2, OwnedIsCurrent
  <2>2. status \in Terminal \cup {"retrying"}
    BY DEF Terminal
  <2> HIDE DEF status
  <2> QED
    BY <2>1, <2>2, OutcomeType
<1>8. attempts'[j] = history /\ \A k \in Jobs \ {j} : attempts'[k] = attempts[k]
  <2> HIDE DEF history
  <2> QED
    BY <1>2, <1>6 DEF TypeOK
<1>9. active' = [active EXCEPT ![jobs[j].repo] = None]
  BY <1>2, OwnedIsCurrent DEF Finish
<1> HIDE DEF row, history
<1> QED
  BY <1>1, <1>4, <1>5, <1>7, <1>8, <1>9

LEMMA InvFinish ==
  ASSUME CoordinationInv, TypeOK', NEW j \in Jobs, NEW g \in DOMAIN attempts[j],
         NEW asked \in Terminal \cup {"retrying"}, Finish(j, g, asked),
         asked = "retrying" => ~(attempts[j][g].attempt >= jobs[j].max)
  PROVE  CoordinationInv'
<1>1. Owned(j, g)
  BY DEF Finish
<1>2. /\ jobs[j].status = "running" /\ g = jobs[j].gen /\ g = Len(attempts[j])
      /\ jobs[j].repo \in Repos /\ active[jobs[j].repo] = j
      /\ attempts[j][g].attempt = jobs[j].attempt
  BY <1>1, OwnedIsCurrent
<1>3. jobs'[j].status \in Terminal \cup {"retrying"}
  BY FinishFields DEF Terminal
<1>4. HandlesMatchRows'
  <2>1. ASSUME NEW k \in Jobs \ {j}
        PROVE  /\ Len(attempts'[k]) = jobs'[k].gen
               /\ jobs'[k].gen > 0 => attempts'[k][jobs'[k].gen].attempt = jobs'[k].attempt
               /\ jobs'[k].status # "absent" => jobs'[k].repo \in Repos
               /\ ~(jobs'[k].status # "absent") => jobs'[k].gen = 0
    BY FinishFields DEF CoordinationInv, HandlesMatchRows, Exists
  <2>2. /\ Len(attempts'[j]) = jobs'[j].gen
        /\ attempts'[j][jobs'[j].gen].attempt = jobs'[j].attempt
    <3>1. jobs'[j].gen = g /\ jobs'[j].attempt = jobs[j].attempt
      BY <1>2, FinishFields
    <3>2. Len(attempts'[j]) = g /\ attempts'[j][g].attempt = attempts[j][g].attempt
      BY <1>2, FinishFields
    <3> QED
      BY <1>2, <3>1, <3>2
  <2>3. jobs'[j].status # "absent" /\ jobs'[j].repo \in Repos
    BY <1>2, <1>3, FinishFields DEF Terminal, Completed
  <2> QED
    BY <2>1, <2>2, <2>3 DEF HandlesMatchRows, Exists
<1>5. \A r \in Repos : active'[r] = IF r = jobs[j].repo THEN None ELSE active[r]
  BY FinishFields DEF CoordinationInv, TypeOK
<1>6. ReservationMatchesRunning'
  BY <1>2, <1>3, <1>5, FinishFields, NoneAssumption
  DEF CoordinationInv, ReservationMatchesRunning, Terminal, Completed
<1>7. GuardHolderOwns'
  <2>1. ASSUME NEW r \in Repos, guard[r] /= None, NEW k \in Jobs, active[r] = k,
               jobs[k].status = "running", guard[r] = <<k, jobs[k].gen>>
        PROVE  active'[r] = k /\ jobs'[k] = jobs[k]
    <3>1. r # jobs[j].repo
      BY <2>1, FinishFields
    <3>2. k # j
      BY <2>1, <3>1 DEF CoordinationInv, ReservationMatchesRunning
    <3> QED
      BY <1>5, <2>1, <3>1, <3>2, FinishFields
  <2> QED
    BY <2>1, FinishFields DEF CoordinationInv, GuardHolderOwns
<1>8. BudgetRespected'
  <2>1. ASSUME NEW k \in Jobs \ {j}
        PROVE  /\ jobs'[k].attempt <= jobs'[k].max
               /\ jobs'[k].status \in Waiting =>
                    ~(jobs'[k].cancel \/ jobs'[k].attempt >= jobs'[k].max)
    BY FinishFields DEF CoordinationInv, BudgetRespected, Hopeless
  <2>2. jobs'[j].attempt <= jobs'[j].max
    BY FinishFields DEF CoordinationInv, BudgetRespected
  <2>3. ASSUME jobs'[j].status \in Waiting
        PROVE  ~(jobs'[j].cancel \/ jobs'[j].attempt >= jobs'[j].max)
    <3>1. ~jobs[j].cancel /\ asked = "retrying"
      BY <2>3, FinishFields DEF Waiting, Terminal, Completed
    <3> QED
      BY <1>2, <3>1, FinishFields
  <2> QED
    BY <2>1, <2>2, <2>3 DEF BudgetRespected, Hopeless
<1> QED
  BY <1>4, <1>6, <1>7, <1>8 DEF CoordinationInv

LEMMA InvEnterGuard ==
  ASSUME CoordinationInv, TypeOK', NEW j \in Jobs, NEW g \in DOMAIN attempts[j],
         EnterGuard(j, g)
  PROVE  CoordinationInv'
<1>1. Owned(j, g) /\ UNCHANGED <<jobs, active, attempts>>
  BY DEF EnterGuard
<1>2. \A r \in Repos : guard'[r] = IF r = jobs[j].repo THEN <<j, g>> ELSE guard[r]
  BY DEF EnterGuard, CoordinationInv, TypeOK
<1>3. GuardHolderOwns'
  BY <1>1, <1>2, OwnedIsCurrent DEF CoordinationInv, GuardHolderOwns
<1> QED
  BY <1>1, <1>3 DEF CoordinationInv, HandlesMatchRows, Exists, ReservationMatchesRunning,
                    BudgetRespected, Hopeless
\* Every step keeps the inductive invariant.
LEMMA InvStep ==
  ASSUME CoordinationInv, [Next]_vars
  PROVE  CoordinationInv'
<1>1. TypeOK /\ TypeOK'
  BY TypeStep DEF CoordinationInv
<1>2. ASSUME NEW j \in Jobs, Submission(j) PROVE CoordinationInv'
  BY <1>1, <1>2, InvSubmission
<1>3. ASSUME NEW j \in Jobs, RequestCancel(j) PROVE CoordinationInv'
  <2>1. jobs[j] \in Row
    BY <1>1 DEF TypeOK
  <2>2. \A k \in Jobs : jobs'[k] = IF k = j THEN CancelledRow(j) ELSE jobs[k]
    BY <1>1, <1>3 DEF RequestCancel, TypeOK
  <2>3. /\ CancelledRow(j).repo = jobs[j].repo /\ CancelledRow(j).gen = jobs[j].gen
        /\ CancelledRow(j).attempt = jobs[j].attempt /\ CancelledRow(j).max = jobs[j].max
        /\ CancelledRow(j).status =
             IF jobs[j].status \in Waiting THEN "cancelled" ELSE jobs[j].status
    BY <2>1 DEF CancelledRow, Row
  <2>4. jobs[j].status \in Waiting \cup {"running"} /\ UNCHANGED <<active, attempts, guard>>
    BY <1>3 DEF RequestCancel
  <2> QED
    BY <1>1, <2>2, <2>3, <2>4, QuietStep
<1>4. ASSUME NEW w \in Workers, RegistryCall(w) PROVE CoordinationInv'
  <2>1. UNCHANGED <<jobs, active, attempts, guard>>
    BY <1>4 DEF RegistryCall, RegisterWorker, HeartbeatWorker, StopWorker
  <2> QED
    BY <1>1, <2>1, QuietStep
<1>5. ASSUME NEW w \in Workers, Claim(w) PROVE CoordinationInv'
  BY <1>1, <1>5, InvClaimNothing, InvClaimJob DEF Claim
<1>6. ASSUME NEW j \in Jobs, NEW g \in DOMAIN attempts[j], HandleUse(j, g)
      PROVE  CoordinationInv'
  <2>1. CASE RenewLease(j, g)
    BY <1>1, <2>1, LeaseStep DEF RenewLease
  <2>2. CASE EnterGuard(j, g)
    BY <1>1, <2>2, InvEnterGuard
  <2>3. CASE \E asked \in Terminal \cup {"retrying"} :
               /\ Finish(j, g, asked)
               /\ asked = "retrying" => ~(attempts[j][g].attempt >= jobs[j].max)
    BY <1>1, <2>3, InvFinish
  <2> QED
    BY <1>6, <2>1, <2>2, <2>3, HandleUseCases
<1>7. ASSUME NEW r \in Repos, ExitGuard(r) PROVE CoordinationInv'
  BY <1>1, <1>7
  DEF ExitGuard, CoordinationInv, TypeOK, HandlesMatchRows, Exists, ReservationMatchesRunning,
      GuardHolderOwns, BudgetRespected, Hopeless
<1>8. CASE Time
  <2>1. ASSUME NEW j \in Jobs, LeaseExpires(j) \/ RetryFallsDue(j) PROVE CoordinationInv'
    BY <1>1, <2>1, LeaseStep DEF LeaseExpires, RetryFallsDue
  <2>2. ASSUME NEW w \in Workers, WorkerFallsSilent(w) PROVE CoordinationInv'
    BY <1>1, <2>2, QuietStep DEF WorkerFallsSilent
  <2> QED
    BY <1>8, <2>1, <2>2 DEF Time
<1>9. CASE UNCHANGED vars
  BY <1>1, <1>9, QuietStep DEF vars
<1> QED
  BY <1>2, <1>3, <1>4, <1>5, <1>6, <1>7, <1>8, <1>9 DEF Next

LEMMA InvInit == Init => CoordinationInv
<1> SUFFICES ASSUME Init PROVE CoordinationInv
  OBVIOUS
<1>1. TypeOK
  BY TypeInit
<1> QED
  BY <1>1, NoneAssumption
  DEF Init, CoordinationInv, HandlesMatchRows, Exists, NoRow, ReservationMatchesRunning,
      GuardHolderOwns, BudgetRespected, Waiting

\* A repository is reserved by exactly the job that runs in it, a guard is held only by the
\* current generation of that job, and budgets are respected, in every reachable state.
THEOREM Coordinated == Spec => []CoordinationInv
<1>1. Init => CoordinationInv
  BY InvInit
<1>2. CoordinationInv /\ [Next]_vars => CoordinationInv'
  BY InvStep
<1> QED
  BY <1>1, <1>2, PTL DEF Spec

\* The reservation of a repository names exactly the job that runs in it, always.
THEOREM ReservationHolds == Spec => []ReservationMatchesRunning
<1>1. CoordinationInv => ReservationMatchesRunning
  BY DEF CoordinationInv
<1> QED
  BY <1>1, Coordinated, PTL

\* Whoever writes to the index under a mutation guard is the current owner, always.
THEOREM GuardFences == Spec => []GuardHolderOwns
<1>1. CoordinationInv => GuardHolderOwns
  BY DEF CoordinationInv
<1> QED
  BY <1>1, Coordinated, PTL

\* No job is started beyond its budget, and no waiting job is hopeless, ever.
THEOREM BudgetHolds == Spec => []BudgetRespected
<1>1. CoordinationInv => BudgetRespected
  BY DEF CoordinationInv
<1> QED
  BY <1>1, Coordinated, PTL
=============================================================================
