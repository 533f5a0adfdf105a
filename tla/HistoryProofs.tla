---------------------------- MODULE HistoryProofs ----------------------------
(***************************************************************************)
(* What happens to one job over time, for all jobs, repositories, workers, *)
(* budgets and clean-up limits: its history explains its status, finished  *)
(* jobs stay finished, leases stay expired, cancellation wins.  A step of  *)
(* Coordination may change several jobs at once, but does one of six       *)
(* things to each (Fate); everything here follows from these.              *)
(***************************************************************************)
EXTENDS CoordinationProofs, FiniteSetTheorems

Outcomes == Terminal \cup {"retrying"}

Untouched(k) == jobs'[k] = jobs[k] /\ attempts'[k] = attempts[k]

Entered(k) ==
  /\ jobs[k].status = "absent" /\ attempts'[k] = attempts[k]
  /\ jobs'[k].status \in Terminal \cup {"queued"}
  /\ jobs'[k].lease = "none" /\ jobs'[k].gen = 0

Asked(k) ==
  /\ jobs[k].status \in Waiting \cup {"running"} /\ attempts'[k] = attempts[k]
  /\ jobs'[k] = CancelledRow(k)

\* Its attempt ends: reported by its worker, or given up by a claim.
Closed(k) ==
  /\ jobs[k].status = "running"
  /\ \E status \in Outcomes :
       /\ jobs[k].cancel => status = "cancelled"
       /\ jobs'[k].status = status /\ jobs'[k].lease = "none"
       /\ jobs'[k].gen = jobs[k].gen /\ jobs'[k].cancel = jobs[k].cancel
       /\ jobs'[k].repo = jobs[k].repo
       /\ attempts'[k] = CloseAttempt(attempts[k], status)

Started(k) ==
  /\ jobs[k].status \in Waiting \cup {"running"} /\ ~jobs[k].cancel
  /\ \E w \in Workers : jobs'[k] = StartedRow(k, w) /\ attempts'[k] = StartedHistory(k, w)

Aged(k) ==
  /\ attempts'[k] = attempts[k]
  /\ \/ jobs[k].lease = "live" /\ jobs'[k] = [jobs[k] EXCEPT !.lease = "expired"]
     \/ jobs[k].status = "retrying" /\ jobs'[k] = [jobs[k] EXCEPT !.ready = TRUE]

Fate(k) == Untouched(k) \/ Entered(k) \/ Asked(k) \/ Closed(k) \/ Started(k) \/ Aged(k)

-----------------------------------------------------------------------------
(* Every step does one of these to each job.                               *)

LEMMA SubmissionFate ==
  ASSUME CoordinationInv, NEW j \in Jobs, Submission(j)
  PROVE  \A k \in Jobs : Fate(k)
<1>1. PICK row \in Row : /\ Insert(j, row)
                         /\ row.gen = 0 /\ row.status \in Terminal \cup {"queued"}
  BY SubmissionInserts
<1>2. jobs'[j].lease = "none"
  <2>1. ASSUME NEW x, Insert(j, x), x.lease = "none" PROVE jobs'[j].lease = "none"
    BY <2>1 DEF Insert, CoordinationInv, TypeOK
  <2>2. CASE \E r \in Repos, key \in Keys \cup {None} : SubmitJob(j, r, key)
    BY <2>1, <2>2 DEF SubmitJob, NoRow
  <2>3. CASE \E old \in Jobs : ResubmitJob(j, old)
    BY <2>1, <2>3 DEF ResubmitJob, NoRow
  <2>4. CASE \E r \in Repos, key \in Keys \cup {None}, old \in LegacyStatus,
                a \in LegacyAttempts, cancel \in BOOLEAN :
               ImportLegacyJob(j, r, key, old, a, cancel)
    BY <2>1, <2>4 DEF ImportLegacyJob, NoRow
  <2> QED
    BY <2>2, <2>3, <2>4 DEF Submission
<1>3. jobs' = [jobs EXCEPT ![j] = row] /\ attempts' = attempts /\ jobs[j].status = "absent"
  BY <1>1 DEF Insert, Exists
<1>4. jobs'[j] = row /\ \A k \in Jobs \ {j} : jobs'[k] = jobs[k]
  BY <1>3 DEF CoordinationInv, TypeOK
<1> QED
  BY <1>1, <1>2, <1>3, <1>4 DEF Fate, Entered, Untouched

LEMMA ClaimFate ==
  ASSUME CoordinationInv, NEW w \in Workers, Claim(w)
  PROVE  \A k \in Jobs : Fate(k)
<1>1. TypeOK
  BY DEF CoordinationInv
<1>2. ASSUME NEW C \in SUBSET Jobs, GivesUp(C), NEW k \in C,
             jobs'[k] = GivenUpRow(k), attempts'[k] = GivenUpHistory(k)
      PROVE  Closed(k)
  <2>1. jobs[k].status = "running"
    BY <1>2, GivenUpWereRunning
  <2>2. jobs[k] \in Row
    BY <1>1 DEF TypeOK
  <2>3. jobs'[k].lease = "none"
    BY <1>2, <2>2 DEF GivenUpRow, Row
  <2>4. /\ jobs'[k].status = Verdict(k) /\ Verdict(k) \in Outcomes
        /\ jobs'[k].gen = jobs[k].gen /\ jobs'[k].cancel = jobs[k].cancel
        /\ jobs'[k].repo = jobs[k].repo
    BY <1>1, <1>2, GivenUpFields DEF Outcomes
  <2> QED
    BY <1>2, <2>1, <2>3, <2>4 DEF Closed, GivenUpHistory, Verdict
<1>3. ASSUME NEW C \in SUBSET Jobs, ClaimNothing(w, C)
      PROVE  \A k \in Jobs : Fate(k)
  BY <1>2, <1>3 DEF ClaimNothing, Fate, Untouched
<1>4. ASSUME NEW C \in SUBSET Jobs, NEW j \in Jobs, ClaimJob(w, C, j), NEW k \in Jobs
      PROVE  Fate(k)
  <2>1. /\ jobs'[k] = IF k = j THEN StartedRow(j, w)
                      ELSE IF k \in C THEN GivenUpRow(k) ELSE jobs[k]
        /\ attempts'[k] = IF k = j THEN StartedHistory(j, w)
                          ELSE IF k \in C THEN GivenUpHistory(k) ELSE attempts[k]
        /\ GivesUp(C) /\ Selectable(j, C) /\ ~Hopeless(j)
    BY <1>4 DEF ClaimJob
  <2>2. CASE k = j
    BY <2>1, <2>2 DEF Fate, Started, Selectable, Runnable, Hopeless
  <2>3. CASE k # j /\ k \in C
    BY <1>2, <2>1, <2>3 DEF Fate
  <2>4. CASE k # j /\ k \notin C
    BY <2>1, <2>4 DEF Fate, Untouched
  <2> QED
    BY <2>2, <2>3, <2>4
<1> QED
  BY <1>3, <1>4 DEF Claim

LEMMA FinishFate ==
  ASSUME CoordinationInv, NEW j \in Jobs, NEW g \in DOMAIN attempts[j],
         NEW asked \in Outcomes, Finish(j, g, asked)
  PROVE  \A k \in Jobs : Fate(k)
<1> DEFINE status == IF jobs[j].cancel THEN "cancelled" ELSE asked
<1>1. Owned(j, g) /\ TypeOK
  BY DEF Finish, CoordinationInv
<1>2. /\ jobs'[j].status = status
      /\ jobs'[j].gen = jobs[j].gen /\ jobs'[j].cancel = jobs[j].cancel
      /\ jobs'[j].repo = jobs[j].repo
      /\ \A k \in Jobs \ {j} : jobs'[k] = jobs[k] /\ attempts'[k] = attempts[k]
  BY FinishFields DEF Outcomes
<1>3. jobs[j].status = "running" /\ g = Len(attempts[j])
  BY <1>1, OwnedIsCurrent
<1>4. status \in Outcomes
  BY DEF Outcomes, Terminal
<1>5. jobs'[j].lease = "none"
  <2>1. jobs[j] \in Row /\ jobs \in [Jobs -> Row]
    BY <1>1 DEF TypeOK
  <2>2. jobs'[j] = [jobs[j] EXCEPT !.status = status, !.worker = None, !.lease = "none",
                                   !.ready = (status /= "retrying")]
    BY <2>1 DEF Finish
  <2> QED
    BY <2>1, <2>2 DEF Row
<1>6. attempts'[j] = CloseAttempt(attempts[j], status)
  <2>1. attempts' = [attempts EXCEPT ![j][g].outcome = status]
    BY DEF Finish
  <2> QED
    BY <1>1, <1>3, <2>1 DEF CloseAttempt, TypeOK
<1> HIDE DEF status
<1>7. jobs[j].cancel => status = "cancelled"
  BY DEF status
<1>8. Closed(j)
  BY <1>2, <1>3, <1>4, <1>5, <1>6, <1>7 DEF Closed
<1> QED
  BY <1>2, <1>8 DEF Fate, Untouched

LEMMA StepFate ==
  ASSUME CoordinationInv, [Next]_vars
  PROVE  \A k \in Jobs : Fate(k)
<1>1. jobs \in [Jobs -> Row] /\ \A k \in Jobs : jobs[k] \in Row
  BY DEF CoordinationInv, TypeOK
<1>2. ASSUME UNCHANGED <<jobs, attempts>> PROVE \A k \in Jobs : Fate(k)
  BY <1>2 DEF Fate, Untouched
<1>3. ASSUME NEW j \in Jobs, RequestCancel(j) PROVE \A k \in Jobs : Fate(k)
  BY <1>1, <1>3 DEF RequestCancel, Fate, Asked, Untouched
<1>4. ASSUME NEW w \in Workers, RegistryCall(w) PROVE \A k \in Jobs : Fate(k)
  BY <1>2, <1>4 DEF RegistryCall, RegisterWorker, HeartbeatWorker, StopWorker
<1>5. ASSUME NEW j \in Jobs, NEW g \in DOMAIN attempts[j], HandleUse(j, g)
      PROVE  \A k \in Jobs : Fate(k)
  <2>1. CASE RenewLease(j, g)
    <3>1. jobs[j].lease = "live" /\ jobs' = [jobs EXCEPT ![j].lease = "live"]
          /\ attempts' = attempts
      BY <2>1 DEF RenewLease, Owned
    <3>2. jobs'[j] = jobs[j]
      BY <1>1, <3>1 DEF Row
    <3> QED
      BY <1>1, <3>1, <3>2 DEF Fate, Untouched
  <2>2. CASE EnterGuard(j, g)
    BY <1>2, <2>2 DEF EnterGuard
  <2>3. CASE \E asked \in Terminal \cup {"retrying"} : Finish(j, g, asked)
    BY <2>3, FinishFate DEF Outcomes
  <2> QED
    BY <1>5, <2>1, <2>2, <2>3, HandleUseCases
<1>6. ASSUME NEW r \in Repos, ExitGuard(r) PROVE \A k \in Jobs : Fate(k)
  BY <1>2, <1>6 DEF ExitGuard
<1>7. CASE Time
  <2>1. ASSUME NEW j \in Jobs, LeaseExpires(j) PROVE \A k \in Jobs : Fate(k)
    BY <1>1, <2>1 DEF LeaseExpires, Fate, Aged, Untouched
  <2>2. ASSUME NEW j \in Jobs, RetryFallsDue(j) PROVE \A k \in Jobs : Fate(k)
    BY <1>1, <2>2 DEF RetryFallsDue, Fate, Aged, Untouched
  <2>3. ASSUME NEW w \in Workers, WorkerFallsSilent(w) PROVE \A k \in Jobs : Fate(k)
    BY <1>2, <2>3 DEF WorkerFallsSilent
  <2> QED
    BY <1>7, <2>1, <2>2, <2>3 DEF Time
<1> QED
  BY <1>2, <1>3, <1>4, <1>5, <1>6, <1>7, SubmissionFate, ClaimFate DEF Next, vars

-----------------------------------------------------------------------------
(* The invariant                                                           *)

\* Exactly running jobs have a lease, and only jobs in the table can be cancelled.
Leased ==
  \A k \in Jobs :
    /\ jobs[k].lease = "none" <=> jobs[k].status # "running"
    /\ jobs[k].status = "absent" => ~jobs[k].cancel

HistoryInv == CoordinationInv /\ Leased /\ HistoryExplainsStatus /\ ReclaimedAfterExpiry

\* What the fates of a job do to the parts of its row.
LEMMA FateFields ==
  ASSUME TypeOK, NEW k \in Jobs
  PROVE  /\ Asked(k) => /\ jobs'[k].status = IF jobs[k].status \in Waiting THEN "cancelled"
                                             ELSE jobs[k].status
                        /\ jobs'[k].lease = jobs[k].lease /\ jobs'[k].gen = jobs[k].gen
                        /\ jobs'[k].worker = jobs[k].worker /\ jobs'[k].cancel
                        /\ jobs'[k].repo = jobs[k].repo
         /\ Started(k) => /\ jobs'[k].status = "running" /\ jobs'[k].lease = "live"
                          /\ jobs'[k].gen = jobs[k].gen + 1
                          /\ jobs'[k].cancel = jobs[k].cancel /\ jobs'[k].repo = jobs[k].repo
         /\ Aged(k) => /\ jobs'[k].status = jobs[k].status /\ jobs'[k].gen = jobs[k].gen
                       /\ jobs'[k].worker = jobs[k].worker /\ jobs'[k].cancel = jobs[k].cancel
                       /\ jobs'[k].repo = jobs[k].repo
                       /\ \/ jobs'[k].lease = jobs[k].lease /\ jobs[k].status = "retrying"
                          \/ jobs[k].lease = "live" /\ jobs'[k].lease = "expired"
<1>1. jobs[k] \in Row
  BY DEF TypeOK
<1>2. Asked(k) => /\ jobs'[k].status = IF jobs[k].status \in Waiting THEN "cancelled"
                                       ELSE jobs[k].status
                  /\ jobs'[k].lease = jobs[k].lease /\ jobs'[k].gen = jobs[k].gen
                  /\ jobs'[k].worker = jobs[k].worker /\ jobs'[k].cancel
                  /\ jobs'[k].repo = jobs[k].repo
  BY <1>1 DEF Asked, CancelledRow, Row
<1>3. Started(k) => /\ jobs'[k].status = "running" /\ jobs'[k].lease = "live"
                    /\ jobs'[k].gen = jobs[k].gen + 1
                    /\ jobs'[k].cancel = jobs[k].cancel /\ jobs'[k].repo = jobs[k].repo
  BY <1>1 DEF Started, StartedRow, Row
<1>4. Aged(k) => /\ jobs'[k].status = jobs[k].status /\ jobs'[k].gen = jobs[k].gen
                 /\ jobs'[k].worker = jobs[k].worker /\ jobs'[k].cancel = jobs[k].cancel
                 /\ jobs'[k].repo = jobs[k].repo
                 /\ \/ jobs'[k].lease = jobs[k].lease /\ jobs[k].status = "retrying"
                    \/ jobs[k].lease = "live" /\ jobs'[k].lease = "expired"
  BY <1>1 DEF Aged, Row
<1> QED
  BY <1>2, <1>3, <1>4

LEMMA LeasedStep ==
  ASSUME TypeOK, Leased, \A k \in Jobs : Fate(k)
  PROVE  Leased'
<1> SUFFICES ASSUME NEW k \in Jobs
             PROVE  /\ jobs'[k].lease = "none" <=> jobs'[k].status # "running"
                    /\ jobs'[k].status = "absent" => ~jobs'[k].cancel
  BY DEF Leased
<1>1. /\ jobs[k].lease = "none" <=> jobs[k].status # "running"
      /\ jobs[k].status = "absent" => ~jobs[k].cancel
  BY DEF Leased
<1>2. CASE Untouched(k)
  BY <1>1, <1>2 DEF Untouched
<1>3. CASE Entered(k)
  BY <1>3 DEF Entered, Terminal, Completed
<1>4. CASE Asked(k)
  <2>1. /\ jobs'[k].status = IF jobs[k].status \in Waiting THEN "cancelled" ELSE jobs[k].status
        /\ jobs'[k].lease = jobs[k].lease
    BY <1>4, FateFields
  <2> QED
    BY <1>1, <1>4, <2>1 DEF Asked, Waiting
<1>5. CASE Closed(k)
  BY <1>5 DEF Closed, Outcomes, Terminal, Completed
<1>6. CASE Started(k)
  BY <1>6, FateFields
<1>7. CASE Aged(k)
  BY <1>1, <1>7, FateFields
<1> QED
  BY <1>2, <1>3, <1>4, <1>5, <1>6, <1>7 DEF Fate

\* Ending an attempt closes the last row of the history and leaves the others alone.
LEMMA CloseFields ==
  ASSUME TypeOK, NEW k \in Jobs, NEW o \in Terminal \cup {"open", "expired", "retrying"}
  PROVE  /\ CloseAttempt(attempts[k], o) \in Seq(Attempt)
         /\ Len(CloseAttempt(attempts[k], o)) = Len(attempts[k])
         /\ \A g \in 1..Len(attempts[k]) :
              CloseAttempt(attempts[k], o)[g].worker = attempts[k][g].worker
         /\ \A g \in 1..Len(attempts[k]) :
              CloseAttempt(attempts[k], o)[g].reclaimed = attempts[k][g].reclaimed
         /\ \A g \in 1..Len(attempts[k]) :
              CloseAttempt(attempts[k], o)[g].outcome =
                IF g = Len(attempts[k]) THEN o ELSE attempts[k][g].outcome
<1>1. attempts[k] \in Seq(Attempt) /\ Len(attempts[k]) \in Nat
  BY DEF TypeOK
<1> DEFINE s == attempts[k]
           i == Len(attempts[k])
<1>2. CloseAttempt(s, o) = [s EXCEPT ![i].outcome = o]
  BY DEF CloseAttempt
<1> HIDE DEF s, i
<1>3. s \in Seq(Attempt) /\ i \in Nat
  BY <1>1 DEF s, i
<1>4. [s EXCEPT ![i].outcome = o] \in Seq(Attempt) /\ Len([s EXCEPT ![i].outcome = o]) = Len(s)
  BY <1>3, OutcomeType
<1>5. \A g \in 1..Len(s) : [s EXCEPT ![i].outcome = o][g].reclaimed = s[g].reclaimed
  BY <1>3, OutcomeType
<1>6. \A g \in 1..Len(s) : [s EXCEPT ![i].outcome = o][g].worker = s[g].worker
  BY <1>3, OutcomeType
<1>7. \A g \in 1..Len(s) :
        [s EXCEPT ![i].outcome = o][g].outcome = IF g = i THEN o ELSE s[g].outcome
  BY <1>3, OutcomeType
<1> QED
  BY <1>2, <1>4, <1>5, <1>6, <1>7 DEF s, i

\* Starting a job appends an open row, and closes the one before it if its lease was lost.
LEMMA StartFields ==
  ASSUME TypeOK, NEW k \in Jobs, NEW w \in Workers
  PROVE  /\ Len(attempts[k]) \in Nat
         /\ StartedHistory(k, w) \in Seq(Attempt)
         /\ Len(StartedHistory(k, w)) = Len(attempts[k]) + 1
         /\ StartedHistory(k, w)[Len(attempts[k]) + 1].worker = w
         /\ StartedHistory(k, w)[Len(attempts[k]) + 1].outcome = "open"
         /\ StartedHistory(k, w)[Len(attempts[k]) + 1].reclaimed = (jobs[k].status = "running")
         /\ \A g \in 1..Len(attempts[k]) :
              /\ StartedHistory(k, w)[g].worker = attempts[k][g].worker
              /\ StartedHistory(k, w)[g].reclaimed = attempts[k][g].reclaimed
              /\ StartedHistory(k, w)[g].outcome =
                   IF g = Len(attempts[k]) /\ jobs[k].status = "running" THEN "expired"
                   ELSE attempts[k][g].outcome
<1> DEFINE n == Len(attempts[k])
           past == IF jobs[k].status = "running" THEN CloseAttempt(attempts[k], "expired")
                   ELSE attempts[k]
           row == [worker |-> w, attempt |-> jobs[k].attempt + 1,
                   reclaimed |-> (jobs[k].status = "running"), outcome |-> "open"]
<1>1. attempts[k] \in Seq(Attempt) /\ n \in Nat /\ jobs[k] \in Row
  BY DEF TypeOK
<1>2. /\ past \in Seq(Attempt) /\ Len(past) = n
      /\ \A g \in 1..n :
           /\ past[g].worker = attempts[k][g].worker
           /\ past[g].reclaimed = attempts[k][g].reclaimed
           /\ past[g].outcome = IF g = n /\ jobs[k].status = "running" THEN "expired"
                                ELSE attempts[k][g].outcome
  <2>1. CASE jobs[k].status = "running"
    <3>1. past = CloseAttempt(attempts[k], "expired")
      BY <2>1
    <3> HIDE DEF past
    <3>2. past \in Seq(Attempt) /\ Len(past) = n
      BY <3>1, CloseFields
    <3>3. \A g \in 1..n :
            past[g].worker = attempts[k][g].worker /\ past[g].reclaimed = attempts[k][g].reclaimed
      BY <3>1, CloseFields
    <3>4. \A g \in 1..n : CloseAttempt(attempts[k], "expired")[g].outcome =
                           IF g = n THEN "expired" ELSE attempts[k][g].outcome
      BY CloseFields
    <3> QED
      BY <2>1, <3>1, <3>2, <3>3, <3>4
  <2>2. CASE jobs[k].status # "running"
    BY <1>1, <2>2
  <2> QED
    BY <2>1, <2>2
<1>3. StartedHistory(k, w) = Append(past, row)
  BY DEF StartedHistory
<1>4. /\ row.worker = w /\ row.outcome = "open"
      /\ row.reclaimed = (jobs[k].status = "running")
      /\ row \in Attempt
  BY <1>1 DEF Row, Attempt
<1> HIDE DEF past, row
<1>5. /\ StartedHistory(k, w) \in Seq(Attempt)
      /\ Len(StartedHistory(k, w)) = n + 1
      /\ StartedHistory(k, w)[n + 1] = row
      /\ \A g \in 1..n : StartedHistory(k, w)[g] = past[g]
  BY <1>1, <1>2, <1>3, <1>4
<1> QED
  BY <1>1, <1>2, <1>4, <1>5

LEMMA ExplainsStep ==
  ASSUME HistoryInv, CoordinationInv', \A k \in Jobs : Fate(k)
  PROVE  HistoryExplainsStatus'
<1> SUFFICES ASSUME NEW k \in Jobs
             PROVE  LET n == Len(attempts'[k])
                    IN /\ n = jobs'[k].gen
                       /\ \A g \in 1..(n - 1) : attempts'[k][g].outcome \in {"expired", "retrying"}
                       /\ n > 0 => /\ attempts'[k][n].outcome \in LastOutcomes(jobs'[k].status)
                                   /\ attempts'[k][n].attempt = jobs'[k].attempt
                       /\ jobs'[k].status \in {"running", "retrying"} => n > 0
                       /\ jobs'[k].status = "running" => jobs'[k].worker = attempts'[k][n].worker
  BY DEF HistoryExplainsStatus, LastOutcomes
<1> DEFINE n == Len(attempts[k])
           m == Len(attempts'[k])
<1>1. /\ n = jobs[k].gen
      /\ \A g \in 1..(n - 1) : attempts[k][g].outcome \in {"expired", "retrying"}
      /\ n > 0 => attempts[k][n].outcome \in LastOutcomes(jobs[k].status)
      /\ jobs[k].status \in {"running", "retrying"} => n > 0
      /\ jobs[k].status = "running" => jobs[k].worker = attempts[k][n].worker
  BY DEF HistoryInv, HistoryExplainsStatus
<1>2. /\ m = jobs'[k].gen
      /\ m > 0 => attempts'[k][m].attempt = jobs'[k].attempt
  BY DEF CoordinationInv, HandlesMatchRows
<1>3. TypeOK /\ n \in Nat
  BY DEF HistoryInv, CoordinationInv, TypeOK
<1> SUFFICES /\ \A g \in 1..(m - 1) : attempts'[k][g].outcome \in {"expired", "retrying"}
             /\ m > 0 => attempts'[k][m].outcome \in LastOutcomes(jobs'[k].status)
             /\ jobs'[k].status \in {"running", "retrying"} => m > 0
             /\ jobs'[k].status = "running" => jobs'[k].worker = attempts'[k][m].worker
  BY <1>2
<1>4. CASE Untouched(k)
  BY <1>1, <1>4 DEF Untouched
<1>5. CASE Entered(k)
  <2>1. m = 0
    BY <1>2, <1>5 DEF Entered
  <2> QED
    BY <1>5, <2>1 DEF Entered, Terminal, Completed
<1>6. CASE Asked(k)
  <2>1. /\ attempts'[k] = attempts[k] /\ jobs'[k].worker = jobs[k].worker
        /\ jobs'[k].status = IF jobs[k].status \in Waiting THEN "cancelled" ELSE jobs[k].status
        /\ jobs[k].status \in Waiting \cup {"running"}
    BY <1>3, <1>6, FateFields DEF Asked
  <2>2. n > 0 => attempts'[k][n].outcome \in LastOutcomes(jobs'[k].status)
    BY <1>1, <2>1 DEF LastOutcomes, Waiting
  <2> QED
    BY <1>1, <2>1, <2>2
<1>7. CASE Closed(k)
  <2>1. PICK status \in Outcomes :
          /\ jobs'[k].status = status
          /\ attempts'[k] = CloseAttempt(attempts[k], status)
    BY <1>7 DEF Closed
  <2>2. jobs[k].status = "running" /\ n > 0
    BY <1>1, <1>7 DEF Closed
  <2>3. m = n /\ \A g \in 1..n :
                   attempts'[k][g].outcome = IF g = n THEN status ELSE attempts[k][g].outcome
    <3>1. status \in Terminal \cup {"open", "expired", "retrying"}
      BY DEF Outcomes
    <3>2. m = n
      BY <1>3, <2>1, <3>1, CloseFields
    <3>3. \A g \in 1..n :
            attempts'[k][g].outcome = IF g = n THEN status ELSE attempts[k][g].outcome
      <4>1. \A g \in 1..n : CloseAttempt(attempts[k], status)[g].outcome =
                             IF g = n THEN status ELSE attempts[k][g].outcome
        BY <1>3, <3>1, CloseFields
      <4> QED
        BY <2>1, <4>1
    <3> QED
      BY <3>2, <3>3
  <2>4. attempts'[k][m].outcome = status
        /\ \A g \in 1..(m - 1) : attempts'[k][g].outcome = attempts[k][g].outcome
    BY <1>3, <2>2, <2>3
  <2>5. status \in LastOutcomes(status) /\ status # "running"
    BY DEF LastOutcomes, Outcomes, Terminal, Completed, Waiting
  <2> QED
    BY <1>1, <2>1, <2>2, <2>3, <2>4, <2>5
<1>8. CASE Started(k)
  <2>1. PICK w \in Workers : jobs'[k] = StartedRow(k, w) /\ attempts'[k] = StartedHistory(k, w)
    BY <1>8 DEF Started
  <2>2. /\ m = n + 1 /\ attempts'[k][m].worker = w /\ attempts'[k][m].outcome = "open"
        /\ \A g \in 1..n :
             attempts'[k][g].outcome = IF g = n /\ jobs[k].status = "running" THEN "expired"
                                       ELSE attempts[k][g].outcome
    BY <1>3, <2>1, StartFields
  <2>3. jobs'[k].status = "running" /\ jobs'[k].worker = w
    BY <1>3, <2>1 DEF StartedRow, TypeOK, Row
  <2>4. jobs[k].status \in Waiting /\ n > 0 => attempts[k][n].outcome = "retrying"
    BY <1>1 DEF LastOutcomes, Waiting
  <2>5. ASSUME NEW g \in 1..n PROVE attempts'[k][g].outcome \in {"expired", "retrying"}
    <3>1. CASE g = n
      <4>1. n > 0 /\ jobs[k].status \in Waiting \cup {"running"}
        BY <1>3, <1>8, <3>1 DEF Started
      <4> QED
        BY <2>2, <2>4, <3>1, <4>1
    <3>2. CASE g # n
      <4>1. g \in 1..(n - 1)
        BY <1>3, <3>2
      <4> QED
        BY <1>1, <2>2, <3>2, <4>1
    <3> QED
      BY <3>1, <3>2
  <2>6. "open" \in LastOutcomes("running")
    BY DEF LastOutcomes, Waiting
  <2> QED
    BY <1>3, <2>2, <2>3, <2>5, <2>6
<1>9. CASE Aged(k)
  <2>1. /\ attempts'[k] = attempts[k] /\ jobs'[k].worker = jobs[k].worker
        /\ jobs'[k].status = jobs[k].status
    BY <1>3, <1>9, FateFields DEF Aged
  <2> QED
    BY <1>1, <2>1
<1> QED
  BY <1>4, <1>5, <1>6, <1>7, <1>8, <1>9 DEF Fate

LEMMA ReclaimedStep ==
  ASSUME HistoryInv, \A k \in Jobs : Fate(k)
  PROVE  ReclaimedAfterExpiry'
<1> SUFFICES ASSUME NEW k \in Jobs, NEW g \in DOMAIN attempts'[k]
             PROVE  attempts'[k][g].reclaimed <=> (g > 1 /\ attempts'[k][g - 1].outcome = "expired")
  BY DEF ReclaimedAfterExpiry
<1> DEFINE n == Len(attempts[k])
<1>1. \A h \in 1..n :
        attempts[k][h].reclaimed <=> (h > 1 /\ attempts[k][h - 1].outcome = "expired")
  BY DEF HistoryInv, ReclaimedAfterExpiry, CoordinationInv, TypeOK
<1>2. TypeOK /\ n \in Nat /\ DOMAIN attempts[k] = 1..n
  BY DEF HistoryInv, CoordinationInv, TypeOK
<1>3. CASE attempts'[k] = attempts[k]
  BY <1>1, <1>2, <1>3
<1>4. CASE Closed(k)
  <2>1. PICK status \in Outcomes : attempts'[k] = CloseAttempt(attempts[k], status)
    BY <1>4 DEF Closed
  <2>2. status \in Terminal \cup {"open", "expired", "retrying"}
    BY DEF Outcomes
  <2>3. DOMAIN attempts'[k] = 1..n
    <3>1. attempts'[k] \in Seq(Attempt) /\ Len(attempts'[k]) = n
      BY <1>2, <2>1, <2>2, CloseFields
    <3> QED
      BY <3>1
  <2>4. \A h \in 1..n : attempts'[k][h].reclaimed = attempts[k][h].reclaimed
    <3>1. \A h \in 1..n :
            CloseAttempt(attempts[k], status)[h].reclaimed = attempts[k][h].reclaimed
      BY <1>2, <2>2, CloseFields
    <3> QED
      BY <2>1, <3>1
  <2>5. \A h \in 1..n :
          attempts'[k][h].outcome = IF h = n THEN status ELSE attempts[k][h].outcome
    <3>1. \A h \in 1..n : CloseAttempt(attempts[k], status)[h].outcome =
                           IF h = n THEN status ELSE attempts[k][h].outcome
      BY <1>2, <2>2, CloseFields
    <3> QED
      BY <2>1, <3>1
  <2>6. g > 1 => attempts'[k][g - 1].outcome = attempts[k][g - 1].outcome
    BY <1>2, <2>3, <2>5
  <2> QED
    BY <1>1, <2>3, <2>4, <2>6
<1>5. CASE Started(k)
  <2>1. PICK w \in Workers : attempts'[k] = StartedHistory(k, w)
    BY <1>5 DEF Started
  <2>2. /\ Len(attempts'[k]) = n + 1
        /\ attempts'[k][n + 1].reclaimed = (jobs[k].status = "running")
        /\ \A h \in 1..n :
             /\ attempts'[k][h].reclaimed = attempts[k][h].reclaimed
             /\ attempts'[k][h].outcome = IF h = n /\ jobs[k].status = "running" THEN "expired"
                                          ELSE attempts[k][h].outcome
    BY <1>2, <2>1, StartFields
  <2>3. g \in 1..(n + 1)
    BY <1>2, <2>1, <2>2, StartType
  <2>4. CASE g = n + 1
    <3>1. jobs[k].status = "running" => n > 0
      BY DEF HistoryInv, HistoryExplainsStatus
    <3>2. jobs[k].status # "running" /\ n > 0 => attempts[k][n].outcome = "retrying"
      BY <1>5 DEF HistoryInv, HistoryExplainsStatus, LastOutcomes, Waiting, Started
    <3>3. g > 1 /\ g - 1 = n <=> n > 0
      BY <1>2, <2>4
    <3>4. n > 0 => attempts'[k][n].outcome = IF jobs[k].status = "running" THEN "expired"
                                             ELSE attempts[k][n].outcome
      BY <1>2, <2>2
    <3>5. CASE n > 0
      <4>1. g > 1 /\ g - 1 = n
        BY <3>3, <3>5
      <4> QED
        BY <2>2, <2>4, <3>2, <3>4, <3>5, <4>1
    <3>6. CASE ~(n > 0)
      <4>1. ~(g > 1) /\ jobs[k].status # "running"
        BY <1>2, <2>4, <3>1, <3>6
      <4> QED
        BY <2>2, <2>4, <4>1
    <3> QED
      BY <3>5, <3>6
  <2>5. CASE g \in 1..n
    <3>1. g > 1 => attempts'[k][g - 1].outcome = attempts[k][g - 1].outcome
      BY <1>2, <2>2, <2>5
    <3> QED
      BY <1>1, <2>2, <2>5, <3>1
  <2> QED
    BY <1>2, <2>3, <2>4, <2>5
<1> QED
  BY <1>3, <1>4, <1>5 DEF Fate, Untouched, Entered, Asked, Aged

\* The last attempt of a running job is open.
LEMMA OpenWhileRunning ==
  ASSUME HistoryInv, NEW k \in Jobs, jobs[k].status = "running"
  PROVE  /\ Len(attempts[k]) > 0 /\ attempts[k][Len(attempts[k])].outcome = "open"
         /\ jobs[k].worker = attempts[k][Len(attempts[k])].worker
<1>1. /\ Len(attempts[k]) > 0
      /\ attempts[k][Len(attempts[k])].outcome \in LastOutcomes("running")
      /\ jobs[k].worker = attempts[k][Len(attempts[k])].worker
  BY DEF HistoryInv, HistoryExplainsStatus
<1>2. LastOutcomes("running") = {"open"}
  BY DEF LastOutcomes, Waiting
<1> QED
  BY <1>1, <1>2

\* No step forgets an attempt, who made it, or how it ended.
LEMMA PastKept ==
  ASSUME HistoryInv, [Next]_vars, NEW k \in Jobs, NEW g \in DOMAIN attempts[k]
  PROVE  /\ g \in DOMAIN attempts'[k]
         /\ attempts'[k][g].worker = attempts[k][g].worker
         /\ attempts[k][g].outcome # "open" => attempts'[k][g].outcome = attempts[k][g].outcome
<1> DEFINE n == Len(attempts[k])
<1>1. /\ TypeOK /\ CoordinationInv
      /\ attempts[k] \in Seq(Attempt) /\ n \in Nat /\ DOMAIN attempts[k] = 1..n
  BY DEF HistoryInv, CoordinationInv, TypeOK
<1>2. Fate(k)
  BY <1>1, StepFate
<1>3. CASE attempts'[k] = attempts[k]
  BY <1>3
<1>4. CASE Closed(k)
  <2>1. PICK status \in Outcomes : attempts'[k] = CloseAttempt(attempts[k], status)
    BY <1>4 DEF Closed
  <2>2. status \in Terminal \cup {"open", "expired", "retrying"}
    BY DEF Outcomes
  <2>3. CloseAttempt(attempts[k], status) \in Seq(Attempt)
        /\ Len(CloseAttempt(attempts[k], status)) = n
    BY <1>1, <2>2, CloseFields
  <2>4. DOMAIN attempts'[k] = 1..n
    BY <2>1, <2>3
  <2>5. CloseAttempt(attempts[k], status)[g].worker = attempts[k][g].worker
    BY <1>1, <2>2, CloseFields
  <2>6. CloseAttempt(attempts[k], status)[g].outcome =
          IF g = n THEN status ELSE attempts[k][g].outcome
    BY <1>1, <2>2, CloseFields
  <2>7. g = n => attempts[k][g].outcome = "open"
    BY <1>1, <1>4, OpenWhileRunning DEF Closed
  <2> QED
    BY <1>1, <2>1, <2>4, <2>5, <2>6, <2>7
<1>5. CASE Started(k)
  <2>1. PICK w \in Workers : attempts'[k] = StartedHistory(k, w)
    BY <1>5 DEF Started
  <2>2. StartedHistory(k, w) \in Seq(Attempt) /\ Len(StartedHistory(k, w)) = n + 1
    BY <1>1, StartFields
  <2>3. g \in 1..(n + 1) /\ DOMAIN attempts'[k] = 1..(n + 1)
    BY <1>1, <2>1, <2>2
  <2>4. /\ StartedHistory(k, w)[g].worker = attempts[k][g].worker
        /\ StartedHistory(k, w)[g].outcome =
             IF g = n /\ jobs[k].status = "running" THEN "expired" ELSE attempts[k][g].outcome
    BY <1>1, StartFields
  <2>5. g = n /\ jobs[k].status = "running" => attempts[k][g].outcome = "open"
    BY OpenWhileRunning
  <2> QED
    BY <2>1, <2>3, <2>4, <2>5
<1> QED
  BY <1>2, <1>3, <1>4, <1>5 DEF Fate, Untouched, Entered, Asked, Aged

\* A job keeps its repository and never runs backwards: a handle that is Owned after a step
\* was Owned before it.
LEMMA RowKept ==
  ASSUME HistoryInv, [Next]_vars, NEW k \in Jobs, Exists(k)
  PROVE  /\ Exists(k)' /\ jobs'[k].repo = jobs[k].repo /\ jobs'[k].gen >= jobs[k].gen
         /\ jobs[k].cancel => jobs'[k].cancel
         /\ \A g \in DOMAIN attempts[k] : Owned(k, g)' => Owned(k, g)
<1>1. /\ TypeOK /\ CoordinationInv /\ jobs[k].gen \in Nat
      /\ DOMAIN attempts[k] = 1..jobs[k].gen
  <2>1. TypeOK /\ CoordinationInv /\ Len(attempts[k]) = jobs[k].gen
    BY DEF HistoryInv, CoordinationInv, HandlesMatchRows
  <2>2. jobs[k] \in Row /\ attempts[k] \in Seq(Attempt)
    BY <2>1 DEF TypeOK
  <2> QED
    BY <2>1, <2>2 DEF Row
<1>2. Fate(k)
  BY <1>1, StepFate
<1>3. \A g \in DOMAIN attempts[k] : attempts'[k][g].worker = attempts[k][g].worker
  BY PastKept
<1>4. CASE Untouched(k)
  BY <1>1, <1>4 DEF Untouched, Owned, Exists
<1>5. CASE Asked(k)
  <2>1. /\ jobs'[k].status = IF jobs[k].status \in Waiting THEN "cancelled" ELSE jobs[k].status
        /\ jobs'[k].lease = jobs[k].lease /\ jobs'[k].gen = jobs[k].gen
        /\ jobs'[k].worker = jobs[k].worker /\ jobs'[k].cancel
        /\ jobs'[k].repo = jobs[k].repo
    BY <1>1, <1>5, FateFields
  <2> QED
    BY <1>1, <1>3, <2>1 DEF Owned, Exists
<1>6. CASE Closed(k)
  BY <1>1, <1>6 DEF Closed, Owned, Exists, Outcomes, Terminal, Completed
<1>7. CASE Started(k)
  <2>1. /\ jobs'[k].status = "running" /\ jobs'[k].gen = jobs[k].gen + 1
        /\ jobs'[k].cancel = jobs[k].cancel /\ jobs'[k].repo = jobs[k].repo
    BY <1>1, <1>7, FateFields
  <2>2. \A g \in DOMAIN attempts[k] : g # jobs'[k].gen
    BY <1>1, <2>1
  <2> QED
    BY <1>1, <2>1, <2>2 DEF Owned, Exists
<1>8. CASE Aged(k)
  <2>1. /\ jobs'[k].status = jobs[k].status /\ jobs'[k].gen = jobs[k].gen
        /\ jobs'[k].worker = jobs[k].worker /\ jobs'[k].cancel = jobs[k].cancel
        /\ jobs'[k].repo = jobs[k].repo
        /\ \/ jobs'[k].lease = jobs[k].lease /\ jobs[k].status = "retrying"
           \/ jobs[k].lease = "live" /\ jobs'[k].lease = "expired"
    BY <1>1, <1>8, FateFields
  <2> QED
    BY <1>1, <2>1 DEF Owned, Exists
<1> QED
  BY <1>2, <1>4, <1>5, <1>6, <1>7, <1>8 DEF Fate, Entered, Exists

-----------------------------------------------------------------------------

LEMMA HistoryInit == Init => HistoryInv
<1> SUFFICES ASSUME Init PROVE HistoryInv
  OBVIOUS
<1>1. CoordinationInv
  BY InvInit
<1>2. \A k \in Jobs : jobs[k] = NoRow /\ attempts[k] = << >> /\ Len(attempts[k]) = 0
                      /\ DOMAIN attempts[k] = {}
  BY DEF Init
<1> QED
  BY <1>1, <1>2 DEF HistoryInv, Leased, HistoryExplainsStatus, ReclaimedAfterExpiry, NoRow

LEMMA HistoryStep ==
  ASSUME HistoryInv, [Next]_vars
  PROVE  HistoryInv'
<1>1. CoordinationInv /\ TypeOK /\ CoordinationInv'
  BY InvStep DEF HistoryInv, CoordinationInv
<1>2. \A k \in Jobs : Fate(k)
  BY <1>1, StepFate
<1>3. Leased'
  BY <1>1, <1>2, LeasedStep DEF HistoryInv
<1> QED
  BY <1>1, <1>2, <1>3, ExplainsStep, ReclaimedStep DEF HistoryInv

\* The invariant of this module: besides CoordinationInv, exactly running jobs have a lease,
\* and the attempt rows of a job explain its status and each other.
THEOREM Recorded == Spec => []HistoryInv
<1>1. Init => HistoryInv
  BY HistoryInit
<1>2. HistoryInv /\ [Next]_vars => HistoryInv'
  BY HistoryStep
<1> QED
  BY <1>1, <1>2, PTL DEF Spec

\* job_attempts tells the whole story of every job, whatever expires, is retried, reported
\* late or reclaimed.
THEOREM HistoryHolds == Spec => []HistoryExplainsStatus
<1>1. HistoryInv => HistoryExplainsStatus
  BY DEF HistoryInv
<1> QED
  BY <1>1, Recorded, PTL

\* An attempt is marked as reclaimed exactly when the one before it expired.
THEOREM ReclaimedHolds == Spec => []ReclaimedAfterExpiry
<1>1. HistoryInv => ReclaimedAfterExpiry
  BY DEF HistoryInv
<1> QED
  BY <1>1, Recorded, PTL

\* A finished job never changes again: no superseded handle, cancellation or claim reaches
\* its row or its history.
THEOREM FinishedForGood == Spec => TerminalIsFinal
<1>1. ASSUME HistoryInv, [Next]_vars, NEW j \in Jobs, jobs[j].status \in Terminal
      PROVE  jobs'[j] = jobs[j] /\ attempts'[j] = attempts[j]
  <2>1. Fate(j)
    BY <1>1, StepFate DEF HistoryInv
  <2>2. jobs[j].lease = "none" /\ jobs[j].status \notin Waiting \cup {"running", "absent"}
    BY <1>1 DEF HistoryInv, Leased, Terminal, Completed, Waiting
  <2> QED
    BY <2>1, <2>2 DEF Fate, Untouched, Entered, Asked, Closed, Started, Aged, Waiting
<1>2. HistoryInv /\ [Next]_vars =>
        [\A j \in Jobs : jobs[j].status \in Terminal =>
           jobs'[j] = jobs[j] /\ attempts'[j] = attempts[j]]_vars
  BY <1>1
<1> QED
  BY <1>2, Recorded, PTL DEF Spec, TerminalIsFinal

\* No renewal revives an expired lease: a live one belongs to a new generation.
THEOREM ExpiredForGood == Spec => LeaseStaysExpired
<1>1. ASSUME HistoryInv, [Next]_vars, NEW j \in Jobs, jobs[j].lease = "expired",
             jobs'[j].lease = "live"
      PROVE  jobs'[j].gen = jobs[j].gen + 1
  <2>1. Fate(j)
    BY <1>1, StepFate DEF HistoryInv
  <2>2. TypeOK
    BY <1>1 DEF HistoryInv, CoordinationInv
  <2> QED
    BY <1>1, <2>1, <2>2, FateFields DEF Fate, Untouched, Entered, Closed
<1>2. HistoryInv /\ [Next]_vars =>
        [\A j \in Jobs : jobs[j].lease = "expired" /\ jobs'[j].lease = "live" =>
           jobs'[j].gen = jobs[j].gen + 1]_vars
  BY <1>1
<1> QED
  BY <1>2, Recorded, PTL DEF Spec, LeaseStaysExpired

\* A requested cancellation wins over completion, retry and reclaim, whichever comes first.
THEOREM CancellationWins == Spec => CancelWins
<1>1. ASSUME HistoryInv, [Next]_vars, NEW j \in Jobs, jobs[j].cancel,
             jobs[j].status \notin Terminal
      PROVE  jobs'[j].gen = jobs[j].gen /\ jobs'[j].status \in {jobs[j].status, "cancelled"}
  <2>1. Fate(j)
    BY <1>1, StepFate DEF HistoryInv
  <2>2. TypeOK /\ jobs[j].status # "absent"
    BY <1>1 DEF HistoryInv, CoordinationInv, Leased
  <2> QED
    BY <1>1, <2>1, <2>2, FateFields DEF Fate, Untouched, Entered, Closed, Started
<1>2. HistoryInv /\ [Next]_vars =>
        [\A j \in Jobs : jobs[j].cancel /\ jobs[j].status \notin Terminal =>
           /\ jobs'[j].gen = jobs[j].gen
           /\ jobs'[j].status \in {jobs[j].status, "cancelled"}]_vars
  BY <1>1
<1> QED
  BY <1>2, Recorded, PTL DEF Spec, CancelWins

-----------------------------------------------------------------------------
(* The counters of the registry                                            *)

\* An attempt ends only as the last of its job, and only one that was open.
LEMMA OnlyLastEnds ==
  ASSUME HistoryInv, [Next]_vars, NEW k \in Jobs, NEW g \in DOMAIN attempts'[k],
         attempts'[k][g].outcome # "open"
  PROVE  /\ g \in DOMAIN attempts[k]
         /\ g = Len(attempts[k]) \/ attempts'[k][g].outcome = attempts[k][g].outcome
<1> DEFINE n == Len(attempts[k])
<1>1. /\ TypeOK /\ CoordinationInv
      /\ attempts[k] \in Seq(Attempt) /\ n \in Nat /\ DOMAIN attempts[k] = 1..n
  BY DEF HistoryInv, CoordinationInv, TypeOK
<1>2. Fate(k)
  BY <1>1, StepFate
<1>3. CASE attempts'[k] = attempts[k]
  BY <1>3
<1>4. CASE Closed(k)
  <2>1. PICK status \in Outcomes : attempts'[k] = CloseAttempt(attempts[k], status)
    BY <1>4 DEF Closed
  <2>2. status \in Terminal \cup {"open", "expired", "retrying"}
    BY DEF Outcomes
  <2>3. CloseAttempt(attempts[k], status) \in Seq(Attempt)
        /\ Len(CloseAttempt(attempts[k], status)) = n
    BY <1>1, <2>2, CloseFields
  <2>4. g \in 1..n
    BY <2>1, <2>3
  <2>5. CloseAttempt(attempts[k], status)[g].outcome =
          IF g = n THEN status ELSE attempts[k][g].outcome
    BY <1>1, <2>2, <2>4, CloseFields
  <2> QED
    BY <1>1, <2>1, <2>4, <2>5
<1>5. CASE Started(k)
  <2>1. PICK w \in Workers : attempts'[k] = StartedHistory(k, w)
    BY <1>5 DEF Started
  <2>2. /\ StartedHistory(k, w) \in Seq(Attempt) /\ Len(StartedHistory(k, w)) = n + 1
        /\ StartedHistory(k, w)[n + 1].outcome = "open"
    BY <1>1, StartFields
  <2>3. g \in 1..(n + 1) /\ g # n + 1
    BY <2>1, <2>2
  <2>4. g \in 1..n
    BY <1>1, <2>3
  <2>5. StartedHistory(k, w)[g].outcome =
          IF g = n /\ jobs[k].status = "running" THEN "expired" ELSE attempts[k][g].outcome
    BY <1>1, <2>4, StartFields
  <2> QED
    BY <1>1, <2>1, <2>4, <2>5
<1> QED
  BY <1>2, <1>3, <1>4, <1>5 DEF Fate, Untouched, Entered, Asked, Aged

\* A step touches the histories of finitely many jobs.
LEMMA FewHistoriesChange ==
  ASSUME [Next]_vars
  PROVE  \E D \in SUBSET Jobs : IsFiniteSet(D) /\ \A k \in Jobs \ D : attempts'[k] = attempts[k]
<1>1. ASSUME UNCHANGED attempts
      PROVE  \E D \in SUBSET Jobs : IsFiniteSet(D) /\ \A k \in Jobs \ D : attempts'[k] = attempts[k]
  BY <1>1, FS_EmptySet
<1>2. ASSUME NEW w \in Workers, NEW C \in SUBSET Jobs, ClaimNothing(w, C)
      PROVE  \E D \in SUBSET Jobs : IsFiniteSet(D) /\ \A k \in Jobs \ D : attempts'[k] = attempts[k]
  BY <1>2 DEF ClaimNothing, GivesUp
<1>3. ASSUME NEW w \in Workers, NEW C \in SUBSET Jobs, NEW j \in Jobs, ClaimJob(w, C, j)
      PROVE  \E D \in SUBSET Jobs : IsFiniteSet(D) /\ \A k \in Jobs \ D : attempts'[k] = attempts[k]
  <2>1. IsFiniteSet(C \cup {j})
    BY <1>3, FS_AddElement DEF ClaimJob, GivesUp
  <2>2. \A k \in Jobs \ (C \cup {j}) : attempts'[k] = attempts[k]
    BY <1>3 DEF ClaimJob
  <2> QED
    BY <2>1, <2>2
<1>4. ASSUME NEW j \in Jobs, NEW g \in DOMAIN attempts[j], NEW asked, Finish(j, g, asked)
      PROVE  \E D \in SUBSET Jobs : IsFiniteSet(D) /\ \A k \in Jobs \ D : attempts'[k] = attempts[k]
  <2>1. IsFiniteSet({j})
    BY FS_Singleton
  <2>2. \A k \in Jobs \ {j} : attempts'[k] = attempts[k]
    BY <1>4 DEF Finish
  <2> QED
    BY <2>1, <2>2
<1>5. ASSUME NEW j \in Jobs, NEW g \in DOMAIN attempts[j], HandleUse(j, g)
      PROVE  \E D \in SUBSET Jobs : IsFiniteSet(D) /\ \A k \in Jobs \ D : attempts'[k] = attempts[k]
  BY <1>1, <1>4, <1>5, HandleUseCases DEF RenewLease, EnterGuard
<1>6. ASSUME NEW j \in Jobs, Submission(j) \/ RequestCancel(j) PROVE UNCHANGED attempts
  BY <1>6 DEF Submission, SubmitJob, ResubmitJob, ImportLegacyJob, Insert, RequestCancel
<1>7. ASSUME NEW w \in Workers, RegistryCall(w) PROVE UNCHANGED attempts
  BY <1>7 DEF RegistryCall, RegisterWorker, HeartbeatWorker, StopWorker
<1>8. ASSUME Time \/ (\E r \in Repos : ExitGuard(r)) \/ UNCHANGED vars PROVE UNCHANGED attempts
  BY <1>8 DEF Time, LeaseExpires, RetryFallsDue, WorkerFallsSilent, ExitGuard, vars
<1> QED
  BY <1>1, <1>2, <1>3, <1>5, <1>6, <1>7, <1>8 DEF Next, Claim

\* The attempts that ended in one of these ways only grow, and stay finitely many.
LEMMA EndedGrows ==
  ASSUME HistoryInv, [Next]_vars, NEW w \in Workers, NEW O, "open" \notin O
  PROVE  /\ Ended(w, O) \subseteq Ended(w, O)'
         /\ IsFiniteSet(Ended(w, O)) => IsFiniteSet(Ended(w, O)')
<1>1. ASSUME NEW h \in Ended(w, O) PROVE h \in Ended(w, O)'
  <2>1. PICK k \in Jobs : h \in {k} \X DOMAIN attempts[k]
    BY DEF Ended
  <2>2. /\ h = <<k, h[2]>> /\ h[1] = k /\ h[2] \in DOMAIN attempts[k]
        /\ attempts[k][h[2]].worker = w /\ attempts[k][h[2]].outcome \in O
    BY <2>1 DEF Ended
  <2>3. /\ h[2] \in DOMAIN attempts'[k] /\ attempts'[k][h[2]].worker = w
        /\ attempts'[k][h[2]].outcome \in O
    BY <2>2, PastKept
  <2>4. h \in {k} \X DOMAIN attempts'[k]
    BY <2>2, <2>3
  <2> QED
    BY <2>2, <2>3, <2>4 DEF Ended
<1>2. ASSUME IsFiniteSet(Ended(w, O)) PROVE IsFiniteSet(Ended(w, O)')
  <2>1. PICK D \in SUBSET Jobs :
          IsFiniteSet(D) /\ \A k \in Jobs \ D : attempts'[k] = attempts[k]
    BY FewHistoriesChange
  <2> DEFINE last == [k \in D |-> <<k, Len(attempts[k])>>]
             lasts == {last[k] : k \in D}
  <2>2. IsFiniteSet(lasts)
    <3>1. last \in Surjection(D, lasts)
      BY DEF Surjection
    <3> QED
      BY <2>1, <3>1, FS_Surjection
  <2>3. ASSUME NEW h \in Ended(w, O)' PROVE h \in Ended(w, O) \cup lasts
    <3>1. PICK k \in Jobs : h \in {k} \X DOMAIN attempts'[k]
      BY DEF Ended
    <3>2. /\ h = <<k, h[2]>> /\ h[1] = k /\ h[2] \in DOMAIN attempts'[k]
          /\ attempts'[k][h[2]].worker = w /\ attempts'[k][h[2]].outcome \in O
      BY <3>1 DEF Ended
    <3>3. /\ h[2] \in DOMAIN attempts[k]
          /\ \/ h[2] = Len(attempts[k])
             \/ attempts[k][h[2]].outcome = attempts'[k][h[2]].outcome
      BY <3>2, OnlyLastEnds
    <3>4. attempts[k][h[2]].worker = w
      BY <3>2, <3>3, PastKept
    <3>5. CASE attempts[k][h[2]].outcome = attempts'[k][h[2]].outcome
      <4>1. h \in {k} \X DOMAIN attempts[k]
        BY <3>2, <3>3
      <4> QED
        BY <3>2, <3>4, <3>5, <4>1 DEF Ended
    <3>6. CASE attempts[k][h[2]].outcome # attempts'[k][h[2]].outcome
      <4>1. k \in D /\ h = last[k]
        BY <2>1, <3>2, <3>3, <3>6
      <4> QED
        BY <4>1
    <3> QED
      BY <3>5, <3>6
  <2>4. IsFiniteSet(Ended(w, O) \cup lasts)
    BY <1>2, <2>2, FS_Union
  <2>5. Ended(w, O)' \in SUBSET (Ended(w, O) \cup lasts)
    BY <2>3
  <2> QED
    BY <2>4, <2>5, FS_Subset
<1> QED
  BY <1>1, <1>2

\* What a step may do to a counter n of worker w that counts the attempts ended as O says.
Credited(before, after, w, O) ==
  after = before \/ (after = before + 1 /\ \E h \in Ended(w, O)' : h \notin Ended(w, O))

LEMMA FinishCredits ==
  ASSUME HistoryInv, NEW j \in Jobs, NEW g \in DOMAIN attempts[j],
         NEW asked \in Outcomes, Finish(j, g, asked), NEW w \in Workers
  PROVE  /\ Credited(workers[w].completed, workers'[w].completed, w, Completed)
         /\ Credited(workers[w].failed, workers'[w].failed, w, {"failed"})
<1> DEFINE status == IF jobs[j].cancel THEN "cancelled" ELSE asked
           v == attempts[j][g].worker
<1>1. /\ CoordinationInv /\ workers[w] \in Registration /\ workers \in [Workers -> Registration]
      /\ attempts \in [Jobs -> Seq(Attempt)]
  BY DEF HistoryInv, CoordinationInv, TypeOK
<1>2. /\ Owned(j, g) /\ attempts' = [attempts EXCEPT ![j][g].outcome = status]
      /\ workers' = IF workers[v].current /= j THEN workers
                    ELSE [workers EXCEPT ![v] = CreditedRow(v, status)]
  BY DEF Finish
<1>3. attempts[j][g].outcome = "open"
  BY <1>1, <1>2, OwnedIsCurrent, OpenWhileRunning
<1>4. attempts[j] \in Seq(Attempt) /\ v \in Workers
  <2>1. attempts[j] \in Seq(Attempt)
    BY <1>1
  <2>2. attempts[j][g] \in Attempt
    BY <2>1
  <2> QED
    BY <2>1, <2>2 DEF Attempt
<1>5. attempts'[j] = [attempts[j] EXCEPT ![g].outcome = status]
  BY <1>1, <1>2
<1> HIDE DEF status
<1>6. ASSUME NEW O, status \in O, "open" \notin O, w = v
      PROVE  <<j, g>> \in Ended(w, O)' /\ <<j, g>> \notin Ended(w, O)
  <2>1. /\ g \in DOMAIN attempts'[j] /\ attempts'[j][g].worker = v
        /\ attempts'[j][g].outcome = status
    BY <1>4, <1>5 DEF Attempt
  <2>2. <<j, g>> \in UNION {{k} \X DOMAIN attempts'[k] : k \in Jobs}
    BY <2>1
  <2> QED
    BY <1>3, <1>6, <2>1, <2>2 DEF Ended
<1>7. CASE workers'[w] = workers[w]
  BY <1>7 DEF Credited
<1>8. CASE workers'[w] # workers[w]
  <2>1. w = v /\ workers'[w] = CreditedRow(w, status)
    BY <1>1, <1>2, <1>8
  <2>2. /\ workers'[w].completed = workers[w].completed + (IF status \in Completed THEN 1 ELSE 0)
        /\ workers'[w].failed = workers[w].failed + (IF status = "failed" THEN 1 ELSE 0)
    BY <1>1, <2>1 DEF CreditedRow, Registration
  <2>3. workers[w].completed \in Nat /\ workers[w].failed \in Nat
    BY <1>1 DEF Registration
  <2>4. "open" \notin Completed /\ "open" \notin {"failed"}
    BY DEF Completed
  <2>5. Credited(workers[w].completed, workers'[w].completed, w, Completed)
    BY <1>6, <2>1, <2>2, <2>3, <2>4 DEF Credited
  <2>6. Credited(workers[w].failed, workers'[w].failed, w, {"failed"})
    BY <1>6, <2>1, <2>2, <2>3, <2>4 DEF Credited
  <2> QED
    BY <2>5, <2>6
<1> QED
  BY <1>7, <1>8

\* Giving up an expired run counts for the worker that lost it, once.
LEMMA GivingUpCredits ==
  ASSUME HistoryInv, NEW C \in SUBSET Jobs, GivesUp(C), NEW w \in Workers,
         \A c \in C : attempts'[c] = GivenUpHistory(c)
  PROVE  /\ AfterGivingUp(w, C).completed = workers[w].completed
         /\ Credited(workers[w].failed, AfterGivingUp(w, C).failed, w, {"failed"})
<1> DEFINE c == workers[w].current
           n == Len(attempts[c])
<1>1. TypeOK /\ CoordinationInv /\ workers[w] \in Registration
  BY DEF HistoryInv, CoordinationInv, TypeOK
<1>2. CASE ~(c \in C /\ jobs[c].status = "running" /\ jobs[c].worker = w)
  BY <1>2 DEF AfterGivingUp, Credited
<1>3. CASE c \in C /\ jobs[c].status = "running" /\ jobs[c].worker = w
  <2>1. AfterGivingUp(w, C) = [workers[w] EXCEPT !.current = None, !.status = "idle",
                                  !.failed = @ + (IF Verdict(c) = "failed" THEN 1 ELSE 0)]
    BY <1>3 DEF AfterGivingUp
  <2>2. /\ AfterGivingUp(w, C).completed = workers[w].completed
        /\ AfterGivingUp(w, C).failed =
             workers[w].failed + (IF Verdict(c) = "failed" THEN 1 ELSE 0)
        /\ workers[w].failed \in Nat
    BY <1>1, <2>1 DEF Registration
  <2>3. ASSUME Verdict(c) = "failed"
        PROVE  <<c, n>> \in Ended(w, {"failed"})' /\ <<c, n>> \notin Ended(w, {"failed"})
    <3>1. /\ n > 0 /\ attempts[c][n].outcome = "open" /\ attempts[c][n].worker = w
      BY <1>3, OpenWhileRunning
    <3>2. attempts'[c] = CloseAttempt(attempts[c], "failed")
      BY <1>3, <2>3 DEF GivenUpHistory
    <3>3. attempts[c] \in Seq(Attempt) /\ n \in Nat
      BY <1>1, <1>3 DEF TypeOK
    <3>4. "failed" \in Terminal \cup {"open", "expired", "retrying"}
      BY DEF Terminal
    <3>5. /\ CloseAttempt(attempts[c], "failed") \in Seq(Attempt)
          /\ Len(CloseAttempt(attempts[c], "failed")) = n
          /\ CloseAttempt(attempts[c], "failed")[n].worker = attempts[c][n].worker
      BY <1>1, <1>3, <3>1, <3>3, <3>4, CloseFields
    <3>6. CloseAttempt(attempts[c], "failed")[n].outcome = "failed"
      BY <1>1, <1>3, <3>1, <3>3, <3>4, CloseFields
    <3>7. /\ n \in DOMAIN attempts'[c] /\ attempts'[c][n].worker = w
          /\ attempts'[c][n].outcome = "failed"
      BY <3>1, <3>2, <3>3, <3>5, <3>6
    <3>8. <<c, n>> \in UNION {{k} \X DOMAIN attempts'[k] : k \in Jobs}
      BY <1>3, <3>7
    <3> QED
      BY <3>1, <3>7, <3>8 DEF Ended
  <2> QED
    BY <2>2, <2>3 DEF Credited
<1> QED
  BY <1>2, <1>3

\* A counter grows by one at most, and only in a step in which an attempt of that worker ends
\* in the way it counts.
LEMMA StepCredits ==
  ASSUME HistoryInv, [Next]_vars, NEW w \in Workers
  PROVE  /\ Credited(workers[w].completed, workers'[w].completed, w, Completed)
         /\ Credited(workers[w].failed, workers'[w].failed, w, {"failed"})
<1>1. workers \in [Workers -> Registration] /\ workers[w] \in Registration /\ CoordinationInv
  BY DEF HistoryInv, CoordinationInv, TypeOK
<1>2. ASSUME /\ workers'[w].completed = workers[w].completed
             /\ workers'[w].failed = workers[w].failed
      PROVE  /\ Credited(workers[w].completed, workers'[w].completed, w, Completed)
             /\ Credited(workers[w].failed, workers'[w].failed, w, {"failed"})
  BY <1>2 DEF Credited
<1>3. ASSUME NEW v \in Workers, RegistryCall(v) \/ WorkerFallsSilent(v)
      PROVE  /\ workers'[w].completed = workers[w].completed
             /\ workers'[w].failed = workers[w].failed
  <2> DEFINE Kept(row) == row.completed = workers[v].completed /\ row.failed = workers[v].failed
  <2>1. workers[v] \in Registration
    BY <1>1
  <2>2. \/ \E status, current : workers' = [workers EXCEPT ![v] =
             [@ EXCEPT !.status = status, !.current = current, !.stale = FALSE]]
        \/ workers' = [workers EXCEPT ![v].stale = TRUE]
    BY <1>3 DEF RegistryCall, RegisterWorker, HeartbeatWorker, StopWorker, WorkerFallsSilent
  <2>3. \/ \E status, current : workers'[v] =
             [workers[v] EXCEPT !.status = status, !.current = current, !.stale = FALSE]
        \/ workers'[v] = [workers[v] EXCEPT !.stale = TRUE]
    BY <1>1, <2>2
  <2>4. w # v => workers'[w] = workers[w]
    BY <1>1, <2>2
  <2>5. Kept(workers'[v])
    BY <2>1, <2>3 DEF Registration
  <2> QED
    BY <2>4, <2>5
<1>4. ASSUME NEW v \in Workers, NEW C \in SUBSET Jobs, ClaimNothing(v, C)
      PROVE  /\ Credited(workers[w].completed, workers'[w].completed, w, Completed)
             /\ Credited(workers[w].failed, workers'[w].failed, w, {"failed"})
  <2>1. /\ GivesUp(C) /\ \A c \in C : attempts'[c] = GivenUpHistory(c)
        /\ workers'[w] = AfterGivingUp(w, C)
    BY <1>4 DEF ClaimNothing
  <2> QED
    BY <2>1, GivingUpCredits DEF Credited
<1>5. ASSUME NEW v \in Workers, NEW C \in SUBSET Jobs, NEW j \in Jobs, ClaimJob(v, C, j)
      PROVE  /\ Credited(workers[w].completed, workers'[w].completed, w, Completed)
             /\ Credited(workers[w].failed, workers'[w].failed, w, {"failed"})
  <2>1. /\ GivesUp(C) /\ \A c \in C : attempts'[c] = GivenUpHistory(c)
        /\ \/ workers'[w] = AfterGivingUp(w, C)
           \/ workers'[w] = [AfterGivingUp(w, C) EXCEPT !.status = "busy", !.current = j,
                                                       !.stale = FALSE]
    BY <1>5 DEF ClaimJob
  <2>2. AfterGivingUp(w, C) \in Registration
    BY <1>1, GivingUpType DEF CoordinationInv
  <2>3. /\ workers'[w].completed = AfterGivingUp(w, C).completed
        /\ workers'[w].failed = AfterGivingUp(w, C).failed
    BY <2>1, <2>2 DEF Registration
  <2> QED
    BY <2>1, <2>3, GivingUpCredits DEF Credited
<1>6. ASSUME NEW j \in Jobs, NEW g \in DOMAIN attempts[j], HandleUse(j, g)
      PROVE  /\ Credited(workers[w].completed, workers'[w].completed, w, Completed)
             /\ Credited(workers[w].failed, workers'[w].failed, w, {"failed"})
  <2>1. CASE \E asked \in Terminal \cup {"retrying"} : Finish(j, g, asked)
    BY <2>1, FinishCredits DEF Outcomes
  <2> QED
    BY <1>2, <1>6, <2>1, HandleUseCases DEF RenewLease, EnterGuard
<1>7. ASSUME NEW j \in Jobs,
             Submission(j) \/ RequestCancel(j) \/ LeaseExpires(j) \/ RetryFallsDue(j)
      PROVE  UNCHANGED workers
  BY <1>7 DEF Submission, SubmitJob, ResubmitJob, ImportLegacyJob, Insert, RequestCancel,
              LeaseExpires, RetryFallsDue
<1>8. ASSUME (\E r \in Repos : ExitGuard(r)) \/ UNCHANGED vars PROVE UNCHANGED workers
  BY <1>8 DEF ExitGuard, vars
<1> QED
  BY <1>2, <1>3, <1>4, <1>5, <1>6, <1>7, <1>8 DEF Next, Claim, Time

LEMMA CountsGrow ==
  ASSUME NEW S, NEW T, S \subseteq T, IsFiniteSet(T)
  PROVE  /\ Cardinality(S) \in Nat /\ Cardinality(T) \in Nat
         /\ Cardinality(S) <= Cardinality(T)
         /\ (\E h \in T : h \notin S) => Cardinality(S) + 1 <= Cardinality(T)
<1>1. IsFiniteSet(S) /\ Cardinality(S) <= Cardinality(T)
  BY FS_Subset
<1>2. Cardinality(S) \in Nat /\ Cardinality(T) \in Nat
  BY <1>1, FS_CardinalityType
<1>3. ASSUME NEW h \in T, h \notin S PROVE Cardinality(S) + 1 <= Cardinality(T)
  <2>1. Cardinality(S \cup {h}) = Cardinality(S) + 1
    BY <1>1, <1>3, FS_AddElement
  <2>2. S \cup {h} \in SUBSET T
    BY <1>3
  <2> QED
    BY <2>1, <2>2, FS_Subset
<1> QED
  BY <1>1, <1>2, <1>3

\* The counters need that the attempts they count are finitely many at any time.
CountersInv ==
  /\ HistoryInv
  /\ CountersBacked
  /\ \A w \in Workers : IsFiniteSet(Ended(w, Completed)) /\ IsFiniteSet(Ended(w, {"failed"}))

LEMMA CreditsAreBacked ==
  ASSUME HistoryInv, [Next]_vars, NEW w \in Workers, NEW O, "open" \notin O,
         IsFiniteSet(Ended(w, O)), NEW before \in Nat, NEW after,
         before <= Cardinality(Ended(w, O)), Credited(before, after, w, O)
  PROVE  IsFiniteSet(Ended(w, O)') /\ after <= Cardinality(Ended(w, O)')
<1>1. IsFiniteSet(Ended(w, O)') /\ Ended(w, O) \subseteq Ended(w, O)'
  BY EndedGrows
<1>2. /\ Cardinality(Ended(w, O)) \in Nat /\ Cardinality(Ended(w, O)') \in Nat
      /\ Cardinality(Ended(w, O)) <= Cardinality(Ended(w, O)')
      /\ (\E h \in Ended(w, O)' : h \notin Ended(w, O)) =>
           Cardinality(Ended(w, O)) + 1 <= Cardinality(Ended(w, O)')
  BY <1>1, CountsGrow
<1> QED
  BY <1>1, <1>2 DEF Credited

\* The registry credits no worker with more finished or failed jobs than it has attempts that
\* ended so: _finish and the clean-up of claim_job never count the same attempt twice.
THEOREM CountersHold == Spec => []CountersBacked
<1>1. Init => CountersInv
  <2> SUFFICES ASSUME Init PROVE CountersInv
    OBVIOUS
  <2>1. \A w \in Workers : Ended(w, Completed) = {} /\ Ended(w, {"failed"}) = {}
    BY DEF Init, Ended
  <2>2. \A w \in Workers : workers[w].completed = 0 /\ workers[w].failed = 0
    BY DEF Init, Unregistered
  <2> QED
    <3>1. IsFiniteSet({}) /\ Cardinality({}) = 0
      BY FS_EmptySet
    <3>2. CountersBacked
      BY <2>1, <2>2, <3>1 DEF CountersBacked
    <3> QED
      BY <2>1, <3>1, <3>2, HistoryInit DEF CountersInv
<1>2. CountersInv /\ [Next]_vars => CountersInv'
  <2> SUFFICES ASSUME CountersInv, [Next]_vars PROVE CountersInv'
    OBVIOUS
  <2>1. HistoryInv /\ HistoryInv'
    BY HistoryStep DEF CountersInv
  <2>2. ASSUME NEW w \in Workers
        PROVE  /\ IsFiniteSet(Ended(w, Completed)')
               /\ workers'[w].completed <= Cardinality(Ended(w, Completed)')
    <3>1. workers[w].completed \in Nat
      BY <2>1 DEF HistoryInv, CoordinationInv, TypeOK, Registration
    <3>2. /\ IsFiniteSet(Ended(w, Completed))
          /\ workers[w].completed <= Cardinality(Ended(w, Completed))
      BY DEF CountersInv, CountersBacked
    <3>3. "open" \notin Completed
      BY DEF Completed
    <3> QED
      BY <2>1, <3>1, <3>2, <3>3, StepCredits, CreditsAreBacked
  <2>3. ASSUME NEW w \in Workers
        PROVE  /\ IsFiniteSet(Ended(w, {"failed"})')
               /\ workers'[w].failed <= Cardinality(Ended(w, {"failed"})')
    <3>1. workers[w].failed \in Nat
      BY <2>1 DEF HistoryInv, CoordinationInv, TypeOK, Registration
    <3>2. /\ IsFiniteSet(Ended(w, {"failed"}))
          /\ workers[w].failed <= Cardinality(Ended(w, {"failed"}))
      BY DEF CountersInv, CountersBacked
    <3> QED
      BY <2>1, <3>1, <3>2, StepCredits, CreditsAreBacked
  <2> QED
    BY <2>1, <2>2, <2>3 DEF CountersInv, CountersBacked
<1>3. CountersInv => CountersBacked
  BY DEF CountersInv
<1> QED
  BY <1>1, <1>2, <1>3, PTL DEF Spec
=============================================================================
