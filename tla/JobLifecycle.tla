---------------------------- MODULE JobLifecycle ----------------------------
(***************************************************************************)
(* What RepoMesh promises about an indexing job, with no lease, worker,    *)
(* lock or table in sight: a job waits, runs and is done; at most one job  *)
(* runs in a repository; a job is started at most as often as its budget   *)
(* says; a cancelled job is never started again; done is final.            *)
(* Coordination implements this (Coordination!LifecycleSpec).              *)
(***************************************************************************)
EXTENDS Integers

CONSTANTS
  Jobs, Repos, None,
  Budgets   \* how often a newly accepted job may be started

VARIABLES
  phase,    \* "absent", "waiting", "running" or "done"
  place,    \* the repository a job is for
  left,     \* how many more times it may be started
  doomed    \* its cancellation was requested

lifecycle == <<phase, place, left, doomed>>

Init ==
  /\ phase = [j \in Jobs |-> "absent"]
  /\ place = [j \in Jobs |-> None]
  /\ left = [j \in Jobs |-> 0]
  /\ doomed = [j \in Jobs |-> FALSE]

\* A new job waits with a budget; an imported one may be done already.
Accept(j, r, n, p, d) ==
  /\ phase[j] = "absent"
  /\ p = "waiting" => n > 0 /\ ~d
  /\ phase' = [phase EXCEPT ![j] = p]
  /\ place' = [place EXCEPT ![j] = r]
  /\ left' = [left EXCEPT ![j] = n]
  /\ doomed' = [doomed EXCEPT ![j] = d]

Cancel(j) ==
  /\ phase[j] \in {"waiting", "running"}
  /\ phase' = [phase EXCEPT ![j] = IF @ = "waiting" THEN "done" ELSE @]
  /\ doomed' = [doomed EXCEPT ![j] = TRUE]
  /\ UNCHANGED <<place, left>>

\* Running jobs are done: reported by their worker, or given up together.
Settle(D) ==
  /\ \A j \in D : phase[j] = "running"
  /\ phase' = [j \in Jobs |-> IF j \in D THEN "done" ELSE phase[j]]
  /\ UNCHANGED <<place, left, doomed>>

\* Giving up the jobs in D may make room for j, which waited or whose run was lost.
Dispatch(D, j) ==
  /\ \A k \in D : phase[k] = "running"
  /\ j \notin D
  /\ phase[j] \in {"waiting", "running"}
  /\ ~doomed[j] /\ left[j] > 0
  /\ \A k \in Jobs \ (D \cup {j}) : ~(phase[k] = "running" /\ place[k] = place[j])
  /\ phase' = [k \in Jobs |-> IF k = j THEN "running"
                              ELSE IF k \in D THEN "done" ELSE phase[k]]
  /\ left' = [left EXCEPT ![j] = @ - 1]
  /\ UNCHANGED <<place, doomed>>

PutBack(j) ==
  /\ phase[j] = "running"
  /\ ~doomed[j] /\ left[j] > 0
  /\ phase' = [phase EXCEPT ![j] = "waiting"]
  /\ UNCHANGED <<place, left, doomed>>

Acceptance(j) ==
  \E r \in Repos, n \in Budgets, p \in {"waiting", "done"}, d \in BOOLEAN : Accept(j, r, n, p, d)

Next ==
  \/ \E j \in Jobs : Acceptance(j) \/ Cancel(j) \/ PutBack(j)
  \/ \E D \in SUBSET Jobs : Settle(D) \/ \E j \in Jobs : Dispatch(D, j)

Spec == Init /\ [][Next]_lifecycle

-----------------------------------------------------------------------------

\* At most one job runs in a repository: what repository_execution and the index
\* one_running_job_per_repository are for.
OneRunningPerRepo ==
  \A j, k \in Jobs :
    phase[j] = "running" /\ phase[k] = "running" /\ place[j] = place[k] => j = k

\* A job that may still be started has a budget for it and was not cancelled: claim_job
\* never meets a waiting job it would have to give up.
WaitingCanStart ==
  \A j \in Jobs : phase[j] = "waiting" => left[j] > 0 /\ ~doomed[j]

\* Done is final and a doomed job is not started again: the terminal states of the job
\* state machine have no way out.
DoneIsFinal ==
  [][\A j \in Jobs : /\ phase[j] = "done" => phase'[j] = "done"
                     /\ doomed[j] /\ phase[j] # "absent" => left'[j] = left[j]]_lifecycle
=============================================================================
