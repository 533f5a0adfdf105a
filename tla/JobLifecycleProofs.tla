-------------------------- MODULE JobLifecycleProofs --------------------------
(***************************************************************************)
(* What the abstract job life guarantees, for all jobs, repositories and   *)
(* budgets; Coordination inherits it through its refinement                *)
(* (RefinementProofs!ImplementsLifecycle).                                 *)
(***************************************************************************)
EXTENDS JobLifecycle, TLAPS

\* The variables are functions on the jobs; the budget of a new job is only bounded where it waits.
Shape ==
  /\ phase \in [Jobs -> {"absent", "waiting", "running", "done"}]
  /\ place = [j \in Jobs |-> place[j]]
  /\ left = [j \in Jobs |-> left[j]]
  /\ doomed \in [Jobs -> BOOLEAN]

LInv == Shape /\ OneRunningPerRepo /\ WaitingCanStart

LEMMA LifeInit == Init => LInv
  BY DEF Init, LInv, Shape, OneRunningPerRepo, WaitingCanStart

LEMMA LifeNext ==
  ASSUME LInv, [Next]_lifecycle
  PROVE  LInv'
<1> USE DEF LInv, Shape, OneRunningPerRepo, WaitingCanStart
<1>1. ASSUME NEW j \in Jobs, Acceptance(j)
      PROVE  LInv'
  <2>1. PICK r \in Repos, n \in Budgets, p \in {"waiting", "done"}, d \in BOOLEAN :
          Accept(j, r, n, p, d)
    BY <1>1 DEF Acceptance
  <2> QED
    BY <2>1 DEF Accept
<1>2. ASSUME NEW j \in Jobs, Cancel(j)
      PROVE  LInv'
  BY <1>2 DEF Cancel
<1>3. ASSUME NEW j \in Jobs, PutBack(j)
      PROVE  LInv'
  BY <1>3 DEF PutBack
<1>4. ASSUME NEW D \in SUBSET Jobs, Settle(D)
      PROVE  LInv'
  BY <1>4 DEF Settle
<1>5. ASSUME NEW D \in SUBSET Jobs, NEW j \in Jobs, Dispatch(D, j)
      PROVE  LInv'
  BY <1>5 DEF Dispatch
<1>6. CASE UNCHANGED lifecycle
  BY <1>6 DEF lifecycle
<1> QED
  BY <1>1, <1>2, <1>3, <1>4, <1>5, <1>6 DEF Next

LEMMA LifeInvariant == Spec => []LInv
<1>1. Init => LInv
  BY LifeInit
<1>2. LInv /\ [Next]_lifecycle => LInv'
  BY LifeNext
<1> QED
  BY <1>1, <1>2, PTL DEF Spec

\* At most one job runs in a repository, however many are lost, given up and started again.
THEOREM RunsAreExclusive == Spec => []OneRunningPerRepo
<1>1. LInv => OneRunningPerRepo
  BY DEF LInv
<1> QED
  BY <1>1, LifeInvariant, PTL

\* A waiting job always has an attempt left and is not doomed, so that claim_job can start it.
THEOREM WaitingJobsCanStart == Spec => []WaitingCanStart
<1>1. LInv => WaitingCanStart
  BY DEF LInv
<1> QED
  BY <1>1, LifeInvariant, PTL

\* A finished job has no way out of its state, and a doomed one uses up no more attempts.
THEOREM JobsEnd == Spec => DoneIsFinal
<1>1. LInv /\ [Next]_lifecycle =>
        [\A j \in Jobs : /\ phase[j] = "done" => phase'[j] = "done"
                         /\ doomed[j] /\ phase[j] # "absent" => left'[j] = left[j]]_lifecycle
  <2> SUFFICES ASSUME LInv, Next, NEW k \in Jobs
               PROVE  /\ phase[k] = "done" => phase'[k] = "done"
                      /\ doomed[k] /\ phase[k] # "absent" => left'[k] = left[k]
    OBVIOUS
  <2> QED
    BY DEF Next, Acceptance, Accept, Cancel, PutBack, Settle, Dispatch, LInv, Shape
<1> QED
  BY <1>1, LifeInvariant, PTL DEF Spec, DoneIsFinal
=============================================================================
