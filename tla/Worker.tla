------------------------------- MODULE Worker -------------------------------
(***************************************************************************)
(* Worker processes (src/repomesh/worker.py) over the tables of            *)
(* Coordination.  A process has a main thread, which registers, polls,     *)
(* claims, indexes under the mutation guard and reports, and a heartbeat   *)
(* thread, which renews the lease of the job the main thread works on and  *)
(* tells it of a lost lease (lost) or a requested cancellation (told).     *)
(*                                                                         *)
(* Every step below is at most one PostgreSQL transaction of Coordination; *)
(* between two steps of a thread anything may happen, which is also a      *)
(* process that is paused.  A call that fails with a psycopg error either  *)
(* had no effect or took effect without the process hearing of it.         *)
(***************************************************************************)
EXTENDS Coordination

CONSTANTS
  Procs,              \* worker processes
  IdOf,               \* the worker id each is started with: --worker-id may repeat
  OfflineAfterLease,  \* worker_offline_seconds >= 2 * job_lease_seconds, as by default
  SessionsDrop        \* PostgreSQL may end a session whose process lives on

ASSUME IdOfAssumption == IdOf \in [Procs -> Workers]
ASSUME SwitchesAssumption == OfflineAfterLease \in BOOLEAN /\ SessionsDrop \in BOOLEAN
ASSUME NoneIsNoProc == None \notin Procs

VARIABLES
  session,  \* workers.session_id: the process whose register_worker wrote the row last
  pc,       \* where the main thread of a process is
  handle,   \* the Job it claimed
  beat,     \* its heartbeat thread: not running, in heartbeat_stop.wait, past it, between its two calls
  lost,     \* the event `lost` of execute
  told,     \* the event `cancel` of execute
  late      \* store writes this handle made although a check would have refused them

procVars == <<session, pc, handle, beat, lost, told, late>>
allVars == <<vars, procVars>>

Reporting == {"completing", "retrying", "cancelling"}
InGuard == {"guarded", "writing"}
Executing == {"work", "joining"} \cup Reporting \cup InGuard

WorkerTypeOK ==
  /\ TypeOK
  /\ session \in [Workers -> Procs \cup {None}]
  /\ pc \in [Procs -> {"down", "poll", "claim"} \cup Executing]
  /\ handle \in [Procs -> (Jobs \X Nat) \cup {None}]
  /\ beat \in [Procs -> {"off", "waiting", "due", "renewed"}]
  /\ lost \in [Procs -> BOOLEAN] /\ told \in [Procs -> BOOLEAN]
  /\ late \in [Procs -> Nat]

WorkerInit ==
  /\ Init
  /\ session = [w \in Workers |-> None]
  /\ pc = [p \in Procs |-> "down"]
  /\ handle = [p \in Procs |-> None]
  /\ beat = [p \in Procs |-> "off"]
  /\ lost = [p \in Procs |-> FALSE]
  /\ told = [p \in Procs |-> FALSE]
  /\ late = [p \in Procs |-> 0]

JobOf(p) == handle[p][1]
GenOf(p) == handle[p][2]
RepoOf(p) == jobs[JobOf(p)].repo
StillOwned(p) == Owned(JobOf(p), GenOf(p))
HasGuard(p) == guard[RepoOf(p)] = handle[p]
HasSession(p) == session[IdOf[p]] = p /\ Registered(IdOf[p])

Go(p, to) == pc' = [pc EXCEPT ![p] = to]

-----------------------------------------------------------------------------
(* register, run_once and run                                              *)

Register(p) ==
  /\ pc[p] = "down"
  /\ RegisterWorker(IdOf[p])
  /\ session' = [session EXCEPT ![IdOf[p]] = p]
  /\ Go(p, "poll")
  /\ UNCHANGED <<handle, beat, lost, told, late>>

Poll(p) ==
  /\ pc[p] = "poll"
  /\ HasSession(p)
  /\ HeartbeatWorker(IdOf[p], None)
  /\ Go(p, "claim")
  /\ UNCHANGED <<session, handle, beat, lost, told, late>>

\* LeaseLost ends run; the stop_worker of close no longer matches the row.
LoseSession(p) ==
  /\ pc[p] \in {"poll", "claim"}
  /\ ~HasSession(p)
  /\ Go(p, "down")
  /\ UNCHANGED <<vars, session, handle, beat, lost, told, late>>

FindNothing(p) ==
  /\ pc[p] = "claim"
  /\ HasSession(p)
  /\ \E C \in SUBSET Jobs : ClaimNothing(IdOf[p], C)
  /\ Go(p, "poll")
  /\ UNCHANGED <<session, handle, beat, lost, told, late>>

\* execute begins: fresh events, the heartbeat thread is started.
TakeJob(p) ==
  /\ pc[p] = "claim"
  /\ HasSession(p)
  /\ \E C \in SUBSET Jobs, j \in Jobs :
       /\ ClaimJob(IdOf[p], C, j)
       /\ handle' = [handle EXCEPT ![p] = <<j, jobs[j].gen + 1>>]
  /\ Go(p, "work")
  /\ beat' = [beat EXCEPT ![p] = "waiting"]
  /\ UNCHANGED <<session, lost, told, late>>

\* The claim commits but its answer does not arrive: run logs coordination_unavailable.
TakeJobUnheard(p) ==
  /\ pc[p] = "claim"
  /\ HasSession(p)
  /\ \E C \in SUBSET Jobs, j \in Jobs : ClaimJob(IdOf[p], C, j)
  /\ Go(p, "poll")
  /\ UNCHANGED <<session, handle, beat, lost, told, late>>

\* SIGTERM between two jobs.
Stop(p) ==
  /\ pc[p] = "poll"
  /\ HasSession(p)
  /\ StopWorker(IdOf[p])
  /\ Go(p, "down")
  /\ UNCHANGED <<session, handle, beat, lost, told, late>>

-----------------------------------------------------------------------------
(* execute, between two mutations: check raises LeaseLost or answers       *)
(* whether to cancel; it is called at every checkpoint, before a mutation  *)
(* and with every progress report.                                         *)

Abandon(p) ==
  /\ pc[p] = "work"
  /\ lost[p] \/ (~told[p] /\ ~StillOwned(p))
  /\ Go(p, "joining")
  /\ UNCHANGED <<vars, session, handle, beat, lost, told, late>>

\* PostgreSQL does not answer a check, a guard or a progress update.
LoseTouch(p) ==
  /\ pc[p] = "work"
  /\ lost' = [lost EXCEPT ![p] = TRUE]
  /\ Go(p, "joining")
  /\ UNCHANGED <<vars, session, handle, beat, told, late>>

HonourCancel(p) ==
  /\ pc[p] = "work"
  /\ ~lost[p]
  /\ told[p] \/ (StillOwned(p) /\ jobs[JobOf(p)].cancel)
  /\ Go(p, "cancelling")
  /\ UNCHANGED <<vars, session, handle, beat, lost, told, late>>

\* The check after index only looks for a lost lease; its answer is ignored.
Indexed(p) ==
  /\ pc[p] = "work"
  /\ ~lost[p]
  /\ told[p] \/ StillOwned(p)
  /\ Go(p, "completing")
  /\ UNCHANGED <<vars, session, handle, beat, lost, told, late>>

IndexingFails(p) ==
  /\ pc[p] = "work"
  /\ Go(p, "retrying")
  /\ UNCHANGED <<vars, session, handle, beat, lost, told, late>>

-----------------------------------------------------------------------------
(* mutation: the guard's transaction, with a boundary check before every   *)
(* single write to SQLite or the vector store.                             *)

\* Mutant: the row is locked, but ownership is not checked once the lock is held.
EnterMutationUnchecked(p) ==
  /\ pc[p] = "work"
  /\ ~lost[p] /\ ~told[p]
  /\ guard[RepoOf(p)] = None
  /\ guard' = [guard EXCEPT ![RepoOf(p)] = handle[p]]
  /\ Go(p, "guarded")
  /\ UNCHANGED <<jobs, active, attempts, workers, session, handle, beat, lost, told, late>>

EnterMutation(p) ==
  /\ pc[p] = "work"
  /\ ~lost[p] /\ ~told[p] /\ ~jobs[JobOf(p)].cancel
  /\ EnterGuard(JobOf(p), GenOf(p))
  /\ Go(p, "guarded")
  /\ UNCHANGED <<session, handle, beat, lost, told, late>>

Boundary(p) ==
  /\ pc[p] = "guarded"
  /\ HasGuard(p) /\ ~lost[p] /\ StillOwned(p) /\ ~jobs[JobOf(p)].cancel
  /\ Go(p, "writing")
  /\ UNCHANGED <<vars, session, handle, beat, lost, told, late>>

\* Closing the connection rolls the guard's transaction back, if it is still open.
DropGuard(p) ==
  IF HasGuard(p) THEN ExitGuard(RepoOf(p)) ELSE UNCHANGED vars

BoundaryLost(p) ==
  /\ pc[p] = "guarded"
  /\ lost[p] \/ ~HasGuard(p) \/ ~StillOwned(p)
  /\ DropGuard(p)
  /\ lost' = [lost EXCEPT ![p] = @ \/ ~HasGuard(p)]
  /\ Go(p, "joining")
  /\ UNCHANGED <<session, handle, beat, told, late>>

BoundaryCancels(p) ==
  /\ pc[p] = "guarded"
  /\ HasGuard(p) /\ ~lost[p] /\ StillOwned(p) /\ jobs[JobOf(p)].cancel
  /\ DropGuard(p)
  /\ Go(p, "cancelling")
  /\ UNCHANGED <<session, handle, beat, lost, told, late>>

WouldBeRefused(p) == ~HasGuard(p) \/ ~StillOwned(p) \/ jobs[JobOf(p)].cancel

\* Mutant: one boundary check for a whole batch of writes.
StoreWriteUnbounded(p) ==
  /\ pc[p] = "writing"
  /\ late' = [late EXCEPT ![p] = @ + (IF WouldBeRefused(p) THEN 1 ELSE 0)]
  /\ \E to \in {"writing", "guarded"} : Go(p, to)
  /\ UNCHANGED <<vars, session, handle, beat, lost, told>>

StoreWrite(p) ==
  /\ pc[p] = "writing"
  /\ late' = [late EXCEPT ![p] = @ + (IF WouldBeRefused(p) THEN 1 ELSE 0)]
  /\ Go(p, "guarded")
  /\ UNCHANGED <<vars, session, handle, beat, lost, told>>

\* The guard's body is done, or an exception in it became a file error.
EndMutation(p) ==
  /\ pc[p] = "guarded"
  /\ HasGuard(p)
  /\ ExitGuard(RepoOf(p))
  /\ Go(p, "work")
  /\ UNCHANGED <<session, handle, beat, lost, told, late>>

-----------------------------------------------------------------------------
(* execute reports                                                         *)

Complete(p) ==
  /\ pc[p] = "completing"
  /\ CompleteJob(JobOf(p), GenOf(p))
  /\ Go(p, "joining")
  /\ UNCHANGED <<session, handle, beat, lost, told, late>>

\* A psycopg error in complete_job is an error of the job like any other: it is retried,
\* whether or not the completion was committed.
CompleteUnheard(p) ==
  /\ pc[p] = "completing"
  /\ CompleteJob(JobOf(p), GenOf(p)) \/ UNCHANGED vars
  /\ Go(p, "retrying")
  /\ UNCHANGED <<session, handle, beat, lost, told, late>>

Retry(p) ==
  /\ pc[p] = "retrying"
  /\ ~lost[p]
  /\ ScheduleRetry(JobOf(p), GenOf(p))
  /\ Go(p, "joining")
  /\ UNCHANGED <<session, handle, beat, lost, told, late>>

AcknowledgeCancel(p) ==
  /\ pc[p] = "cancelling"
  /\ CancelJob(JobOf(p), GenOf(p))
  /\ Go(p, "joining")
  /\ UNCHANGED <<session, handle, beat, lost, told, late>>

\* The report is refused with LeaseLost, not made, or not answered.
ReportRefused(p) ==
  /\ \/ pc[p] = "completing" /\ ~StillOwned(p)
     \/ pc[p] \in {"retrying", "cancelling"}
  /\ Go(p, "joining")
  /\ UNCHANGED <<vars, session, handle, beat, lost, told, late>>

\* Mutant: join waits for a heartbeat thread that answers, and it may have returned.
JoinAnswering(p) ==
  /\ pc[p] = "joining"
  /\ beat[p] = "waiting"
  /\ Go(p, "poll")
  /\ handle' = [handle EXCEPT ![p] = None]
  /\ beat' = [beat EXCEPT ![p] = "off"]
  /\ lost' = [lost EXCEPT ![p] = FALSE]
  /\ told' = [told EXCEPT ![p] = FALSE]
  /\ late' = [late EXCEPT ![p] = 0]
  /\ UNCHANGED <<vars, session>>

\* heartbeat_stop is set; join waits for a heartbeat thread that is past its wait.
Join(p) ==
  /\ pc[p] = "joining"
  /\ beat[p] \in {"off", "waiting"}
  /\ Go(p, "poll")
  /\ handle' = [handle EXCEPT ![p] = None]
  /\ beat' = [beat EXCEPT ![p] = "off"]
  /\ lost' = [lost EXCEPT ![p] = FALSE]
  /\ told' = [told EXCEPT ![p] = FALSE]
  /\ late' = [late EXCEPT ![p] = 0]
  /\ UNCHANGED <<vars, session>>

-----------------------------------------------------------------------------
(* The heartbeat thread                                                    *)

\* The wait times out; once heartbeat_stop is set it no longer does.
Wake(p) ==
  /\ beat[p] = "waiting"
  /\ pc[p] /= "joining"
  /\ beat' = [beat EXCEPT ![p] = "due"]
  /\ UNCHANGED <<vars, session, pc, handle, lost, told, late>>

Renew(p) ==
  /\ beat[p] = "due"
  /\ RenewLease(JobOf(p), GenOf(p))
  /\ told' = [told EXCEPT ![p] = @ \/ jobs[JobOf(p)].cancel]
  /\ beat' = [beat EXCEPT ![p] = "renewed"]
  /\ UNCHANGED <<session, pc, handle, lost, late>>

ReportAlive(p) ==
  /\ beat[p] = "renewed"
  /\ HasSession(p)
  /\ HeartbeatWorker(IdOf[p], JobOf(p))
  /\ beat' = [beat EXCEPT ![p] = "waiting"]
  /\ UNCHANGED <<session, pc, handle, lost, told, late>>

\* Either call is refused or fails.
BeatFails(p) ==
  /\ beat[p] \in {"due", "renewed"}
  /\ lost' = [lost EXCEPT ![p] = TRUE]
  /\ beat' = [beat EXCEPT ![p] = "off"]
  /\ UNCHANGED <<vars, session, pc, handle, told, late>>

-----------------------------------------------------------------------------
(* What may befall a process, and the world around it                      *)

Crash(p) ==
  /\ pc[p] /= "down"
  /\ IF pc[p] \in InGuard THEN DropGuard(p) ELSE UNCHANGED vars
  /\ Go(p, "down")
  /\ handle' = [handle EXCEPT ![p] = None]
  /\ beat' = [beat EXCEPT ![p] = "off"]
  /\ lost' = [lost EXCEPT ![p] = FALSE]
  /\ told' = [told EXCEPT ![p] = FALSE]
  /\ late' = [late EXCEPT ![p] = 0]
  /\ UNCHANGED session

SessionDrops(p) ==
  /\ SessionsDrop
  /\ pc[p] \in InGuard
  /\ HasGuard(p)
  /\ ExitGuard(RepoOf(p))
  /\ UNCHANGED procVars

\* A lease is renewed at most one lease after the last registry heartbeat, so by default a
\* worker that has been silent for worker_offline_seconds has let its lease expire; the
\* settings also allow the opposite order.
SilenceIsPossible(w) ==
  OfflineAfterLease => \A j \in Jobs : jobs[j].worker = w => jobs[j].lease /= "live"

\* To a worker a job is a job, so jobs arrive by SubmitJob only.
Surroundings ==
  /\ \/ \E j \in Jobs, r \in Repos : SubmitJob(j, r, None)
     \/ \E j \in Jobs : RequestCancel(j) \/ LeaseExpires(j) \/ RetryFallsDue(j)
     \/ \E w \in Workers : SilenceIsPossible(w) /\ WorkerFallsSilent(w)
  /\ UNCHANGED procVars

-----------------------------------------------------------------------------

MainLoop(p) ==
  \/ Register(p) \/ Poll(p) \/ LoseSession(p) \/ FindNothing(p) \/ TakeJob(p) \/ TakeJobUnheard(p)
  \/ Stop(p)

Execute(p) ==
  \/ Abandon(p) \/ LoseTouch(p) \/ HonourCancel(p) \/ Indexed(p) \/ IndexingFails(p)
  \/ EnterMutation(p) \/ Boundary(p) \/ BoundaryLost(p) \/ BoundaryCancels(p) \/ StoreWrite(p)
  \/ EndMutation(p)
  \/ Complete(p) \/ CompleteUnheard(p) \/ Retry(p) \/ AcknowledgeCancel(p) \/ ReportRefused(p)
  \/ Join(p)

Heartbeat(p) == Wake(p) \/ Renew(p) \/ ReportAlive(p) \/ BeatFails(p)

WorkerNext ==
  \/ \E p \in Procs : MainLoop(p) \/ Execute(p) \/ Heartbeat(p) \/ Crash(p) \/ SessionDrops(p)
  \/ Surroundings

WorkerSpec == WorkerInit /\ [][WorkerNext]_allVars
-----------------------------------------------------------------------------
(* Properties                                                              *)

\* A process that is inside its mutation guard works for the running job of the
\* repository and its current generation, whatever expired, was cancelled or was restarted
\* while it was paused there; so no two processes write to one repository.  For sessions
\* that live as long as their process.
NoStaleWriter ==
  \A p \in Procs : pc[p] \in InGuard =>
    /\ guard[RepoOf(p)] = handle[p]
    /\ active[RepoOf(p)] = JobOf(p)
    /\ jobs[JobOf(p)].gen = GenOf(p)

\* After a cancellation, an expired lease or the loss of its PostgreSQL session a process
\* makes at most the one store write its last boundary check had already let through.
OneLateWrite == \A p \in Procs : late[p] <= 1

\* Registry session tokens fence old processes after the reuse of a worker id: no report
\* (completion, retry, acknowledged cancellation) of a process whose id has been registered by
\* another one changes a job.
OldProcessFenced ==
  [][\A p \in Procs :
       pc[p] \in Reporting /\ pc'[p] /= pc[p] /\ jobs' /= jobs => session[IdOf[p]] = p]_allVars

\* A process that learns that it lost its lease or the database lets go of its job and is
\* ready for the next one: no event, check or join can hold it.
WorkerFairness ==
  \A p \in Procs : WF_allVars(Execute(p)) /\ WF_allVars(Heartbeat(p))

FairWorkerSpec == WorkerSpec /\ WorkerFairness

LostWorkerLetsGo == \A p \in Procs : lost[p] ~> pc[p] \in {"poll", "down"}
=============================================================================
