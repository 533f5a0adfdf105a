---------------------------- MODULE WorkerProofs ----------------------------
(***************************************************************************)
(* Theorems of Worker, for all processes, ids, jobs and repositories:      *)
(* processes use the tables only as Coordination allows, whoever writes to *)
(* an index is the current owner, and a paused or superseded process makes *)
(* at most one late write.  The argument is that a handle names an attempt *)
(* of the worker id of its process, that no two processes have the same    *)
(* handle, and that a handle which is no longer Owned never is again.      *)
(***************************************************************************)
EXTENDS Worker, HistoryProofs

Holds(p) == handle[p] # None

\* A process has a handle while it executes, and only then a heartbeat thread.
HandleWhileExecuting ==
  \A p \in Procs :
    /\ Holds(p) <=> pc[p] \in Executing
    /\ beat[p] # "off" => Holds(p)
    /\ ~Holds(p) => late[p] = 0

\* A handle names an attempt of the worker id its process was started with.
HandlesNameAttempts ==
  \A p \in Procs : Holds(p) =>
    /\ GenOf(p) \in DOMAIN attempts[JobOf(p)]
    /\ attempts[JobOf(p)][GenOf(p)].worker = IdOf[p]

HandlesDiffer ==
  \A p, q \in Procs : Holds(p) /\ handle[p] = handle[q] => p = q

GuardsKept ==
  \A p \in Procs : pc[p] \in InGuard /\ ~SessionsDrop => HasGuard(p)

\* No check of p will let another write through.
Fenced(p) ==
  \/ ~StillOwned(p)
  \/ jobs[JobOf(p)].cancel
  \/ pc[p] = "guarded" /\ ~HasGuard(p)

LateWritersAreFenced ==
  \A p \in Procs : late[p] # 0 =>
    /\ late[p] = 1 /\ pc[p] # "writing"
    /\ pc[p] \in {"work", "guarded"} => Fenced(p)

\* A worker id that has been silent for worker_offline_seconds has no live lease.
SilenceEndsLeases ==
  OfflineAfterLease =>
    \A w \in Workers, j \in Jobs :
      workers[w].stale /\ jobs[j].worker = w => jobs[j].lease # "live"

\* Whoever owns a job has the session of its worker id.
OwnersHaveSessions ==
  OfflineAfterLease => \A p \in Procs : Holds(p) /\ StillOwned(p) => HasSession(p)

WorkerInv ==
  /\ HistoryInv
  /\ WorkerTypeOK
  /\ HandleWhileExecuting
  /\ HandlesNameAttempts
  /\ HandlesDiffer
  /\ GuardsKept
  /\ LateWritersAreFenced
  /\ SilenceEndsLeases
  /\ OwnersHaveSessions

-----------------------------------------------------------------------------
(* What a process does to the tables                                       *)

LEMMA HandleFacts ==
  ASSUME WorkerInv, NEW p \in Procs, Holds(p)
  PROVE  /\ JobOf(p) \in Jobs /\ GenOf(p) \in Nat /\ handle[p] = <<JobOf(p), GenOf(p)>>
         /\ GenOf(p) \in DOMAIN attempts[JobOf(p)] /\ GenOf(p) <= jobs[JobOf(p)].gen
         /\ attempts[JobOf(p)][GenOf(p)].worker = IdOf[p]
         /\ Exists(JobOf(p)) /\ RepoOf(p) \in Repos
<1>1. handle[p] \in Jobs \X Nat
  BY DEF WorkerInv, WorkerTypeOK, Holds
<1>2. JobOf(p) \in Jobs /\ GenOf(p) \in Nat /\ handle[p] = <<JobOf(p), GenOf(p)>>
  BY <1>1 DEF JobOf, GenOf
<1>3. GenOf(p) \in DOMAIN attempts[JobOf(p)] /\ attempts[JobOf(p)][GenOf(p)].worker = IdOf[p]
  BY DEF WorkerInv, HandlesNameAttempts
<1>4. attempts[JobOf(p)] \in Seq(Attempt) /\ Len(attempts[JobOf(p)]) = jobs[JobOf(p)].gen
  BY <1>2 DEF WorkerInv, HistoryInv, CoordinationInv, TypeOK, HandlesMatchRows
<1>5. GenOf(p) <= jobs[JobOf(p)].gen /\ jobs[JobOf(p)].gen # 0
  BY <1>2, <1>3, <1>4
<1>6. Exists(JobOf(p)) /\ RepoOf(p) \in Repos
  BY <1>2, <1>5 DEF WorkerInv, HistoryInv, CoordinationInv, HandlesMatchRows, RepoOf
<1> QED
  BY <1>2, <1>3, <1>5, <1>6

LEMMA Ids == \A p \in Procs : IdOf[p] \in Workers
BY IdOfAssumption

\* A step of a process is one transaction on the tables at most: a call for its own id or
\* handle, or the end of a guard.
Effect(p) ==
  \/ UNCHANGED vars
  \/ Register(p)
  \/ Stop(p)
  \/ \E current \in Reported(IdOf[p]) : HeartbeatWorker(IdOf[p], current)
  \/ Claim(IdOf[p])
  \/ Holds(p) /\ HandleUse(JobOf(p), GenOf(p))
  \/ Holds(p) /\ ExitGuard(RepoOf(p))

LEMMA MainLoopEffect ==
  ASSUME NEW p \in Procs, MainLoop(p)
  PROVE  Effect(p)
<1>1. CASE Register(p) \/ Stop(p) \/ LoseSession(p)
  BY <1>1 DEF LoseSession, Effect
<1>2. CASE Poll(p)
  BY <1>2 DEF Poll, Effect, Reported
<1>3. CASE FindNothing(p) \/ TakeJob(p) \/ TakeJobUnheard(p)
  BY <1>3 DEF FindNothing, TakeJob, TakeJobUnheard, Effect, Claim
<1> QED
  BY <1>1, <1>2, <1>3 DEF MainLoop

LEMMA ExecuteEffect ==
  ASSUME WorkerInv, NEW p \in Procs, Execute(p)
  PROVE  Effect(p)
<1>1. pc[p] \in Executing
  BY DEF Execute, Abandon, LoseTouch, HonourCancel, Indexed, IndexingFails, EnterMutation,
         Boundary, BoundaryLost, BoundaryCancels, StoreWrite, EndMutation, Complete,
         CompleteUnheard, Retry, AcknowledgeCancel, ReportRefused, Join,
         Executing, Reporting, InGuard
<1>2. Holds(p)
  BY <1>1 DEF WorkerInv, HandleWhileExecuting
<1>3. CASE \/ Abandon(p) \/ LoseTouch(p) \/ HonourCancel(p) \/ Indexed(p) \/ IndexingFails(p)
           \/ Boundary(p) \/ StoreWrite(p) \/ ReportRefused(p) \/ Join(p)
  BY <1>3 DEF Abandon, LoseTouch, HonourCancel, Indexed, IndexingFails, Boundary, StoreWrite,
              ReportRefused, Join, Effect
<1>4. CASE BoundaryLost(p) \/ BoundaryCancels(p) \/ EndMutation(p)
  BY <1>2, <1>4 DEF BoundaryLost, BoundaryCancels, EndMutation, DropGuard, Effect
<1>5. CASE EnterMutation(p)
  BY <1>2, <1>5 DEF EnterMutation, HandleUse, Effect
<1>6. CASE Complete(p) \/ CompleteUnheard(p) \/ Retry(p) \/ AcknowledgeCancel(p)
  BY <1>2, <1>6 DEF Complete, CompleteUnheard, Retry, AcknowledgeCancel, HandleUse, Effect
<1> QED
  BY <1>3, <1>4, <1>5, <1>6 DEF Execute

LEMMA HeartbeatEffect ==
  ASSUME WorkerInv, NEW p \in Procs, Heartbeat(p)
  PROVE  Effect(p)
<1>1. Holds(p)
  BY DEF WorkerInv, HandleWhileExecuting, Heartbeat, Wake, Renew, ReportAlive, BeatFails
<1>2. CASE Wake(p) \/ BeatFails(p)
  BY <1>2 DEF Wake, BeatFails, Effect
<1>3. CASE Renew(p)
  BY <1>1, <1>3 DEF Renew, HandleUse, Effect
<1>4. CASE ReportAlive(p)
  <2>1. JobOf(p) \in Reported(IdOf[p])
    BY <1>1, HandleFacts DEF Reported
  <2> QED
    BY <1>4, <2>1 DEF ReportAlive, Effect
<1> QED
  BY <1>2, <1>3, <1>4 DEF Heartbeat

LEMMA ProcessEffect ==
  ASSUME WorkerInv, NEW p \in Procs,
         MainLoop(p) \/ Execute(p) \/ Heartbeat(p) \/ Crash(p) \/ SessionDrops(p)
  PROVE  Effect(p)
<1>1. CASE Crash(p) \/ SessionDrops(p)
  <2>1. pc[p] \in InGuard => Holds(p)
    BY DEF WorkerInv, HandleWhileExecuting, Executing, InGuard
  <2> QED
    BY <1>1, <2>1 DEF Crash, SessionDrops, DropGuard, Effect
<1> QED
  BY <1>1, MainLoopEffect, ExecuteEffect, HeartbeatEffect

\* Every step of the processes and of the world around them is one that Coordination allows.
LEMMA StepMaps ==
  ASSUME WorkerInv, [WorkerNext]_allVars
  PROVE  [Next]_vars
<1>1. ASSUME NEW p \in Procs, Effect(p) PROVE [Next]_vars
  <2>1. CASE UNCHANGED vars
    BY <2>1
  <2>2. CASE \/ Register(p) \/ Stop(p)
             \/ \E current \in Reported(IdOf[p]) : HeartbeatWorker(IdOf[p], current)
    BY <2>2, Ids DEF Register, Stop, RegistryCall, Next
  <2>3. CASE Claim(IdOf[p])
    BY <2>3, Ids DEF Next
  <2>4. CASE Holds(p) /\ HandleUse(JobOf(p), GenOf(p))
    BY <2>4, HandleFacts DEF Next
  <2>5. CASE Holds(p) /\ ExitGuard(RepoOf(p))
    BY <2>5, HandleFacts DEF Next
  <2> QED
    BY <1>1, <2>1, <2>2, <2>3, <2>4, <2>5 DEF Effect
<1>2. CASE Surroundings
  BY <1>2 DEF Surroundings, Next, Submission, Time
<1>3. CASE UNCHANGED allVars
  BY <1>3 DEF allVars
<1> QED
  BY <1>1, <1>2, <1>3, ProcessEffect DEF WorkerNext

-----------------------------------------------------------------------------
(* What a step does to each process                                        *)

Keeps(p) == handle'[p] = handle[p] /\ late'[p] = late[p]

Rests(p) == Keeps(p) /\ pc'[p] = pc[p] /\ (beat'[p] # "off" => beat[p] # "off")

Idles(p) ==
  /\ Keeps(p) /\ beat'[p] = beat[p]
  /\ pc[p] \notin Executing /\ pc'[p] \notin Executing

LetsGo(p) ==
  handle'[p] = None /\ pc'[p] \in {"poll", "down"} /\ beat'[p] = "off" /\ late'[p] = 0

\* The main thread goes on inside execute; it comes to the places from which a write is
\* within reach by one action each.
Moves(p) ==
  /\ Keeps(p) /\ beat'[p] = beat[p]
  /\ pc[p] \in Executing \ {"writing"} /\ pc'[p] \in Executing
  /\ pc'[p] = "writing" => Boundary(p)
  /\ pc'[p] = "guarded" => EnterMutation(p)
  /\ pc'[p] = "work" => EndMutation(p)

Course(p) ==
  Rests(p) \/ Idles(p) \/ TakeJob(p) \/ LetsGo(p) \/ StoreWrite(p) \/ Moves(p)

ProcTypes ==
  /\ session \in [Workers -> Procs \cup {None}]
  /\ pc \in [Procs -> {"down", "poll", "claim"} \cup Executing]
  /\ handle \in [Procs -> (Jobs \X Nat) \cup {None}]
  /\ beat \in [Procs -> {"off", "waiting", "due", "renewed"}]
  /\ lost \in [Procs -> BOOLEAN] /\ told \in [Procs -> BOOLEAN]
  /\ late \in [Procs -> Nat]

LEMMA MainLoopCourse ==
  ASSUME ProcTypes, NEW p \in Procs, MainLoop(p)
  PROVE  Course(p) /\ \A q \in Procs \ {p} : Rests(q)
<1>1. CASE TakeJob(p)
  BY <1>1 DEF ProcTypes, TakeJob, Go, Course, Rests, Keeps
<1>2. CASE \/ Register(p) \/ Poll(p) \/ LoseSession(p) \/ FindNothing(p) \/ TakeJobUnheard(p)
           \/ Stop(p)
  BY <1>2 DEF Register, Poll, LoseSession, FindNothing, TakeJobUnheard, Stop, ProcTypes, Go,
              Course, Rests, Idles, Keeps, Executing, Reporting, InGuard
<1> QED
  BY <1>1, <1>2 DEF MainLoop

LEMMA ExecuteCourse ==
  ASSUME ProcTypes, NEW p \in Procs, Execute(p)
  PROVE  Course(p) /\ \A q \in Procs \ {p} : Rests(q)
<1> USE DEF ProcTypes, Go, Course, Rests, Keeps, Moves, Executing, Reporting, InGuard
<1>1. CASE Abandon(p) \/ LoseTouch(p) \/ HonourCancel(p) \/ Indexed(p) \/ IndexingFails(p)
  BY <1>1 DEF Abandon, LoseTouch, HonourCancel, Indexed, IndexingFails
<1>2. CASE BoundaryLost(p) \/ BoundaryCancels(p)
  BY <1>2 DEF BoundaryLost, BoundaryCancels
<1>3. CASE Boundary(p)
  BY <1>3 DEF Boundary
<1>4. CASE EnterMutation(p)
  BY <1>4 DEF EnterMutation
<1>5. CASE EndMutation(p)
  BY <1>5 DEF EndMutation
<1>6. CASE StoreWrite(p)
  BY <1>6 DEF StoreWrite
<1>7. CASE \/ Complete(p) \/ CompleteUnheard(p) \/ Retry(p) \/ AcknowledgeCancel(p)
           \/ ReportRefused(p)
  BY <1>7 DEF Complete, CompleteUnheard, Retry, AcknowledgeCancel, ReportRefused
<1>8. CASE Join(p)
  BY <1>8 DEF Join, LetsGo
<1> QED
  BY <1>1, <1>2, <1>3, <1>4, <1>5, <1>6, <1>7, <1>8 DEF Execute

LEMMA OtherCourse ==
  ASSUME ProcTypes, NEW p \in Procs, Heartbeat(p) \/ Crash(p) \/ SessionDrops(p)
  PROVE  Course(p) /\ \A q \in Procs \ {p} : Rests(q)
<1> USE DEF ProcTypes, Go, Course, Rests, Keeps
<1>1. CASE Heartbeat(p)
  BY <1>1 DEF Heartbeat, Wake, Renew, ReportAlive, BeatFails
<1>2. CASE Crash(p)
  BY <1>2 DEF Crash, LetsGo
<1>3. CASE SessionDrops(p)
  BY <1>3 DEF SessionDrops, procVars
<1> QED
  BY <1>1, <1>2, <1>3

LEMMA StepCourse ==
  ASSUME ProcTypes, [WorkerNext]_allVars
  PROVE  \A q \in Procs : Course(q)
<1>1. ASSUME UNCHANGED procVars PROVE \A q \in Procs : Course(q)
  BY <1>1 DEF procVars, Course, Rests, Keeps
<1>2. CASE Surroundings \/ UNCHANGED allVars
  BY <1>1, <1>2 DEF Surroundings, allVars
<1>3. ASSUME NEW p \in Procs, MainLoop(p) PROVE \A q \in Procs : Course(q)
  BY <1>3, MainLoopCourse DEF Course
<1>4. ASSUME NEW p \in Procs, Execute(p) PROVE \A q \in Procs : Course(q)
  BY <1>4, ExecuteCourse DEF Course
<1>5. ASSUME NEW p \in Procs, Heartbeat(p) \/ Crash(p) \/ SessionDrops(p)
      PROVE  \A q \in Procs : Course(q)
  BY <1>5, OtherCourse DEF Course
<1> QED
  BY <1>2, <1>3, <1>4, <1>5 DEF WorkerNext

LEMMA ProcTypesStep ==
  ASSUME WorkerInv, TypeOK', [WorkerNext]_allVars
  PROVE  WorkerTypeOK'
<1> USE DEF ProcTypes, Go, Executing, Reporting, InGuard
<1>1. ProcTypes
  BY DEF WorkerInv, WorkerTypeOK
<1>2. ASSUME NEW p \in Procs, MainLoop(p) PROVE ProcTypes'
  <2>1. CASE TakeJob(p)
    <3>1. PICK j \in Jobs : handle' = [handle EXCEPT ![p] = <<j, jobs[j].gen + 1>>]
      BY <2>1 DEF TakeJob
    <3>2. jobs[j].gen + 1 \in Nat
      BY DEF WorkerInv, WorkerTypeOK, TypeOK, Row
    <3> QED
      BY <1>1, <2>1, <3>1, <3>2 DEF TakeJob
  <2>2. CASE Register(p)
    BY <1>1, <2>2, Ids DEF Register
  <2>3. CASE \/ Poll(p) \/ LoseSession(p) \/ FindNothing(p) \/ TakeJobUnheard(p) \/ Stop(p)
    BY <1>1, <2>3 DEF Poll, LoseSession, FindNothing, TakeJobUnheard, Stop
  <2> QED
    BY <1>2, <2>1, <2>2, <2>3 DEF MainLoop
<1>3. ASSUME NEW p \in Procs, Execute(p) PROVE ProcTypes'
  <2>1. CASE Abandon(p) \/ LoseTouch(p) \/ HonourCancel(p) \/ Indexed(p) \/ IndexingFails(p)
    BY <1>1, <2>1 DEF Abandon, LoseTouch, HonourCancel, Indexed, IndexingFails
  <2>2. CASE \/ EnterMutation(p) \/ Boundary(p) \/ BoundaryLost(p) \/ BoundaryCancels(p)
             \/ EndMutation(p)
    BY <1>1, <2>2 DEF EnterMutation, Boundary, BoundaryLost, BoundaryCancels, EndMutation
  <2>3. CASE StoreWrite(p)
    BY <1>1, <2>3 DEF StoreWrite
  <2>4. CASE \/ Complete(p) \/ CompleteUnheard(p) \/ Retry(p) \/ AcknowledgeCancel(p)
             \/ ReportRefused(p)
    BY <1>1, <2>4 DEF Complete, CompleteUnheard, Retry, AcknowledgeCancel, ReportRefused
  <2>5. CASE Join(p)
    BY <1>1, <2>5 DEF Join
  <2> QED
    BY <1>3, <2>1, <2>2, <2>3, <2>4, <2>5 DEF Execute
<1>4. ASSUME NEW p \in Procs, Heartbeat(p) PROVE ProcTypes'
  <2>1. CASE Renew(p)
    <3>1. Holds(p)
      BY <2>1 DEF WorkerInv, HandleWhileExecuting, Renew
    <3>2. (told[p] \/ jobs[JobOf(p)].cancel) \in BOOLEAN
      OBVIOUS
    <3> QED
      BY <1>1, <2>1, <3>2 DEF Renew
  <2>2. CASE Wake(p) \/ ReportAlive(p) \/ BeatFails(p)
    BY <1>1, <2>2 DEF Wake, ReportAlive, BeatFails
  <2> QED
    BY <1>4, <2>1, <2>2 DEF Heartbeat
<1>5. ASSUME NEW p \in Procs, Crash(p) PROVE ProcTypes'
  <2>1. handle' = [handle EXCEPT ![p] = None] /\ late' = [late EXCEPT ![p] = 0]
    BY <1>5 DEF Crash
  <2>2. /\ pc' = [pc EXCEPT ![p] = "down"] /\ beat' = [beat EXCEPT ![p] = "off"]
        /\ session' = session
    BY <1>5 DEF Crash
  <2>3. lost' = [lost EXCEPT ![p] = FALSE] /\ told' = [told EXCEPT ![p] = FALSE]
    BY <1>5 DEF Crash
  <2> QED
    BY <1>1, <2>1, <2>2, <2>3
<1>6. ASSUME UNCHANGED procVars PROVE ProcTypes'
  BY <1>1, <1>6 DEF procVars
<1> HIDE DEF ProcTypes
<1>7. ASSUME Surroundings \/ UNCHANGED allVars PROVE ProcTypes'
  BY <1>6, <1>7 DEF Surroundings, allVars
<1>8. ASSUME NEW p \in Procs, SessionDrops(p) PROVE ProcTypes'
  BY <1>6, <1>8 DEF SessionDrops
<1>9. ProcTypes'
  BY <1>2, <1>3, <1>4, <1>5, <1>7, <1>8 DEF WorkerNext
<1> QED
  BY <1>9 DEF WorkerTypeOK, ProcTypes

LEMMA HandleKeptWhileExecuting ==
  ASSUME WorkerInv, WorkerTypeOK', [WorkerNext]_allVars
  PROVE  HandleWhileExecuting'
<1> SUFFICES ASSUME NEW p \in Procs
             PROVE  /\ Holds(p)' <=> pc'[p] \in Executing
                    /\ beat'[p] # "off" => Holds(p)'
                    /\ ~Holds(p)' => late'[p] = 0
  BY DEF HandleWhileExecuting
<1>1. /\ handle[p] # None <=> pc[p] \in Executing
      /\ beat[p] # "off" => handle[p] # None
      /\ handle[p] = None => late[p] = 0
  BY DEF WorkerInv, HandleWhileExecuting, Holds
<1>2. Course(p)
  BY StepCourse DEF WorkerInv, WorkerTypeOK, ProcTypes
<1>3. CASE TakeJob(p)
  <2>1. handle'[p] # None /\ pc'[p] = "work" /\ "work" \in Executing
    BY <1>3, NoneAssumption DEF TakeJob, Go, Executing, WorkerInv, WorkerTypeOK, TypeOK, Row
  <2> QED
    BY <2>1 DEF Holds
<1>4. CASE StoreWrite(p)
  <2>1. /\ handle'[p] = handle[p] /\ pc[p] \in Executing
        /\ pc'[p] = "guarded" /\ "guarded" \in Executing
    BY <1>4 DEF StoreWrite, Go, Executing, InGuard, WorkerInv, WorkerTypeOK
  <2> QED
    BY <1>1, <2>1 DEF Holds
<1>5. CASE LetsGo(p)
  BY <1>5 DEF LetsGo, Holds, Executing, Reporting, InGuard
<1>6. CASE Rests(p) \/ Idles(p) \/ Moves(p)
  BY <1>1, <1>6 DEF Rests, Idles, Moves, Keeps, Holds
<1> QED
  BY <1>2, <1>3, <1>4, <1>5, <1>6 DEF Course

\* The handle of a claim names the attempt that the claim has just entered.
LEMMA TakenHandle ==
  ASSUME WorkerInv, NEW p \in Procs, TakeJob(p)
  PROVE  /\ pc[p] = "claim" /\ pc'[p] = "work" /\ HasSession(p) /\ Claim(IdOf[p])
         /\ handle[p] = None /\ \A q \in Procs \ {p} : handle'[q] = handle[q]
         /\ session' = session
         /\ \E j \in Jobs :
              /\ handle'[p] = <<j, jobs[j].gen + 1>>
              /\ jobs[j].gen + 1 \in DOMAIN attempts'[j]
              /\ attempts'[j][jobs[j].gen + 1].worker = IdOf[p]
              /\ workers'[IdOf[p]].status = "busy"
<1>1. /\ TypeOK /\ handle \in [Procs -> (Jobs \X Nat) \cup {None}]
      /\ pc \in [Procs -> {"down", "poll", "claim"} \cup Executing]
  BY DEF WorkerInv, WorkerTypeOK
<1>2. PICK C \in SUBSET Jobs, j \in Jobs :
        ClaimJob(IdOf[p], C, j) /\ handle' = [handle EXCEPT ![p] = <<j, jobs[j].gen + 1>>]
  BY DEF TakeJob
<1>3. attempts'[j] = StartedHistory(j, IdOf[p])
  BY <1>2 DEF ClaimJob
<1>4. Len(attempts[j]) = jobs[j].gen
  BY DEF WorkerInv, HistoryInv, CoordinationInv, HandlesMatchRows
<1>5. /\ jobs[j].gen \in Nat /\ StartedHistory(j, IdOf[p]) \in Seq(Attempt)
      /\ Len(StartedHistory(j, IdOf[p])) = jobs[j].gen + 1
      /\ StartedHistory(j, IdOf[p])[jobs[j].gen + 1].worker = IdOf[p]
  BY <1>1, <1>4, Ids, StartFields
<1>6. jobs[j].gen + 1 \in DOMAIN attempts'[j] /\ attempts'[j][jobs[j].gen + 1].worker = IdOf[p]
  BY <1>3, <1>5
<1>7. workers'[IdOf[p]].status = "busy"
  <2>1. workers[IdOf[p]] \in Registration /\ AfterGivingUp(IdOf[p], C) \in Registration
    BY <1>1, <1>2, Ids, GivingUpType DEF TypeOK, ClaimJob
  <2>2. workers'[IdOf[p]] = [AfterGivingUp(IdOf[p], C) EXCEPT !.status = "busy", !.current = j,
                                                              !.stale = FALSE]
    BY <1>2, Ids DEF ClaimJob
  <2> QED
    BY <2>1, <2>2 DEF Registration
<1>8. pc[p] = "claim" /\ pc' = [pc EXCEPT ![p] = "work"] /\ HasSession(p) /\ session' = session
  BY DEF TakeJob, Go
<1>9. handle[p] = None
  BY <1>8 DEF WorkerInv, HandleWhileExecuting, Holds, Executing, Reporting, InGuard
<1>10. Claim(IdOf[p])
  BY <1>2 DEF Claim
<1> QED
  BY <1>1, <1>2, <1>6, <1>7, <1>8, <1>9, <1>10

\* A process has the handle it had, or the one it has just been given.
LEMMA HandleOrigin ==
  ASSUME WorkerInv, [WorkerNext]_allVars, NEW p \in Procs, Holds(p)'
  PROVE  \/ Holds(p) /\ handle'[p] = handle[p] /\ JobOf(p)' = JobOf(p) /\ GenOf(p)' = GenOf(p)
         \/ TakeJob(p)
<1>1. Course(p)
  BY StepCourse DEF WorkerInv, WorkerTypeOK, ProcTypes
<1>2. handle'[p] = handle[p] \/ TakeJob(p)
  BY <1>1 DEF Course, Rests, Idles, Moves, Keeps, LetsGo, StoreWrite, Holds
<1> QED
  BY <1>2 DEF Holds, JobOf, GenOf

LEMMA HandlesStep ==
  ASSUME WorkerInv, [WorkerNext]_allVars
  PROVE  HandlesNameAttempts' /\ HandlesDiffer'
<1>1. [Next]_vars /\ HistoryInv
  BY StepMaps DEF WorkerInv
<1>2. HandlesNameAttempts'
  <2> SUFFICES ASSUME NEW p \in Procs, Holds(p)'
               PROVE  /\ GenOf(p)' \in DOMAIN attempts'[JobOf(p)']
                      /\ attempts'[JobOf(p)'][GenOf(p)'].worker = IdOf[p]
    BY DEF HandlesNameAttempts
  <2>1. CASE TakeJob(p)
    <3>1. PICK j \in Jobs : /\ handle'[p] = <<j, jobs[j].gen + 1>>
                            /\ jobs[j].gen + 1 \in DOMAIN attempts'[j]
                            /\ attempts'[j][jobs[j].gen + 1].worker = IdOf[p]
      BY <2>1, TakenHandle
    <3>2. JobOf(p)' = j /\ GenOf(p)' = jobs[j].gen + 1
      BY <3>1 DEF JobOf, GenOf
    <3> QED
      BY <3>1, <3>2
  <2>2. CASE Holds(p) /\ JobOf(p)' = JobOf(p) /\ GenOf(p)' = GenOf(p)
    BY <1>1, <2>2, HandleFacts, PastKept
  <2> QED
    BY <2>1, <2>2, HandleOrigin
<1>3. HandlesDiffer'
  <2> SUFFICES ASSUME NEW p \in Procs, NEW q \in Procs, Holds(p)', handle'[p] = handle'[q]
               PROVE  p = q
    BY DEF HandlesDiffer
  <2>1. Holds(q)'
    BY DEF Holds
  <2>2. ASSUME NEW x \in Procs, NEW y \in Procs, TakeJob(x), y # x, handle'[x] = handle'[y],
               Holds(y)'
        PROVE  FALSE
    <3>1. PICK j \in Jobs : handle'[x] = <<j, jobs[j].gen + 1>>
      BY <2>2, TakenHandle
    <3>2. handle'[y] = handle[y] /\ handle[y] # None
      BY <2>2, TakenHandle DEF Holds
    <3>3. handle[y] = <<j, jobs[j].gen + 1>>
      BY <2>2, <3>1, <3>2
    <3>4. Holds(y) /\ JobOf(y) = j /\ GenOf(y) = jobs[j].gen + 1
      BY <3>2, <3>3 DEF Holds, JobOf, GenOf
    <3>5. GenOf(y) <= jobs[j].gen /\ GenOf(y) \in Nat
      BY <3>4, HandleFacts
    <3>6. jobs[j].gen \in Nat
      BY DEF WorkerInv, WorkerTypeOK, TypeOK, Row
    <3> QED
      BY <3>4, <3>5, <3>6
  <2>3. CASE Holds(p) /\ handle'[p] = handle[p] /\ Holds(q) /\ handle'[q] = handle[q]
    BY <2>3 DEF WorkerInv, HandlesDiffer
  <2> QED
    BY <2>1, <2>2, <2>3, HandleOrigin
<1> QED
  BY <1>2, <1>3

-----------------------------------------------------------------------------
(* The guard                                                               *)

LeavesGuard(p) == pc[p] \in InGuard /\ pc'[p] \notin InGuard

\* What process p does to the guards.
GuardMove(p) ==
  \/ UNCHANGED guard
  \/ EnterMutation(p)
  \/ HasGuard(p) /\ ExitGuard(RepoOf(p)) /\ (SessionsDrop \/ LeavesGuard(p))

LEMMA ProcessGuardMove ==
  ASSUME WorkerInv, NEW p \in Procs,
         MainLoop(p) \/ Execute(p) \/ Heartbeat(p) \/ Crash(p) \/ SessionDrops(p)
  PROVE  GuardMove(p)
<1>1. pc \in [Procs -> {"down", "poll", "claim"} \cup Executing]
  BY DEF WorkerInv, WorkerTypeOK
<1>2. CASE MainLoop(p)
  BY <1>2 DEF MainLoop, Register, Poll, LoseSession, FindNothing, TakeJob, TakeJobUnheard, Stop,
              RegisterWorker, HeartbeatWorker, ClaimNothing, ClaimJob, StopWorker, vars, GuardMove
<1>3. CASE Heartbeat(p)
  BY <1>3 DEF Heartbeat, Wake, Renew, ReportAlive, BeatFails, RenewLease, HeartbeatWorker, vars,
              GuardMove
<1>4. ASSUME DropGuard(p), LeavesGuard(p) PROVE GuardMove(p)
  BY <1>4 DEF DropGuard, GuardMove, vars
<1>5. CASE Crash(p)
  <2>1. pc[p] \in InGuard => LeavesGuard(p)
    BY <1>1, <1>5 DEF Crash, Go, LeavesGuard, InGuard
  <2> QED
    BY <1>4, <1>5, <2>1 DEF Crash, GuardMove, vars
<1>6. CASE BoundaryLost(p) \/ BoundaryCancels(p) \/ EndMutation(p)
  <2>1. LeavesGuard(p)
    BY <1>1, <1>6 DEF BoundaryLost, BoundaryCancels, EndMutation, Go, LeavesGuard, InGuard
  <2> QED
    BY <1>4, <1>6, <2>1 DEF BoundaryLost, BoundaryCancels, EndMutation, GuardMove
<1>7. CASE \/ Abandon(p) \/ LoseTouch(p) \/ HonourCancel(p) \/ Indexed(p) \/ IndexingFails(p)
           \/ Boundary(p) \/ StoreWrite(p) \/ ReportRefused(p) \/ Join(p)
  BY <1>7 DEF Abandon, LoseTouch, HonourCancel, Indexed, IndexingFails, Boundary, StoreWrite,
              ReportRefused, Join, GuardMove, vars
<1>8. CASE Complete(p) \/ CompleteUnheard(p) \/ Retry(p) \/ AcknowledgeCancel(p)
  BY <1>8 DEF Complete, CompleteUnheard, Retry, AcknowledgeCancel, CompleteJob, CancelJob,
              ScheduleRetry, Finish, GuardMove, vars
<1>9. CASE EnterMutation(p)
  BY <1>9 DEF GuardMove
<1>10. CASE SessionDrops(p)
  BY <1>10 DEF SessionDrops, GuardMove
<1> QED
  BY <1>2, <1>3, <1>5, <1>6, <1>7, <1>8, <1>9, <1>10 DEF Execute

LEMMA GuardOrigin ==
  ASSUME WorkerInv, [WorkerNext]_allVars, NEW r \in Repos
  PROVE  \/ guard'[r] = guard[r]
         \/ \E p \in Procs : /\ EnterMutation(p) /\ Holds(p)
                             /\ guard[r] = None /\ guard'[r] = handle[p]
         \/ \E p \in Procs : /\ Holds(p) /\ guard[r] = handle[p] /\ guard'[r] = None
                             /\ SessionsDrop \/ LeavesGuard(p)
<1>1. guard \in [Repos -> (Jobs \X Nat) \cup {None}]
  BY DEF WorkerInv, WorkerTypeOK, TypeOK
<1>2. CASE UNCHANGED guard
  BY <1>2
<1>3. CASE Surroundings \/ UNCHANGED allVars
  BY <1>2, <1>3 DEF Surroundings, SubmitJob, Insert, RequestCancel, LeaseExpires, RetryFallsDue,
                    WorkerFallsSilent, allVars, vars
<1>4. ASSUME NEW p \in Procs, EnterMutation(p)
      PROVE  guard'[r] = guard[r] \/ (Holds(p) /\ guard[r] = None /\ guard'[r] = handle[p])
  <2>1. Holds(p)
    BY <1>4 DEF EnterMutation, WorkerInv, HandleWhileExecuting, Executing
  <2>2. handle[p] = <<JobOf(p), GenOf(p)>>
    BY <2>1, HandleFacts
  <2>3. guard[RepoOf(p)] = None /\ guard' = [guard EXCEPT ![RepoOf(p)] = handle[p]]
    BY <1>4, <2>2 DEF EnterMutation, EnterGuard, RepoOf
  <2> QED
    BY <1>1, <2>1, <2>3
<1>5. ASSUME NEW p \in Procs, HasGuard(p), ExitGuard(RepoOf(p))
      PROVE  guard'[r] = guard[r] \/ (Holds(p) /\ guard[r] = handle[p] /\ guard'[r] = None)
  BY <1>1, <1>5 DEF HasGuard, ExitGuard, Holds
<1>6. ASSUME NEW p \in Procs, GuardMove(p)
      PROVE  \/ guard'[r] = guard[r]
             \/ EnterMutation(p) /\ Holds(p) /\ guard[r] = None /\ guard'[r] = handle[p]
             \/ /\ Holds(p) /\ guard[r] = handle[p] /\ guard'[r] = None
                /\ SessionsDrop \/ LeavesGuard(p)
  BY <1>4, <1>5, <1>6 DEF GuardMove
<1> QED
  BY <1>3, <1>6, ProcessGuardMove DEF WorkerNext

\* While a process keeps its handle the repository of its job is the same, and what fenced
\* it off fences it off still.
LEMMA FenceKept ==
  ASSUME WorkerInv, [WorkerNext]_allVars, NEW p \in Procs, Holds(p), handle'[p] = handle[p]
  PROVE  /\ JobOf(p)' = JobOf(p) /\ RepoOf(p)' = RepoOf(p)
         /\ StillOwned(p)' => StillOwned(p)
         /\ jobs[JobOf(p)].cancel => jobs'[JobOf(p)].cancel
         /\ ~HasGuard(p) /\ pc[p] # "work" => ~HasGuard(p)'
<1>1. JobOf(p)' = JobOf(p) /\ GenOf(p)' = GenOf(p)
  BY DEF JobOf, GenOf
<1>2. [Next]_vars /\ HistoryInv
  BY StepMaps DEF WorkerInv
<1>3. /\ jobs'[JobOf(p)].repo = jobs[JobOf(p)].repo
      /\ jobs[JobOf(p)].cancel => jobs'[JobOf(p)].cancel
      /\ Owned(JobOf(p), GenOf(p))' => Owned(JobOf(p), GenOf(p))
  <2>1. ASSUME NEW k \in Jobs, NEW g \in DOMAIN attempts[k], Exists(k),
               JobOf(p)' = k, GenOf(p)' = g, JobOf(p) = k, GenOf(p) = g
        PROVE  /\ jobs'[k].repo = jobs[k].repo
               /\ jobs[k].cancel => jobs'[k].cancel
               /\ Owned(JobOf(p), GenOf(p))' => Owned(k, g)
    <3>1. Owned(JobOf(p), GenOf(p))' => Owned(k, g)'
      BY <2>1 DEF Owned
    <3> QED
      BY <1>2, <2>1, <3>1, RowKept
  <2> QED
    BY <1>1, <2>1, HandleFacts
<1>4. RepoOf(p)' = RepoOf(p)
  BY <1>1, <1>3 DEF RepoOf
<1>5. StillOwned(p)' => StillOwned(p)
  BY <1>3 DEF StillOwned
<1>6. ASSUME ~HasGuard(p), pc[p] # "work", HasGuard(p)' PROVE FALSE
  <2>1. guard[RepoOf(p)] # handle[p] /\ guard'[RepoOf(p)] = handle[p]
    BY <1>4, <1>6 DEF HasGuard
  <2>2. PICK q \in Procs : EnterMutation(q) /\ Holds(q) /\ guard'[RepoOf(p)] = handle[q]
    BY <2>1, GuardOrigin, HandleFacts DEF Holds
  <2>3. q = p
    BY <2>1, <2>2 DEF WorkerInv, HandlesDiffer
  <2> QED
    BY <1>6, <2>2, <2>3 DEF EnterMutation
<1> QED
  BY <1>1, <1>3, <1>4, <1>5, <1>6

LEMMA GuardsStep ==
  ASSUME WorkerInv, WorkerTypeOK', [WorkerNext]_allVars
  PROVE  GuardsKept'
<1> SUFFICES ASSUME NEW p \in Procs, pc'[p] \in InGuard, ~SessionsDrop
             PROVE  HasGuard(p)'
  BY DEF GuardsKept
<1>1. Course(p)
  BY StepCourse DEF WorkerInv, WorkerTypeOK, ProcTypes
<1>2. CASE EnterMutation(p)
  <2>1. pc[p] = "work" /\ handle' = handle /\ Holds(p)
    BY <1>2 DEF EnterMutation, WorkerInv, HandleWhileExecuting, Executing
  <2>2. handle[p] = <<JobOf(p), GenOf(p)>> /\ RepoOf(p) \in Repos
    BY <2>1, HandleFacts
  <2>3. guard' = [guard EXCEPT ![RepoOf(p)] = handle[p]]
    BY <1>2, <2>2 DEF EnterMutation, EnterGuard, RepoOf
  <2>4. guard'[RepoOf(p)] = handle[p]
    BY <2>2, <2>3 DEF WorkerInv, WorkerTypeOK, TypeOK
  <2>5. RepoOf(p)' = RepoOf(p)
    BY <2>1, FenceKept
  <2> QED
    BY <2>1, <2>4, <2>5 DEF HasGuard
<1>3. CASE pc[p] \in InGuard /\ handle'[p] = handle[p]
  <2>1. Holds(p) /\ HasGuard(p)
    BY <1>3 DEF WorkerInv, HandleWhileExecuting, GuardsKept, Executing
  <2>2. RepoOf(p)' = RepoOf(p) /\ RepoOf(p) \in Repos
    BY <1>3, <2>1, FenceKept, HandleFacts
  <2>3. guard[RepoOf(p)] = handle[p] /\ handle[p] # None
    BY <2>1 DEF HasGuard, Holds
  <2>4. ASSUME NEW q \in Procs, Holds(q), handle[q] = handle[p], LeavesGuard(q) PROVE FALSE
    <3>1. q = p
      BY <2>4 DEF WorkerInv, HandlesDiffer
    <3> QED
      BY <2>4, <3>1 DEF LeavesGuard
  <2>5. guard'[RepoOf(p)] = guard[RepoOf(p)]
    BY <2>2, <2>3, <2>4, GuardOrigin
  <2> QED
    BY <1>3, <2>2, <2>3, <2>5 DEF HasGuard
<1>4. ~TakeJob(p) /\ ~LetsGo(p)
  BY DEF TakeJob, LetsGo, Go, InGuard, WorkerInv, WorkerTypeOK
<1>5. CASE Rests(p) \/ StoreWrite(p) \/ Boundary(p)
  BY <1>3, <1>5 DEF Rests, Keeps, StoreWrite, Boundary, InGuard
<1>6. CASE Idles(p)
  BY <1>6 DEF Idles, Executing
<1>7. CASE Moves(p)
  BY <1>2, <1>5, <1>7 DEF Moves, InGuard
<1> QED
  BY <1>1, <1>4, <1>5, <1>6, <1>7 DEF Course

LEMMA LateStep ==
  ASSUME WorkerInv, WorkerTypeOK', [WorkerNext]_allVars
  PROVE  LateWritersAreFenced'
<1> SUFFICES ASSUME NEW p \in Procs, late'[p] # 0
             PROVE  /\ late'[p] = 1 /\ pc'[p] # "writing"
                    /\ pc'[p] \in {"work", "guarded"} => Fenced(p)'
  BY DEF LateWritersAreFenced
<1>1. Course(p)
  BY StepCourse DEF WorkerInv, WorkerTypeOK, ProcTypes
<1>2. /\ pc[p] \in Executing => Holds(p)
      /\ ~Holds(p) => late[p] = 0
      /\ Holds(p) => pc[p] \in Executing
  BY DEF WorkerInv, HandleWhileExecuting
<1>3. late[p] # 0 => /\ late[p] = 1 /\ pc[p] # "writing"
                     /\ pc[p] \in {"work", "guarded"} => Fenced(p)
  BY DEF WorkerInv, LateWritersAreFenced
<1>4. ~LetsGo(p) /\ ~Idles(p) /\ ~TakeJob(p)
  <2>1. TakeJob(p) => handle[p] = None /\ late' = late
    BY TakenHandle DEF TakeJob
  <2> QED
    BY <1>2, <2>1 DEF LetsGo, Idles, Keeps, Holds
<1>5. CASE StoreWrite(p)
  <2>1. /\ pc[p] = "writing" /\ late[p] = 0
        /\ late' = [late EXCEPT ![p] = @ + (IF WouldBeRefused(p) THEN 1 ELSE 0)]
        /\ pc' = [pc EXCEPT ![p] = "guarded"] /\ UNCHANGED vars /\ handle' = handle
    BY <1>3, <1>5 DEF StoreWrite, Go
  <2>2. late'[p] = 1 /\ WouldBeRefused(p) /\ pc'[p] = "guarded"
    BY <2>1 DEF WorkerInv, WorkerTypeOK
  <2>3. Fenced(p)'
    BY <2>1, <2>2 DEF WouldBeRefused, Fenced, vars, HasGuard, StillOwned, RepoOf, JobOf,
                           GenOf, Owned
  <2> QED
    BY <2>2, <2>3
<1>6. CASE late[p] # 0 /\ late'[p] = late[p] /\ handle'[p] = handle[p]
  <2>1. /\ late'[p] = 1 /\ Holds(p) /\ pc[p] # "writing"
        /\ pc[p] \in {"work", "guarded"} => Fenced(p)
    BY <1>2, <1>3, <1>6
  <2>2. /\ JobOf(p)' = JobOf(p)
        /\ StillOwned(p)' => StillOwned(p)
        /\ jobs[JobOf(p)].cancel => jobs'[JobOf(p)].cancel
        /\ ~HasGuard(p) /\ pc[p] # "work" => ~HasGuard(p)'
    BY <1>6, <2>1, FenceKept
  <2>3. pc[p] = pc'[p] /\ Fenced(p) => Fenced(p)'
    BY <2>2 DEF Fenced
  <2>4. ~Boundary(p) /\ ~EnterMutation(p)
    BY <2>1 DEF Boundary, EnterMutation, EnterGuard, Fenced, StillOwned
  <2>5. EndMutation(p) => Fenced(p)'
    BY <2>1, <2>2 DEF EndMutation, Fenced
  <2>6. CASE Rests(p)
    BY <2>1, <2>3, <2>6 DEF Rests
  <2>7. CASE Moves(p)
    BY <2>1, <2>4, <2>5, <2>7 DEF Moves
  <2> QED
    BY <1>1, <1>4, <2>6, <2>7, <1>5 DEF Course
<1> QED
  BY <1>1, <1>4, <1>5, <1>6 DEF Course, Rests, Moves, Keeps

-----------------------------------------------------------------------------
(* The registry, sessions and leases                                       *)

\* A lease that is live was live before, or its worker has just claimed the job.
LEMMA LiveOrigin ==
  ASSUME HistoryInv, [Next]_vars, NEW k \in Jobs, jobs'[k].lease = "live"
  PROVE  \/ jobs[k].lease = "live" /\ jobs'[k].worker = jobs[k].worker
         \/ jobs'[k].worker \in Workers /\ ~workers'[jobs'[k].worker].stale
<1>1. TypeOK /\ CoordinationInv /\ jobs \in [Jobs -> Row] /\ jobs[k] \in Row
  BY DEF HistoryInv, CoordinationInv, TypeOK
<1>2. CASE UNCHANGED jobs
  BY <1>2
<1>3. ASSUME NEW j \in Jobs, Submission(j)
      PROVE  jobs[k].lease = "live" /\ jobs'[k].worker = jobs[k].worker
  <2>1. PICK row \in Row : Insert(j, row)
    BY <1>1, <1>3, SubmissionInserts
  <2>2. jobs[j].status = "absent" /\ (k # j => jobs'[k] = jobs[k])
    BY <1>1, <2>1 DEF Insert, Exists
  <2>3. Fate(k)
    BY <1>1, <1>3, SubmissionFate
  <2>4. CASE k = j
    <3>1. Untouched(k) \/ Entered(k) \/ Aged(k)
      BY <2>2, <2>3, <2>4 DEF Fate, Asked, Closed, Started, Waiting
    <3>2. ~Aged(k)
      BY <1>1, <2>2, <2>4 DEF Aged, Row
    <3> QED
      BY <3>1, <3>2 DEF Untouched, Entered
  <2> QED
    BY <2>2, <2>4
<1>4. ASSUME NEW j \in Jobs, RequestCancel(j)
      PROVE  jobs[k].lease = "live" /\ jobs'[k].worker = jobs[k].worker
  <2>1. jobs'[k] = jobs[k] \/ jobs'[k] = CancelledRow(k)
    BY <1>1, <1>4 DEF RequestCancel
  <2> QED
    BY <1>1, <2>1 DEF CancelledRow, Row
<1>5. ASSUME NEW v \in Workers, NEW C \in SUBSET Jobs, ClaimNothing(v, C)
      PROVE  jobs[k].lease = "live" /\ jobs'[k].worker = jobs[k].worker
  <2>1. jobs'[k] = IF k \in C THEN GivenUpRow(k) ELSE jobs[k]
    BY <1>5 DEF ClaimNothing
  <2>2. GivenUpRow(k).lease = "none"
    BY <1>1 DEF GivenUpRow, Row
  <2> QED
    BY <2>1, <2>2
<1>6. ASSUME NEW v \in Workers, NEW C \in SUBSET Jobs, NEW j \in Jobs, ClaimJob(v, C, j)
      PROVE  \/ jobs[k].lease = "live" /\ jobs'[k].worker = jobs[k].worker
             \/ jobs'[k].worker \in Workers /\ ~workers'[jobs'[k].worker].stale
  <2>1. jobs'[k] = IF k = j THEN StartedRow(j, v) ELSE IF k \in C THEN GivenUpRow(k) ELSE jobs[k]
    BY <1>6 DEF ClaimJob
  <2>2. GivenUpRow(k).lease = "none" /\ StartedRow(k, v).worker = v
    BY <1>1 DEF GivenUpRow, StartedRow, Row
  <2>3. workers'[v] = [AfterGivingUp(v, C) EXCEPT !.status = "busy", !.current = j, !.stale = FALSE]
    BY <1>6 DEF ClaimJob
  <2>4. AfterGivingUp(v, C) \in Registration
    BY <1>1, GivingUpType
  <2>5. workers'[v].stale = FALSE
    BY <2>3, <2>4 DEF Registration
  <2> QED
    BY <2>1, <2>2, <2>5
<1>7. ASSUME NEW j \in Jobs, NEW g \in DOMAIN attempts[j], HandleUse(j, g)
      PROVE  jobs[k].lease = "live" /\ jobs'[k].worker = jobs[k].worker
  <2>1. CASE RenewLease(j, g)
    <3>1. jobs[j].lease = "live" /\ jobs[j] \in Row /\ jobs' = [jobs EXCEPT ![j].lease = "live"]
      BY <1>1, <2>1 DEF RenewLease, Owned
    <3> QED
      BY <1>1, <3>1 DEF Row
  <2>2. CASE EnterGuard(j, g)
    BY <2>2 DEF EnterGuard
  <2>3. ASSUME NEW asked, Finish(j, g, asked)
        PROVE  jobs[k].lease = "live" /\ jobs'[k].worker = jobs[k].worker
    <3>1. PICK status : jobs' = [jobs EXCEPT ![j] =
            [@ EXCEPT !.status = status, !.worker = None, !.lease = "none",
                      !.ready = (status /= "retrying")]]
      BY <2>3 DEF Finish
    <3>2. k # j => jobs'[k] = jobs[k]
      BY <1>1, <3>1
    <3>3. jobs'[j].lease = "none"
      BY <1>1, <3>1 DEF Row
    <3> QED
      BY <3>2, <3>3
  <2> QED
    BY <1>7, <2>1, <2>2, <2>3, HandleUseCases
<1>8. ASSUME NEW j \in Jobs, LeaseExpires(j) \/ RetryFallsDue(j)
      PROVE  jobs[k].lease = "live" /\ jobs'[k].worker = jobs[k].worker
  <2>1. \/ jobs'[k] = jobs[k] \/ jobs'[k] = [jobs[k] EXCEPT !.lease = "expired"]
        \/ jobs'[k] = [jobs[k] EXCEPT !.ready = TRUE]
    BY <1>1, <1>8 DEF LeaseExpires, RetryFallsDue
  <2> QED
    BY <1>1, <2>1 DEF Row
<1>9. ASSUME NEW w \in Workers, RegistryCall(w) \/ WorkerFallsSilent(w) PROVE UNCHANGED jobs
  BY <1>9 DEF RegistryCall, RegisterWorker, HeartbeatWorker, StopWorker, WorkerFallsSilent
<1>10. ASSUME (\E r \in Repos : ExitGuard(r)) \/ UNCHANGED vars PROVE UNCHANGED jobs
  BY <1>10 DEF ExitGuard, vars
<1> QED
  BY <1>2, <1>3, <1>4, <1>5, <1>6, <1>7, <1>8, <1>9, <1>10 DEF Next, Claim, Time

\* No call but stop_worker ends a registration; only its silence makes it stale.
LEMMA RegistrationKept ==
  ASSUME HistoryInv, NEW w \in Workers, NEW v \in Workers,
         \/ RegisterWorker(v) \/ (\E current : HeartbeatWorker(v, current)) \/ Claim(v)
         \/ \E j \in Jobs : \E g \in DOMAIN attempts[j] : HandleUse(j, g)
  PROVE  /\ Registered(w) => Registered(w)'
         /\ workers'[w].stale => workers[w].stale
<1> DEFINE Kept == /\ Registered(w) => Registered(w)'
                   /\ workers'[w].stale => workers[w].stale
<1>1. /\ TypeOK /\ workers \in [Workers -> Registration] /\ workers[w] \in Registration
  BY DEF HistoryInv, CoordinationInv, TypeOK
<1>2. ASSUME workers'[w] = workers[w] PROVE Kept
  BY <1>2 DEF Registered
<1>3. CASE RegisterWorker(v) \/ \E current : HeartbeatWorker(v, current)
  <2>1. CASE v # w
    <3>1. workers'[w] = workers[w]
      BY <1>1, <1>3, <2>1 DEF RegisterWorker, HeartbeatWorker
    <3> QED
      BY <1>2, <3>1
  <2>2. CASE v = w
    <3>1. PICK status \in {"idle", "busy"} : \E current :
            workers'[w] =
              [workers[w] EXCEPT !.status = status, !.current = current, !.stale = FALSE]
      BY <1>1, <1>3, <2>2 DEF RegisterWorker, HeartbeatWorker
    <3>2. workers'[w].status = status /\ workers'[w].stale = FALSE
      BY <1>1, <3>1 DEF Registration
    <3> QED
      BY <3>2 DEF Registered
  <2> QED
    BY <2>1, <2>2
<1>4. ASSUME NEW C \in SUBSET Jobs
      PROVE  /\ AfterGivingUp(w, C) \in Registration
             /\ AfterGivingUp(w, C).stale = workers[w].stale
             /\ Registered(w) => AfterGivingUp(w, C).status \in {"idle", "busy"}
  <2>1. AfterGivingUp(w, C) \in Registration
    BY <1>1, GivingUpType
  <2>2. \/ AfterGivingUp(w, C) = workers[w]
        \/ \E n : AfterGivingUp(w, C) =
             [workers[w] EXCEPT !.current = None, !.status = "idle", !.failed = n]
    BY DEF AfterGivingUp
  <2>3. CASE AfterGivingUp(w, C) = workers[w]
    BY <2>1, <2>3 DEF Registered
  <2>4. ASSUME NEW n, AfterGivingUp(w, C) =
                 [workers[w] EXCEPT !.current = None, !.status = "idle", !.failed = n]
        PROVE  /\ AfterGivingUp(w, C).stale = workers[w].stale
               /\ AfterGivingUp(w, C).status = "idle"
    BY <1>1, <2>4 DEF Registration
  <2> QED
    BY <2>1, <2>2, <2>3, <2>4
<1>5. CASE Claim(v)
  <2>1. PICK C \in SUBSET Jobs :
          \/ workers'[w] = AfterGivingUp(w, C)
          \/ \E j \in Jobs : workers'[w] = [AfterGivingUp(w, C) EXCEPT
                               !.status = "busy", !.current = j, !.stale = FALSE]
    BY <1>5 DEF Claim, ClaimNothing, ClaimJob
  <2>2. \/ workers'[w] = AfterGivingUp(w, C)
        \/ workers'[w].status = "busy" /\ workers'[w].stale = FALSE
    BY <1>4, <2>1 DEF Registration
  <2> QED
    BY <1>4, <2>2 DEF Registered
<1>6. ASSUME NEW j \in Jobs, NEW g \in DOMAIN attempts[j], HandleUse(j, g) PROVE Kept
  <2>1. ASSUME NEW asked, Finish(j, g, asked) PROVE Kept
    <3>1. PICK u, status :
            workers' = workers \/ workers' = [workers EXCEPT ![u] = CreditedRow(u, status)]
      BY <2>1 DEF Finish
    <3>2. workers'[w] = workers[w] \/ (u = w /\ workers'[w] = CreditedRow(w, status))
      BY <1>1, <3>1
    <3>3. CreditedRow(w, status).status = "idle" /\ CreditedRow(w, status).stale = workers[w].stale
      BY <1>1 DEF CreditedRow, Registration
    <3> QED
      BY <1>2, <3>2, <3>3 DEF Registered
  <2>2. CASE RenewLease(j, g) \/ EnterGuard(j, g)
    BY <1>2, <2>2 DEF RenewLease, EnterGuard
  <2> QED
    BY <1>6, <2>1, <2>2, HandleUseCases
<1> QED
  BY <1>3, <1>5, <1>6

LEMMA RegistrationEnds ==
  ASSUME HistoryInv, NEW w \in Workers, NEW v \in Workers
  PROVE  /\ StopWorker(v) => /\ v # w /\ Registered(w) => Registered(w)'
                             /\ workers'[w].stale => workers[w].stale
         /\ WorkerFallsSilent(v) => /\ Registered(w) => Registered(w)'
                                    /\ workers'[w].stale => workers[w].stale \/ v = w
<1>1. /\ workers \in [Workers -> Registration] /\ workers[w] \in Registration
  BY DEF HistoryInv, CoordinationInv, TypeOK
<1>2. CASE v # w
  BY <1>1, <1>2 DEF StopWorker, WorkerFallsSilent, Registered
<1>3. ASSUME v = w, StopWorker(v) PROVE ~workers'[w].stale
  BY <1>1, <1>3 DEF StopWorker, Registration
<1>4. ASSUME v = w, WorkerFallsSilent(v), Registered(w) PROVE Registered(w)'
  BY <1>1, <1>4 DEF WorkerFallsSilent, Registration, Registered
<1> QED
  BY <1>2, <1>3, <1>4

LEMMA RegistryStep ==
  ASSUME WorkerInv, [WorkerNext]_allVars, NEW w \in Workers
  PROVE  /\ Registered(w) => Registered(w)' \/ \E p \in Procs : Stop(p) /\ IdOf[p] = w
         /\ workers'[w].stale => workers[w].stale \/ (SilenceIsPossible(w) /\ UNCHANGED jobs)
<1>1. HistoryInv
  BY DEF WorkerInv
<1>2. ASSUME UNCHANGED workers
      PROVE  (Registered(w) => Registered(w)') /\ (workers'[w].stale => workers[w].stale)
  BY <1>2 DEF Registered
<1>3. ASSUME NEW v \in Workers, SilenceIsPossible(v), WorkerFallsSilent(v)
      PROVE  /\ Registered(w) => Registered(w)'
             /\ workers'[w].stale => workers[w].stale \/ (SilenceIsPossible(w) /\ UNCHANGED jobs)
  BY <1>1, <1>3, RegistrationEnds DEF WorkerFallsSilent
<1>4. CASE Surroundings \/ UNCHANGED allVars
  <2>1. \/ UNCHANGED workers
        \/ \E v \in Workers : SilenceIsPossible(v) /\ WorkerFallsSilent(v)
    BY <1>4 DEF Surroundings, SubmitJob, Insert, RequestCancel, LeaseExpires, RetryFallsDue,
                allVars, vars
  <2> QED
    BY <1>2, <1>3, <2>1
<1>5. ASSUME NEW p \in Procs, Effect(p)
      PROVE  /\ Registered(w) => Registered(w)' \/ (Stop(p) /\ IdOf[p] = w)
             /\ workers'[w].stale => workers[w].stale
  <2>1. CASE UNCHANGED vars \/ (Holds(p) /\ ExitGuard(RepoOf(p)))
    BY <1>2, <2>1 DEF vars, ExitGuard
  <2>2. CASE Stop(p)
    BY <1>1, <2>2, Ids, RegistrationEnds DEF Stop
  <2>3. CASE \/ Register(p) \/ Claim(IdOf[p])
             \/ \E current \in Reported(IdOf[p]) : HeartbeatWorker(IdOf[p], current)
    <3>1. \/ RegisterWorker(IdOf[p]) \/ Claim(IdOf[p])
          \/ \E current : HeartbeatWorker(IdOf[p], current)
      BY <2>3 DEF Register
    <3> QED
      BY <1>1, <3>1, Ids, RegistrationKept
  <2>4. CASE Holds(p) /\ HandleUse(JobOf(p), GenOf(p))
    BY <1>1, <2>4, Ids, HandleFacts, RegistrationKept
  <2> QED
    BY <1>5, <2>1, <2>2, <2>3, <2>4 DEF Effect
<1> QED
  BY <1>4, <1>5, ProcessEffect DEF WorkerNext

\* A session changes hands only when a process registers.
LEMMA SessionOrigin ==
  ASSUME WorkerInv, [WorkerNext]_allVars, NEW w \in Workers
  PROVE  \/ session'[w] = session[w]
         \/ \E p \in Procs : Register(p) /\ IdOf[p] = w
<1>1. ASSUME NEW p \in Procs, Register(p)
      PROVE  session'[w] = session[w] \/ IdOf[p] = w
  BY <1>1 DEF Register, WorkerInv, WorkerTypeOK
<1>2. ASSUME NEW p \in Procs, MainLoop(p), ~Register(p)
      PROVE  UNCHANGED session
  BY <1>2 DEF MainLoop, Poll, LoseSession, FindNothing, TakeJob, TakeJobUnheard, Stop
<1>3. ASSUME NEW p \in Procs, Execute(p)
      PROVE  UNCHANGED session
  BY <1>3 DEF Execute, Abandon, LoseTouch, HonourCancel, Indexed, IndexingFails, EnterMutation,
         Boundary, BoundaryLost, BoundaryCancels, StoreWrite, EndMutation, Complete,
         CompleteUnheard, Retry, AcknowledgeCancel, ReportRefused, Join
<1>4. ASSUME NEW p \in Procs, Heartbeat(p) \/ Crash(p) \/ SessionDrops(p)
      PROVE  UNCHANGED session
  BY <1>4 DEF Heartbeat, Wake, Renew, ReportAlive, BeatFails, Crash, SessionDrops, procVars
<1>5. ASSUME Surroundings \/ UNCHANGED allVars PROVE UNCHANGED session
  BY <1>5 DEF Surroundings, allVars, procVars
<1> QED
  BY <1>1, <1>2, <1>3, <1>4, <1>5 DEF WorkerNext

LEMMA SilenceStep ==
  ASSUME WorkerInv, [WorkerNext]_allVars
  PROVE  SilenceEndsLeases'
<1> SUFFICES ASSUME OfflineAfterLease, NEW w \in Workers, NEW j \in Jobs,
                    workers'[w].stale, jobs'[j].worker = w, jobs'[j].lease = "live"
             PROVE  FALSE
  BY DEF SilenceEndsLeases
<1>1. jobs[j].lease = "live" /\ jobs[j].worker = w
  BY StepMaps, LiveOrigin DEF WorkerInv
<1>2. ~workers[w].stale
  BY <1>1 DEF WorkerInv, SilenceEndsLeases
<1>3. SilenceIsPossible(w)
  BY <1>2, RegistryStep
<1> QED
  BY <1>1, <1>3 DEF SilenceIsPossible

LEMMA SessionsStep ==
  ASSUME WorkerInv, [WorkerNext]_allVars
  PROVE  OwnersHaveSessions'
<1> SUFFICES ASSUME OfflineAfterLease, NEW p \in Procs, Holds(p)', StillOwned(p)'
             PROVE  HasSession(p)'
  BY DEF OwnersHaveSessions
<1>1. CASE TakeJob(p)
  <2>1. HasSession(p) /\ session' = session /\ workers'[IdOf[p]].status = "busy"
    BY <1>1, TakenHandle
  <2> QED
    BY <2>1 DEF HasSession, Registered
<1>2. CASE Holds(p) /\ handle'[p] = handle[p]
  <2>1. StillOwned(p)
    BY <1>2, FenceKept
  <2>2. session[IdOf[p]] = p /\ Registered(IdOf[p])
    BY <1>2, <2>1 DEF WorkerInv, OwnersHaveSessions, HasSession
  <2>3. jobs[JobOf(p)].worker = IdOf[p] /\ jobs[JobOf(p)].lease = "live" /\ JobOf(p) \in Jobs
    BY <1>2, <2>1, HandleFacts DEF StillOwned, Owned
  <2>4. ~workers[IdOf[p]].stale
    BY <2>3, Ids DEF WorkerInv, SilenceEndsLeases
  <2>5. ASSUME NEW q \in Procs, Register(q), IdOf[q] = IdOf[p] PROVE FALSE
    BY <2>2, <2>4, <2>5 DEF Register, RegisterWorker, Registered
  <2>6. ASSUME NEW q \in Procs, Stop(q), IdOf[q] = IdOf[p] PROVE FALSE
    <3>1. q = p /\ pc[q] = "poll"
      BY <2>2, <2>6 DEF Stop, HasSession
    <3> QED
      BY <1>2, <3>1 DEF WorkerInv, HandleWhileExecuting, Executing, Reporting, InGuard
  <2>7. session'[IdOf[p]] = p
    BY <2>2, <2>5, SessionOrigin, Ids
  <2>8. Registered(IdOf[p])'
    BY <2>2, <2>6, RegistryStep, Ids
  <2> QED
    BY <2>7, <2>8 DEF HasSession, Registered
<1> QED
  BY <1>1, <1>2, HandleOrigin

-----------------------------------------------------------------------------
(* Theorems                                                                *)

LEMMA WorkerInvInit == WorkerInit => WorkerInv
<1> SUFFICES ASSUME WorkerInit PROVE WorkerInv
  OBVIOUS
<1>1. HistoryInv /\ TypeOK
  BY HistoryInit DEF WorkerInit, HistoryInv, CoordinationInv
<1>2. WorkerTypeOK
  BY <1>1 DEF WorkerInit, WorkerTypeOK
<1>3. \A p \in Procs : ~Holds(p) /\ pc[p] = "down" /\ beat[p] = "off" /\ late[p] = 0
  BY DEF WorkerInit, Holds
<1>4. \A j \in Jobs : jobs[j].lease # "live"
  BY DEF WorkerInit, Init, NoRow
<1>5. /\ HandleWhileExecuting /\ HandlesNameAttempts /\ HandlesDiffer /\ GuardsKept
      /\ LateWritersAreFenced /\ SilenceEndsLeases /\ OwnersHaveSessions
  BY <1>3, <1>4 DEF HandleWhileExecuting, HandlesNameAttempts, HandlesDiffer, GuardsKept,
       LateWritersAreFenced, SilenceEndsLeases, OwnersHaveSessions, Executing, Reporting, InGuard
<1> QED
  BY <1>1, <1>2, <1>5 DEF WorkerInv

LEMMA WorkerInvStep ==
  ASSUME WorkerInv, [WorkerNext]_allVars
  PROVE  WorkerInv'
<1>1. HistoryInv' /\ TypeOK'
  BY StepMaps, HistoryStep DEF WorkerInv, HistoryInv, CoordinationInv
<1>2. WorkerTypeOK'
  BY <1>1, ProcTypesStep
<1> QED
  BY <1>1, <1>2, HandleKeptWhileExecuting, HandlesStep, GuardsStep, LateStep, SilenceStep,
     SessionsStep DEF WorkerInv

\* The inductive invariant of the processes: handles name attempts of their own worker id,
\* no two processes share one, guards are kept, late writers are fenced off.
THEOREM WorkersCoordinated == WorkerSpec => []WorkerInv
<1>1. WorkerInv /\ [WorkerNext]_allVars => WorkerInv'
  BY WorkerInvStep
<1> QED
  BY <1>1, WorkerInvInit, PTL DEF WorkerSpec

\* The state of the processes stays of its type.
THEOREM WorkerTypesHold == WorkerSpec => []WorkerTypeOK
<1>1. WorkerInv => WorkerTypeOK
  BY DEF WorkerInv
<1> QED
  BY <1>1, WorkersCoordinated, PTL

\* Worker processes use the tables only as Coordination allows: every interleaving of main
\* threads, heartbeat threads, crashes and lost sessions is a behaviour of Spec, so every
\* theorem about Spec holds for them.
THEOREM WorkersUseCoordination == WorkerSpec => Spec
<1>1. WorkerInv /\ [WorkerNext]_allVars => [Next]_vars
  BY StepMaps
<1>2. WorkerInit => Init
  BY DEF WorkerInit
<1> QED
  BY <1>1, <1>2, WorkersCoordinated, PTL DEF WorkerSpec, Spec

\* A process inside its mutation guard works for the running job of the repository and its
\* current generation, for any number of processes, worker ids and pauses, as long as
\* PostgreSQL ends no session whose process lives on.
THEOREM NoStaleWriters ==
  ASSUME ~SessionsDrop
  PROVE  WorkerSpec => []NoStaleWriter
<1>1. WorkerInv => NoStaleWriter
  <2> SUFFICES ASSUME WorkerInv, NEW p \in Procs, pc[p] \in InGuard
               PROVE  /\ guard[RepoOf(p)] = handle[p]
                      /\ active[RepoOf(p)] = JobOf(p)
                      /\ jobs[JobOf(p)].gen = GenOf(p)
    BY DEF NoStaleWriter
  <2>1. HasGuard(p) /\ Holds(p)
    BY DEF WorkerInv, GuardsKept, HandleWhileExecuting, Executing
  <2>2. /\ RepoOf(p) \in Repos /\ guard[RepoOf(p)] = <<JobOf(p), GenOf(p)>>
        /\ guard[RepoOf(p)] # None
    BY <2>1, HandleFacts DEF HasGuard, Holds
  <2>3. PICK j \in Jobs : /\ active[RepoOf(p)] = j
                          /\ guard[RepoOf(p)] = <<j, jobs[j].gen>>
    BY <2>2 DEF WorkerInv, HistoryInv, CoordinationInv, GuardHolderOwns
  <2>4. j = JobOf(p) /\ jobs[j].gen = GenOf(p)
    BY <2>2, <2>3
  <2> QED
    BY <2>1, <2>3, <2>4 DEF HasGuard
<1> QED
  BY <1>1, WorkersCoordinated, PTL

\* Whoever writes to the index of a repository is alone there.
OneWriterPerRepository ==
  \A p, q \in Procs :
    pc[p] \in InGuard /\ pc[q] \in InGuard /\ RepoOf(p) = RepoOf(q) => p = q

\* Two processes are never inside the mutation guard of one repository, whatever expired or
\* was reclaimed while one of them was paused there, under the same condition on sessions.
THEOREM WritersAreAlone ==
  ASSUME ~SessionsDrop
  PROVE  WorkerSpec => []OneWriterPerRepository
<1>1. WorkerInv => OneWriterPerRepository
  <2> SUFFICES ASSUME WorkerInv, NEW p \in Procs, NEW q \in Procs,
                      pc[p] \in InGuard, pc[q] \in InGuard, RepoOf(p) = RepoOf(q)
               PROVE  p = q
    BY DEF OneWriterPerRepository
  <2>1. HasGuard(p) /\ HasGuard(q) /\ Holds(p)
    BY DEF WorkerInv, GuardsKept, HandleWhileExecuting, Executing
  <2>2. handle[p] = handle[q]
    BY <2>1 DEF HasGuard
  <2> QED
    BY <2>1, <2>2 DEF WorkerInv, HandlesDiffer
<1> QED
  BY <1>1, WorkersCoordinated, PTL

\* A process makes at most one store write that a check would have refused, whatever
\* expired, was cancelled or lost its session, with no assumption on sessions or timing.
THEOREM OneLateWriteHolds == WorkerSpec => []OneLateWrite
<1>1. WorkerInv => OneLateWrite
  <2> SUFFICES ASSUME WorkerInv, NEW p \in Procs PROVE late[p] <= 1
    BY DEF OneLateWrite
  <2>1. late[p] = 0 \/ late[p] = 1
    BY DEF WorkerInv, LateWritersAreFenced
  <2> QED
    BY <2>1
<1> QED
  BY <1>1, WorkersCoordinated, PTL

\* A report that changes a job is made by the owner of that job.
LEMMA ReportersOwn ==
  ASSUME WorkerInv, WorkerNext, NEW p \in Procs, pc[p] \in Reporting, pc'[p] # pc[p],
         jobs' # jobs
  PROVE  StillOwned(p) /\ Holds(p)
<1>1. Holds(p)
  BY DEF WorkerInv, HandleWhileExecuting, Executing
<1>2. ProcTypes
  BY DEF WorkerInv, WorkerTypeOK, ProcTypes
<1>3. ~Rests(p)
  BY DEF Rests
<1>4. ~Surroundings
  BY DEF Surroundings, procVars
<1>5. PICK q \in Procs : MainLoop(q) \/ Execute(q) \/ Heartbeat(q) \/ Crash(q) \/ SessionDrops(q)
  BY <1>4 DEF WorkerNext
<1>6. q = p
  BY <1>2, <1>3, <1>5, MainLoopCourse, ExecuteCourse, OtherCourse
<1>7. ~MainLoop(p)
  BY DEF MainLoop, Register, Poll, LoseSession, FindNothing, TakeJob, TakeJobUnheard, Stop,
         Reporting
<1>8. ~Heartbeat(p) /\ ~SessionDrops(p) /\ ~Crash(p)
  BY DEF Heartbeat, Wake, Renew, ReportAlive, BeatFails, SessionDrops, Crash, Reporting, InGuard,
         procVars, vars
<1>9. Complete(p) \/ CompleteUnheard(p) \/ Retry(p) \/ AcknowledgeCancel(p)
  BY <1>5, <1>6, <1>7, <1>8
     DEF Execute, Abandon, LoseTouch, HonourCancel, Indexed, IndexingFails, EnterMutation,
         Boundary, BoundaryLost, BoundaryCancels, StoreWrite, EndMutation, ReportRefused, Join,
         Reporting, vars
<1>10. \E asked : Finish(JobOf(p), GenOf(p), asked)
  BY <1>9 DEF Complete, CompleteUnheard, Retry, AcknowledgeCancel, CompleteJob, CancelJob,
              ScheduleRetry, vars
<1>11. StillOwned(p)
  BY <1>10 DEF Finish, StillOwned
<1> QED
  BY <1>1, <1>11

\* No report of a process whose worker id another process has registered changes a job, if a
\* worker may only be superseded once it has been silent for longer than a lease.
THEOREM OldProcessesAreFenced ==
  ASSUME OfflineAfterLease
  PROVE  WorkerSpec => OldProcessFenced
<1>1. WorkerInv /\ [WorkerNext]_allVars =>
        [\A p \in Procs :
           pc[p] \in Reporting /\ pc'[p] /= pc[p] /\ jobs' /= jobs => session[IdOf[p]] = p]_allVars
  <2> SUFFICES ASSUME WorkerInv, WorkerNext, NEW p \in Procs,
                      pc[p] \in Reporting, pc'[p] # pc[p], jobs' # jobs
               PROVE  session[IdOf[p]] = p
    OBVIOUS
  <2>1. StillOwned(p) /\ Holds(p)
    BY ReportersOwn
  <2> QED
    BY <2>1 DEF WorkerInv, OwnersHaveSessions, HasSession
<1> QED
  BY <1>1, WorkersCoordinated, PTL DEF WorkerSpec, OldProcessFenced
=============================================================================
