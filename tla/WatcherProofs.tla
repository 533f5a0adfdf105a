---------------------------- MODULE WatcherProofs ----------------------------
(***************************************************************************)
(* Theorems of Watcher, for every number of scanners and contents.  The    *)
(* properties speak of the moment of a submission; they hold because the   *)
(* row lock freezes, from the start of the transaction that submits, what  *)
(* the submission relies on (LockHolds), and because one transaction at a  *)
(* time has it (OneLocker).                                                *)
(***************************************************************************)
EXTENDS Watcher, TLAPS

Scanning == {"hashing", "checked", "marked", "ready"}
Locking == {"marked", "ready"}

RowExists ==
  /\ client = "done" => row # None
  /\ \A s \in Scanners : scan[s].pc \in Scanning => row # None

Carried ==
  \A s \in Scanners :
    /\ scan[s].pc \in Scanning \ {"hashing"} => scan[s].fp # None
    /\ scan[s].pc \in {"hashing", "checked"} => scan[s].idx # None
    /\ scan[s].pc \in Locking => scan[s].draft # None

OneLocker ==
  \A s, t \in Scanners : scan[s].pc \in Locking /\ scan[t].pc \in Locking => s = t

LockHolds ==
  \A s \in Scanners :
    /\ scan[s].pc \in Locking => row.enabled
    /\ scan[s].pc = "ready" => last \notin {"waiting", "running"}

WInv == WatcherTypeOK /\ RowExists /\ Carried /\ OneLocker /\ LockHolds

LEMMA InitInv == Init => WInv
  BY SettingsAssumption, NoneAssumption
  DEF Init, WInv, WatcherTypeOK, RowExists, Carried, OneLocker, LockHolds, Idle, Locals, Locking,
      Scanning

LEMMA EditInv ==
  ASSUME WInv, NEW c \in Contents, Edit(c)
  PROVE  WInv'
<1> USE DEF WInv, Edit, registration
<1>1. reading' \in Contents \cup {None}
  BY DEF WatcherTypeOK, Blend
<1>2. PICK fps \in [Scanners -> Contents \cup {None}] :
        /\ \A s \in Scanners :
             fps[s] \in IF scan[s].pc = "hashing" THEN Blend(scan[s].fp, c) \cup {None}
                       ELSE {scan[s].fp}
        /\ scan' = [s \in Scanners |-> [scan[s] EXCEPT !.fp = fps[s]]]
  OBVIOUS
<1>3. \A s \in Scanners :
        /\ scan'[s] \in Locals
        /\ scan'[s].pc = scan[s].pc /\ scan'[s].idx = scan[s].idx /\ scan'[s].draft = scan[s].draft
        /\ scan'[s].fp = fps[s]
  BY <1>2 DEF WatcherTypeOK, Locals
<1>4. \A s \in Scanners : scan[s].pc \in Scanning \ {"hashing"} => fps[s] # None
  BY <1>2 DEF Carried
<1>5. WatcherTypeOK'
  BY <1>1, <1>2, <1>3 DEF WatcherTypeOK
<1>6. Carried'
  BY <1>3, <1>4 DEF Carried
<1>7. RowExists' /\ OneLocker' /\ LockHolds'
  BY <1>3 DEF RowExists, OneLocker, LockHolds
<1> QED
  BY <1>5, <1>6, <1>7

LEMMA AddRepositoryInv ==
  ASSUME WInv, NEW preference \in BOOLEAN \cup {None}, AddRepository(preference)
  PROVE  WInv'
  BY SettingsAssumption, NoneAssumption
  DEF AddRepository,
      WInv, WatcherTypeOK, RowExists, Carried, OneLocker, LockHolds, Locals, Rows, Locking, Scanning,
      repo, registration, queue, scanning

LEMMA EnsurePreferenceInv ==
  ASSUME WInv, EnsurePreference
  PROVE  WInv'
<1>1. row' \in Rows
  BY SettingsAssumption DEF EnsurePreference, Ensured, EnsureRow, FreshRow, Rows, WInv, WatcherTypeOK, RowExists
<1>2. row' # None
  BY <1>1, NoneAssumption
<1> QED
  BY <1>1, <1>2 DEF EnsurePreference, Ensured, EnsureRow, FreshRow, WInv, WatcherTypeOK, RowExists, Carried, OneLocker, LockHolds,
    Locking, Scanning, repo, registration, queue, scanning

LEMMA PauseInv ==
  ASSUME WInv, Pause
  PROVE  WInv'
<1>1. row' \in Rows
  BY SettingsAssumption DEF Pause, Ensured, FreshRow, RowLocked, Rows, WInv, WatcherTypeOK, RowExists
<1>2. row' # None
  BY <1>1, NoneAssumption
<1> QED
  BY <1>1, <1>2 DEF Pause, RowLocked, WInv, WatcherTypeOK, RowExists, Carried, OneLocker, LockHolds,
    Locking, Scanning, repo, registration, queue, scanning

LEMMA ResumeInv ==
  ASSUME WInv, Resume
  PROVE  WInv'
<1>1. row' \in Rows
  BY SettingsAssumption DEF Resume, Ensured, FreshRow, RowLocked, Rows, WInv, WatcherTypeOK, RowExists
<1>2. row' # None
  BY <1>1, NoneAssumption
<1> QED
  BY <1>1, <1>2 DEF Resume, RowLocked, WInv, WatcherTypeOK, RowExists, Carried, OneLocker, LockHolds,
    Locking, Scanning, repo, registration, queue, scanning

LEMMA SubmitOtherInv ==
  ASSUME WInv, SubmitOther
  PROVE  WInv'
  BY SettingsAssumption, NoneAssumption
  DEF SubmitOther,
      WInv, WatcherTypeOK, RowExists, Carried, OneLocker, LockHolds, Locals, Rows, Locking, Scanning,
      repo, registration, queue, scanning

LEMMA ResubmitInv ==
  ASSUME WInv, Resubmit
  PROVE  WInv'
  BY SettingsAssumption, NoneAssumption
  DEF Resubmit, RowLocked,
      WInv, WatcherTypeOK, RowExists, Carried, OneLocker, LockHolds, Locals, Rows, Locking, Scanning,
      repo, registration, queue, scanning

LEMMA CancelWaitingInv ==
  ASSUME WInv, CancelWaiting
  PROVE  WInv'
  BY SettingsAssumption, NoneAssumption
  DEF CancelWaiting,
      WInv, WatcherTypeOK, RowExists, Carried, OneLocker, LockHolds, Locals, Rows, Locking, Scanning,
      repo, registration, queue, scanning

LEMMA ClaimJobInv ==
  ASSUME WInv, ClaimJob
  PROVE  WInv'
  BY SettingsAssumption, NoneAssumption
  DEF ClaimJob,
      WInv, WatcherTypeOK, RowExists, Carried, OneLocker, LockHolds, Locals, Rows, Locking, Scanning,
      repo, registration, queue, scanning

\* Whatever a pass that starts over leaves in the index.
LEMMA RestartInv ==
  ASSUME WInv, NEW left \in Contents, Restart(left)
  PROVE  WInv'
  BY SettingsAssumption, NoneAssumption
  DEF Restart,
      WInv, WatcherTypeOK, RowExists, Carried, OneLocker, LockHolds, Locals, Rows, Locking, Scanning,
      repo, registration, queue, scanning

LEMMA RestartPassInv ==
  ASSUME WInv, RestartPass
  PROVE  WInv'
<1>1. PICK left \in Blend(index, reading) : Restart(left)
  BY DEF RestartPass
<1>2. left \in Contents
  BY <1>1 DEF Blend, WInv, WatcherTypeOK
<1> QED
  BY <1>1, <1>2, RestartInv

LEMMA LeaveGapInv ==
  ASSUME WInv, LeaveGap
  PROVE  WInv'
  BY RestartInv DEF LeaveGap

LEMMA CompletePassInv ==
  ASSUME WInv, CompletePass
  PROVE  WInv'
  BY SettingsAssumption, NoneAssumption
  DEF CompletePass,
      WInv, WatcherTypeOK, RowExists, Carried, OneLocker, LockHolds, Locals, Rows, Locking, Scanning,
      repo, registration, queue, scanning

LEMMA FailPassInv ==
  ASSUME WInv, FailPass
  PROVE  WInv'
  BY SettingsAssumption, NoneAssumption
  DEF FailPass,
      WInv, WatcherTypeOK, RowExists, Carried, OneLocker, LockHolds, Locals, Rows, Locking, Scanning,
      repo, registration, queue, scanning

LEMMA BeginPausedInv ==
  ASSUME WInv, NEW s \in Scanners, BeginPaused(s)
  PROVE  WInv'
  BY SettingsAssumption, NoneAssumption
  DEF BeginPaused, Ensured, EnsureRow, FreshRow,
      WInv, WatcherTypeOK, RowExists, Carried, OneLocker, LockHolds, Locals, Rows, Locking, Scanning,
      repo, registration, queue, scanning

LEMMA DebouncePassesInv ==
  ASSUME WInv, DebouncePasses
  PROVE  WInv'
<1>1. row' \in Rows
  BY SettingsAssumption DEF DebouncePasses, RowLocked, Rows, WInv, WatcherTypeOK, RowExists
<1>2. row' # None
  BY <1>1, NoneAssumption
<1> QED
  BY <1>1, <1>2 DEF DebouncePasses, RowLocked, WInv, WatcherTypeOK, RowExists, Carried, OneLocker, LockHolds,
    Locking, Scanning, repo, registration, queue, scanning

LEMMA MaxWaitPassesInv ==
  ASSUME WInv, MaxWaitPasses
  PROVE  WInv'
  BY SettingsAssumption, NoneAssumption
  DEF MaxWaitPasses, RowLocked,
      WInv, WatcherTypeOK, RowExists, Carried, OneLocker, LockHolds, Locals, Rows, Locking, Scanning,
      repo, registration, queue, scanning

LEMMA LoseElectionInv ==
  ASSUME WInv, LoseElection
  PROVE  WInv'
  BY SettingsAssumption, NoneAssumption
  DEF LoseElection,
      WInv, WatcherTypeOK, RowExists, Carried, OneLocker, LockHolds, Locals, Rows, Locking, Scanning,
      repo, registration, queue, scanning

LEMMA BeginInv ==
  ASSUME WInv, NEW s \in Scanners, Begin(s)
  PROVE  WInv'
<1>1. row' \in Rows
  BY SettingsAssumption DEF Begin, Ensured, EnsureRow, FreshRow, Rows, WInv, WatcherTypeOK
<1>2. row' # None
  BY <1>1, NoneAssumption
<1>3. row # None => row' = row
  BY DEF Begin, Ensured, EnsureRow
<1>4. /\ scan' \in [Scanners -> Locals]
      /\ scan'[s].pc = "hashing" /\ scan'[s].fp # None /\ scan'[s].idx # None
      /\ \A t \in Scanners : t # s => scan'[t] = scan[t]
  BY NoneAssumption DEF Begin, Idle, Locals, WInv, WatcherTypeOK
<1> QED
  BY <1>1, <1>2, <1>3, <1>4 DEF Begin, WInv, WatcherTypeOK, RowExists, Carried, OneLocker,
    LockHolds, Locking, Scanning, repo, registration, queue

\* Whatever a scan makes of the manifest.
LEMMA ReadManifestInv ==
  ASSUME WInv, NEW s \in Scanners, NEW idx \in Contents, ReadManifest(s, idx)
  PROVE  WInv'
<1>1. /\ scan' \in [Scanners -> Locals]
      /\ scan'[s].pc = "checked" /\ scan'[s].fp = scan[s].fp /\ scan'[s].idx # None
      /\ \A t \in Scanners : t # s => scan'[t] = scan[t]
  BY NoneAssumption DEF ReadManifest, Locals, WInv, WatcherTypeOK
<1> QED
  BY <1>1 DEF ReadManifest, WInv, WatcherTypeOK, RowExists, Carried, OneLocker,
    LockHolds, Locking, Scanning, repo, registration, queue

LEMMA FinishHashingInv ==
  ASSUME WInv, NEW s \in Scanners, FinishHashing(s)
  PROVE  WInv'
<1>1. PICK idx \in IndexedSeen(scan[s].idx) : ReadManifest(s, idx)
  BY DEF FinishHashing
<1>2. idx \in Contents
  BY <1>1 DEF IndexedSeen, Blend, ReadManifest, WInv, WatcherTypeOK
<1> QED
  BY <1>1, <1>2, ReadManifestInv

LEMMA SeeGapInv ==
  ASSUME WInv, NEW s \in Scanners, SeeGap(s)
  PROVE  WInv'
  BY ReadManifestInv DEF SeeGap

LEMMA SkipObserveInv ==
  ASSUME WInv, NEW s \in Scanners, SkipObserve(s)
  PROVE  WInv'
  BY SettingsAssumption, NoneAssumption
  DEF SkipObserve, Idle, Release,
      WInv, WatcherTypeOK, RowExists, Carried, OneLocker, LockHolds, Locals, Rows, Locking, Scanning,
      repo, registration, queue, scanning

LEMMA SessionLostInv ==
  ASSUME WInv, NEW s \in Scanners, SessionLost(s)
  PROVE  WInv'
  BY SettingsAssumption, NoneAssumption
  DEF SessionLost, Idle,
      WInv, WatcherTypeOK, RowExists, Carried, OneLocker, LockHolds, Locals, Rows, Locking, Scanning,
      repo, registration, queue, scanning

LEMMA ObserveNothingInv ==
  ASSUME WInv, NEW s \in Scanners, ObserveNothing(s)
  PROVE  WInv'
  BY SettingsAssumption, NoneAssumption
  DEF ObserveNothing, Idle, Release,
      WInv, WatcherTypeOK, RowExists, Carried, OneLocker, LockHolds, Locals, Rows, Locking, Scanning,
      repo, registration, queue, scanning

LEMMA MarkInv ==
  ASSUME WInv, NEW s \in Scanners, Mark(s)
  PROVE  WInv'
  BY SettingsAssumption, NoneAssumption
  DEF Mark, RowLocked, Submitted, PendingSince,
      WInv, WatcherTypeOK, RowExists, Carried, OneLocker, LockHolds, Locals, Rows, Locking, Scanning,
      repo, registration, queue, scanning

LEMMA NotReadyInv ==
  ASSUME WInv, NEW s \in Scanners, NotReady(s)
  PROVE  WInv'
  BY SettingsAssumption, NoneAssumption
  DEF NotReady, Idle, Release,
      WInv, WatcherTypeOK, RowExists, Carried, OneLocker, LockHolds, Locals, Rows, Locking, Scanning,
      repo, registration, queue, scanning

LEMMA FindReadyInv ==
  ASSUME WInv, NEW s \in Scanners, FindReady(s)
  PROVE  WInv'
  BY SettingsAssumption, NoneAssumption
  DEF FindReady, Goto, Ready, Active,
      WInv, WatcherTypeOK, RowExists, Carried, OneLocker, LockHolds, Locals, Rows, Locking, Scanning,
      repo, registration, queue, scanning

LEMMA SubmitInv ==
  ASSUME WInv, NEW s \in Scanners, Submit(s)
  PROVE  WInv'
<1>1. scan[s].draft \in Rows /\ scan[s].fp \in Contents
  BY DEF Submit, WInv, WatcherTypeOK, Locals, Carried, Locking, Scanning
<1>2. row' \in Rows
  BY <1>1 DEF Submit, Rows
<1>3. row' # None
  BY <1>2, NoneAssumption
<1>4. /\ scan' \in [Scanners -> Locals]
      /\ scan'[s] = Idle
      /\ \A t \in Scanners : t # s => scan'[t] = scan[t] /\ scan[t].pc \notin Locking
  BY DEF Submit, Idle, Locals, WInv, WatcherTypeOK, OneLocker, Locking
<1> QED
  BY <1>2, <1>3, <1>4 DEF Submit, Release, Idle, WInv, WatcherTypeOK, RowExists, Carried,
    OneLocker, LockHolds, Locking, Scanning, repo, registration, queue

LEMMA CrashInv ==
  ASSUME WInv, NEW s \in Scanners, Crash(s)
  PROVE  WInv'
  BY SettingsAssumption, NoneAssumption
  DEF Crash, Idle, Release,
      WInv, WatcherTypeOK, RowExists, Carried, OneLocker, LockHolds, Locals, Rows, Locking, Scanning,
      repo, registration, queue, scanning

LEMMA ReviveInv ==
  ASSUME WInv, NEW s \in Scanners, Revive(s)
  PROVE  WInv'
  BY SettingsAssumption, NoneAssumption
  DEF Revive, Idle,
      WInv, WatcherTypeOK, RowExists, Carried, OneLocker, LockHolds, Locals, Rows, Locking, Scanning,
      repo, registration, queue, scanning

-----------------------------------------------------------------------------

LEMMA NextInv ==
  ASSUME WInv, [Next]_vars
  PROVE  WInv'
<1>1. CASE User
  BY <1>1, EditInv, AddRepositoryInv, PauseInv, ResumeInv, SubmitOtherInv, ResubmitInv,
    CancelWaitingInv DEF User
<1>2. CASE EnsurePreference
  BY <1>2, EnsurePreferenceInv
<1>3. CASE Job \/ RestartPass \/ LeaveGap
  BY <1>3, ClaimJobInv, CompletePassInv, FailPassInv, RestartPassInv,
    LeaveGapInv DEF Job
<1>4. ASSUME NEW s \in Scanners, Scan(s) \/ SeeGap(s) \/ ScanFails(s) \/ BeginPaused(s) \/ Crash(s)
      PROVE  WInv'
  BY <1>4, BeginInv, FinishHashingInv, SessionLostInv, ObserveNothingInv, MarkInv, NotReadyInv,
    FindReadyInv, SubmitInv, ReviveInv, SeeGapInv, SkipObserveInv,
    BeginPausedInv, CrashInv DEF Scan, FileVanished, ScanFails
<1>5. CASE DebouncePasses \/ MaxWaitPasses \/ LoseElection
  BY <1>5, DebouncePassesInv, MaxWaitPassesInv, LoseElectionInv
<1>6. CASE UNCHANGED vars
  BY <1>6 DEF vars, repo, registration, queue, scanning, WInv, WatcherTypeOK, RowExists, Carried,
    OneLocker, LockHolds
<1> QED
  BY <1>1, <1>2, <1>3, <1>4, <1>5, <1>6 DEF Next

LEMMA WInvInvariant == Spec => []WInv
<1>1. Init => WInv
  BY InitInv
<1>2. WInv /\ [Next]_vars => WInv'
  BY NextInv
<1> QED
  BY <1>1, <1>2, PTL DEF Spec

\* The row and every scanner's copies of it are what observe and ensure write.
THEOREM WatcherTypeCorrect == Spec => []WatcherTypeOK
<1>1. WInv => WatcherTypeOK
  BY DEF WInv
<1> QED
  BY <1>1, WInvInvariant, PTL

\* Pausing stops automatic submissions at once, with any number of scanners: the submission of
\* a scan that began before the pause comes before it or not at all.
THEOREM PausedStaysPaused == Spec => PauseHolds
<1>1. WInv /\ [Next]_vars => [\A s \in Scanners : Submit(s) => row.enabled]_vars
  BY DEF WInv, LockHolds, Locking, Submit
<1> QED
  BY <1>1, WInvInvariant, PTL DEF Spec, PauseHolds

\* However many scanners take themselves for the elected one, an automatic job is submitted
\* only when the previous one is over.
THEOREM AutomaticJobsTakeTurns == Spec => OneAutomaticJob
<1>1. WInv /\ [Next]_vars => [\A s \in Scanners : Submit(s) => last \notin {"waiting", "running"}]_vars
  BY DEF WInv, LockHolds, Submit
<1> QED
  BY <1>1, WInvInvariant, PTL DEF Spec, OneAutomaticJob
=============================================================================
