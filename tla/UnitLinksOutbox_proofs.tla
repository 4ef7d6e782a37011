------------------------ MODULE UnitLinksOutbox_proofs ------------------------
(***************************************************************************)
(* What the lock of a cron task and the outbox of the task tracker          *)
(* guarantee, for every number of runs, processes and events, and for any   *)
(* sequence of misfortunes: two runs meet only after a forced unlock, the   *)
(* row keeps an owner while no misfortune takes it away, and an event is    *)
(* sent once unless a command fails or the lock is forced.                  *)
(***************************************************************************)
EXTENDS UnitLinksOutbox, TLAPS

-----------------------------------------------------------------------------
(* The lock *)

\* A run between LockCronJob and UnlockCronJob has the row, unless an
\* administrator took it away.
HolderInv == \A r \in Runs : place[r] # "idle" => holder = r \/ r \in evicted

\* A process that is down has no run.
DownInv == \A r \in Runs : proc[HostOf[r]] = "down" => place[r] = "idle"

\* A watcher counted with its run watches a run at work.
WatchInv == \A r \in watching : place[r] = "task"

\* A process has the task in its table only for a run of its own.
TableInv == \A p \in table : \E r \in RunsOf(p) : place[r] \in {"task", "stop"}

\* Nothing but cancellations and forced unlocks has happened.
Spared == past \subseteq {"cancel", "forced"}

\* As long as it is so, processes are up and rows carry the right host values.
SparedInv == Spared => misnamed = {} /\ \A p \in Processes : proc[p] = "up"

\* Only a cancellation cancels a run.
CancelInv == past = {} => cancelled = {}

\* Only a forced unlock evicts one.
EvictedInv == "forced" \notin past => evicted = {}

CronInv ==
    /\ CronTypeOK /\ HolderInv /\ DownInv /\ WatchInv /\ TableInv /\ SparedInv /\ CancelInv
    /\ EvictedInv

\* What has happened cannot be undone.
LEMMA PastGrows ==
  ASSUME [CronNext]_cronVars, past \subseteq Misfortunes
  PROVE  past \subseteq past' /\ past' \subseteq Misfortunes
<1> USE CronLockAssumption DEF Happens
<1>1. ASSUME NEW r \in Runs,
             \/ LockCronJob(r) \/ LockCronJobFails(r) \/ StartIfNotRunning(r) \/ TaskPanics(r)
             \/ TableStop(r) \/ UnlockCronJob(r) \/ UnlockCronJobFails(r)
             \/ WatchPoll(r) \/ CancelProcess(r) \/ TaskReturns(r)
      PROVE  past \subseteq past' /\ past' \subseteq Misfortunes
  BY <1>1 DEF LockCronJob, LockCronJobFails, StartIfNotRunning, TaskPanics, TableStop,
              UnlockCronJob, UnlockCronJobFails, WatchPoll, CancelProcess, TaskReturns
<1>2. ASSUME NEW p \in Processes,
             \/ Crash(p) \/ Shutdown(p) \/ Hammer(p) \/ Exit(p) \/ Restart(p)
             \/ WatchFails(p) \/ ForceUnlock(p) \/ ForceStop(p)
      PROVE  past \subseteq past' /\ past' \subseteq Misfortunes
  BY <1>2 DEF Crash, Shutdown, Hammer, Exit, Restart, WatchFails, ForceUnlock, ForceStop
<1>3. CASE UNCHANGED cronVars
  BY <1>3 DEF cronVars
<1> QED
  BY <1>1, <1>2, <1>3 DEF CronNext, CronStep

\* The initial states satisfy the invariant.
LEMMA CronInvInit == CronInit => CronInv
  BY CronLockAssumption
  DEF CronInit, CronInv, CronTypeOK, HolderInv, DownInv, WatchInv, TableInv, SparedInv, CancelInv,
      EvictedInv, Misfortunes

\* The steps of a run keep it.
LEMMA RunKeepsCronInv ==
  ASSUME CronInv, NEW r \in Runs,
         \/ LockCronJob(r) \/ LockCronJobFails(r) \/ StartIfNotRunning(r)
         \/ TableStop(r) \/ UnlockCronJob(r) \/ UnlockCronJobFails(r)
         \/ WatchPoll(r) \/ CancelProcess(r) \/ TaskReturns(r) \/ TaskPanics(r)
  PROVE  CronInv'
<1> USE CronLockAssumption
    DEF CronInv, CronTypeOK, HolderInv, DownInv, WatchInv, TableInv, SparedInv, CancelInv, EvictedInv,
        Spared, RunsOf, Goto, Leave, Happens, Reaches
<1>0. HostOf[r] \in Processes
  OBVIOUS
<1>1. CASE LockCronJob(r)
  BY <1>0, <1>1 DEF LockCronJob
<1>2. CASE LockCronJobFails(r)
  BY <1>0, <1>2 DEF LockCronJobFails, Misfortunes
<1>3. CASE StartIfNotRunning(r)
  BY <1>0, <1>3 DEF StartIfNotRunning
<1>4. CASE TableStop(r)
  BY <1>0, <1>4 DEF TableStop
<1>5. CASE UnlockCronJob(r)
  BY <1>0, <1>5 DEF UnlockCronJob
<1>6. CASE UnlockCronJobFails(r)
  <2>1. ~Spared' /\ past \subseteq past' /\ past' \subseteq Misfortunes
    <3>1. CASE Reaches(HostOf[r])
      <4>1. past' = past \cup {"fault"}
        BY <1>6, <3>1 DEF UnlockCronJobFails
      <4> QED
        BY <4>1 DEF Misfortunes
    <3>2. CASE ~Reaches(HostOf[r])
      BY <1>0, <1>6, <3>2 DEF UnlockCronJobFails
    <3> QED
      BY <3>1, <3>2
  <2>2. CronTypeOK' /\ HolderInv' /\ DownInv' /\ WatchInv' /\ TableInv'
    BY <1>6, <2>1 DEF UnlockCronJobFails
  <2>3. SparedInv'
    BY <2>1
  <2>4. CancelInv' /\ EvictedInv'
    BY <1>6, <2>1 DEF UnlockCronJobFails
  <2> QED
    BY <2>2, <2>3, <2>4
<1>7. CASE WatchPoll(r)
  BY <1>0, <1>7 DEF WatchPoll
<1>8. CASE CancelProcess(r)
  BY <1>0, <1>8 DEF CancelProcess, Misfortunes
<1>9. CASE TaskReturns(r)
  BY <1>0, <1>9 DEF TaskReturns, EndTask
<1>10. CASE TaskPanics(r)
  BY <1>0, <1>10 DEF TaskPanics, EndTask, Misfortunes
<1> QED
  BY <1>1, <1>2, <1>3, <1>4, <1>5, <1>6, <1>7, <1>8, <1>9, <1>10

\* So do those of a process, its watchers and its administrator.
LEMMA ProcessKeepsCronInv ==
  ASSUME CronInv, NEW p \in Processes,
         \/ Crash(p) \/ Shutdown(p) \/ Hammer(p) \/ Exit(p) \/ Restart(p)
         \/ WatchFails(p) \/ ForceUnlock(p) \/ ForceStop(p)
  PROVE  CronInv'
<1> USE CronLockAssumption
    DEF CronInv, CronTypeOK, HolderInv, DownInv, WatchInv, TableInv, SparedInv, CancelInv, EvictedInv,
        Spared, RunsOf, Goto, Happens, Reaches
<1>1. CASE Crash(p)
  BY <1>1 DEF Crash, Die, Misfortunes
<1>2. CASE Shutdown(p)
  BY <1>2 DEF Shutdown, Misfortunes
<1>3. CASE Hammer(p)
  BY <1>3 DEF Hammer
<1>4. CASE Exit(p)
  BY <1>4 DEF Exit, Die
<1>5. CASE Restart(p)
  BY <1>5 DEF Restart
<1>6. CASE WatchFails(p)
  <2>1. ~Spared' /\ past \subseteq past' /\ past' \subseteq Misfortunes
    <3>1. CASE Reaches(p)
      <4>1. past' = past \cup {"fault"}
        BY <1>6, <3>1 DEF WatchFails
      <4> QED
        BY <4>1 DEF Misfortunes
    <3>2. CASE ~Reaches(p)
      BY <1>6, <3>2 DEF WatchFails
    <3> QED
      BY <3>1, <3>2
  <2>2. CronTypeOK' /\ HolderInv' /\ DownInv' /\ WatchInv' /\ TableInv'
    BY <1>6, <2>1 DEF WatchFails, Die
  <2>3. SparedInv'
    BY <2>1
  <2>4. CancelInv' /\ EvictedInv'
    BY <1>6, <2>1 DEF WatchFails, Die
  <2> QED
    BY <2>2, <2>3, <2>4
<1>7. CASE ForceUnlock(p)
  BY <1>7 DEF ForceUnlock, Misfortunes
<1>8. CASE ForceStop(p)
  BY <1>8 DEF ForceStop
<1> QED
  BY <1>1, <1>2, <1>3, <1>4, <1>5, <1>6, <1>7, <1>8

\* A step of the outbox leaves the lock alone, but a command may fail in it.
LockUntouched ==
    /\ UNCHANGED lockVars
    /\ past \subseteq past' /\ past' \subseteq Misfortunes

\* Every step keeps the invariant of the lock.
LEMMA CronInvStep ==
  ASSUME CronInv, [CronNext]_cronVars \/ LockUntouched
  PROVE  CronInv'
<1>1. CASE \E r \in Runs :
             \/ LockCronJob(r) \/ LockCronJobFails(r) \/ StartIfNotRunning(r)
             \/ TableStop(r) \/ UnlockCronJob(r) \/ UnlockCronJobFails(r)
             \/ WatchPoll(r) \/ CancelProcess(r) \/ TaskReturns(r) \/ TaskPanics(r)
  BY <1>1, RunKeepsCronInv
<1>2. CASE \E p \in Processes :
             \/ Crash(p) \/ Shutdown(p) \/ Hammer(p) \/ Exit(p) \/ Restart(p)
             \/ WatchFails(p) \/ ForceUnlock(p) \/ ForceStop(p)
  BY <1>2, ProcessKeepsCronInv
<1>3. CASE LockUntouched
  BY <1>3
  DEF LockUntouched, lockVars, CronInv, CronTypeOK, HolderInv, DownInv, WatchInv, TableInv, SparedInv, CancelInv,
      EvictedInv, Spared, RunsOf
<1>4. CASE UNCHANGED cronVars
  BY <1>4
  DEF cronVars, lockVars, CronInv, CronTypeOK, HolderInv, DownInv, WatchInv, TableInv, SparedInv, CancelInv,
      EvictedInv, Spared, RunsOf
<1> QED
  BY <1>1, <1>2, <1>3, <1>4 DEF CronNext, CronStep

-----------------------------------------------------------------------------
(* Steps of the outbox and steps of the lock *)

\* A step of a sender leaves the lock alone.
LEMMA SenderLeavesLock ==
  ASSUME past \subseteq Misfortunes, NEW r \in Runs, SenderStep(r)
  PROVE  LockUntouched
<1> USE DEF LockUntouched, Happens, Misfortunes, lockVars, cronVars
<1>1. CASE GetPullRequestLinksTask(r)
  BY <1>1 DEF GetPullRequestLinksTask
<1>2. CASE \E e \in Events : LockTaskSelect(r, e)
  BY <1>2 DEF LockTaskSelect
<1>3. CASE LockTaskUpdate(r) \/ SendTask(r) \/ UnlockTaskWithSuccess(r) \/ UnlockTask(r)
  BY <1>3 DEF LockTaskUpdate, SendTask, UnlockTaskWithSuccess, UnlockTask
<1>4. CASE LockTaskUpdateFails(r)
  BY <1>4 DEF LockTaskUpdateFails
<1>5. CASE SendTaskFails(r)
  BY <1>5 DEF SendTaskFails
<1>6. CASE UnlockTaskWithSuccessFails(r)
  BY <1>6 DEF UnlockTaskWithSuccessFails
<1>7. CASE UnlockTaskFails(r)
  BY <1>7 DEF UnlockTaskFails
<1> QED
  BY <1>1, <1>2, <1>3, <1>4, <1>5, <1>6, <1>7 DEF SenderStep

\* Every step is an event recorded, a step of one sender, or a step of the
\* lock that the senders follow.
LEMMA StepKinds ==
  ASSUME [Next]_vars, past \subseteq Misfortunes
  PROVE  [CronNext]_cronVars \/ LockUntouched
<1>1. CASE \E e \in Events : RecordEvent(e)
  BY <1>1 DEF RecordEvent
<1>2. CASE \E r \in Runs : SenderStep(r)
  BY <1>2, SenderLeavesLock
<1>3. CASE (CronStep \/ \E r \in Runs : SenderReturns(r)) /\ SendersFollow
           /\ UNCHANGED <<status, sent>>
  BY <1>3 DEF SenderReturns, CronNext
<1>4. CASE UNCHANGED vars
  BY <1>4 DEF vars
<1> QED
  BY <1>1, <1>2, <1>3, <1>4 DEF Next

\* The lock's invariant holds of the lock and the outbox together.
THEOREM LockCorrect == Spec => []CronInv
<1>1. Init => CronInv
  BY CronInvInit DEF Init
<1>2. CronInv /\ [Next]_vars => CronInv'
  BY StepKinds, CronInvStep DEF CronInv, CronTypeOK
<1> QED
  BY <1>1, <1>2, PTL DEF Spec

\* Two runs are at work together only after one was evicted by an administrator.
THEOREM RunsApart == Spec => []OneRun
<1>1. CronInv => OneRun
  BY DEF CronInv, HolderInv, OneRun
<1> QED
  BY <1>1, LockCorrect, PTL

\* Only a run that finds an evicted one beside it leaves the row without an
\* owner while nothing but cancellations and forced unlocks has happened.
LEMMA OwnerStep ==
  ASSUME CronInv, CronNext, past' \subseteq Misfortunes, holder # Gone, holder' = Gone
  PROVE  past' \ {"cancel", "forced"} # {} \/ \E r \in Runs : FindsEvicted(r)
<1> SUFFICES ASSUME Spared' PROVE \E r \in Runs : FindsEvicted(r)
  BY DEF Spared
<1> USE CronLockAssumption DEF CronInv, CronTypeOK, Happens, Reaches
<1>0. Spared
  BY PastGrows DEF Spared
<1>1. \A p \in Processes : Reaches(p) /\ proc[p] = "up"
  BY <1>0 DEF SparedInv
<1>2. misnamed = {}
  BY <1>0 DEF SparedInv
<1>3. ASSUME NEW r \in Runs, StartIfNotRunning(r)
      PROVE  FindsEvicted(r)
  <2>1. HostOf[r] \in table /\ holder = r /\ place[r] = "start"
    BY <1>3 DEF StartIfNotRunning
  <2>2. PICK s \in RunsOf(HostOf[r]) : place[s] \in {"task", "stop"}
    BY <2>1 DEF TableInv
  <2>3. s \in Runs /\ s # r /\ s \in evicted /\ HostOf[s] = HostOf[r]
    BY <2>1, <2>2 DEF RunsOf, HolderInv
  <2> QED
    BY <2>1, <2>2, <2>3 DEF FindsEvicted
<1>4. ASSUME NEW r \in Runs,
             \/ LockCronJob(r) \/ LockCronJobFails(r) \/ TaskPanics(r) \/ TableStop(r)
             \/ UnlockCronJob(r) \/ UnlockCronJobFails(r) \/ WatchPoll(r) \/ CancelProcess(r)
             \/ TaskReturns(r)
      PROVE  FALSE
  BY <1>1, <1>2, <1>4
  DEF LockCronJob, LockCronJobFails, TaskPanics, TableStop, UnlockCronJob, UnlockCronJobFails,
      WatchPoll, CancelProcess, TaskReturns, EndTask, Spared
<1>5. ASSUME NEW p \in Processes,
             \/ Crash(p) \/ Shutdown(p) \/ Hammer(p) \/ Exit(p) \/ Restart(p)
             \/ WatchFails(p) \/ ForceUnlock(p) \/ ForceStop(p)
      PROVE  FALSE
  BY <1>1, <1>5
  DEF Crash, Shutdown, Hammer, Exit, Restart, WatchFails, ForceUnlock, ForceStop, Spared
<1> QED
  BY <1>3, <1>4, <1>5 DEF CronNext, CronStep

\* The row loses its owner only by a misfortune other than a cancellation and
\* a forced unlock, or where a run finds an evicted one still at work.
THEOREM LockIsOwned == Spec => LockHasOwner
<1>1. CronInv /\ CronInv' /\ [Next]_vars =>
        [holder # Gone /\ holder' = Gone =>
            \/ past' \ {"cancel", "forced"} # {}
            \/ \E r \in Runs : FindsEvicted(r)]_cronVars
  <2> SUFFICES ASSUME CronInv, CronInv', [Next]_vars, holder # Gone, holder' = Gone
               PROVE  past' \ {"cancel", "forced"} # {} \/ \E r \in Runs : FindsEvicted(r)
    OBVIOUS
  <2>1. [CronNext]_cronVars
    BY StepKinds DEF CronInv, CronTypeOK, LockUntouched, lockVars
  <2> QED
    BY <2>1, OwnerStep DEF cronVars, lockVars, CronInv, CronTypeOK
<1> QED
  BY <1>1, LockCorrect, PTL DEF Spec, LockHasOwner

-----------------------------------------------------------------------------
(* The outbox *)

\* Only a run at work has a sender, and only past the lookup has it an event.
FollowInv ==
    \A r \in Runs :
        /\ place[r] # "task" => sender[r] = "select"
        /\ current[r] \in Events <=> sender[r] \in {"lock", "send", "done", "unlock"}

Steady == past \cap {"fault", "forced"} = {}

\* An event that may be sent has not been sent; one in the hands of a sender is
\* where the sender believes it; a sender that could not send is cancelled, and
\* will not unlock the event for the next run.
SentInv ==
    Steady =>
        /\ \A r \in Runs :
              /\ sender[r] = "lock" => status[current[r]] = "unlocked"
              /\ sender[r] = "send" => status[current[r]] = "locked" /\ sent[current[r]] = 0
              /\ sender[r] = "done" => status[current[r]] = "locked" /\ sent[current[r]] = 1
              /\ sender[r] = "unlock" => Cancelled(r)
        /\ \A e \in Events :
              /\ sent[e] \in {0, 1}
              /\ status[e] \in {"absent", "unlocked"} => sent[e] = 0

\* If nothing at all happens, no sender unlocks, and a locked event is in hand.
StrandInv ==
    past = {} =>
        /\ \A r \in Runs : sender[r] # "unlock"
        /\ \A e \in Events : status[e] = "locked" =>
              \E r \in Runs : current[r] = e /\ sender[r] \in {"send", "done"}

OutboxInv == CronInv /\ TypeOK /\ FollowInv /\ SentInv /\ StrandInv

\* The initial states satisfy the invariant.
LEMMA OutboxInvInit == Init => OutboxInv
<1> SUFFICES ASSUME Init PROVE OutboxInv
  OBVIOUS
<1>1. CronInv
  BY CronInvInit DEF Init
<1>2. TypeOK
  BY <1>1 DEF Init, TypeOK, CronInv
<1>3. FollowInv /\ SentInv /\ StrandInv
  BY UnitLinksOutboxAssumption DEF Init, FollowInv, SentInv, StrandInv
<1> QED
  BY <1>1, <1>2, <1>3 DEF OutboxInv

\* As long as no lock is forced, one run at most is at work.
LEMMA OneAtWork ==
  ASSUME CronInv, Steady, NEW r \in Runs, NEW s \in Runs,
         place[r] = "task", place[s] = "task"
  PROVE  r = s
BY DEF CronInv, HolderInv, EvictedInv, Steady

\* A cancelled run that stays at work stays cancelled.
LEMMA CancelledStays ==
  ASSUME CronInv, CronStep \/ \E t \in Runs : TaskReturns(t), NEW r \in Runs,
         place[r] = "task", place'[r] = "task", Cancelled(r)
  PROVE  Cancelled(r)'
<1> USE CronLockAssumption
    DEF CronInv, CronTypeOK, DownInv, Cancelled, Goto, Leave, RunsOf
<1>1. ASSUME NEW t \in Runs,
             \/ LockCronJob(t) \/ LockCronJobFails(t) \/ StartIfNotRunning(t)
             \/ TableStop(t) \/ UnlockCronJob(t) \/ UnlockCronJobFails(t)
             \/ WatchPoll(t) \/ CancelProcess(t) \/ TaskReturns(t)
      PROVE  Cancelled(r)'
  BY <1>1
  DEF LockCronJob, LockCronJobFails, StartIfNotRunning, TableStop, UnlockCronJob,
      UnlockCronJobFails, WatchPoll, CancelProcess, TaskReturns, EndTask
<1>2. ASSUME NEW t \in Runs, TaskPanics(t)
      PROVE  Cancelled(r)'
  BY <1>2 DEF TaskPanics, EndTask
<1>3. ASSUME NEW p \in Processes,
             \/ Crash(p) \/ Shutdown(p) \/ Hammer(p) \/ Exit(p) \/ Restart(p)
             \/ WatchFails(p) \/ ForceUnlock(p) \/ ForceStop(p)
      PROVE  Cancelled(r)'
  BY <1>3
  DEF Crash, Shutdown, Hammer, Exit, Restart, WatchFails, ForceUnlock, ForceStop, Die
<1> QED
  BY <1>1, <1>2, <1>3 DEF CronStep

\* A run leaves its work only by a misfortune, or by coming to the end of it.
LEMMA WorkGoesOn ==
  ASSUME CronInv, CronStep, past' = {}, NEW r \in Runs, place[r] = "task"
  PROVE  place'[r] = "task"
<1> USE CronLockAssumption
    DEF CronInv, CronTypeOK, SparedInv, Spared, Goto, Leave, RunsOf, Happens
<1>1. ASSUME NEW t \in Runs,
             \/ LockCronJob(t) \/ LockCronJobFails(t) \/ StartIfNotRunning(t) \/ TaskPanics(t)
             \/ TableStop(t) \/ UnlockCronJob(t) \/ UnlockCronJobFails(t)
             \/ WatchPoll(t) \/ CancelProcess(t)
      PROVE  place'[r] = "task"
  BY <1>1
  DEF LockCronJob, LockCronJobFails, StartIfNotRunning, TableStop, UnlockCronJob,
      UnlockCronJobFails, WatchPoll, CancelProcess, TaskPanics
<1>2. ASSUME NEW p \in Processes,
             \/ Crash(p) \/ Shutdown(p) \/ Hammer(p) \/ Exit(p) \/ Restart(p)
             \/ WatchFails(p) \/ ForceUnlock(p) \/ ForceStop(p)
      PROVE  place'[r] = "task"
  BY <1>2
  DEF Crash, Shutdown, Hammer, Exit, Restart, WatchFails, ForceUnlock, ForceStop, Die, Reaches
<1> QED
  BY <1>1, <1>2 DEF CronStep

\* A step of the lock that the senders follow keeps the invariant.
LEMMA FollowersKeepOutboxInv ==
  ASSUME OutboxInv, CronInv', CronStep \/ \E r \in Runs : SenderReturns(r), SendersFollow,
         UNCHANGED <<status, sent>>
  PROVE  OutboxInv'
<1> USE DEF OutboxInv
<1>0. past \subseteq past'
  BY PastGrows DEF CronNext, SenderReturns, CronInv, CronTypeOK
<1>1. ASSUME NEW r \in Runs, sender'[r] # "select"
      PROVE  /\ place[r] = "task" /\ place'[r] = "task"
             /\ sender'[r] = sender[r] /\ current'[r] = current[r]
  BY <1>1 DEF SendersFollow, FollowInv
<1>2. TypeOK'
  BY DEF TypeOK, CronInv, SendersFollow
<1>3. FollowInv'
  BY UnitLinksOutboxAssumption DEF FollowInv, SendersFollow, TypeOK
<1>4. ASSUME NEW r \in Runs, Cancelled(r), place[r] = "task", place'[r] = "task"
      PROVE  Cancelled(r)'
  BY <1>4, CancelledStays DEF SenderReturns
<1>5. SentInv'
  BY <1>0, <1>1, <1>4 DEF SentInv, Steady
<1>6. StrandInv'
  <2> SUFFICES ASSUME past' = {} PROVE StrandInv'
    BY DEF StrandInv
  <2>1. past = {}
    BY <1>0
  <2>2. ASSUME NEW e \in Events, status'[e] = "locked"
        PROVE  \E r \in Runs : current'[r] = e /\ sender'[r] \in {"send", "done"}
    <3>1. PICK r \in Runs : current[r] = e /\ sender[r] \in {"send", "done"}
      BY <2>1, <2>2 DEF StrandInv
    <3>2. place[r] = "task"
      BY <3>1 DEF FollowInv
    <3>3. place'[r] = "task"
      <4>1. CASE CronStep
        BY <3>2, <4>1, WorkGoesOn
      <4>2. CASE \E t \in Runs : SenderReturns(t)
        BY <3>1, <3>2, <4>2
        DEF SenderReturns, TaskReturns, EndTask, Goto, CronInv, CronTypeOK
      <4> QED
        BY <4>1, <4>2
    <3> QED
      BY <3>1, <3>3 DEF SendersFollow
  <2> QED
    BY <1>1, <2>1, <2>2 DEF StrandInv
<1> QED
  BY <1>2, <1>3, <1>5, <1>6

\* So does a step of a sender.
LEMMA SenderKeepsOutboxInv ==
  ASSUME OutboxInv, CronInv', NEW r \in Runs, SenderStep(r)
  PROVE  OutboxInv'
<1> USE UnitLinksOutboxAssumption
    DEF OutboxInv, CronInv, CronTypeOK, TypeOK, GotoSender, Continue, SetStatus, lockVars
<1>0. LockUntouched
  BY SenderLeavesLock
<1>1. place[r] = "task"
  BY DEF SenderStep, GetPullRequestLinksTask, LockTaskSelect, LockTaskUpdate, LockTaskUpdateFails,
         SendTask, SendTaskFails, UnlockTaskWithSuccess, UnlockTaskWithSuccessFails, UnlockTask,
         UnlockTaskFails, Lives
<1>2. ASSUME Steady, NEW s \in Runs, s # r
      PROVE  sender[s] = "select"
  BY <1>1, <1>2, OneAtWork DEF FollowInv
<1>3. \A s \in Runs : Cancelled(s)' <=> Cancelled(s)
  BY <1>0 DEF LockUntouched, Cancelled
<1>4. past' = {} => \A s \in Runs : ~Cancelled(s)
  BY <1>0, CronLockAssumption
  DEF LockUntouched, Cancelled, CancelInv, SparedInv, Spared, lockVars
<1>5. Steady' => Steady
  BY <1>0 DEF LockUntouched, Steady
<1>6. CASE GetPullRequestLinksTask(r)
  <2>1. TypeOK'
    BY <1>6 DEF GetPullRequestLinksTask
  <2>2. FollowInv'
    BY <1>1, <1>6 DEF GetPullRequestLinksTask, FollowInv
  <2>3. SentInv' /\ StrandInv'
    BY <1>0, <1>3, <1>5, <1>6
    DEF GetPullRequestLinksTask, SentInv, StrandInv, LockUntouched
  <2> QED
    BY <2>1, <2>2, <2>3
<1>7. ASSUME NEW e \in Events, LockTaskSelect(r, e)
      PROVE  OutboxInv'
  <2>1. TypeOK'
    BY <1>7 DEF LockTaskSelect
  <2>2. FollowInv'
    BY <1>1, <1>7 DEF LockTaskSelect, FollowInv
  <2>3. SentInv' /\ StrandInv'
    BY <1>0, <1>3, <1>5, <1>7
    DEF LockTaskSelect, SentInv, StrandInv, LockUntouched
  <2> QED
    BY <2>1, <2>2, <2>3
<1>8. CASE LockTaskUpdate(r)
  <2>0. current[r] \in Events
    BY <1>8 DEF LockTaskUpdate, FollowInv
  <2>1. TypeOK'
    BY <1>8, <2>0 DEF LockTaskUpdate, cronVars
  <2>2. FollowInv'
    BY <1>1, <1>8 DEF LockTaskUpdate, FollowInv, cronVars
  <2>3. SentInv'
    BY <1>2, <1>3, <1>5, <1>8, <2>0 DEF LockTaskUpdate, SentInv, cronVars
  <2>4. StrandInv'
    BY <1>8, <2>0 DEF LockTaskUpdate, StrandInv, cronVars
  <2> QED
    BY <2>1, <2>2, <2>3, <2>4
<1>9. CASE LockTaskUpdateFails(r)
  <2>0. current[r] \in Events
    BY <1>9 DEF LockTaskUpdateFails, FollowInv
  <2>1. TypeOK'
    BY <1>9, <2>0 DEF LockTaskUpdateFails
  <2>2. FollowInv'
    BY <1>1, <1>9 DEF LockTaskUpdateFails, FollowInv
  <2>3. Lives(r) => ~Steady' /\ past' # {}
    BY <1>9 DEF LockTaskUpdateFails, Happens, Steady
  <2>4. SentInv'
    BY <1>2, <1>3, <1>5, <1>9, <2>0, <2>3 DEF LockTaskUpdateFails, SentInv
  <2>5. StrandInv'
    BY <1>1, <1>4, <2>3 DEF StrandInv, Lives
  <2> QED
    BY <2>1, <2>2, <2>4, <2>5
<1>10. CASE SendTask(r)
  <2>0. current[r] \in Events
    BY <1>10 DEF SendTask, FollowInv
  <2>1. TypeOK'
    BY <1>10, <2>0 DEF SendTask, Delivered, cronVars
  <2>2. FollowInv'
    BY <1>1, <1>10 DEF SendTask, FollowInv, cronVars
  <2>3. SentInv'
    BY <1>2, <1>3, <1>5, <1>10, <2>0 DEF SendTask, Delivered, SentInv, cronVars
  <2>4. StrandInv'
    BY <1>10, <2>0 DEF SendTask, StrandInv, cronVars
  <2> QED
    BY <2>1, <2>2, <2>3, <2>4
<1>11. CASE SendTaskFails(r)
  <2>0. current[r] \in Events
    BY <1>11 DEF SendTaskFails, FollowInv
  <2>1. TypeOK'
    BY <1>11, <2>0 DEF SendTaskFails, Delivered
  <2>2. FollowInv'
    BY <1>1, <1>11 DEF SendTaskFails, FollowInv
  <2>3. Lives(r) => ~Steady' /\ past' # {}
    BY <1>11 DEF SendTaskFails, Happens, Steady
  <2>4. SentInv'
    BY <1>1, <1>2, <1>3, <1>5, <1>11, <2>0, <2>3 DEF SendTaskFails, Delivered, SentInv, Lives
  <2>5. StrandInv'
    BY <1>1, <1>4, <2>3 DEF StrandInv, Lives
  <2> QED
    BY <2>1, <2>2, <2>4, <2>5
<1>12. CASE UnlockTaskWithSuccess(r)
  <2>0. current[r] \in Events
    BY <1>12 DEF UnlockTaskWithSuccess, FollowInv
  <2>1. TypeOK'
    BY <1>12, <2>0 DEF UnlockTaskWithSuccess, cronVars
  <2>2. FollowInv'
    BY <1>1, <1>12 DEF UnlockTaskWithSuccess, FollowInv, cronVars
  <2>3. SentInv'
    BY <1>2, <1>3, <1>5, <1>12, <2>0 DEF UnlockTaskWithSuccess, SentInv, cronVars
  <2>4. StrandInv'
    BY <1>12, <2>0 DEF UnlockTaskWithSuccess, StrandInv, cronVars
  <2> QED
    BY <2>1, <2>2, <2>3, <2>4
<1>13. CASE UnlockTaskWithSuccessFails(r)
  <2>0. current[r] \in Events
    BY <1>13 DEF UnlockTaskWithSuccessFails, FollowInv
  <2>1. TypeOK'
    BY <1>13, <2>0 DEF UnlockTaskWithSuccessFails
  <2>2. FollowInv'
    BY <1>1, <1>13 DEF UnlockTaskWithSuccessFails, FollowInv
  <2>3. Lives(r) => ~Steady' /\ past' # {}
    BY <1>13 DEF UnlockTaskWithSuccessFails, Happens, Steady
  <2>4. SentInv'
    BY <1>1, <1>2, <1>3, <1>5, <1>13, <2>0, <2>3
    DEF UnlockTaskWithSuccessFails, SentInv, Lives
  <2>5. StrandInv'
    BY <1>1, <1>4, <2>3 DEF StrandInv, Lives
  <2> QED
    BY <2>1, <2>2, <2>4, <2>5
<1>14. CASE UnlockTask(r)
  <2>0. current[r] \in Events
    BY <1>14 DEF UnlockTask, FollowInv
  <2>1. TypeOK'
    BY <1>14, <2>0 DEF UnlockTask, cronVars
  <2>2. FollowInv'
    BY <1>1, <1>14 DEF UnlockTask, FollowInv, cronVars
  <2>3. SentInv' /\ StrandInv'
    BY <1>5, <1>14 DEF UnlockTask, SentInv, StrandInv, Lives, cronVars
  <2> QED
    BY <2>1, <2>2, <2>3
<1>15. CASE UnlockTaskFails(r)
  <2>0. current[r] \in Events
    BY <1>15 DEF UnlockTaskFails, FollowInv
  <2>1. TypeOK'
    BY <1>15, <2>0 DEF UnlockTaskFails
  <2>2. FollowInv'
    BY <1>1, <1>15 DEF UnlockTaskFails, FollowInv
  <2>3. SentInv'
    BY <1>2, <1>3, <1>5, <1>15, <2>0 DEF UnlockTaskFails, SentInv
  <2>4. StrandInv'
    BY <1>0, <1>15 DEF UnlockTaskFails, StrandInv, LockUntouched
  <2> QED
    BY <2>1, <2>2, <2>3, <2>4
<1> QED
  BY <1>6, <1>7, <1>8, <1>9, <1>10, <1>11, <1>12, <1>13, <1>14, <1>15 DEF SenderStep

\* Every step keeps the invariant.
LEMMA OutboxInvStep ==
  ASSUME OutboxInv, [Next]_vars
  PROVE  OutboxInv'
<1>0. CronInv'
  BY StepKinds, CronInvStep DEF OutboxInv, CronInv, CronTypeOK
<1>1. ASSUME NEW e \in Events, RecordEvent(e)
      PROVE  OutboxInv'
  <2> USE DEF OutboxInv, RecordEvent, SetStatus, cronVars, lockVars, senderVars
  <2>1. TypeOK'
    BY <1>1 DEF TypeOK, CronTypeOK
  <2>2. FollowInv'
    BY <1>1 DEF FollowInv
  <2>3. SentInv'
    BY <1>1 DEF SentInv, Steady, TypeOK, Cancelled
  <2>4. StrandInv'
    BY <1>1 DEF StrandInv, TypeOK
  <2> QED
    BY <1>0, <2>1, <2>2, <2>3, <2>4
<1>2. CASE \E r \in Runs : SenderStep(r)
  BY <1>0, <1>2, SenderKeepsOutboxInv
<1>3. CASE (CronStep \/ \E r \in Runs : SenderReturns(r)) /\ SendersFollow
           /\ UNCHANGED <<status, sent>>
  BY <1>0, <1>3, FollowersKeepOutboxInv
<1>4. CASE UNCHANGED vars
  BY <1>0, <1>4
  DEF vars, cronVars, lockVars, outboxVars, senderVars, OutboxInv, TypeOK, CronTypeOK, FollowInv, SentInv,
      StrandInv, Steady, Cancelled
<1> QED
  BY <1>1, <1>2, <1>3, <1>4 DEF Next

\* The lock and the outbox keep the invariant in every behaviour.
THEOREM OutboxCorrect == Spec => []OutboxInv
BY OutboxInvInit, OutboxInvStep, PTL DEF Spec

\* Each variable ranges over the values its counterpart can hold.
THEOREM OutboxTypeCorrect == Spec => []TypeOK
<1>1. OutboxInv => TypeOK
  BY DEF OutboxInv
<1> QED
  BY <1>1, OutboxCorrect, PTL

\* The tracker takes an event once at most, though processes stop, die or
\* cancel their runs, if no command fails and no lock is forced.
THEOREM EventSentOnce == Spec => []SentOnce
<1>1. OutboxInv => SentOnce
  BY DEF OutboxInv, SentInv, Steady, SentOnce
<1> QED
  BY <1>1, OutboxCorrect, PTL

\* If nothing happens, a locked event is in the hands of a run that will set
\* it to done.
THEOREM EventNotStranded == Spec => []NoneStranded
<1>1. OutboxInv => NoneStranded
  BY DEF OutboxInv, StrandInv, NoneStranded
<1> QED
  BY <1>1, OutboxCorrect, PTL

-----------------------------------------------------------------------------
(* What is done *)

\* A sender that comes to mark its event done has sent it.
SenderSent == \A r \in Runs : sender[r] = "done" => sent[current[r]] > 0

DoneInv == SenderSent /\ DoneWasSent

\* A step of a sender keeps it.
LEMMA SenderKeepsDoneInv ==
  ASSUME OutboxInv, DoneInv, NEW r \in Runs, SenderStep(r)
  PROVE  DoneInv'
<1> USE DEF DoneInv, SenderSent, DoneWasSent, OutboxInv, TypeOK, GotoSender, Continue, SetStatus
<1>1. sender[r] \notin {"select", "next"} => current[r] \in Events
  BY DEF FollowInv
<1>2. CASE GetPullRequestLinksTask(r)
  BY <1>2 DEF GetPullRequestLinksTask
<1>3. ASSUME NEW e \in Events, LockTaskSelect(r, e)
      PROVE  DoneInv'
  BY <1>3 DEF LockTaskSelect
<1>4. CASE LockTaskUpdate(r)
  BY <1>1, <1>4 DEF LockTaskUpdate
<1>5. CASE LockTaskUpdateFails(r)
  BY <1>1, <1>5 DEF LockTaskUpdateFails
<1>6. CASE SendTask(r)
  BY <1>1, <1>6 DEF SendTask, Delivered
<1>7. CASE SendTaskFails(r)
  <2>1. \A e \in Events : sent[e] > 0 => sent'[e] > 0
    BY <1>1, <1>7 DEF SendTaskFails, Delivered
  <2>2. \A s \in Runs : sender'[s] = "done" => sender[s] = "done"
    BY <1>7 DEF SendTaskFails
  <2>3. status' = status /\ current' = current
    BY <1>7 DEF SendTaskFails
  <2>4. \A s \in Runs : sender[s] = "done" => current[s] \in Events
    BY DEF FollowInv
  <2> QED
    BY <2>1, <2>2, <2>3, <2>4
<1>8. CASE UnlockTaskWithSuccess(r)
  BY <1>1, <1>8 DEF UnlockTaskWithSuccess
<1>9. CASE UnlockTaskWithSuccessFails(r)
  BY <1>1, <1>9 DEF UnlockTaskWithSuccessFails
<1>10. CASE UnlockTask(r)
  BY <1>1, <1>10 DEF UnlockTask
<1>11. CASE UnlockTaskFails(r)
  BY <1>11 DEF UnlockTaskFails
<1> QED
  BY <1>2, <1>3, <1>4, <1>5, <1>6, <1>7, <1>8, <1>9, <1>10, <1>11 DEF SenderStep

\* Every step keeps it.
LEMMA DoneInvStep ==
  ASSUME OutboxInv, DoneInv, [Next]_vars
  PROVE  DoneInv'
<1> USE DEF DoneInv, SenderSent, DoneWasSent, OutboxInv, TypeOK
<1>1. ASSUME NEW e \in Events, RecordEvent(e)
      PROVE  DoneInv'
  BY <1>1 DEF RecordEvent, SetStatus, senderVars
<1>2. ASSUME NEW r \in Runs, SenderStep(r)
      PROVE  DoneInv'
  BY <1>2, SenderKeepsDoneInv
<1>3. CASE SendersFollow /\ UNCHANGED <<status, sent>>
  BY <1>3 DEF SendersFollow
<1>4. CASE UNCHANGED vars
  BY <1>4 DEF vars, outboxVars, senderVars
<1> QED
  BY <1>1, <1>2, <1>3, <1>4 DEF Next

\* An event is marked done only if the tracker took it, for any number of
\* events and runs, and whatever happens (DoneWasSent).
THEOREM DoneEventWasSent == Spec => []DoneWasSent
<1>1. Init => DoneInv
  BY DEF Init, DoneInv, SenderSent, DoneWasSent
<1>2. OutboxInv /\ DoneInv /\ [Next]_vars => DoneInv'
  BY DoneInvStep
<1>3. DoneInv => DoneWasSent
  BY DEF DoneInv
<1> QED
  BY <1>1, <1>2, <1>3, OutboxCorrect, PTL DEF Spec
=============================================================================
