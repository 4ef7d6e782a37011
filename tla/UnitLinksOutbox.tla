--------------------------- MODULE UnitLinksOutbox ---------------------------
(***************************************************************************)
(* The cron task "task_tracker" (services/cron/unit_links_sender.go): every *)
(* change of a pull request's links leaves an event in the table            *)
(* unit_links_sender_tasks, and each run of the task sends the unlocked     *)
(* ones to the task tracker.  It locks an event's row, sends the event, and *)
(* sets the row to done, or unlocks it when the tracker did not take it.    *)
(*                                                                          *)
(* The engine of unitLinksSenderDB is bound to the run's context and is not *)
(* the one of the transactions it opens: every select and every update is a *)
(* transaction of its own, and once the context is cancelled every command, *)
(* like every request to the tracker, fails.                                *)
(***************************************************************************)
EXTENDS CronLock

CONSTANTS
    Events,  \* rows of unit_links_sender_tasks
    NoEvent  \* the run has no event in hand

ASSUME UnitLinksOutboxAssumption == NoEvent \notin Events

VARIABLES
    status,  \* each row: "absent", or its status
    sender,  \* where the sender of each run stands
    todo,    \* the events its run has selected and not come to yet
    current, \* the event it has in hand
    sent     \* history: how often the tracker took each event (2: or more)

senderVars == <<sender, todo, current>>
outboxVars == <<status, senderVars, sent>>
vars == <<cronVars, outboxVars>>

Init ==
    /\ CronInit
    /\ status = [e \in Events |-> "absent"]
    /\ sender = [r \in Runs |-> "select"]
    /\ todo = [r \in Runs |-> {}]
    /\ current = [r \in Runs |-> NoEvent]
    /\ sent = [e \in Events |-> 0]

\* The commands and requests of the run get through.
Lives(r) == place[r] = "task" /\ ~Cancelled(r)

GotoSender(r, there) == sender' = [sender EXCEPT ![r] = there]

\* On to the next event of the list.
Continue(r) ==
    /\ GotoSender(r, "next")
    /\ current' = [current EXCEPT ![r] = NoEvent]

SetStatus(e, value) == status' = [status EXCEPT ![e] = value]

\* Mutant: a status no sender looks for.
RecordEventPending(e) ==
    /\ status[e] = "absent"
    /\ SetStatus(e, "pending")
    /\ UNCHANGED <<cronVars, senderVars, sent>>

\* insertTasks and insertNewTasks: one row, by a command of its own.
RecordEvent(e) ==
    /\ status[e] = "absent"
    /\ SetStatus(e, "unlocked")
    /\ UNCHANGED <<cronVars, senderVars, sent>>

-----------------------------------------------------------------------------
(* SendNewPrTasksToTaskTracker *)

\* A select that fails ends the task; so does one that finds nothing.
GetPullRequestLinksTask(r) ==
    /\ place[r] = "task"
    /\ sender[r] = "select"
    /\ \/ /\ Lives(r)
          /\ todo' = [todo EXCEPT ![r] = {e \in Events : status[e] = "unlocked"}]
          /\ UNCHANGED past
       \/ /\ IF Lives(r) THEN Happens("fault") ELSE UNCHANGED past
          /\ UNCHANGED todo
    /\ Continue(r)
    /\ UNCHANGED <<lockVars, status, sent>>

\* LockTask looks the event up: one that is not unlocked is skipped, and so
\* is one whose lookup fails.
LockTaskSelect(r, e) ==
    /\ place[r] = "task"
    /\ sender[r] = "next"
    /\ e \in todo[r]
    /\ todo' = [todo EXCEPT ![r] = @ \ {e}]
    /\ \/ /\ Lives(r) /\ status[e] = "unlocked"
          /\ GotoSender(r, "lock")
          /\ current' = [current EXCEPT ![r] = e]
          /\ UNCHANGED past
       \/ /\ IF Lives(r) /\ status[e] = "unlocked" THEN Happens("fault") ELSE UNCHANGED past
          /\ UNCHANGED <<sender, current>>
    /\ UNCHANGED <<lockVars, status, sent>>

\* Mutant: the update does not lock the row.
LockTaskUpdateForgets(r) ==
    /\ place[r] = "task"
    /\ sender[r] = "lock"
    /\ GotoSender(r, "send")
    /\ UNCHANGED <<cronVars, status, todo, current, sent>>

\* The update asks for an unlocked row, but nobody counts the rows it changed.
LockTaskUpdate(r) ==
    /\ Lives(r)
    /\ sender[r] = "lock"
    /\ status' = [status EXCEPT ![current[r]] = IF @ = "unlocked" THEN "locked" ELSE @]
    /\ GotoSender(r, "send")
    /\ UNCHANGED <<cronVars, todo, current, sent>>

\* An update that fails may have locked the row; the event is skipped.
LockTaskUpdateFails(r) ==
    /\ place[r] = "task"
    /\ sender[r] = "lock"
    /\ IF Lives(r)
       THEN /\ Happens("fault")
            /\ status' \in {status, [status EXCEPT ![current[r]] = "locked"]}
       ELSE UNCHANGED <<past, status>>
    /\ Continue(r)
    /\ UNCHANGED <<lockVars, todo, sent>>

Delivered(e) == sent' = [sent EXCEPT ![e] = IF @ = 2 THEN 2 ELSE @ + 1]

\* No event is recorded with an empty payload (update_links.go:150,
\* insert_tasks.go:16), so the request is always made.
SendTask(r) ==
    /\ Lives(r)
    /\ sender[r] = "send"
    /\ Delivered(current[r])
    /\ GotoSender(r, "done")
    /\ UNCHANGED <<cronVars, status, todo, current>>

\* Mutant: the event of a request that failed is marked done.
SendTaskFailsIgnored(r) ==
    /\ place[r] = "task"
    /\ sender[r] = "send"
    /\ IF Lives(r) THEN Happens("fault") ELSE UNCHANGED past
    /\ UNCHANGED sent \/ Delivered(current[r])
    /\ GotoSender(r, "done")
    /\ UNCHANGED <<lockVars, status, todo, current>>

\* The tracker refuses, its answer is lost, or the context ends while the
\* request is under way.
SendTaskFails(r) ==
    /\ place[r] = "task"
    /\ sender[r] = "send"
    /\ IF Lives(r) THEN Happens("fault") ELSE UNCHANGED past
    /\ UNCHANGED sent \/ Delivered(current[r])
    /\ GotoSender(r, "unlock")
    /\ UNCHANGED <<lockVars, status, todo, current>>

\* Mutant: the row stays locked.
UnlockTaskSkipped(r) ==
    /\ Lives(r)
    /\ sender[r] = "done"
    /\ Continue(r)
    /\ UNCHANGED <<cronVars, status, todo, sent>>

\* Only a locked row becomes done.
UnlockTaskWithSuccess(r) ==
    /\ Lives(r)
    /\ sender[r] = "done"
    /\ status' = [status EXCEPT ![current[r]] = IF @ = "locked" THEN "done" ELSE @]
    /\ Continue(r)
    /\ UNCHANGED <<cronVars, todo, sent>>

UnlockTaskWithSuccessFails(r) ==
    /\ place[r] = "task"
    /\ sender[r] = "done"
    /\ IF Lives(r)
       THEN /\ Happens("fault")
            /\ status' \in {status, [status EXCEPT ![current[r]] = IF @ = "locked" THEN "done" ELSE @]}
       ELSE UNCHANGED <<past, status>>
    /\ GotoSender(r, "unlock")
    /\ UNCHANGED <<lockVars, todo, current, sent>>

\* handleErr: UnlockTask, whatever the row's status.
UnlockTask(r) ==
    /\ Lives(r)
    /\ sender[r] = "unlock"
    /\ SetStatus(current[r], "unlocked")
    /\ Continue(r)
    /\ UNCHANGED <<cronVars, todo, sent>>

\* Its error is ignored.
UnlockTaskFails(r) ==
    /\ place[r] = "task"
    /\ sender[r] = "unlock"
    /\ IF Lives(r) THEN Happens("fault") ELSE UNCHANGED past
    /\ Continue(r)
    /\ UNCHANGED <<lockVars, status, todo, sent>>

-----------------------------------------------------------------------------
SenderStep(r) ==
    \/ GetPullRequestLinksTask(r)
    \/ \E e \in Events : LockTaskSelect(r, e)
    \/ LockTaskUpdate(r) \/ LockTaskUpdateFails(r)
    \/ SendTask(r) \/ SendTaskFails(r)
    \/ UnlockTaskWithSuccess(r) \/ UnlockTaskWithSuccessFails(r)
    \/ UnlockTask(r) \/ UnlockTaskFails(r)

\* A sender lives as long as its run is at work on the task.
SendersFollow ==
    /\ sender' = [r \in Runs |-> IF place'[r] = "task" THEN sender[r] ELSE "select"]
    /\ todo' = [r \in Runs |-> IF place'[r] = "task" THEN todo[r] ELSE {}]
    /\ current' = [r \in Runs |-> IF place'[r] = "task" THEN current[r] ELSE NoEvent]

SenderReturns(r) ==
    /\ sender[r] = "next"
    /\ todo[r] = {}
    /\ TaskReturns(r)

Next ==
    \/ \E e \in Events : RecordEvent(e)
    \/ \E r \in Runs : SenderStep(r)
    \/ (CronStep \/ \E r \in Runs : SenderReturns(r)) /\ SendersFollow /\ UNCHANGED <<status, sent>>

Spec == Init /\ [][Next]_vars

(***************************************************************************)
(* Goroutines keep running.  A run is scheduled again and again and locks   *)
(* the row if it finds it free often enough; the tracker answers.  Events,  *)
(* misfortunes and administrators come when they please.                    *)
(***************************************************************************)
RunStep(r) ==
    \/ StartIfNotRunning(r) \/ SenderReturns(r) \/ TableStop(r)
    \/ UnlockCronJob(r) \/ UnlockCronJobFails(r) \/ WatchPoll(r)

Fairness ==
    \A r \in Runs :
        /\ SF_vars(LockCronJob(r) /\ SendersFollow /\ UNCHANGED <<status, sent>>)
        /\ WF_vars(RunStep(r) /\ SendersFollow /\ UNCHANGED <<status, sent>>)
        /\ WF_vars(SenderStep(r))

FairSpec == Spec /\ Fairness

-----------------------------------------------------------------------------
(***************************************************************************)
(* Properties                                                              *)
(***************************************************************************)

\* Each variable ranges over the values its counterpart can hold.
TypeOK ==
    /\ CronTypeOK
    /\ status \in [Events -> {"absent", "unlocked", "locked", "done"}]
    /\ sender \in [Runs -> {"select", "next", "lock", "send", "done", "unlock"}]
    /\ todo \in [Runs -> SUBSET Events]
    /\ current \in [Runs -> Events \cup {NoEvent}]
    /\ sent \in [Events -> 0 .. 2]

\* errors.go TaskAlreadyLockedError, and the lock of the cron task: the
\* tracker takes an event once at most, though processes crash, stop or cancel
\* a run half way; unless a command or a request fails while it may have been
\* carried out, or two runs meet after a forced unlock.
SentOnce == \A e \in Events : past \cap {"fault", "forced"} = {} => sent[e] <= 1

\* model.go StatusDone: an event is marked done only if the
\* tracker took it, whatever happens: crashes, failures of commands and
\* requests, and runs that work side by side after a forced unlock.
DoneWasSent == \A e \in Events : status[e] = "done" => sent[e] > 0

\* send.go: a locked event is in the hands of a run, which sets it to done or
\* unlocks it; nobody ever selects it otherwise.  It stays locked for ever when
\* its run cannot do so.
NoneStranded ==
    past = {} => \A e \in Events : status[e] = "locked" =>
        \E r \in Runs : current[r] = e /\ sender[r] \in {"send", "done"}

\* An event that is recorded is sent, unless a misfortune comes: a row of the
\* cron task that is left locked, for one, lets no run begin again.
EventsGetSent == \A e \in Events : status[e] = "unlocked" ~> sent[e] > 0 \/ past # {}
=============================================================================
