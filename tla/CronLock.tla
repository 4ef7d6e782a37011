------------------------------ MODULE CronLock ------------------------------
(***************************************************************************)
(* services/cron/tasks.go with models/system/cron_job_lock.go: one cron     *)
(* task that every process of a cluster schedules.  Two locks keep its runs *)
(* apart: a row of the table cron_job_lock, shared by the processes, and    *)
(* the process's own TaskStatusTable.  A run takes the row, then the table  *)
(* entry, does its work in the shutdown context of the graceful manager,    *)
(* and gives both back in the opposite order.                               *)
(*                                                                          *)
(* The row names its holder by a UUID drawn for the run.  A member of Runs  *)
(* is a slot for one run after another on the same process, so the row of   *)
(* a run that ended without unlocking is held by Gone: no run has its UUID. *)
(*                                                                          *)
(* Database commands go through db.DefaultContext, which is the hammer      *)
(* context (cmd/web.go:182): once a process is hammered they all fail.      *)
(***************************************************************************)
EXTENDS Integers, FiniteSets

CONSTANTS
    Runs,       \* goroutines in RunWithUser
    Processes,  \* processes that share the database
    HostOf,     \* the process of each run
    Admins,     \* processes whose administrator uses the cron page
    Mortal,     \* bound: the processes that shut down or die, ...
    May,        \* ... what else may happen, among Misfortunes, ...
    MaxKinds,   \* ... and how many kinds of it in one behaviour
    NoRun,      \* the row is unlocked
    Gone        \* the row is locked, and no run has its UUID

\* "moved": the host has another name or address than when the process began.
Misfortunes == {"fault", "crash", "panic", "stop", "forced", "cancel", "moved"}

ASSUME CronLockAssumption ==
    /\ HostOf \in [Runs -> Processes]
    /\ Admins \subseteq Processes
    /\ Mortal \subseteq Processes
    /\ May \subseteq Misfortunes
    /\ MaxKinds \in Nat
    /\ NoRun \notin Runs
    /\ Gone \notin Runs \cup {NoRun}

VARIABLES
    holder,     \* the row: lock and process_uuid
    proc,       \* each process: "up", "shutdown", "hammer" or "down"
    table,      \* the processes whose TaskStatusTable has the task
    place,      \* where each run stands
    cancelled,  \* runs whose context the watcher or an administrator cancelled
    watching,   \* runs whose watcher polls the row
    leftover,   \* processes with a watcher that outlived its run
    clearing,   \* processes between the two steps of a forced unlock
    misnamed,   \* runs whose row has other host values than UnlockCronJob asks for
    evicted,    \* history: runs the row was taken from by a forced unlock
    past        \* history: what has happened, among Misfortunes

lockVars == <<holder, proc, table, place, cancelled, watching, leftover, clearing, misnamed, evicted>>
cronVars == <<lockVars, past>>

CronInit ==
    /\ holder = NoRun
    /\ proc = [p \in Processes |-> "up"]
    /\ table = {}
    /\ place = [r \in Runs |-> "idle"]
    /\ cancelled = {} /\ watching = {} /\ leftover = {} /\ clearing = {}
    /\ misnamed = {} /\ evicted = {}
    /\ past = {}

RunsOf(p) == {r \in Runs : HostOf[r] = p}

\* The process is there, and its database commands get through.
Reaches(p) == proc[p] \in {"up", "shutdown"}

\* The run's context: the graceful manager's shutdown context is its parent.
Cancelled(r) == r \in cancelled \/ proc[HostOf[r]] # "up"

Happens(what) ==
    /\ what \in May
    /\ past' = past \cup {what}
    /\ Cardinality(past') <= MaxKinds

Goto(r, there) == place' = [place EXCEPT ![r] = there]

\* The run ends; a row it still holds has lost its owner.
Leave(r) ==
    /\ Goto(r, "idle")
    /\ evicted' = evicted \ {r}
    /\ cancelled' = cancelled \ {r}
    /\ misnamed' = misnamed \ {r}

-----------------------------------------------------------------------------
(* RunWithUser *)

\* A tick, the start of the process or an administrator: the update where
\* lock = false decides.  A run that finds the row locked returns.  The host's
\* name and address are asked for again, and written into the row.
LockCronJob(r) ==
    /\ place[r] = "idle"
    /\ Reaches(HostOf[r])
    /\ holder = NoRun
    /\ holder' = r
    /\ Goto(r, "start")
    /\ \/ UNCHANGED <<misnamed, past>>
       \/ Happens("moved") /\ misnamed' = misnamed \cup {r}
    /\ UNCHANGED <<proc, table, cancelled, watching, leftover, clearing, evicted>>

\* The update is carried out but its reply is lost: the run returns.
LockCronJobFails(r) ==
    /\ place[r] = "idle"
    /\ Reaches(HostOf[r])
    /\ holder = NoRun
    /\ Happens("fault")
    /\ holder' = Gone
    /\ UNCHANGED <<proc, table, place, cancelled, watching, leftover, clearing, misnamed, evicted>>

\* A run that finds its task in the table returns, and leaves the row locked.
StartIfNotRunning(r) ==
    /\ place[r] = "start"
    /\ IF HostOf[r] \in table
       THEN /\ Leave(r)
            /\ holder' = IF holder = r THEN Gone ELSE holder
            /\ UNCHANGED <<table, watching>>
       ELSE /\ table' = table \cup {HostOf[r]}
            /\ Goto(r, "task")
            /\ watching' = watching \cup {r}
            /\ UNCHANGED <<holder, evicted, cancelled, misnamed>>
    /\ UNCHANGED <<proc, leftover, clearing, past>>

\* The watcher of a run that is no longer in progress polls for ever.
EndTask(r) ==
    /\ place[r] = "task"
    /\ Goto(r, "stop")
    /\ watching' = watching \ {r}
    /\ leftover' = IF r \in watching THEN leftover \cup {HostOf[r]} ELSE leftover

TaskReturns(r) ==
    /\ EndTask(r)
    /\ UNCHANGED <<holder, proc, table, cancelled, clearing, misnamed, evicted, past>>

\* RunWithShutdownContext recovers, and shuts the process down.
TaskPanics(r) ==
    /\ HostOf[r] \in Mortal
    /\ EndTask(r)
    /\ Happens("panic")
    /\ proc' = [proc EXCEPT ![HostOf[r]] = IF @ = "up" THEN "shutdown" ELSE @]
    /\ UNCHANGED <<holder, table, cancelled, clearing, misnamed, evicted>>

\* Mutant: the task stays in the table.
TableStopForgotten(r) ==
    /\ place[r] = "stop"
    /\ Goto(r, "unlock")
    /\ UNCHANGED <<holder, proc, table, cancelled, watching, leftover, clearing,
                   misnamed, evicted, past>>

\* The deferred call: TaskStatusTable.Stop ...
TableStop(r) ==
    /\ place[r] = "stop"
    /\ table' = table \ {HostOf[r]}
    /\ Goto(r, "unlock")
    /\ UNCHANGED <<holder, proc, cancelled, watching, leftover, clearing,
                   misnamed, evicted, past>>

\* Mutant: any row is unlocked, whatever its process_uuid.
UnlockCronJobAny(r) ==
    /\ place[r] = "unlock"
    /\ holder' = NoRun
    /\ Leave(r)
    /\ UNCHANGED <<proc, table, watching, leftover, clearing, past>>

\* Mutant: no row is unlocked.
UnlockCronJobForgets(r) ==
    /\ place[r] = "unlock"
    /\ holder' = IF holder = r THEN Gone ELSE holder
    /\ Leave(r)
    /\ UNCHANGED <<proc, table, watching, leftover, clearing, past>>

\* ... and UnlockCronJob, where process_uuid is the run's and the host values
\* are those the process read when it began: no other row is changed.
UnlockCronJob(r) ==
    /\ place[r] = "unlock"
    /\ Reaches(HostOf[r])
    /\ holder' = IF holder # r THEN holder ELSE IF r \in misnamed THEN Gone ELSE NoRun
    /\ Leave(r)
    /\ UNCHANGED <<proc, table, watching, leftover, clearing, past>>

\* It fails in a process that is hammered, and may fail in any.
UnlockCronJobFails(r) ==
    /\ place[r] = "unlock"
    /\ IF Reaches(HostOf[r]) THEN Happens("fault") ELSE UNCHANGED past
    /\ holder' = IF holder = r THEN Gone ELSE holder
    /\ Leave(r)
    /\ UNCHANGED <<proc, table, watching, leftover, clearing>>

-----------------------------------------------------------------------------
(* The end of a process *)

Die(p) ==
    /\ proc' = [proc EXCEPT ![p] = "down"]
    /\ place' = [r \in Runs |-> IF r \in RunsOf(p) THEN "idle" ELSE place[r]]
    /\ holder' = IF holder \in RunsOf(p) THEN Gone ELSE holder
    /\ table' = table \ {p}
    /\ leftover' = leftover \ {p}
    /\ clearing' = clearing \ {p}
    /\ cancelled' = cancelled \ RunsOf(p)
    /\ misnamed' = misnamed \ RunsOf(p)
    /\ watching' = watching \ RunsOf(p)
    /\ evicted' = evicted \ RunsOf(p)

Crash(p) ==
    /\ p \in Mortal
    /\ proc[p] # "down"
    /\ Happens("crash")
    /\ Die(p)

Shutdown(p) ==
    /\ p \in Mortal
    /\ proc[p] = "up"
    /\ Happens("stop")
    /\ proc' = [proc EXCEPT ![p] = "shutdown"]
    /\ UNCHANGED <<holder, table, place, cancelled, watching, leftover, clearing, misnamed, evicted>>

\* The manager's timer, or no server left to wait for.
Hammer(p) ==
    /\ proc[p] = "shutdown"
    /\ proc' = [proc EXCEPT ![p] = "hammer"]
    /\ UNCHANGED <<holder, table, place, cancelled, watching, leftover, clearing,
                   misnamed, evicted, past>>

\* The manager waits for the task, not for the steps before and after it.
Exit(p) ==
    /\ proc[p] = "hammer"
    /\ \A r \in RunsOf(p) : place[r] # "task"
    /\ Die(p)
    /\ UNCHANGED past

Restart(p) ==
    /\ proc[p] = "down"
    /\ proc' = [proc EXCEPT ![p] = "up"]
    /\ UNCHANGED <<holder, table, place, cancelled, watching, leftover, clearing,
                   misnamed, evicted, past>>

-----------------------------------------------------------------------------
(* The watcher of a run *)

\* A row with another UUID cancels the run.
WatchPoll(r) ==
    /\ r \in watching
    /\ Reaches(HostOf[r])
    /\ holder # r
    /\ cancelled' = cancelled \cup {r}
    /\ watching' = watching \ {r}
    /\ UNCHANGED <<holder, proc, table, place, leftover, clearing,
                   misnamed, evicted, past>>

\* A poll that fails returns no row, whose name is logged: a nil dereference
\* in a goroutine nobody recovers.
WatchFails(p) ==
    /\ proc[p] # "down"
    /\ p \in leftover \/ watching \cap RunsOf(p) # {}
    /\ IF Reaches(p) THEN Happens("fault") ELSE UNCHANGED past
    /\ Die(p)

-----------------------------------------------------------------------------
(* The administrator *)

\* The process monitor.
CancelProcess(r) ==
    /\ HostOf[r] \in Admins
    /\ place[r] = "task"
    /\ Happens("cancel")
    /\ cancelled' = cancelled \cup {r}
    /\ UNCHANGED <<holder, proc, table, place, watching, leftover, clearing, misnamed, evicted>>

\* "clear" and "force": ForceUnlockCronJob.  An error, which may come though
\* the row is unlocked, ends the request there ...
ForceUnlock(p) ==
    /\ p \in Admins
    /\ p \notin clearing
    /\ Reaches(p)
    /\ Happens("forced")
    /\ holder' = NoRun
    /\ evicted' = evicted \cup ({holder} \cap Runs)
    /\ clearing' \in {clearing \cup {p}} \cup (IF "fault" \in May THEN {clearing} ELSE {})
    /\ UNCHANGED <<proc, table, place, cancelled, watching, leftover, misnamed>>

\* ... then TaskStatusTable.Stop, in the administrator's own process.
ForceStop(p) ==
    /\ p \in clearing
    /\ clearing' = clearing \ {p}
    /\ table' = table \ {p}
    /\ UNCHANGED <<holder, proc, place, cancelled, watching, leftover, misnamed, evicted, past>>

-----------------------------------------------------------------------------
\* Everything but the end of the task's own work.
CronStep ==
    \/ \E r \in Runs :
          \/ LockCronJob(r) \/ LockCronJobFails(r) \/ StartIfNotRunning(r) \/ TaskPanics(r)
          \/ TableStop(r) \/ UnlockCronJob(r) \/ UnlockCronJobFails(r)
          \/ WatchPoll(r) \/ CancelProcess(r)
    \/ \E p \in Processes :
          \/ Crash(p) \/ Shutdown(p) \/ Hammer(p) \/ Exit(p) \/ Restart(p)
          \/ WatchFails(p) \/ ForceUnlock(p) \/ ForceStop(p)

CronNext == CronStep \/ \E r \in Runs : TaskReturns(r)

CronSpec == CronInit /\ [][CronNext]_cronVars

-----------------------------------------------------------------------------
(***************************************************************************)
(* Properties                                                              *)
(***************************************************************************)

\* Each variable ranges over the values its counterpart can hold.
CronTypeOK ==
    /\ holder \in Runs \cup {NoRun, Gone}
    /\ proc \in [Processes -> {"up", "shutdown", "hammer", "down"}]
    /\ table \subseteq Processes /\ leftover \subseteq Processes /\ clearing \subseteq Processes
    /\ place \in [Runs -> {"idle", "start", "task", "stop", "unlock"}]
    /\ cancelled \subseteq Runs /\ watching \subseteq Runs
    /\ misnamed \subseteq Runs /\ evicted \subseteq Runs
    /\ past \subseteq Misfortunes

\* cron.go:23 "Prevent duplicate running tasks.": of two runs at work on the
\* task, in one process or in two, one has been evicted by an administrator.
\* No crash, failed command or shutdown lets two run beside each other.
OneRun ==
    \A r, s \in Runs :
        place[r] = "task" /\ place[s] = "task" /\ r # s => r \in evicted \/ s \in evicted

\* At tasks.go:115: the run finds, in the table of its process, one the row
\* was taken from that has not given the entry back.
FindsEvicted(r) ==
    /\ place[r] = "start"
    /\ holder = r
    /\ \E s \in evicted \ {r} :
          HostOf[s] = HostOf[r] /\ place[s] \in {"task", "stop"}

\* tasks.go RunWithUser: a step leaves the row locked with nobody to unlock it
\* only if a command has failed, a process has stopped, panicked or died, or
\* its host was given another name or address; or in a run that returns
\* without unlocking because an evicted one is still at work beside it.
LockHasOwner ==
    [][holder # Gone /\ holder' = Gone =>
          \/ past' \ {"cancel", "forced"} # {}
          \/ \E r \in Runs : FindsEvicted(r)]_cronVars
=============================================================================
