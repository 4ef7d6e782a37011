# Queues, graceful shutdown and locks in TLA+

This directory holds the TLA+ models of the parts of the server in which
goroutines, processes and shared stores interact: the work queues
(`modules/queue`), the life of the process (`modules/graceful`), the lock
pools (`modules/sync`), and the cron tasks of a cluster with the outbox one of them
empties (`services/cron`, `routers/private/task_tracker_sender`).  TLC checks the models on small instances; TLAPS proves
some of the results for every instance.  `PROJECT.json` lists the components,
the runs, the mutants, the source lines of every definition, the hazards, what
was found and the theorems.  Paths below are relative to `src/`.

    tlc -workers 2 -config MCWorkerPoolQueuePool.cfg MCWorkerPoolQueue
    tlapm BaseRedis_proofs.tla

## 1. The system

The repository is a Git forge (a fork of Gitea).  Most of it handles a request
over a database and a Git repository and has no protocol of its own.  What is
concurrent is a handful of mechanisms the rest is built upon.

| Component | State it keeps | Operations | With whom |
|---|---|---|---|
| **worker pool queue** `modules/queue/workergroup.go`, `workerqueue.go`, `base.go` | batch buffer, debounce timer, unbuffered channels, worker counters, three contexts | `Push`, dispatch of a batch, start and end of workers, handler and requeue, `FlushWithContext`, `RemoveAllItems`, `SetWorkerMaxNumber`, `ShutdownWait` | pops from a base queue; `ctxRun` is a child of the graceful manager's shutdown context, and `Run` registers `ShutdownWait` with `atShutdown` |
| **channel base queue** `base_channel.go` | a Go channel, a set and a mutex | `PushItem`, `PopItem`, `RemoveAll` | the worker pool queue |
| **Redis base queue** `base_redis.go` | a list and a set in Redis, a mutex in each process | the same | other processes of the cluster |
| **level base queue** `base_levelqueue*.go` | a list and a set in LevelDB | the same | the worker pool queue |
| **graceful manager** `modules/graceful/manager.go`, `manager_unix.go` | the state, four contexts, two wait groups, three lists of functions | signals, `doShutdown`, `doHammerTime`, `doTerminate`, `RunWith...`, `RunAt...` | everything that runs: servers, queues, cron |
| **graceful server** `server.go`, `server_hooks.go` | its state, a listener, a wait group of connections | `Serve`, `Accept`, `Close`, `awaitShutdown`, `doHammer` | the manager's contexts and its running wait group |
| **exclusive pool** `modules/sync/exclusive_pool.go` | a map of mutexes, a map of counts | `CheckIn`, `CheckOut` | pull requests, wikis and the like, one identity each |
| **status table** `modules/sync/status_pool.go` | a set under a lock | `StartIfNotRunning`, `Stop` | cron |
| **cron tasks** `services/cron/tasks.go`, `models/system/cron_job_lock.go` | a row with a lock and the UUID of a run | `RunWithUser`, its watcher, `UnlockCronJob`, `ForceUnlockCronJob` | other processes, through the database |
| **task tracker sender** `routers/private/task_tracker_sender/send.go`, `models/unit_links_sender/...` | an outbox table | read, lock, send, unlock | other senders, through the database |
| listeners and restart, process manager, pull request checker, actions, webhooks, web handlers | | | listed in `PROJECT.json` with the reason they are left out |

### What is hard, and what makes each part correct

- *Worker pool queue.*  An item passes through at least six hands: base queue,
  pop loop, buffer, offered batch, worker, and back on failure.  Each passage is
  a rendezvous that may be preempted by a flush, by the cancelled `ctxRun` or by
  a worker that leaves.  Correct means: every accepted item is in exactly one
  place; the two worker counters agree with the goroutines; a batch that waits
  has somebody to take it; a flush works alone; a shutdown puts back what it did
  not handle; nothing but a failure of the base queue itself loses an item; an item that can
  be handled is.
- *Base queues.*  A unique queue keeps a list and a set that no transaction
  joins.  Correct means: no item twice in the list, no item refused that is not
  there, the length respected, no call that blocks for ever.  No queue keeps all of it, and
  the properties say up to which race, failure or removal each does.
- *Graceful manager.*  `doShutdown` may be called at any moment by signals and
  panics.  Correct means: one shutdown, the contexts closed in order, terminate
  after the last server, the end of the process after everything, and an end.
- *Graceful server.*  A wait group counts connections while the hammer drives it
  below zero on purpose.  Correct means: connections are served before `Serve`
  returns, unless hammered, and `Serve` returns.
- *Cron tasks.*  Two locks, a row shared by the processes and an entry in a table of
  each, are taken and given back one after the other, while processes crash, are hammered or
  exit, and an administrator takes both away.  Correct means: one run at a time,
  and no row that nobody will unlock.
- *Outbox.*  The transactions a sender opens are not the ones its commands run
  in, nobody counts the rows an update changed, and errors are ignored on the way
  out.  Correct means: an event is sent, once, and none stays locked.
- *Exclusive pool.*  Mutexes come and go with their users.  Correct means:
  mutual exclusion for each identity, and nothing left behind.

## 2. The modules

`MC...` modules only name model values and small sets for TLC; each `.cfg`
beside them is one run.  Definitions whose comment begins with *Mutant:* are
plausible errors; they are part of no specification, and `PROJECT.json` names
the property each of them violates.

**`WorkerPoolQueue`** models `doRun` and all it calls.  `mpc` is where the main
loop stands (`loop` is the select of `doRun`, `dispatch`, `spawn` and `offer`
are the three steps of `doDispatchBatchToWorker`, `flush`, `flushwait` and
`drain` those of `doFlush`, `shutdown`, `collect`, `putback` or `lasthandle`
those of the deferred shutdown), `hpc` where each worker, or the main loop itself,
stands in `doWorkerHandle`.  The channels are unbuffered, so a send and the
receive that meets it are one step of both goroutines.  A batch and the base
queue are sets: no property depends on order.  `accepted`, `handled`, `lost` and
`removed` record what became of an item and guard nothing but that an item is
pushed once; `failed` records the items on which the base queue's last operation failed.  A
requeue may fail at any time, because the base queue is full or because its store
fails (`RequeueFail`), and so may the push that puts an item back
(`BasePushForShutdown`) and, with `PopMayFail`, a pop, with the item or without.  `Graceful` chooses who shuts the queue down: the
graceful manager, whose shutdown context ends `ctxRun` before `ShutdownWait` is
called, or `ShutdownWait` alone.

**`ItemLedger`** is the abstract specification: an item is new, waits, runs, and
ends handled, lost or removed.  `WorkerPoolQueue!ImplementsLedger` maps the
places of an item to its status; it says, for instance, that an item handled
never runs again and a removed one never comes back.

**`UniqueQueue`** is the abstract specification of a base queue: a sequence of bounded
length, `Push` at its end and `Pop` at its head, each in one step, and no push of an item it
holds until somebody calls `RemoveAll` or two pushes of one item overlap.  `BaseChannel!ChannelImplementsQueue`,
`BaseRedis!RedisImplementsQueue` and `BaseLevelQueueUnique!LevelImplementsQueue` map the
channel or list to it; a push takes effect at the send or `RPUSH`, and the steps on the set
beside it are stutters.  In a cluster the bound is the configured length and one item
for every other process.

**`BaseChannel`** has `PushItem` in its three steps (the lookup under the mutex,
the send, the insertion under the mutex), `PopItem` in two, and `RemoveAll`,
whose receive happens with the mutex held.  Any number of each run side by side, as
nothing in the code keeps them apart.  `raced` records the three races the
properties except, and guards nothing: pushes of one item that overlap (`pushers`), a
`RemoveAll` that clears the set while a popper holds an item (`removal`), and an item that
is gone before its pusher has told the set (`overtaken`).

**`BaseRedis`** has one action for every Redis command.  With `MayFail` a command
may fail, the two of `RemoveAll` included, whether it was carried out or not; with `MayCrash` a process may die
between two commands and start again; `past` records that there was a fault or a
removal, since the promises of the queue end there.  The mutex of a process is the fact that it
does one thing at a time.

**`BaseLevelQueueUnique`** has one action for every call into the `levelqueue`
library, whose queue and set have a lock each: `RPush` enters the set and then the
queue, `LPop` leaves the queue and then the set.  `RemoveAll` pops until the queue is
empty and then takes the members of a snapshot of the set out one by one; it gives up when a pop
fails.  No mutex keeps these apart (`base_levelqueue_common.go:70`).  The process
may die between two steps, and the database stays as it is; each call may also return an error,
whether it took effect or not, which ends the operation and undoes nothing.  `history` records
these, and a removal.

**`CronLock`** is one cron task that several processes schedule.  `holder` is the
row of `cron_job_lock`, `table` the processes whose `TaskStatusTable` has the task,
`place` where each run stands in `RunWithUser`.  A run is a slot: it begins again
when it has returned, with a new UUID, so a row that a run left locked is held by
`Gone`, whom no run can be.  The host's name and address, which the lock
writes and the unlock compares, are the set `misnamed` of the runs that wrote others than their
process began with: `UnlockCronJob` leaves their rows as they are.  Every way a run can end is an action: it returns, it panics, it finds
the task in the table, its process is hammered, exits or dies, its watcher brings the process
down.  `past` records the misfortunes (a command that
fails, a panic, a stop, a crash, a cancelled run, a forced lock, a host that is renamed or moved), which the configuration chooses among
(`May`) and bounds in kind (`MaxKinds`), never in number; the properties say after which of
them they claim nothing.

**`UnitLinksOutbox`** extends the lock with what the task *task_tracker* does
between `place` = task and its return: each event has a row with a `status`, and
the sender of each run stands somewhere in `SendNewPrTasksToTaskTracker`.  A step of the lock
takes the senders along (`SendersFollow`): one whose run has ended is gone, and its
event stays as it was.  Every command of a run whose context is cancelled fails; one whose context lives
fails by a `fault`, after it was carried out or before.  `sent` counts what the tracker
took.

**`GracefulManager`** lets every caller of `doShutdown` (`handleSignals`, a runner
that panics) go through its critical sections on its own; `closed` is the set of
cancelled contexts, `waiter` the goroutine `doShutdown` leaves behind, `timer`
the one that sleeps for `GracefulHammerTime`.  Runners and `RunAtTerminate`
functions register whenever they like; `late` records those that do when the wait for their
kind is over, and guards nothing.  `child` is the process started
by `doFork`, of which only the `SIGTERM` it sends back matters.

**`GracefulServer`** extends the manager and shares its variables: a server is one
of the runners the manager waits for.  `serve` is where `Serve` stands, `await`
where `awaitShutdown` does.  The wait group follows `sync.WaitGroup`: a `Done`
that panics leaves the counter negative, a waiter is released at zero, and
panics if the counter has changed when it wakes up.  A server may register as
late as a runner.  `ImplementsManager` says that the
composition is again a `GracefulManager`, whose runners are the manager's and `Server`:
the constructor of the refinement mapping, `WithServer`, adds to each of the manager's functions the entry
that the state of `Serve` stands for.

**`ExclusivePool`** has `CheckIn` in two steps (the maps under the pool's lock, then
the mutex of the identity) and `CheckOut` in one.

**`WorkerPoolQueue_proofs`**, **`WorkerPoolItems_proofs`**,
**`WorkerPoolOutcome_proofs`**, **`Graceful_proofs`**, **`BaseLocalQueue_proofs`**,
**`BaseRedis_proofs`**, **`ExclusivePool_proofs`** and **`UnitLinksOutbox_proofs`**
hold the theorems (section 4).

**`MCBaseQueues`** is the one `MC` module with a specification of its own: a base queue
is of one of the three kinds, so a behaviour is that of one of them while the
others stay as they were created.

## 3. The runs

Runs that TLC finishes without an error:

| Run | Configuration | Properties | What it shows |
|---|---|---|---|
| `pool` | `MCWorkerPoolQueuePool.cfg` | `TypeOK`, `ItemsConserved`, `CountersExact`, `OfferHasWorker`, `LastWorkerStays`, `ImplementsLedger` | Dispatch with a maximum of zero to two workers that changes at any time, a base queue that may refuse, fail and lose what it pops, and a shutdown by the graceful manager: no item is forgotten or duplicated, the counters agree with the goroutines, and the queue implements ItemLedger. |
| `shutdown` | `MCWorkerPoolQueueShutdown.cfg` | `DrainIsAlone`, `ShutdownKeepsItems`, `NothingLostWhileRunning`, `FlushCompletes` | A flush and a shutdown asked for by ShutdownWait, with a corrupted item, handlers that fail and a base queue that may refuse any push: the flush works alone and leaves nothing behind, the shutdown puts back every item that was neither handled nor refused by the base queue itself, and no other is lost while the queue runs. |
| `queue_live` | `MCWorkerPoolQueueLive.cfg` | `ItemsGetHandled`, `FlushReturns`, `ShutdownReturns` | If handlers return, every accepted item that can be handled is, unless the queue is shut down or emptied, and every flush request comes to an end; a shutdown returns even if they hang, if no flush is asked for. |
| `base_queues` | `MCBaseQueues.cfg` | `TypeOK`, `SetIsTruthful`, `RedisRefusesNothingLost`, `LevelSetIsTruthful`, `ChannelSetIsTruthful`, `ChannelImplementsQueue`, `RedisImplementsQueue`, `LevelImplementsQueue` | Each of the three unique base queues implements UniqueQueue, a first-in first-out queue of bounded length that accepts no item it holds until somebody calls RemoveAll or two pushes of one item overlap.  Channel, with two pushers, a popper and a remover side by side: at rest the set names the items of the channel, with three exceptions, each a race that is named.  Redis, with two processes, failing commands, crashes and removals: the list outgrows its length by less than one item for each process, and as long as no command fails an item the set names is in the list, with removals too.  Level, with three goroutines, failing steps, crashes and removals: until a removal the set names every item of the queue, and no other at rest until a step fails or the process dies. |
| `manager` | `MCGracefulManager.cfg` | `OneShutdown`, `ManagerLast`, `TerminateAfterServers`, `ShutdownCompletes` | Three signals of any kind, panicking runners, and registrations at any time: one shutdown, in order; the process ends last, but for those that registered when the wait for them was over, and it ends, unless a RunAtTerminate was overtaken by the shutdown. |
| `server` | `MCGracefulServer.cfg` | `TypeOK`, `ConnsAreServed`, `CounterExact`, `IdleServerEnds`, `ImplementsManager` | A server from start to end under signals and failures: connections are served before Serve ends, unless hammered, a drained server ends with the process, and the manager with its server implements the manager alone with one runner more. |
| `exclusive_pool` | `MCExclusivePool.cfg` | `MutualExclusion`, `LockLivesWithUsers`, `CheckInReturns` | Three instances and two identities: one at a time, counts exact, entries recycled, and whoever checks in gets in. |
| `unit_links_outbox` | `MCUnitLinksOutbox.cfg` | `TypeOK`, `OneRun`, `LockHasOwner`, `SentOnce`, `NoneStranded`, `DoneWasSent`, `EventsGetSent` | A cron task of three runs on two processes with its outbox, and any one of seven kinds of misfortune, as often as it comes: two runs work side by side only after a forced unlock, a row is left locked with nobody to unlock it only after five of them or beside an evicted run, an event is sent twice only if a command failed or the lock was forced, none is marked done that was not sent, and an event is sent if all goes well. |

### Bounds, and why they are enough

- *WorkerPoolQueue*: two or three items with batches of two, so that a full
  batch, a part of a batch and an item behind it all occur; two workers, so that
  one can end while the other works and the maximum can be zero, one or two (one
  worker where liveness is checked, since only the last one can be missed);
  one flusher.  The base queue may refuse any push of a handled item whatever `Length` is, but
  takes a new one only if it has room.  An item is pushed
  once (what `Items` bounds), but may be handled and requeued without bound.
- *BaseChannel*, *BaseRedis*, *BaseLevelQueueUnique*: two to four items and a length of two, so
  that the queue can be full with an item left over; two processes, the smallest
  cluster, or three goroutines, or two pushers, a popper and a remover; the number of crashes and failures unbounded.
- *GracefulManager*: two runners, one terminate function, and `MaxSignals` = 3:
  a signal, one that races it, and one more after the shutdown; runners and
  functions register at any time, before, in and after the waits.
- *GracefulServer*: two connections, one of which may come late; `MaxSignals` = 3.
- *CronLock*, *UnitLinksOutbox*: two runs on one process and one on another, so that a run meets
  another in the table of its process and in the row; one event, since nothing but a sender's
  list relates one event to another; one process that may stop, and an
  administrator on the other.  `MaxKinds` = 1: in one behaviour one
  kind of misfortune happens, any of the seven, as often as it likes.  With `MaxKinds` = 2 the
  safety properties hold as well (2.9 million states, too long for a regular run),
  and the theorems need no bound.
- *ExclusivePool*: three instances for two identities: a holder, a waiter and
  a newcomer, with as many mutex names as instances.

Deadlock is checked except where the program really ends or may have nothing
left to do: a queue that is shut down, a manager whose process ends; and in
`remove_all`, where a goroutine that waits for ever is what the run looks for.

### Fairness

A goroutine that can take a step takes one: weak fairness for each.  Strong
fairness is used for what the Go runtime promises beyond this: a ready case of a
`select` that comes round again and again is chosen at last, since `select`
picks at random; a `sync.Mutex` is starvation free; the base queues are FIFO,
so an item does not wait for ever behind others (`PopItem` in
`WorkerPoolQueue`, where the base queue is a set).  Callers owe nothing: no
push, signal, flush or removal has to come.  Handlers may hang in `FairSpec` of
the worker pool queue; that they return is a hypothesis (`HandlerFairness`) of the
properties that need it.  A cron task is scheduled again and again: strong
fairness for `LockCronJob`, since the row is free only at times; its sender goes
on and the tracker answers; nothing that goes wrong, and no event, has to come.  A connection ends at the latest after the hammer; a
runner returns once the shutdown context is cancelled, as its documentation
demands (`manager.go:58-66`).

## 4. What is proved

All theorems are about the specifications TLC checks, for every value of the
constants that satisfies the assumption of the module
(`WorkerPoolQueueAssumption`, `GracefulManagerAssumption`, `GracefulServerAssumption`,
`BaseChannelAssumption`, `BaseRedisAssumption`, `LevelAssumption`,
`ExclusivePoolAssumption`, `CronLockAssumption`, `UnitLinksOutboxAssumption`: finite sets of items, goroutines or
processes, positive lengths, model values outside the sets they stand beside, and no
maximum of workers beyond the identities there are for them).

### The worker pool queue

Three modules, each extending the one before it.

- `WorkerPoolQueue_proofs`: `TypeCorrect`, `CountersAreExact`, `OffersAreTaken`,
  `FlushIsAlone`, `GrowthIsBounded`, `TheLastWorkerStays`.  The types need
  `HandInv` (a goroutine that has an item in hand has one of `Items`).  The rest
  follows from `PoolInv`: both counters equal the cardinality of what they count,
  only a live worker is inside `doWorkerHandle`, `doRun` is inside it exactly
  when `mpc` says so, a dispatch returns to the loop or to a flush, and
  the workers' context is cancelled only during a flush.  The last three facts are what
  `OfferHasWorker` lacks to be inductive: a worker may leave an offer only if it is not the
  last or if its context is done, and that context is not cancelled while a batch is on offer.
- `WorkerPoolItems_proofs`: `ItemsAreConserved`.  The places of `Whereabouts` are a
  partition of `accepted`, and every step moves a set of items from one
  place to another, or splits it between two (a receive, which loses a corrupted item, and
  the last call of the handler); `MoveToKeepsPartition` and `MoveKeepsPartition`
  say once that this keeps a partition.  The invariant needs `HandsInv` (an idle
  goroutine has empty hands, else a new batch would overwrite items) and `FlowInv` (`doRun`
  holds a batch only until it is taken, with the buffer empty, so that neither
  `DispatchFull` nor `OfferEnds` overwrites anything).
- `WorkerPoolOutcome_proofs`: `FlushesComplete`; `NothingIsLostWhileRunning`, whatever
  the base queue refuses; `ShutdownKeepsTheItems`, if
  only `ShutdownWait` ends the queue (`OnlyShutdownWait`: no graceful manager, and
  a base queue that can be read).  `BufferInv` says where the buffer must be empty,
  `RunInv` that while the queue runs an item is put aside or given up only if the base queue failed
  on it, `KeepInv` that the shutdown context is there once `ctxRun` is done, and that until it
  expires nothing else is given up; `PutBackKeeps` is the step the two ways of putting an item back have in common.  The run `graceful_loss` shows that
  `OnlyShutdownWait` cannot be dropped.
  `QueueImplementsLedger`, the refinement.  What was accepted
  falls into five classes (waiting, running, handled, lost, removed) that the
  partition keeps apart; each step of the queue moves a set from one class to another
  as one step of `ItemLedger` does, or leaves the classes alone.

### The graceful manager and server

- `Graceful_proofs`: `ManagerTypeCorrect` and `ThereIsOneShutdown` for any number of
  runners, functions and signals; `TheManagerIsLast` and
  `TerminatesAfterServers` for all that registered before the wait for their kind was over.  The counter of running servers
  equals the number of runners inside; `ShutInv` follows the one winner of the
  state change to the goroutine it starts; `LastInv` says what each wait of this
  goroutine has left behind: nobody but those in `late`.
- `ServerTypeCorrect`, `OpenConnsAreServed` and `CounterIsExact`, for any number of
  connections beside them.  The manager's counting lemma is stated for runners *and*
  something else that is registered, so that it serves both specifications; the server
  adds that `awaitShutdown` hammers only after the hammer context, that `Serve` holds at most
  one connection it has not counted, and that the wait group counts the open ones
  until then, so that a wait that returns found none.
- `ServerIsWaitedFor`, `ServerBeforeTermination`: the two results about the end of the manager, with
  the server among those it waits for, unless it registered too late (`ServerStopped`).  `LastInvStep` takes its hypothesis as
  *a counter at zero finds nobody inside*, which holds of the runners alone and of the
  runners beside a server, so that one lemma serves both.
- `ServerIsARunner`: every step of the composition is one of the manager with one runner
  more, or a stutter.  A signal, a caller and a runner change the functions of the
  manager at an index that is not `Server`, and `WithServer` keeps what
  they change; `ServeRegister` enters and `ServeReturn` leaves; every other step of the
  server changes no place of `ServerRuns`.
- `ShutdownIsNeverStuck`: the safety half of `ShutdownCompletes`.  `WonInv`: the caller who has
  changed the state is there until the goroutine that ends the process has begun; then
  each wait group that is not empty has a member (the counting lemmas), which has a step to
  take, unless it is `Stranded`.
- `ServeIsNeverStuck`: the safety half of `IdleServerEnds`.  Until the hammer, a `Serve` that
  has returned from accepting waits exactly while a connection is open, since the
  counter is exact: the last `Done` releases it, and no counter passes zero.

### The base queues and the exclusive pool

- `BaseLocalQueue_proofs!TypeCorrect`: the types, and the channel within its
  capacity.
- `BaseLocalQueue_proofs!ChannelSetTruthful`: for any number of pushers, poppers and
  removers side by side.  An item is *vouched for* if the set names it or its pusher is about to tell
  the set.  Until pushes of one item overlap, or a `RemoveAll` clears the set beside a popper (`Orderly`),
  an item in the channel is vouched for, what a pusher is about to send is not, and what a
  popper has in hand is and is in no other place (`OrderlyInv`); a remover
  that comes to clear the set finds in the channel only what is about to be added (`ClearInv`), because
  nothing enters the set while it holds the mutex.  `TruthInv` is the converse: until a name was
  overtaken, what is vouched for is in the channel or in the hands of a popper, or `RemoveAll` is at work.
- `BaseLocalQueue_proofs!ChannelIsQueue`, `LevelIsQueue`, `BaseRedis_proofs!ClusterImplementsQueue`: the
  three queues implement `UniqueQueue`.  Each step is a `Push`, a `Pop`, a `RemoveAll` or a stutter;
  what makes a step on the list a `Push` is the strengthening of the theorem on
  duplicates (the item about to be pushed is not in the list) and, for the
  cluster, the count of `OvershootIsBounded` (the list is shorter than the bound before the step); for
  the channel the guard of the send; the step at which a channel queue stops being unique, because
  pushes overlap or a set is cleared beside a popper, is a `PushesOverlap` or a `RemoveAll`.  A level queue has no bound but its length and one
  item for every other goroutine, by the same count.  The initial state
  chooses `unique`, so that a channel queue that is not is covered as well.
- `BaseLocalQueue_proofs!LevelUnique`, `LevelSetTruthful`, `LevelTypeCorrect`: the
  missing mutex does no harm to a push and a pop.  The strengthening: what is in the queue, or on its way into it or
  out of the set, is in the set, and in one of these places only, whatever step fails and
  whenever the process dies; until a failure, a crash or a
  removal the set has nothing else.  The run `level_remove_all` shows what it does to
  `RemoveAll`.
- `BaseRedis_proofs!TypeCorrect`.
- `BaseRedis_proofs!ClusterNoDuplicates`: for any number of processes, with
  failures and crashes, no item is twice in the list until somebody calls
  `RemoveAll`.  The strengthening: what is in the list, or is about to be pushed, or was popped and
  is still to be taken out of the set, is in the set, and these three exclude one
  another; a crash only leaves more in the set.
- `BaseRedis_proofs!ClusterSetIsTruthful`: for any number of processes, until
  something fails or is removed, the set names exactly the items of the list
  whenever no operation is under way.  The strengthening adds that what is in the set is in
  the list or in the hands of a process between two commands.
- `BaseRedis_proofs!ClusterRefusesNothingLost`: with removals, as long as no command fails.  The
  strengthening (`KeptInv`) says that an item of the set is in the list, that a process is
  about to push it or to take it out of the set, or that a removal still has to clear the
  set; the second `DEL` clears all of it, and what others push before it is in the list
  and no longer in the set, a duplicate to come and not an item refused.
- `BaseRedis_proofs!OvershootIsBounded`: the list never outgrows its length by
  as many items as there are processes.  The strengthening counts the processes
  between `LLEN` and `RPUSH` together with the list; the last one to look saw a list
  shorter than `Length`.
- `ExclusivePool_proofs!PoolIsExclusive`, `LocksLiveWithUsers`: from one invariant.  The strengthening is that the mutex an instance waits for or
  holds is the one in the map, that maps of different identities hold different
  mutexes, and that a mutex is locked if and only if somebody with it is inside.
  `NobodyIsForgotten`, the safety half of `CheckInReturns`, follows from it too: whoever holds
  the mutex an instance waits for has that instance's identity.

### The cron lock and the outbox

`UnitLinksOutbox_proofs`, for any number of runs, processes and events and any
number of misfortunes of every kind together (`MaxKinds` is a parameter).

- `RunsApart`, `LockIsOwned`: from `CronInv`, kept by every step of the lock and by the
  steps of the outbox, which change nothing of it but `past`.  `OneRun` needs that a run anywhere between
  its lock and its unlock has the row or was evicted.  `LockHasOwner` is an action
  property and needs most: as long as nothing but cancellations and forced unlocks happens, every row carries the
  host values of its process (`SparedInv`), and a process has the
  task in its table only for a run of its own that holds the row or was evicted, so that a run turned away
  at the table with the row in hand has met an evicted one (`FindsEvicted`).
- `EventSentOnce`: if no command fails and no lock is forced, one run at most is at work, so
  what its sender believes of the row in its hands is true; an event that is unlocked has never been
  sent; and a sender that comes to unlock an event has a cancelled context,
  which stays cancelled (`CancelledStays`), so that it cannot.
- `EventNotStranded`: if nothing happens, a run leaves its work only at the end of its
  list (`WorkGoesOn`), where it has no event in hand.
- `DoneEventWasSent`: under all misfortunes, forced unlocks included.  The strengthening is that a
  sender that comes to mark its event done has sent it, which no step of another
  run can take back.
- `OutboxTypeCorrect`.

Out of the prover's reach, and checked by TLC only: liveness under fairness and
anything that needs `ENABLED` (`ItemsGetHandled`, `FlushReturns`,
`ShutdownReturns`, `ShutdownCompletes`, `CheckInReturns`,
`IdleServerEnds`, `EventsGetSent`).  Every safety property of a passing run, action
property and refinement is proved.  For `CheckInReturns`,
`ShutdownCompletes` and `IdleServerEnds` the half that does not depend on fairness is proved too: whoever is
waited for is there and has a step to take (`NobodyIsForgotten`, `ShutdownIsNeverStuck`, `ServeIsNeverStuck`); that it takes the step is left to TLC.

## 5. Where the code and its words differ

Each of these is a run with one property, taken from a comment or a document,
that TLC finds violated (`findings` in `PROJECT.json` quotes both sides):

- `graceful_loss` (`ShutdownKeepsItems`, modules/queue/workergroup.go:274): When the graceful manager shuts the queue down, items are lost between the end of ctxRun and the start of ShutdownWait.
- `remove_all` (`PushReturns`, modules/queue/base_channel.go:123): RemoveAll blocks with the mutex held when a popper takes the item it saw, and every push blocks with it.
- `restart` (`HammerHonoured`, modules/graceful/manager_unix.go:250): In a graceful restart the child's SIGTERM hammers the parent at once.
- `level_remove_all` (`LevelRefusesNothingLost`, modules/queue/base_levelqueue_common.go:70): RemoveAll of the level queue, whose mutex the popper does not take, gives up without clearing the set when the popper takes the last item: those it removed before are refused for ever.

The models show more of the kind; the properties except them, each by a name for
what happened, or the configuration does by the values of its constants, and a reader should know where:

- A running queue loses an item its handler returns whenever the base queue refuses it,
  because it is full or because Redis or the database failed (`workergroup.go:107`), and a shutdown one
  that it cannot put back for the same reason (`workergroup.go:125`).
  A level queue whose set fails after the list gave an item up loses it in the pop
  (`base_levelqueue_common.go:62`).  `NothingLostWhileRunning` and `ShutdownKeepsItems` except these items (`failed`)
  and no others.
- A shutdown waits for ever behind a flush that waits for a hanging handler
  (`workergroup.go:182`, `workerqueue.go:194`).  `ShutdownReturns` is checked
  without a flusher, and for a queue shut down by `ShutdownWait` alone: when `ctxRun`
  ended first, `doRun` hands what is left to the handler without a limit of time
  (`workergroup.go:287`).
- In the channel queue an item that is popped before its pusher adds it to the
  set stays in the set and is refused from then on (`base_channel.go:58`).  Two pushes of one item that
  overlap may both send it (`base_channel.go:48`; a worker's requeue is such a push), and a `RemoveAll` that clears the
  set while the popper has an item in hand lets the item be pushed anew, whose name the popper then
  takes out of the set, so that it may be pushed once more (`base_channel.go:127`).  `ChannelSetIsTruthful` and
  `ChannelImplementsQueue` name the three in `raced`, and claim that nothing else does harm.
- In the level queue an error of the database between the set and the list leaves
  a name without an item, which is refused from then on (`base_levelqueue_common.go:43`).  `LevelSetIsTruthful` claims
  after one only that the set misses no item of the queue.
- In the Redis queue a crash or an error between the two `DEL`s of `RemoveAll`
  leaves a set that names items the list does not hold, which are refused from then on; the
  comment at `base_redis.go:128` prefers duplicates.  `RedisRefusesNothingLost` claims what
  the order of the two achieves: nothing is refused for ever while commands succeed.
- `SIGUSR2` cancels the hammer context of a process nobody shuts down
  (`manager_unix.go:194`), and so does a second caller of `doShutdown` that comes
  between the change of the state and the cancellation of the shutdown context
  (`manager.go:171`); the order of closure documented at `manager.go:242` holds
  for the contexts after these two, which is what `OneShutdown` says.
- A function that `RunAtTerminate` has counted and not yet listed when `doTerminate` walks the
  list is waited for and never run, and the process does not end (`manager.go:119`).  `ShutdownCompletes` excepts
  exactly this (`Stranded`).  A runner that starts after `WaitForServers` runs while the process
  terminates (`manager.go:104`, against `manager.go:257`), and a function that is counted after
  `WaitForTerminate` when main has returned; cron's `RunWithUser` may be such a runner (`tasks.go:150`).
  `TerminateAfterServers` and `ManagerLast` except those who came so late (`late`), and
  nobody who came earlier.  A function given to `atShutdown` after
  `doShutdown` is never run (`manager.go:138`).
- `doHammer` takes the server's wait group below zero: `srv.wg.Wait` in `Serve`
  may find it changed and panic, or, when the counter was zero before `Serve` came to
  wait, block for ever (`server_hooks.go:68`).  `IdleServerEnds` excepts a server
  that is hammered before `Serve` returns.
- The watcher of a cron task logs the name of the row it could not read: a failed
  poll is a nil dereference, and ends the process (`tasks.go:165`).  The watcher of a
  task that succeeded never ends, so every hammer finds some (`tasks.go:161`).  The
  model has the step (`WatchFails`); `OneRun` and `SentOnce` hold in spite of it.
- A process that is shut down while a cron task runs may exit, or be hammered, before
  the row is unlocked (`tasks.go:135`, outside of `RunWithShutdownContext`): no run of the
  task can begin until an administrator forces the lock.  A crash and a lost
  reply do the same.  `LockHasOwner` excepts them.
- A row is unlocked only where the host's name and address are those the process read when it
  began (`cron_job_lock.go:140`), but locked with those it reads at the time
  (`cron_job_lock.go:95`): on a host that was renamed, or has another address, the run ends and the row stays
  locked.  After a forced unlock a run may find the evicted one in the table, and leaves its row
  locked too (`tasks.go:115`).  `LockHasOwner` names both, and `EventsGetSent` is about a host that does neither.
- A sender whose context is cancelled cannot unlock its event either
  (`send.go:159`), and nothing looks for locked events: it is never sent.
  `NoneStranded` and `EventsGetSent` are about behaviours in which nothing goes wrong.
- An event that was sent and could not be set to done is sent again (`send.go:143`), as
  is one whose answer was lost.  `SentOnce` excepts a failed command.
- Events are selected without an order (`get_sender_tasks.go:15`): the tracker may take
  the deletion of a link before its addition.  No property claims an order.
- A shutdown that comes before `Serve` sets its state leaves the listener open
  (`server_hooks.go:35`); `IdleServerEnds` is about a closed listener.

## 6. What is not modelled, and assumptions

- *Worker pool queue*: the immediate (dummy) queue, for tests only, whose `Push`
  runs the handler in the caller; an item that is pushed a second time, so that a
  unique base queue refuses a requeue because it already has the item (the item is then there,
  and `RequeueFail` and the put-back drop the one in hand as they do after any other
  error); a panic of the handler, which counts as handled
  in the code (`safeHandler` recovers and returns nothing) and in the model.
- *Redis*: a command is sent at most once.  The client library may send one
  again when its reply is lost (`modules/nosql/manager_redis.go:168`), and an
  `RPUSH` would then be applied twice; `RedisImplementsQueue` is a claim about the
  protocol without this.  `Close` is left out: only tests call it.
- *Manager*: the wait group of the listeners to create and the startup timeout
  (its call of `doShutdown` is one more caller, like a runner that panics), the
  panic of a `sync.WaitGroup` that is added to while a wait on it returns,
  `RunAtHammer`, which nobody calls, the notifications of systemd.
- *Server*: TLS and the proxy protocol wrap the listener and change nothing in
  its life; write deadlines are data.
- *Level queue*: `Close`, which only tests call, and the queue that is not
  unique (one list under the library's lock).
- *Cron*: one task at a time, since tasks share neither row nor table entry; the
  schedule (a run may begin at any time).  Of the values in the row the UUID is the run's
  identity, and the host's name and address are as the process began with, or not (`misnamed`).  The run
  that "force" starts after it has cleared the lock is one more run.
- *Outbox*: what is in an event.  `insertTasks` passes the user's name and the URL of
  the pull request to each other's column (`update_links.go:154-176`), which is
  data.  Events are recorded one at a time, each by a command of its own: `insertTasks` uses
  `u.engine` and not the session of the `WithTx` around it (`update_links.go:106`, `126`, `166`), so the change of
  the links and its event are not one transaction; no property speaks of the links.  A
  request for an empty list of links succeeds without being made (`pullrequests.go:97-99`), which
  no recorded event asks for (`update_links.go:150` records nothing for no links, and
  `models/pull_request_sender/task_tracker_db/insert_tasks.go:16` always one status).  The HTTP client has no timeout of its own
  (`unit_links_sender.go:37`), so a tracker that never answers keeps the run, and
  the row, for ever; in the model it answers (`Fairness`).
- The parts listed as `not_modelled` in `PROJECT.json`, with the reason for each.

## 7. Plan

The order follows the importance of what depends on a part.

1. Done: `WorkerPoolQueue` with `ItemLedger`, `BaseChannel`, `BaseRedis`,
   `GracefulManager`, `GracefulServer` (which extends the manager), and
   `ExclusivePool`; proofs about all of them.
2. Done: `CronLock` with the watcher, the forced unlock and the status table
   inside; `UnitLinksOutbox` upon it; `BaseLevelQueueUnique`; the safety of the
   server, the level queue, the lock and the outbox proved.
3. Done: `UniqueQueue`, which the three base queues are proved to implement; the manager
   with its server proved to be a manager; the safety halves of four liveness properties; what
   is done was sent, under every misfortune.
4. Done: what the code does not promise is in the models and not kept out of them:
   base queues and databases that fail at any step, pushes, pops and removals of the channel
   side by side, registrations after a shutdown has begun, and a host whose name or
   address changes; the properties name what they except, and the theorems need no assumption about the callers
   but one (`OnlyShutdownWait`).
5. Next: an abstract lock for each identity, which `ExclusivePool` implements, and an outbox that
   sends at once, which `UnitLinksOutbox` implements while nothing fails; the safety half
   of `FlushReturns`.
6. What a further step would take up: an item that is pushed more than once; the order of events
   in the outbox, once the code has one; the startup timeout of the manager.  The remaining parts have no
   protocol of their own to check (`PROJECT.json` gives the reason for each).
