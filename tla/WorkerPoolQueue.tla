-------------------------- MODULE WorkerPoolQueue --------------------------
(***************************************************************************)
(* modules/queue/workergroup.go and workerqueue.go: a queue that pops items *)
(* from a base queue, groups them into batches and hands the batches to a   *)
(* pool of workers that grows and shrinks with the load.                    *)
(*                                                                          *)
(* The goroutines are the pop loop (popItemByChan), the main loop (doRun),  *)
(* which also runs doDispatchBatchToWorker, doFlush and the deferred        *)
(* shutdown, the workers, and the callers of Push, FlushWithContext,        *)
(* RemoveAllItems, SetWorkerMaxNumber and ShutdownWait.  batchChan,         *)
(* flushChan and popItemChan are unbuffered, so a send and its receive are  *)
(* one step of both sides; the sections under workerNumMu are one step.     *)
(*                                                                          *)
(* An item is a token that is pushed once.  Its order in the base queue and *)
(* its place in a batch matter to no property, so both are sets.            *)
(***************************************************************************)
EXTENDS Integers, FiniteSets

CONSTANTS
    Items,        \* what producers push
    Corrupted,    \* items whose stored bytes no longer unmarshal
    MayFail,      \* items the handler may return as unhandled
    Workers,      \* identities for worker goroutines
    Main,         \* the goroutine of doRun
    Flushers,     \* callers of FlushWithContext
    NoFlush, NoItem,
    Length,       \* capacity of the base queue
    BatchLength,  \* q.batchLength
    MaxNums,      \* the values workerMaxNum takes
    Graceful,     \* the graceful manager shuts the queue down, not a test
    PopMayFail    \* the base queue may fail to pop, and lose the item doing so

Execs == Workers \cup {Main}

ASSUME WorkerPoolQueueAssumption ==
    /\ Corrupted \subseteq Items
    /\ MayFail \subseteq Items
    /\ IsFiniteSet(Items)
    /\ IsFiniteSet(Workers)
    /\ Main \notin Workers
    /\ NoFlush \notin Flushers
    /\ NoItem \notin Items
    /\ Length \in Nat \ {0}
    /\ BatchLength \in Nat \ {0}
    /\ MaxNums \subseteq Int
    /\ \A n \in MaxNums \cup {1} : n <= Cardinality(Workers)
    /\ Graceful \in BOOLEAN
    /\ PopMayFail \in BOOLEAN

VARIABLES
    \* the base queue and the pop loop
    base,            \* items in the base queue
    popPc, popItem,  \* "pop", "send" an item, or "closed"
    \* the main loop
    mpc, ret,        \* where doRun stands, and where it goes on after a call
    buffer,          \* wg.batchBuffer
    batch,           \* the batch doDispatchBatchToWorker found no taker for
    unhandled,       \* what the deferred shutdown collects
    debounce,        \* batchDispatchC is a running timer
    flush, empty,    \* the flush being served and its emptyCounter
    \* the worker pool
    live,            \* running worker goroutines
    workerNum, activeNum, maxNum,
    hpc, hbatch, hitem,  \* doWorkerHandle, for each worker and for doRun
    \* contexts and callers
    wcancel,         \* ctxWorkerCancel was called
    ctxRun,          \* ctxRun is done
    ctxShutdown,     \* "nil", "open" or "expired"
    stop,            \* ShutdownWait: "idle", "waiting" or "returned"
    fl,              \* FlushWithContext, for each caller
    \* what became of the items
    accepted, handled, lost, removed,
    failed           \* history: the base queue's last operation on it failed

popVars == <<popPc, popItem>>
sourceVars == <<base, popVars>>
flowVars == <<mpc, ret>>
itemVars == <<buffer, batch, unhandled>>
flushVars == <<debounce, flush, empty>>
mainVars == <<flowVars, itemVars, flushVars>>
poolVars == <<live, workerNum, maxNum>>
handleVars == <<activeNum, hpc, hbatch, hitem>>
execVars == <<poolVars, handleVars>>
ctxVars == <<wcancel, ctxRun, ctxShutdown, stop>>
ledgerVars == <<accepted, handled, lost, removed, failed>>
outerVars == <<ctxVars, fl, ledgerVars>>
vars == <<sourceVars, mainVars, execVars, outerVars>>

Init ==
    /\ base = {} /\ popPc = "pop" /\ popItem = NoItem
    /\ mpc = "loop" /\ ret = "loop"
    /\ buffer = {} /\ batch = {} /\ unhandled = {}
    /\ debounce = FALSE /\ flush = NoFlush /\ empty = 0
    /\ live = {} /\ workerNum = 0 /\ activeNum = 0 /\ maxNum \in MaxNums
    /\ hpc = [e \in Execs |-> "idle"]
    /\ hbatch = [e \in Execs |-> {}]
    /\ hitem = [e \in Execs |-> NoItem]
    /\ wcancel = FALSE /\ ctxRun = FALSE /\ ctxShutdown = "nil" /\ stop = "idle"
    /\ fl = [f \in Flushers |-> "idle"]
    /\ accepted = {} /\ handled = {} /\ lost = {} /\ removed = {}
    /\ failed = {}

HasRoom == Cardinality(base) < Length

\* A worker in its select, or about to enter it.
Ready(w) == w \in live /\ hpc[w] = "idle"

-----------------------------------------------------------------------------
(* Producers and administrators *)

\* Push succeeds.  When the base queue is full it returns an error and the
\* item is the caller's again.
Push(i) ==
    /\ i \notin accepted
    /\ HasRoom
    /\ base' = base \cup {i}
    /\ accepted' = accepted \cup {i}
    /\ UNCHANGED <<popVars, mainVars, execVars, ctxVars, fl, handled, lost, removed,
                   failed>>

\* Mutant: the items are reported as removed and stay.
RemoveAllItemsKeeps ==
    /\ base # {} /\ removed' = removed \cup base
    /\ UNCHANGED <<sourceVars, mainVars, execVars, ctxVars, fl, accepted, handled, lost,
                   failed>>

RemoveAllItems ==
    /\ base # {}
    /\ base' = {}
    /\ removed' = removed \cup base
    /\ UNCHANGED <<popVars, mainVars, execVars, ctxVars, fl, accepted, handled, lost,
                   failed>>

SetWorkerMaxNumber(n) ==
    /\ maxNum # n
    /\ maxNum' = n
    /\ UNCHANGED <<sourceVars, mainVars, live, workerNum, handleVars, outerVars>>

FlushRequest(f) ==
    /\ fl[f] = "idle"
    /\ fl' = [fl EXCEPT ![f] = "sending"]
    /\ UNCHANGED <<sourceVars, mainVars, execVars, ctxVars, ledgerVars>>

\* The caller's context or timer ends, or the queue stops running.
FlushGiveUp(f) ==
    /\ fl[f] \in {"sending", "waiting"}
    /\ fl' = [fl EXCEPT ![f] = "gaveup"]
    /\ UNCHANGED <<sourceVars, mainVars, execVars, ctxVars, ledgerVars>>

-----------------------------------------------------------------------------
(* popItemByChan *)

PopItem(i) ==
    /\ popPc = "pop"
    /\ i \in base
    /\ base' = base \ {i}
    /\ popPc' = "send" /\ popItem' = i
    /\ UNCHANGED <<mainVars, execVars, outerVars>>

\* PopItem returns an error: popItemChan is closed.  (The send on popItemErr
\* that follows has no effect but to wake doRun, as the close does.)
PopFail ==
    /\ popPc = "pop"
    /\ ctxRun \/ PopMayFail
    /\ popPc' = "closed"
    /\ UNCHANGED <<base, popItem, mainVars, execVars, outerVars>>

\* So it does when the base queue gave the item up and then failed, as the
\* level queue does when its set cannot be written after the list was.
PopFailLoses(i) ==
    /\ popPc = "pop"
    /\ PopMayFail
    /\ i \in base
    /\ base' = base \ {i}
    /\ lost' = lost \cup {i}
    /\ failed' = failed \cup {i}
    /\ popPc' = "closed"
    /\ UNCHANGED <<popItem, mainVars, execVars, ctxVars, fl, accepted, handled, removed>>

\* The receiver's side: the item popped, unless its bytes are corrupted.
Received == {popItem} \ Corrupted

PopDeliver ==
    /\ popPc = "send"
    /\ popPc' = "pop" /\ popItem' = NoItem
    /\ lost' = lost \cup ({popItem} \cap Corrupted)
    /\ UNCHANGED <<base, fl, accepted, handled, removed, failed>>

-----------------------------------------------------------------------------
(* doWorkerHandle, run by a worker or by doRun itself while it flushes *)

HandleBegin(e, items) ==
    /\ activeNum' = activeNum + 1
    /\ hpc' = [hpc EXCEPT ![e] = "handler"]
    /\ hbatch' = [hbatch EXCEPT ![e] = items]
    /\ UNCHANGED hitem

\* The handler returns the items it did not handle; after a panic it returns
\* none of them.  If it handled nothing at all, the worker backs off.
HandlerReturn(e, left) ==
    /\ hpc[e] = "handler"
    /\ left \subseteq hbatch[e] \cap MayFail
    /\ handled' = handled \cup (hbatch[e] \ left)
    /\ hbatch' = [hbatch EXCEPT ![e] = left]
    /\ hpc' = [hpc EXCEPT ![e] = IF left = hbatch[e] THEN "backoff" ELSE "requeue"]
    /\ UNCHANGED <<sourceVars, mainVars, poolVars, activeNum, hitem, ctxVars, fl, accepted,
                   lost, removed, failed>>

BackoffEnd(e) ==
    /\ hpc[e] = "backoff"
    /\ hpc' = [hpc EXCEPT ![e] = "requeue"]
    /\ UNCHANGED <<sourceVars, mainVars, poolVars, activeNum, hbatch, hitem, outerVars>>

RequeuePush(e, i) ==
    /\ hpc[e] = "requeue"
    /\ i \in hbatch[e]
    /\ HasRoom
    /\ base' = base \cup {i}
    /\ hbatch' = [hbatch EXCEPT ![e] = @ \ {i}]
    /\ UNCHANGED <<popVars, mainVars, poolVars, activeNum, hpc, hitem, outerVars>>

PutAside(e, i) ==
    /\ hpc[e] = "requeue"
    /\ i \in hbatch[e]
    /\ hpc' = [hpc EXCEPT ![e] = "putback"]
    /\ hitem' = [hitem EXCEPT ![e] = i]
    /\ UNCHANGED <<sourceVars, mainVars, poolVars, activeNum, hbatch, ctxVars, fl, accepted,
                   handled, lost, removed>>

\* The base queue fails to take the item: it stayed full, or its store failed.
BaseFails(i) == failed' = failed \cup {i}

\* Mutants: Push is given the workers' context; the item in hand is forgotten.
RequeueFailCancelled(e, i) ==
    PutAside(e, i) /\ (BaseFails(i) \/ ((ctxRun \/ wcancel) /\ UNCHANGED failed))

RequeueFailForgets(e, i) ==
    /\ hpc[e] = "requeue" /\ i \in hbatch[e]
    /\ hpc' = [hpc EXCEPT ![e] = "putback"]
    /\ UNCHANGED <<sourceVars, mainVars, poolVars, activeNum, hbatch, hitem, outerVars>>

\* Push returns an error: of the base queue, or because ctxRun is done.
RequeueFail(e, i) ==
    /\ PutAside(e, i)
    /\ BaseFails(i) \/ (ctxRun /\ UNCHANGED failed)

\* basePushForShutdown, for one item: it is pushed with the shutdown context,
\* the base queue refuses it, or there is no such context, or none any more.
BasePushForShutdown(i) ==
    \/ /\ ctxShutdown # "nil" /\ HasRoom
       /\ base' = base \cup {i} /\ failed' = failed \ {i} /\ UNCHANGED lost
    \/ /\ ctxShutdown # "nil" /\ BaseFails(i)
       /\ lost' = lost \cup {i} /\ UNCHANGED base
    \/ /\ ctxShutdown \in {"nil", "expired"}
       /\ lost' = lost \cup {i} /\ UNCHANGED <<base, failed>>

HandlePutBack(e) ==
    /\ hpc[e] = "putback"
    /\ BasePushForShutdown(hitem[e])
    /\ hpc' = [hpc EXCEPT ![e] = "requeue"]
    /\ hbatch' = [hbatch EXCEPT ![e] = @ \ {hitem[e]}]
    /\ hitem' = [hitem EXCEPT ![e] = NoItem]
    /\ UNCHANGED <<popVars, mainVars, poolVars, activeNum, ctxVars, fl, accepted, handled,
                   removed>>

Deactivate == activeNum' = activeNum - 1

HandleEnd(e) ==
    /\ hpc[e] = "requeue"
    /\ hbatch[e] = {}
    /\ hpc' = [hpc EXCEPT ![e] = "idle"]
    /\ Deactivate
    /\ mpc' = IF e = Main THEN ret ELSE mpc
    /\ UNCHANGED <<sourceVars, ret, itemVars, flushVars, poolVars, hbatch, hitem, outerVars>>

-----------------------------------------------------------------------------
(* doStartNewWorker: how a worker ends *)

\* Mutant: workerNum is not decremented.
WorkerLeavesUncounted(w) ==
    /\ live' = live \ {w}
    /\ UNCHANGED <<sourceVars, mainVars, workerNum, maxNum, handleVars, outerVars>>

WorkerLeaves(w) ==
    /\ live' = live \ {w}
    /\ workerNum' = workerNum - 1
    /\ UNCHANGED <<sourceVars, mainVars, maxNum, handleVars, outerVars>>

\* ctxWorker is done, itself or as a child of ctxRun; a closed batchChan
\* stops the worker in the same way, and implies that ctxRun is done.
WorkerStop(w) ==
    /\ Ready(w)
    /\ wcancel \/ ctxRun
    /\ WorkerLeaves(w)

\* Mutant: the last worker may leave.
WorkerIdleAnyhow(w) ==
    /\ Ready(w)
    /\ workerNum > 0
    /\ WorkerLeaves(w)

\* The idle ticker fires: the worker leaves unless it is the last one.
WorkerIdle(w) ==
    /\ Ready(w)
    /\ workerNum > 1
    /\ WorkerLeaves(w)

-----------------------------------------------------------------------------
(* doRun: the select loop *)

\* Mutant: the debounce timer is not started.
DebounceNever == UNCHANGED debounce

Debounce == debounce' = (debounce \/ Received # {})

MainReceive ==
    /\ mpc = "loop"
    /\ PopDeliver
    /\ buffer' = buffer \cup Received
    /\ IF Received # {} /\ Cardinality(buffer') >= BatchLength
       THEN mpc' = "dispatch" /\ ret' = "loop" /\ UNCHANGED debounce
       ELSE Debounce /\ UNCHANGED flowVars
    /\ UNCHANGED <<batch, unhandled, flush, empty, execVars, ctxVars>>

MainTimer ==
    /\ mpc = "loop"
    /\ debounce
    /\ debounce' = FALSE
    /\ mpc' = "dispatch" /\ ret' = "loop"
    /\ UNCHANGED <<sourceVars, itemVars, flush, empty, execVars, outerVars>>

TakeFlush(f) ==
    /\ fl[f] = "sending"
    /\ fl' = [fl EXCEPT ![f] = "waiting"]
    /\ flush' = f

\* Mutant: no dispatch before the flush.
BeforeFlushNothing == mpc' = "flush" /\ ret' = "loop"

BeforeFlush == mpc' = "dispatch" /\ ret' = "flush"

MainFlush(f) ==
    /\ mpc = "loop"
    /\ TakeFlush(f)
    /\ BeforeFlush
    /\ UNCHANGED <<sourceVars, itemVars, debounce, empty, execVars, ctxVars, ledgerVars>>

\* popItemChan is closed, or ctxRun is done: doRun returns.
MainReturn ==
    /\ mpc = "loop"
    /\ popPc = "closed" \/ ctxRun
    /\ mpc' = "shutdown"
    /\ UNCHANGED <<sourceVars, ret, itemVars, flushVars, execVars, outerVars>>

-----------------------------------------------------------------------------
(* doDispatchBatchToWorker *)

DispatchNothing ==
    /\ mpc = "dispatch"
    /\ buffer = {}
    /\ mpc' = ret
    /\ UNCHANGED <<sourceVars, ret, itemVars, flushVars, execVars, outerVars>>

\* Mutant: wg.batchBuffer is not reset.
ResetBufferNever == UNCHANGED buffer

ResetBuffer == buffer' = {}

\* The send that does not block finds a worker in its select ...
DispatchSend(w) ==
    /\ mpc = "dispatch"
    /\ buffer # {}
    /\ Ready(w)
    /\ HandleBegin(w, buffer)
    /\ ResetBuffer
    /\ mpc' = "spawn"
    /\ UNCHANGED <<sourceVars, ret, batch, unhandled, flushVars, poolVars, outerVars>>

\* ... or finds none: all are busy, or on their way to the select.
DispatchFull ==
    /\ mpc = "dispatch"
    /\ buffer # {}
    /\ batch' = buffer
    /\ ResetBuffer
    /\ mpc' = "spawn"
    /\ UNCHANGED <<sourceVars, ret, unhandled, flushVars, execVars, outerVars>>

NoWorker == workerNum = 0

\* Mutant: a maximum of zero allows no worker.
NeedsWorkerUnlessZero == (batch # {} \/ NoWorker) /\ workerNum < maxNum

NeedsWorker ==
    /\ batch # {} \/ NoWorker
    /\ workerNum < maxNum \/ (NoWorker /\ maxNum <= 0)

StartWorker ==
    \E w \in Workers \ live :
        /\ live' = live \cup {w}
        /\ workerNum' = workerNum + 1

Spawn ==
    /\ mpc = "spawn"
    /\ IF NeedsWorker THEN StartWorker ELSE UNCHANGED <<live, workerNum>>
    /\ mpc' = IF batch # {} THEN "offer" ELSE ret
    /\ UNCHANGED <<sourceVars, ret, itemVars, flushVars, maxNum, handleVars, outerVars>>

OfferTaken(w) ==
    /\ mpc = "offer"
    /\ Ready(w)
    /\ HandleBegin(w, batch)
    /\ batch' = {}
    /\ mpc' = ret
    /\ UNCHANGED <<sourceVars, ret, buffer, unhandled, flushVars, poolVars, outerVars>>

\* A flush request arrives instead: doRun handles the batch itself.  A
\* dispatch on behalf of a flush reads skipFlushChan and takes no other.
OfferFlush(f) ==
    /\ mpc = "offer"
    /\ ret = "loop"
    /\ TakeFlush(f)
    /\ HandleBegin(Main, batch)
    /\ batch' = {}
    /\ mpc' = "handle" /\ ret' = "flush"
    /\ UNCHANGED <<sourceVars, buffer, unhandled, debounce, empty, poolVars, ctxVars,
                   ledgerVars>>

OfferEnds ==
    /\ mpc = "offer"
    /\ ctxRun
    /\ buffer' = batch
    /\ batch' = {}
    /\ mpc' = ret
    /\ UNCHANGED <<sourceVars, ret, unhandled, flushVars, execVars, outerVars>>

-----------------------------------------------------------------------------
(* doFlush.  batchChan needs no draining: doRun is its only sender. *)

FlushCancelWorkers ==
    /\ mpc = "flush"
    /\ wcancel' = TRUE
    /\ mpc' = "flushwait"
    /\ UNCHANGED <<sourceVars, ret, itemVars, flushVars, execVars, ctxRun, ctxShutdown, stop,
                   fl, ledgerVars>>

\* Mutant: doFlush does not wait for the workers.
FlushWorkersNotAwaited ==
    /\ mpc = "flushwait"
    /\ mpc' = "drain" /\ empty' = 0
    /\ UNCHANGED <<sourceVars, ret, itemVars, debounce, flush, execVars, outerVars>>

FlushWorkersGone ==
    /\ mpc = "flushwait"
    /\ live = {}
    /\ mpc' = "drain" /\ empty' = 0
    /\ UNCHANGED <<sourceVars, ret, itemVars, debounce, flush, execVars, outerVars>>

FlushReceive ==
    /\ mpc = "drain"
    /\ PopDeliver
    /\ empty' = 0
    /\ IF Received # {}
       THEN HandleBegin(Main, Received) /\ mpc' = "handle" /\ ret' = "drain"
       ELSE UNCHANGED <<flowVars, handleVars>>
    /\ UNCHANGED <<itemVars, debounce, flush, poolVars, ctxVars>>

\* Mutant: the flush channel is not closed.
CloseFlushNever == UNCHANGED fl

\* The caller may have given up meanwhile.
CloseFlush == fl' = [fl EXCEPT ![flush] = IF @ = "waiting" THEN "done" ELSE @]

\* close(flush), and a fresh worker context.
FlushEnd ==
    /\ CloseFlush
    /\ flush' = NoFlush
    /\ wcancel' = FALSE
    /\ mpc' = "loop" /\ ret' = "loop"
    /\ empty' = 0

FlushTick ==
    /\ mpc = "drain"
    /\ LET n == IF base = {} THEN empty + 1 ELSE empty
       IN  IF n >= 2 THEN FlushEnd
           ELSE empty' = n /\ UNCHANGED <<fl, flush, wcancel, mpc, ret>>
    /\ UNCHANGED <<sourceVars, itemVars, debounce, execVars, ctxRun, ctxShutdown, stop,
                   ledgerVars>>

FlushStop ==
    /\ mpc = "drain"
    /\ popPc = "closed" \/ ctxRun
    /\ FlushEnd
    /\ UNCHANGED <<sourceVars, itemVars, debounce, execVars, ctxRun, ctxShutdown, stop,
                   ledgerVars>>

-----------------------------------------------------------------------------
(* doRun: the deferred shutdown *)

\* Mutant: wg.batchBuffer is not collected.
CollectBufferNever == UNCHANGED <<unhandled, buffer>>

CollectBuffer == unhandled' = buffer /\ buffer' = {}

ShutdownBegin ==
    /\ mpc = "shutdown"
    /\ ctxRun' = TRUE
    /\ CollectBuffer
    /\ mpc' = "collect"
    /\ UNCHANGED <<sourceVars, ret, batch, flushVars, execVars, wcancel, ctxShutdown, stop, fl,
                   ledgerVars>>

CollectReceive ==
    /\ mpc = "collect"
    /\ PopDeliver
    /\ unhandled' = unhandled \cup Received
    /\ UNCHANGED <<flowVars, buffer, batch, flushVars, execVars, ctxVars>>

\* ctxShutdown.Load(): what it holds now decides how the items are treated.
CollectEnd ==
    /\ mpc = "collect"
    /\ popPc = "closed"
    /\ mpc' = IF ctxShutdown = "nil" THEN "lasthandle" ELSE "putback"
    /\ UNCHANGED <<sourceVars, ret, itemVars, flushVars, execVars, outerVars>>

\* No shutdown context: one last call of the handler, whose result is ignored.
LastHandle(left) ==
    /\ mpc = "lasthandle"
    /\ left \subseteq unhandled \cap MayFail
    /\ handled' = handled \cup (unhandled \ left)
    /\ lost' = lost \cup left
    /\ unhandled' = {}
    /\ mpc' = "done"
    /\ UNCHANGED <<sourceVars, ret, buffer, batch, flushVars, execVars, ctxVars, fl, accepted,
                   removed, failed>>

PutBack(i) ==
    /\ mpc = "putback"
    /\ i \in unhandled
    /\ BasePushForShutdown(i)
    /\ unhandled' = unhandled \ {i}
    /\ UNCHANGED <<popVars, flowVars, buffer, batch, flushVars, execVars, ctxVars, fl, accepted,
                   handled, removed>>

\* Mutant: the shutdown context does not bound the wait.
WorkersEnded == live = {}

WorkersJoined == live = {} \/ ctxShutdown = "expired"

\* wg.wg.Wait() against the shutdown context, then close(q.shutdownDone).
Join ==
    /\ mpc = "putback"
    /\ unhandled = {}
    /\ WorkersJoined
    /\ mpc' = "done"
    /\ UNCHANGED <<sourceVars, ret, itemVars, flushVars, execVars, outerVars>>

-----------------------------------------------------------------------------
(* ShutdownWait, and the cancellation of ctxRun's parent *)

\* graceful.Manager cancels its shutdown context, the parent of ctxRun.
ParentCancel ==
    /\ Graceful
    /\ ~ctxRun
    /\ ctxRun' = TRUE
    /\ UNCHANGED <<sourceVars, mainVars, execVars, wcancel, ctxShutdown, stop, fl, ledgerVars>>

\* graceful.Manager runs the atShutdown callbacks after that cancellation.
StopBegin ==
    /\ stop = "idle"
    /\ Graceful => ctxRun
    /\ stop' = "waiting"
    /\ ctxShutdown' = "open"
    /\ ctxRun' = TRUE
    /\ UNCHANGED <<sourceVars, mainVars, execVars, wcancel, fl, ledgerVars>>

StopExpire ==
    /\ ctxShutdown = "open"
    /\ ctxShutdown' = "expired"
    /\ UNCHANGED <<sourceVars, mainVars, execVars, wcancel, ctxRun, stop, fl, ledgerVars>>

\* shutdownDone is closed; the deferred cancel ends the shutdown context.
StopReturn ==
    /\ stop = "waiting"
    /\ mpc = "done"
    /\ stop' = "returned"
    /\ ctxShutdown' = "expired"
    /\ UNCHANGED <<sourceVars, mainVars, execVars, wcancel, ctxRun, fl, ledgerVars>>

-----------------------------------------------------------------------------
CallerStep ==
    \/ \E i \in Items : Push(i)
    \/ RemoveAllItems
    \/ \E n \in MaxNums : SetWorkerMaxNumber(n)
    \/ \E f \in Flushers : FlushRequest(f) \/ FlushGiveUp(f)

PopStep == PopFail \/ \E i \in Items : PopItem(i) \/ PopFailLoses(i)

HandleStep(e) ==
    \/ \E left \in SUBSET hbatch[e] : HandlerReturn(e, left)
    \/ BackoffEnd(e) \/ HandlePutBack(e) \/ HandleEnd(e)
    \/ \E i \in hbatch[e] : RequeuePush(e, i) \/ RequeueFail(e, i)

WorkerStep(w) == WorkerStop(w) \/ WorkerIdle(w)

SelectStep ==
    \/ MainReceive \/ MainTimer \/ MainReturn
    \/ \E f \in Flushers : MainFlush(f)

DispatchStep ==
    \/ DispatchNothing \/ DispatchFull \/ Spawn \/ OfferEnds
    \/ \E w \in Workers : DispatchSend(w) \/ OfferTaken(w)
    \/ \E f \in Flushers : OfferFlush(f)

FlushStep ==
    \/ FlushCancelWorkers \/ FlushWorkersGone \/ FlushReceive \/ FlushTick \/ FlushStop

ShutdownStep ==
    \/ ShutdownBegin \/ CollectReceive \/ CollectEnd \/ Join
    \/ \E i \in unhandled : PutBack(i)
    \/ \E left \in SUBSET unhandled : LastHandle(left)

StopStep == ParentCancel \/ StopBegin \/ StopExpire \/ StopReturn

Next ==
    \/ CallerStep \/ PopStep
    \/ \E e \in Execs : HandleStep(e)
    \/ \E w \in Workers : WorkerStep(w)
    \/ SelectStep \/ DispatchStep \/ FlushStep \/ ShutdownStep
    \/ StopStep

Spec == Init /\ [][Next]_vars

(***************************************************************************)
(* Fairness.  A goroutine that can take a step takes one.  A Go select      *)
(* picks at random among its ready cases, so a case that is ready again and *)
(* again is picked: strong fairness for each.  The base queue is FIFO, so   *)
(* no item waits in it for ever while others are popped.  Callers owe       *)
(* nothing, and neither do the idle ticks; a handler that never returns is  *)
(* ruled out by HandlerFairness alone.                                      *)
(***************************************************************************)
SelectFairness ==
    /\ SF_vars(MainReceive) /\ SF_vars(MainTimer) /\ SF_vars(MainReturn)
    /\ \A f \in Flushers : SF_vars(MainFlush(f))
    /\ SF_vars(FlushReceive) /\ SF_vars(FlushTick) /\ SF_vars(FlushStop)
    /\ \A w \in Workers : SF_vars(WorkerStop(w))

QueueFairness ==
    /\ SelectFairness
    /\ \A i \in Items : SF_vars(PopItem(i))
    /\ WF_vars(ctxRun /\ PopFail)
    /\ WF_vars(DispatchStep)
    /\ WF_vars(FlushCancelWorkers) /\ WF_vars(FlushWorkersGone)
    /\ WF_vars(ShutdownBegin) /\ WF_vars(CollectReceive) /\ WF_vars(CollectEnd)
    /\ WF_vars(Join) /\ WF_vars(\E i \in unhandled : PutBack(i))
    /\ \A e \in Execs :
          /\ WF_vars(BackoffEnd(e)) /\ WF_vars(HandlePutBack(e)) /\ WF_vars(HandleEnd(e))
          /\ WF_vars(\E i \in hbatch[e] : RequeuePush(e, i) \/ RequeueFail(e, i))
    /\ \A f \in Flushers : WF_vars(ctxRun /\ FlushGiveUp(f))
    /\ WF_vars(StopExpire) /\ WF_vars(StopReturn)
    /\ Graceful => WF_vars(ctxRun /\ StopBegin)

HandlerFairness ==
    /\ \A e \in Execs : WF_vars(\E left \in SUBSET hbatch[e] : HandlerReturn(e, left))
    /\ WF_vars(\E left \in SUBSET unhandled : LastHandle(left))

\* Handlers may hang: a property that needs them to return says so.
FairSpec == Spec /\ QueueFairness

-----------------------------------------------------------------------------
(***************************************************************************)
(* Properties                                                              *)
(***************************************************************************)

Places == {"loop", "dispatch", "spawn", "offer", "handle", "flush", "flushwait", "drain",
           "shutdown", "collect", "lasthandle", "putback", "done"}

\* Each variable ranges over the values its Go counterpart can hold.
TypeOK ==
    /\ base \subseteq Items
    /\ popPc \in {"pop", "send", "closed"} /\ popItem \in Items \cup {NoItem}
    /\ mpc \in Places /\ ret \in {"loop", "flush", "drain"}
    /\ buffer \subseteq Items /\ batch \subseteq Items /\ unhandled \subseteq Items
    /\ debounce \in BOOLEAN /\ flush \in Flushers \cup {NoFlush} /\ empty \in 0 .. 1
    /\ live \subseteq Workers
    /\ workerNum \in Int /\ activeNum \in Int /\ maxNum \in MaxNums
    /\ hpc \in [Execs -> {"idle", "handler", "backoff", "requeue", "putback"}]
    /\ hbatch \in [Execs -> SUBSET Items]
    /\ hitem \in [Execs -> Items \cup {NoItem}]
    /\ wcancel \in BOOLEAN /\ ctxRun \in BOOLEAN
    /\ ctxShutdown \in {"nil", "open", "expired"}
    /\ stop \in {"idle", "waiting", "returned"}
    /\ fl \in [Flushers -> {"idle", "sending", "waiting", "done", "gaveup"}]
    /\ accepted \subseteq Items /\ handled \subseteq Items
    /\ lost \subseteq Items /\ removed \subseteq Items /\ failed \subseteq Items

InPop == IF popPc = "send" THEN {popItem} ELSE {}

\* Where an item can be: one field per variable that holds items.
Whereabouts ==
    [base |-> base, pop |-> InPop, buffer |-> buffer, batch |-> batch,
     unhandled |-> unhandled, handling |-> UNION {hbatch[e] : e \in Execs},
     handled |-> handled, lost |-> lost, removed |-> removed]

\* workergroup.go: batches travel between doRun, the workers, the flush and
\* the shutdown without an item being forgotten or duplicated.  Every item a
\* Push accepted is in exactly one place, and in the hands of one goroutine.
ItemsConserved ==
    /\ UNION {Whereabouts[p] : p \in DOMAIN Whereabouts} = accepted
    /\ \A p, q \in DOMAIN Whereabouts : p # q => Whereabouts[p] \cap Whereabouts[q] = {}
    /\ \A d, e \in Execs : d # e => hbatch[d] \cap hbatch[e] = {}

\* GetWorkerNumber and GetWorkerActiveNumber: the two counters agree with the
\* goroutines, whatever the order of starts, idle stops, flushes and panics.
CountersExact ==
    /\ workerNum = Cardinality(live)
    /\ activeNum = Cardinality({e \in Execs : hpc[e] # "idle"})
    /\ \A w \in Workers : hpc[w] # "idle" => w \in live

\* doDispatchBatchToWorker: while doRun blocks on handing over a batch, there
\* is a worker to take it, or the queue is shutting down.
OfferHasWorker == mpc = "offer" => live # {} \/ ctxRun

\* doFlush: doRun handles items itself only when no worker runs, so the
\* handler is never called by both.
DrainIsAlone == mpc = "drain" \/ (mpc = "handle" /\ ret = "drain") => live = {}

\* doStartNewWorker: the pool grows only while it is below its maximum, and
\* to one worker if the maximum is zero.  (SetWorkerMaxNumber may well leave
\* more workers running than the new maximum.)
GrowthBounded ==
    [][workerNum' > workerNum => workerNum' <= maxNum \/ workerNum' = 1]_vars

\* workerqueue_test.go:212: idleness never stops the last worker; only a flush
\* or a shutdown does.
LastWorkerStays ==
    [][workerNum > 0 /\ workerNum' = 0 => wcancel \/ ctxRun]_vars

\* doFlush: when a flush completes on a running queue, whatever doRun had
\* taken from the base queue beforehand has been handled, requeued or given up.
FlushCompletes ==
    [][\A f \in Flushers :
          fl[f] = "waiting" /\ fl'[f] = "done" /\ ~ctxRun =>
              buffer = {} /\ batch = {} /\ \A e \in Execs : hbatch[e] = {}]_vars

\* workerqueue.go:186: once ShutdownWait has returned, and if the shutdown
\* context did not expire, no item is left in memory: what was not handled is
\* back in the base queue.  Lost are only the items that no longer unmarshal,
\* and those the base queue itself failed to take back, because it was full
\* or because its store failed (workergroup.go:125-128).
ShutdownKeepsItems ==
    mpc = "done" /\ ctxShutdown = "open" =>
        accepted \ Corrupted \subseteq base \cup handled \cup removed \cup failed

\* queue.go:23-24: while the queue runs, an item the handler returns is
\* requeued: neither a back-off nor a flush, nor the end of a worker, makes
\* its Push fail.  Lost are only corrupted items, and those the base queue
\* itself failed to take back or to hand out (workergroup.go:107-111).
NothingLostWhileRunning == ~ctxRun => lost \subseteq Corrupted \cup failed

\* An item the handler can handle is handled, unless the queue is shut down
\* or its items are removed first: no batch waits for a timer, a worker or a
\* flush that never comes, if handlers return.
ItemsGetHandled ==
    HandlerFairness =>
        \A i \in Items \ (MayFail \cup Corrupted) :
            i \in accepted ~> i \in handled \cup removed \/ ctxRun

\* FlushWithContext: a request comes to an end, if no item fails for ever and
\* handlers return.
FlushReturns ==
    HandlerFairness => \A f \in Flushers : fl[f] = "sending" ~> fl[f] \in {"done", "gaveup"}

\* doFlush waits for a hanging handler in doRun itself.
NoFlushEver == [](\A f \in Flushers : fl[f] = "idle")

\* workerqueue.go:180: "in case some queue handlers are slow or have hanging
\* bugs" a shutdown waits "at most ... for a short time": it ends though
\* handlers may never return, if no flush waits for one of them.
ShutdownReturns == NoFlushEver => (stop = "waiting" ~> stop = "returned")

-----------------------------------------------------------------------------
(***************************************************************************)
(* Refinement: the whereabouts of an item tell its status in ItemLedger.    *)
(***************************************************************************)
Running ==
    (UNION {hbatch[e] : e \in Execs}) \cup IF mpc = "lasthandle" THEN unhandled ELSE {}

Status(i) ==
    CASE i \notin accepted -> "new"
      [] i \in handled -> "handled"
      [] i \in lost -> "lost"
      [] i \in removed -> "removed"
      [] i \in Running -> "running"
      [] OTHER -> "waiting"

Ledger == INSTANCE ItemLedger WITH status <- [i \in Items |-> Status(i)]

\* The queue implements ItemLedger: an item is handled only by being run, is
\* never run again once handled, given up or removed, and never comes back.
ImplementsLedger == Ledger!Spec
=============================================================================
