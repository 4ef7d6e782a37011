---------------------- MODULE WorkerPoolOutcome_proofs ----------------------
(***************************************************************************)
(* What becomes of the items of a WorkerPoolQueue, for every set of items,  *)
(* workers and flushers and every capacity: what a flush and a shutdown     *)
(* leave behind, what is lost, and that the queue implements ItemLedger.    *)
(***************************************************************************)
EXTENDS WorkerPoolItems_proofs

-----------------------------------------------------------------------------
(* The buffer *)

\* doRun dispatches the buffer before a flush, and collects it in the deferred
\* shutdown, which begins by cancelling ctxRun and ends when popItemChan is
\* closed.
BufferInv ==
    /\ mpc \in {"spawn", "offer", "handle", "flush", "flushwait", "drain"} /\ ~ctxRun =>
          buffer = {}
    /\ mpc \in {"collect", "lasthandle", "putback", "done"} => ctxRun /\ buffer = {}
    /\ mpc \in {"lasthandle", "putback", "done"} => popPc = "closed"

\* Every step keeps it.
LEMMA BufferInvStep ==
  ASSUME TypeOK, ControlInv, FlowInv, BufferInv, [Next]_vars PROVE BufferInv'
<1> USE DEF popVars, sourceVars, mainVars, flowVars, itemVars, ctxVars, outerVars
<1>1. ASSUME UNCHANGED <<mpc, buffer>>, ctxRun => ctxRun', popPc = "closed" => popPc' = "closed"
      PROVE  BufferInv'
  BY <1>1 DEF BufferInv
<1>2. CASE CallerStep \/ PopStep \/ StopStep
  BY <1>1, <1>2
  DEF CallerStep, Push, RemoveAllItems, SetWorkerMaxNumber, FlushRequest, FlushGiveUp,
      PopStep, PopItem, PopFail, PopFailLoses, StopStep, ParentCancel, StopBegin, StopExpire, StopReturn
<1>3. ASSUME NEW w \in Workers, WorkerStep(w) PROVE BufferInv'
  BY <1>1, <1>3 DEF WorkerStep, WorkerStop, WorkerIdle, WorkerLeaves
<1>4. ASSUME NEW e \in Execs, HandleStep(e) PROVE BufferInv'
  <2>1. CASE HandleEnd(e)
    BY <2>1 DEF HandleEnd, ControlInv, BufferInv, TypeOK
  <2>2. CASE ~HandleEnd(e)
    BY <1>1, <1>4, <2>2
    DEF HandleStep, HandlerReturn, BackoffEnd, HandlePutBack, RequeuePush, RequeueFail, PutAside
  <2>3. QED
    BY <2>1, <2>2
<1>5. CASE SelectStep
  BY <1>5 DEF SelectStep, MainReceive, MainTimer, MainReturn, MainFlush, BeforeFlush, BufferInv
<1>6. CASE DispatchStep
  <2>1. ret \in {"loop", "flush"}
    BY <1>6 DEF DispatchStep, DispatchNothing, DispatchFull, Spawn, OfferEnds, DispatchSend,
                OfferTaken, OfferFlush, ControlInv
  <2>2. QED
    BY <1>6, <2>1 DEF DispatchStep, DispatchNothing, DispatchFull, Spawn, OfferEnds,
       DispatchSend, OfferTaken, OfferFlush, ResetBuffer, BufferInv, FlowInv
<1>7. CASE FlushStep
  BY <1>7 DEF FlushStep, FlushCancelWorkers, FlushWorkersGone, FlushReceive, FlushTick,
              FlushStop, FlushEnd, PopDeliver, BufferInv
<1>8. CASE ShutdownStep
  BY <1>8 DEF ShutdownStep, ShutdownBegin, CollectBuffer, CollectReceive, CollectEnd, Join,
              PutBack, LastHandle, PopDeliver, BufferInv
<1>9. CASE UNCHANGED vars
  BY <1>1, <1>9 DEF vars
<1>10. QED
  BY <1>2, <1>3, <1>4, <1>5, <1>6, <1>7, <1>8, <1>9 DEF Next

QueueInv == TypeInv /\ PoolInv /\ ItemInv /\ BufferInv

\* The types, the pool, the items and the buffer, together.
LEMMA QueueInvariant == Spec => []QueueInv
<1>1. Init => BufferInv
  BY DEF Init, BufferInv
<1>2. TypeInv /\ PoolInv /\ ItemInv /\ BufferInv /\ [Next]_vars => BufferInv'
  BY BufferInvStep DEF TypeInv, PoolInv, ItemInv
<1>3. TypeInv /\ PoolInv /\ ItemInv /\ BufferInv => QueueInv
  BY DEF QueueInv
<1>4. QED
  BY <1>1, <1>2, <1>3, ItemInvariant, PTL DEF Spec

-----------------------------------------------------------------------------
(* Flushes *)

\* Only the end of a flush answers a caller.
LEMMA FlushAnswers ==
  ASSUME TypeOK, [Next]_vars, NEW f \in Flushers, fl[f] = "waiting", fl'[f] = "done"
  PROVE  mpc = "drain"
<1> USE DEF TypeOK, ctxVars, outerVars
<1>1. CASE CallerStep
  BY <1>1 DEF CallerStep, Push, RemoveAllItems, SetWorkerMaxNumber, FlushRequest, FlushGiveUp
<1>2. CASE PopStep \/ StopStep
  BY <1>2 DEF PopStep, PopItem, PopFail, PopFailLoses, StopStep, ParentCancel, StopBegin, StopExpire, StopReturn
<1>3. ASSUME NEW e \in Execs, HandleStep(e) PROVE FALSE
  BY <1>3 DEF HandleStep, HandlerReturn, BackoffEnd, HandlePutBack, HandleEnd, RequeuePush,
              RequeueFail, PutAside
<1>4. ASSUME NEW w \in Workers, WorkerStep(w) PROVE FALSE
  BY <1>4 DEF WorkerStep, WorkerStop, WorkerIdle, WorkerLeaves
<1>5. CASE SelectStep
  BY <1>5 DEF SelectStep, MainReceive, MainTimer, MainReturn, MainFlush, TakeFlush, PopDeliver
<1>6. CASE DispatchStep
  BY <1>6 DEF DispatchStep, DispatchNothing, DispatchFull, Spawn, OfferEnds, DispatchSend,
              OfferTaken, OfferFlush, TakeFlush
<1>7. CASE FlushStep
  BY <1>7 DEF FlushStep, FlushCancelWorkers, FlushWorkersGone, FlushReceive, FlushTick, FlushStop
<1>8. CASE ShutdownStep
  BY <1>8 DEF ShutdownStep, ShutdownBegin, CollectReceive, CollectEnd, Join, PutBack, LastHandle,
              PopDeliver
<1>9. CASE UNCHANGED vars
  BY <1>9 DEF vars
<1>10. QED
  BY <1>1, <1>2, <1>3, <1>4, <1>5, <1>6, <1>7, <1>8, <1>9 DEF Next

\* When no worker runs and doRun is not in doWorkerHandle, no hand holds an item.
LEMMA HandsEmpty ==
  ASSUME QueueInv, live = {}, mpc # "handle" PROVE \A e \in Execs : hbatch[e] = {}
  BY DEF QueueInv, PoolInv, WorkersInv, ControlInv, ItemInv, HandsInv, Execs

\* doFlush: for any number of items, workers and concurrent flushes, a flush
\* that completes on a running queue leaves nothing in the buffer, in the batch
\* or in the hands of a goroutine.
THEOREM FlushesComplete == Spec => FlushCompletes
<1>1. QueueInv /\ [Next]_vars =>
        [\A f \in Flushers :
            fl[f] = "waiting" /\ fl'[f] = "done" /\ ~ctxRun =>
                buffer = {} /\ batch = {} /\ \A e \in Execs : hbatch[e] = {}]_vars
  <2> SUFFICES ASSUME QueueInv, [Next]_vars, NEW f \in Flushers,
                      fl[f] = "waiting", fl'[f] = "done", ~ctxRun
               PROVE  buffer = {} /\ batch = {} /\ \A e \in Execs : hbatch[e] = {}
    OBVIOUS
  <2>1. mpc = "drain"
    BY FlushAnswers DEF QueueInv, TypeInv
  <2>2. live = {}
    BY <2>1 DEF QueueInv, PoolInv, DrainIsAlone
  <2>3. buffer = {} /\ batch = {}
    BY <2>1 DEF QueueInv, BufferInv, ItemInv, FlowInv
  <2>4. QED
    BY <2>1, <2>2, <2>3, HandsEmpty
<1>2. QED
  BY <1>1, QueueInvariant, PTL DEF Spec, FlushCompletes

-----------------------------------------------------------------------------
(* What is lost while the queue runs *)

\* While ctxRun lasts there is no shutdown context, and an item is put aside
\* or given up only when the base queue failed on it.
RunInv ==
    ~ctxRun =>
        /\ ctxShutdown = "nil"
        /\ lost \subseteq Corrupted \cup failed
        /\ \A e \in Execs : hpc[e] = "putback" => hitem[e] \in failed

\* Steps of which the handling goroutines see nothing, or that end ctxRun.
LEMMA RunUntouched ==
  ASSUME RunInv, ctxRun => ctxRun', ~ctxRun' => ctxShutdown' = ctxShutdown,
         lost' \subseteq lost \cup Corrupted \cup failed', failed \subseteq failed',
         \A e \in Execs : hpc'[e] = "putback" => hpc[e] = "putback" /\ hitem'[e] = hitem[e]
  PROVE  RunInv'
  BY DEF RunInv

\* Every step keeps it.
LEMMA RunInvStep ==
  ASSUME QueueInv, RunInv, [Next]_vars PROVE RunInv'
<1> USE DEF popVars, mainVars, execVars, handleVars, ctxVars, ledgerVars, outerVars
<1>1. CASE CallerStep \/ PopStep
  BY <1>1, RunUntouched
  DEF CallerStep, Push, RemoveAllItems, SetWorkerMaxNumber, FlushRequest, FlushGiveUp,
      PopStep, PopItem, PopFail, PopFailLoses
<1>2. CASE StopStep
  BY <1>2 DEF StopStep, ParentCancel, StopBegin, StopExpire, StopReturn, QueueInv, BufferInv,
              RunInv
<1>3. ASSUME NEW w \in Workers, WorkerStep(w) PROVE RunInv'
  BY <1>3, RunUntouched DEF WorkerStep, WorkerStop, WorkerIdle, WorkerLeaves
<1>4. ASSUME NEW e \in Execs, HandleStep(e) PROVE RunInv'
  <2> USE DEF TypeOK, TypeInv, QueueInv
  <2>1. ASSUME NEW left \in SUBSET hbatch[e], HandlerReturn(e, left) PROVE RunInv'
    BY <2>1, RunUntouched DEF HandlerReturn
  <2>2. CASE BackoffEnd(e)
    BY <2>2, RunUntouched DEF BackoffEnd
  <2>3. CASE HandleEnd(e)
    BY <2>3, RunUntouched DEF HandleEnd
  <2>4. ASSUME NEW i \in hbatch[e], RequeuePush(e, i) PROVE RunInv'
    BY <2>4, RunUntouched DEF RequeuePush
  <2>5. ASSUME NEW i \in hbatch[e], RequeueFail(e, i) PROVE RunInv'
    <3>1. /\ UNCHANGED <<ctxRun, ctxShutdown, lost>>
          /\ failed \subseteq failed' /\ (ctxRun \/ i \in failed')
          /\ hitem'[e] = i
          /\ \A d \in Execs \ {e} : hpc'[d] = hpc[d] /\ hitem'[d] = hitem[d]
      BY <2>5 DEF RequeueFail, PutAside, BaseFails
    <3>2. QED
      BY <3>1 DEF RunInv
  <2>6. CASE HandlePutBack(e)
    <3>1. CASE ctxRun
      BY <2>6, <3>1 DEF HandlePutBack, RunInv
    <3>2. CASE ~ctxRun
      <4>1. hitem[e] \in failed /\ ctxShutdown = "nil"
        BY <2>6, <3>2 DEF HandlePutBack, RunInv
      <4>2. lost' = lost \cup {hitem[e]} /\ failed' = failed
        BY <2>6, <4>1 DEF HandlePutBack, BasePushForShutdown
      <4>3. /\ UNCHANGED <<ctxRun, ctxShutdown>>
            /\ \A d \in Execs : hpc'[d] = "putback" =>
                  hpc[d] = "putback" /\ hitem'[d] = hitem[d]
        BY <2>6 DEF HandlePutBack
      <4>4. QED
        BY <4>1, <4>2, <4>3, RunUntouched
    <3>3. QED
      BY <3>1, <3>2
  <2>7. QED
    BY <1>4, <2>1, <2>2, <2>3, <2>4, <2>5, <2>6 DEF HandleStep
<1>5. CASE SelectStep
  BY <1>5, RunUntouched DEF SelectStep, MainReceive, MainTimer, MainReturn, MainFlush, PopDeliver
<1>6. ASSUME NEW e \in Execs, NEW S, HandleBegin(e, S), UNCHANGED <<ctxRun, ctxShutdown, failed>>,
             lost' \subseteq lost \cup Corrupted
      PROVE  RunInv'
  <2>1. \A d \in Execs : hpc'[d] = "putback" => hpc[d] = "putback" /\ hitem'[d] = hitem[d]
    BY <1>6 DEF HandleBegin, QueueInv, TypeInv, TypeOK
  <2>2. QED
    BY <1>6, <2>1, RunUntouched
<1>7. CASE DispatchStep
  <2>1. CASE DispatchNothing \/ DispatchFull \/ Spawn \/ OfferEnds
    BY <2>1, RunUntouched DEF DispatchNothing, DispatchFull, Spawn, OfferEnds
  <2>2. ASSUME NEW w \in Workers, DispatchSend(w) \/ OfferTaken(w) PROVE RunInv'
    BY <1>6, <2>2 DEF DispatchSend, OfferTaken, Execs
  <2>3. ASSUME NEW f \in Flushers, OfferFlush(f) PROVE RunInv'
    BY <1>6, <2>3 DEF OfferFlush, Execs
  <2>4. QED
    BY <1>7, <2>1, <2>2, <2>3 DEF DispatchStep
<1>8. CASE FlushStep
  <2>1. CASE FlushReceive
    BY <1>6, <2>1, RunUntouched DEF FlushReceive, PopDeliver, Execs
  <2>2. CASE FlushCancelWorkers \/ FlushWorkersGone \/ FlushTick \/ FlushStop
    BY <2>2, RunUntouched DEF FlushCancelWorkers, FlushWorkersGone, FlushTick, FlushStop
  <2>3. QED
    BY <1>8, <2>1, <2>2 DEF FlushStep
<1>9. CASE ShutdownStep
  <2>1. CASE ShutdownBegin
    BY <2>1 DEF ShutdownBegin, RunInv
  <2>2. CASE ~ShutdownBegin
    BY <1>9, <2>2 DEF ShutdownStep, CollectReceive, CollectEnd, Join, PutBack, LastHandle,
                      QueueInv, BufferInv, RunInv
  <2>3. QED
    BY <2>1, <2>2
<1>10. CASE UNCHANGED vars
  BY <1>10, RunUntouched DEF vars
<1>11. QED
  BY <1>1, <1>2, <1>3, <1>4, <1>5, <1>7, <1>8, <1>9, <1>10 DEF Next

\* queue.go:23-24: whatever the handlers return, whatever flushes and workers
\* that end, and whatever the capacity, no item is lost while the queue runs but
\* a corrupted one, or one the base queue itself failed to take back or to hand
\* out.
THEOREM NothingIsLostWhileRunning == Spec => []NothingLostWhileRunning
<1>1. Init => RunInv
  BY DEF Init, RunInv
<1>2. QueueInv /\ RunInv /\ [Next]_vars => RunInv'
  BY RunInvStep
<1>3. RunInv => NothingLostWhileRunning
  BY DEF RunInv, NothingLostWhileRunning
<1>4. QED
  BY <1>1, <1>2, <1>3, QueueInvariant, PTL DEF Spec

-----------------------------------------------------------------------------
(* A shutdown by ShutdownWait *)

\* Nobody but ShutdownWait ends the queue: no graceful manager, and a base
\* queue that can be read.
OnlyShutdownWait == ~Graceful /\ ~PopMayFail

\* The shutdown context is there once ctxRun is done, so that the items that
\* find no handler are put back; and until it expires doRun waits for the
\* workers, and no item is given up but by a failure of the base queue.
KeepInv ==
    /\ stop = "idle" => ctxShutdown = "nil"
    /\ ctxRun => ctxShutdown # "nil"
    /\ popPc = "closed" \/ mpc = "shutdown" => ctxRun
    /\ mpc # "lasthandle"
    /\ ctxShutdown # "expired" =>
          /\ lost \subseteq Corrupted \cup failed
          /\ mpc = "done" => live = {}

\* Steps that neither begin nor end a part of the shutdown.
LEMMA KeepUntouched ==
  ASSUME KeepInv, UNCHANGED <<ctxRun, ctxShutdown, stop, live>>,
         lost' \subseteq lost \cup Corrupted, failed \subseteq failed',
         popPc' = "closed" => popPc = "closed" \/ ctxRun,
         mpc' \in {"shutdown", "lasthandle", "done"} => mpc' = mpc
  PROVE  KeepInv'
  BY DEF KeepInv

\* Callers, the pop loop and ShutdownWait.
LEMMA KeepInvCaller ==
  ASSUME OnlyShutdownWait, TypeOK, KeepInv, CallerStep \/ PopStep \/ StopStep PROVE KeepInv'
<1> USE DEF popVars, sourceVars, mainVars, flowVars, execVars, poolVars, ctxVars, ledgerVars,
        outerVars
<1>1. CASE CallerStep
  BY <1>1, KeepUntouched
  DEF CallerStep, Push, RemoveAllItems, SetWorkerMaxNumber, FlushRequest, FlushGiveUp
<1>2. CASE PopStep
  BY <1>2, KeepUntouched DEF PopStep, PopItem, PopFail, PopFailLoses, OnlyShutdownWait
<1>3. CASE StopStep
  BY <1>3 DEF StopStep, ParentCancel, StopBegin, StopExpire, StopReturn, OnlyShutdownWait, KeepInv
<1>4. QED
  BY <1>1, <1>2, <1>3

\* An item that is put back was not given up, so it is given up, until the
\* shutdown context expires, only when the base queue fails on it.
LEMMA PutBackKeeps ==
  ASSUME QueueInv, KeepInv, NEW i, i \in unhandled \/ \E e \in Execs : i \in hbatch[e],
         BasePushForShutdown(i), ctxShutdown = "open" \/ (ctxShutdown = "nil" /\ i \in failed)
  PROVE  lost' \subseteq Corrupted \cup failed'
<1>1. i \in unhandled \/ i \in Handling
  BY DEF Handling
<1>2. i \notin lost
  BY <1>1, Fields DEF QueueInv, ItemInv, Conserved, Partition, Names
<1>3. lost \subseteq Corrupted \cup failed
  BY DEF KeepInv
<1>4. \/ lost' = lost /\ failed' = failed \ {i}
      \/ lost' = lost \cup {i} /\ failed' = failed \cup {i}
  BY DEF BasePushForShutdown, BaseFails
<1>5. QED
  BY <1>2, <1>3, <1>4

\* The workers, and doRun while it handles.
LEMMA KeepInvHandle ==
  ASSUME QueueInv, RunInv, KeepInv, NEW e \in Execs, HandleStep(e) PROVE KeepInv'
<1> USE DEF popVars, sourceVars, mainVars, flowVars, poolVars, ctxVars, ledgerVars, outerVars
<1>1. ASSUME NEW left \in SUBSET hbatch[e], HandlerReturn(e, left) PROVE KeepInv'
  BY <1>1, KeepUntouched DEF HandlerReturn
<1>2. CASE BackoffEnd(e)
  BY <1>2, KeepUntouched DEF BackoffEnd
<1>3. CASE HandleEnd(e)
  BY <1>3, KeepUntouched DEF HandleEnd, QueueInv, TypeInv, TypeOK
<1>4. ASSUME NEW i \in hbatch[e], RequeuePush(e, i) PROVE KeepInv'
  BY <1>4, KeepUntouched DEF RequeuePush
<1>5. ASSUME NEW i \in hbatch[e], RequeueFail(e, i) PROVE KeepInv'
  BY <1>5, KeepUntouched DEF RequeueFail, PutAside, BaseFails
<1>6. CASE HandlePutBack(e)
  <2>1. hpc[e] = "putback" /\ hitem[e] \in hbatch[e] /\ BasePushForShutdown(hitem[e])
    BY <1>6 DEF HandlePutBack, QueueInv, ItemInv, HandsInv
  <2>2. ctxShutdown = "nil" => hitem[e] \in failed
    BY <2>1 DEF RunInv, KeepInv
  <2>3. ctxShutdown \in {"nil", "open", "expired"}
    BY DEF QueueInv, TypeInv, TypeOK
  <2>4. ctxShutdown # "expired" => lost' \subseteq Corrupted \cup failed'
    BY <2>1, <2>2, <2>3, PutBackKeeps
  <2>5. QED
    BY <1>6, <2>4 DEF HandlePutBack, KeepInv
<1>7. QED
  BY <1>1, <1>2, <1>3, <1>4, <1>5, <1>6 DEF HandleStep

\* The deferred shutdown.
LEMMA KeepInvShutdown ==
  ASSUME QueueInv, KeepInv, ShutdownStep PROVE KeepInv'
<1> USE DEF popVars, sourceVars, mainVars, flowVars, execVars, poolVars, ctxVars, ledgerVars,
        outerVars
<1>1. CASE ShutdownBegin
  BY <1>1 DEF ShutdownBegin, KeepInv
<1>2. CASE CollectReceive
  BY <1>2, KeepUntouched DEF CollectReceive, PopDeliver
<1>3. CASE CollectEnd
  BY <1>3 DEF CollectEnd, KeepInv
<1>4. CASE Join
  BY <1>4 DEF Join, WorkersJoined, KeepInv
<1>5. ASSUME NEW i \in unhandled, PutBack(i) PROVE KeepInv'
  <2>1. mpc = "putback" /\ ctxRun /\ ctxShutdown # "nil" /\ BasePushForShutdown(i)
    BY <1>5 DEF PutBack, QueueInv, BufferInv, KeepInv
  <2>2. ctxShutdown \in {"nil", "open", "expired"}
    BY DEF QueueInv, TypeInv, TypeOK
  <2>3. ctxShutdown # "expired" => lost' \subseteq Corrupted \cup failed'
    BY <2>1, <2>2, PutBackKeeps
  <2>4. QED
    BY <1>5, <2>3 DEF PutBack, KeepInv
<1>6. ASSUME NEW left \in SUBSET unhandled, LastHandle(left) PROVE KeepInv'
  BY <1>6 DEF LastHandle, KeepInv
<1>7. QED
  BY <1>1, <1>2, <1>3, <1>4, <1>5, <1>6 DEF ShutdownStep

\* Every step keeps the invariant.
LEMMA KeepInvStep ==
  ASSUME OnlyShutdownWait, QueueInv, RunInv, KeepInv, [Next]_vars PROVE KeepInv'
<1> USE DEF popVars, sourceVars, mainVars, flowVars, execVars, poolVars, ctxVars, ledgerVars,
        outerVars
<1>1. TypeOK
  BY DEF QueueInv, TypeInv
<1>2. ASSUME NEW w \in Workers, WorkerStep(w) PROVE KeepInv'
  BY <1>2 DEF WorkerStep, WorkerStop, WorkerIdle, WorkerLeaves, KeepInv
<1>3. CASE SelectStep
  BY <1>3 DEF SelectStep, MainReceive, MainTimer, MainReturn, MainFlush, BeforeFlush,
              PopDeliver, KeepInv
<1>4. CASE DispatchStep
  BY <1>1, <1>4 DEF DispatchStep, DispatchNothing, DispatchFull, Spawn, OfferEnds,
     DispatchSend, OfferTaken, OfferFlush, TypeOK, KeepInv
<1>5. CASE FlushStep
  BY <1>5, KeepUntouched
  DEF FlushStep, FlushCancelWorkers, FlushWorkersGone, FlushReceive, FlushTick, FlushStop,
      FlushEnd, PopDeliver
<1>6. CASE UNCHANGED vars
  BY <1>6, KeepUntouched DEF vars
<1>7. QED
  BY <1>1, <1>2, <1>3, <1>4, <1>5, <1>6, KeepInvCaller, KeepInvHandle, KeepInvShutdown DEF Next

\* workerqueue.go:186: with ShutdownWait alone to end the queue, and a context
\* that lasts, a shutdown puts back every item that was not handled, but for
\* those the base queue itself failed to take, for any number of items, workers
\* and flushes and any capacity.
THEOREM ShutdownKeepsTheItems ==
  ASSUME OnlyShutdownWait PROVE Spec => []ShutdownKeepsItems
<1>1. Init => RunInv /\ KeepInv
  BY DEF Init, RunInv, KeepInv
<1>2. QueueInv /\ RunInv /\ KeepInv /\ [Next]_vars => RunInv' /\ KeepInv'
  BY RunInvStep, KeepInvStep
<1>3. QueueInv /\ KeepInv => ShutdownKeepsItems
  <2> SUFFICES ASSUME QueueInv, KeepInv, mpc = "done", ctxShutdown = "open"
               PROVE  accepted \ Corrupted \subseteq base \cup handled \cup removed \cup failed
    BY DEF ShutdownKeepsItems
  <2>1. live = {} /\ lost \subseteq Corrupted \cup failed
    BY DEF KeepInv
  <2>2. InPop = {} /\ buffer = {} /\ batch = {} /\ unhandled = {}
    BY DEF QueueInv, BufferInv, ItemInv, FlowInv, InPop
  <2>3. Handling = {}
    BY <2>1, HandsEmpty DEF Handling
  <2>4. \A x \in accepted : x \in base \/ x \in handled \/ x \in lost \/ x \in removed
    BY <2>2, <2>3, Fields DEF QueueInv, ItemInv, Conserved, Partition, Names
  <2>5. QED
    BY <2>1, <2>4
<1>4. QED
  BY <1>1, <1>2, <1>3, QueueInvariant, PTL DEF Spec

-----------------------------------------------------------------------------
(* The refinement: each step of the queue accepts, takes, finishes,         *)
(* requeues, gives up or removes a set of items, or changes the status of   *)
(* none.                                                                    *)

Statuses == [i \in Items |-> Status(i)]

\* The items that are still in the queue, in whatever channel or buffer.
Waiting ==
    base \cup InPop \cup buffer \cup batch \cup IF mpc = "lasthandle" THEN {} ELSE unhandled

\* What tells the status of an item.
Classes == <<accepted, handled, lost, removed, Running>>

LedgerStep == Ledger!Next \/ UNCHANGED Statuses

-----------------------------------------------------------------------------
(* Each item has one status *)

\* The classes are apart, and all in them was accepted.
ClassesApart ==
    /\ Running \cap (handled \cup lost \cup removed \cup Waiting) = {}
    /\ Waiting \cap (handled \cup lost \cup removed) = {}
    /\ handled \cap (lost \cup removed) = {}
    /\ lost \cap removed = {}
    /\ Running \cup Waiting \cup handled \cup lost \cup removed = accepted
    /\ accepted \subseteq Items

\* The running items are in hand, or before the handler for the last time.
LEMMA RunningIs ==
  /\ Running = Handling \cup IF mpc = "lasthandle" THEN unhandled ELSE {}
  /\ Running' = Handling' \cup IF mpc' = "lasthandle" THEN unhandled' ELSE {}
  BY DEF Running, Handling

\* They are, since no two places share an item.
LEMMA ConservedApart ==
  ASSUME TypeOK, Conserved PROVE ClassesApart
<1> DEFINE W == Whereabouts
<1>1. \A m, n \in Names : m # n => W[m] \cap W[n] = {}
  BY DEF Conserved, Partition
<1>2. \A x : x \in accepted <=> \E n \in Names : x \in W[n]
  BY DEF Conserved, Partition
<1>3. /\ Handling \cap (handled \cup lost \cup removed \cup base \cup InPop \cup buffer \cup batch
                        \cup unhandled) = {}
      /\ unhandled \cap (handled \cup lost \cup removed \cup base \cup InPop \cup buffer
                         \cup batch) = {}
      /\ (base \cup InPop \cup buffer \cup batch) \cap (handled \cup lost \cup removed) = {}
      /\ handled \cap (lost \cup removed) = {} /\ lost \cap removed = {}
  BY <1>1, Fields DEF Names
<1>4. \A x : x \in accepted <=>
                x \in base \cup InPop \cup buffer \cup batch \cup unhandled \cup Handling
                      \cup handled \cup lost \cup removed
  BY <1>2, Fields DEF Names
<1>5. Running \cup Waiting \cup handled \cup lost \cup removed = accepted
  BY <1>4, RunningIs DEF Waiting
<1>6. /\ Running \cap (handled \cup lost \cup removed \cup Waiting) = {}
      /\ Waiting \cap (handled \cup lost \cup removed) = {}
  BY <1>3, RunningIs DEF Waiting
<1>7. QED
  BY <1>3, <1>5, <1>6 DEF ClassesApart, TypeOK

\* The status of an item, read off the classes.
LEMMA StatusIs ==
  ASSUME ClassesApart, NEW i \in Items
  PROVE  /\ i \notin accepted => Statuses[i] = "new"
         /\ i \in Waiting => Statuses[i] = "waiting"
         /\ i \in Running => Statuses[i] = "running"
         /\ i \in handled => Statuses[i] = "handled"
         /\ i \in lost => Statuses[i] = "lost"
         /\ i \in removed => Statuses[i] = "removed"
<1>1. Statuses[i] = Status(i)
  BY DEF Statuses
<1>2. QED
  BY <1>1 DEF Status, ClassesApart

\* And after a step.
LEMMA StatusWillBe ==
  ASSUME ClassesApart', NEW i \in Items
  PROVE  /\ i \notin accepted' => Statuses'[i] = "new"
         /\ i \in Waiting' => Statuses'[i] = "waiting"
         /\ i \in Running' => Statuses'[i] = "running"
         /\ i \in handled' => Statuses'[i] = "handled"
         /\ i \in lost' => Statuses'[i] = "lost"
         /\ i \in removed' => Statuses'[i] = "removed"
<1>1. Statuses'[i] = Status(i)'
  BY DEF Statuses
<1>2. QED
  BY <1>1 DEF Status, ClassesApart

\* Steps that move no item from one class to another.
LEMMA SameStatus ==
  ASSUME ClassesApart, ClassesApart', UNCHANGED Classes PROVE UNCHANGED Statuses
<1>1. Waiting' = Waiting
  BY DEF ClassesApart, Classes
<1>2. ASSUME NEW i \in Items PROVE Statuses'[i] = Statuses[i]
  BY <1>1, StatusIs, StatusWillBe DEF Classes, ClassesApart
<1>3. QED
  BY <1>2 DEF Statuses

\* A set of items goes from one status to another.
LEMMA MoveIs ==
  ASSUME NEW S \in SUBSET Items, S # {}, NEW from, NEW to,
         \A i \in S : Statuses[i] \in from /\ Statuses'[i] = to,
         \A i \in Items \ S : Statuses'[i] = Statuses[i]
  PROVE  Ledger!Move(S, from, to)
<1>1. Statuses' = [i \in Items |-> IF i \in S THEN to ELSE Statuses[i]]
  BY DEF Statuses
<1>2. QED
  BY <1>1 DEF Ledger!Move, Statuses

-----------------------------------------------------------------------------
(* The steps of the ledger, by what they do to the classes *)

\* Waiting items are taken.
LEMMA StepTakes ==
  ASSUME ClassesApart, ClassesApart', NEW S, S \subseteq Waiting,
         Running' = Running \cup S, UNCHANGED <<accepted, handled, lost, removed>>
  PROVE  LedgerStep
<1>1. Waiting' = Waiting \ S /\ S \in SUBSET Items
  BY DEF ClassesApart
<1>2. CASE S # {}
  <2>1. \A i \in S : Statuses[i] \in {"waiting"} /\ Statuses'[i] = "running"
    BY <1>1, StatusIs, StatusWillBe
  <2>2. \A i \in Items \ S : Statuses'[i] = Statuses[i]
    BY <1>1, StatusIs, StatusWillBe DEF ClassesApart
  <2>3. Ledger!Move(S, {"waiting"}, "running")
    BY <1>1, <1>2, <2>1, <2>2, MoveIs
  <2>4. QED
    BY <1>1, <2>3 DEF LedgerStep, Ledger!Next, Ledger!Take
<1>3. CASE S = {}
  BY <1>3, SameStatus DEF Classes, LedgerStep
<1>4. QED
  BY <1>2, <1>3

\* Running items go back.
LEMMA StepRequeues ==
  ASSUME ClassesApart, ClassesApart', NEW S, S \subseteq Running,
         Running' = Running \ S, UNCHANGED <<accepted, handled, lost, removed>>
  PROVE  LedgerStep
<1>1. Waiting' = Waiting \cup S /\ S \in SUBSET Items
  BY DEF ClassesApart
<1>2. CASE S # {}
  <2>1. \A i \in S : Statuses[i] \in {"running"} /\ Statuses'[i] = "waiting"
    BY <1>1, StatusIs, StatusWillBe
  <2>2. \A i \in Items \ S : Statuses'[i] = Statuses[i]
    BY <1>1, StatusIs, StatusWillBe DEF ClassesApart
  <2>3. Ledger!Move(S, {"running"}, "waiting")
    BY <1>1, <1>2, <2>1, <2>2, MoveIs
  <2>4. QED
    BY <1>1, <2>3 DEF LedgerStep, Ledger!Next, Ledger!Requeue
<1>3. CASE S = {}
  BY <1>3, SameStatus DEF Classes, LedgerStep
<1>4. QED
  BY <1>2, <1>3

\* Running items are handled.
LEMMA StepFinishes ==
  ASSUME ClassesApart, ClassesApart', NEW S, S \subseteq Running,
         Running' = Running \ S, handled' = handled \cup S, UNCHANGED <<accepted, lost, removed>>
  PROVE  LedgerStep
<1>1. Waiting' = Waiting /\ S \in SUBSET Items
  BY DEF ClassesApart
<1>2. CASE S # {}
  <2>1. \A i \in S : Statuses[i] \in {"running"} /\ Statuses'[i] = "handled"
    BY <1>1, StatusIs, StatusWillBe
  <2>2. \A i \in Items \ S : Statuses'[i] = Statuses[i]
    BY <1>1, StatusIs, StatusWillBe DEF ClassesApart
  <2>3. Ledger!Move(S, {"running"}, "handled")
    BY <1>1, <1>2, <2>1, <2>2, MoveIs
  <2>4. QED
    BY <1>1, <2>3 DEF LedgerStep, Ledger!Next, Ledger!Finish
<1>3. CASE S = {}
  BY <1>3, SameStatus DEF Classes, LedgerStep
<1>4. QED
  BY <1>2, <1>3

\* Items are given up, whether they wait or run.
LEMMA StepGivesUp ==
  ASSUME ClassesApart, ClassesApart', NEW S, S \subseteq Running \cup Waiting,
         Running' = Running \ S, lost' = lost \cup S, UNCHANGED <<accepted, handled, removed>>
  PROVE  LedgerStep
<1>1. Waiting' = Waiting \ S /\ S \in SUBSET Items
  BY DEF ClassesApart
<1>2. CASE S # {}
  <2>1. \A i \in S : Statuses[i] \in {"waiting", "running"} /\ Statuses'[i] = "lost"
    BY <1>1, StatusIs, StatusWillBe
  <2>2. \A i \in Items \ S : Statuses'[i] = Statuses[i]
    BY <1>1, StatusIs, StatusWillBe DEF ClassesApart
  <2>3. Ledger!Move(S, {"waiting", "running"}, "lost")
    BY <1>1, <1>2, <2>1, <2>2, MoveIs
  <2>4. QED
    BY <1>1, <2>3 DEF LedgerStep, Ledger!Next, Ledger!GiveUp
<1>3. CASE S = {}
  BY <1>3, SameStatus DEF Classes, LedgerStep
<1>4. QED
  BY <1>2, <1>3

\* Waiting items are removed.
LEMMA StepRemoves ==
  ASSUME ClassesApart, ClassesApart', NEW S, S \subseteq Waiting,
         removed' = removed \cup S, UNCHANGED <<accepted, handled, lost, Running>>
  PROVE  LedgerStep
<1>1. Waiting' = Waiting \ S /\ S \in SUBSET Items
  BY DEF ClassesApart
<1>2. CASE S # {}
  <2>1. \A i \in S : Statuses[i] \in {"waiting"} /\ Statuses'[i] = "removed"
    BY <1>1, StatusIs, StatusWillBe
  <2>2. \A i \in Items \ S : Statuses'[i] = Statuses[i]
    BY <1>1, StatusIs, StatusWillBe DEF ClassesApart
  <2>3. Ledger!Move(S, {"waiting"}, "removed")
    BY <1>1, <1>2, <2>1, <2>2, MoveIs
  <2>4. QED
    BY <1>1, <2>3 DEF LedgerStep, Ledger!Next, Ledger!Remove
<1>3. CASE S = {}
  BY <1>1, <1>3, SameStatus DEF Classes, LedgerStep
<1>4. QED
  BY <1>2, <1>3

\* A new item is accepted.
LEMMA StepAccepts ==
  ASSUME ClassesApart, ClassesApart', NEW i \in Items, i \notin accepted,
         accepted' = accepted \cup {i}, UNCHANGED <<handled, lost, removed, Running>>
  PROVE  LedgerStep
<1> DEFINE S == {i}
<1>1. Waiting' = Waiting \cup S /\ S \in SUBSET Items /\ S # {}
  BY DEF ClassesApart
<1>2. \A j \in S : Statuses[j] \in {"new"} /\ Statuses'[j] = "waiting"
  BY <1>1, StatusIs, StatusWillBe
<1>3. \A j \in Items \ S : Statuses'[j] = Statuses[j]
  BY <1>1, StatusIs, StatusWillBe DEF ClassesApart
<1> HIDE DEF S
<1>4. Ledger!Move(S, {"new"}, "waiting")
  BY <1>1, <1>2, <1>3, MoveIs
<1>5. QED
  BY <1>1, <1>4 DEF LedgerStep, Ledger!Next, Ledger!Accept

\* The last call of the handler handles some of its items and loses the others.
LEMMA StepFinishesLast ==
  ASSUME ClassesApart, ClassesApart', NEW S, NEW left, left \subseteq S, S \subseteq Running,
         Running' = Running \ S, handled' = handled \cup (S \ left), lost' = lost \cup left,
         UNCHANGED <<accepted, removed>>
  PROVE  LedgerStep
<1>1. Waiting' = Waiting /\ S \in SUBSET Items /\ left \in SUBSET S
  BY DEF ClassesApart
<1>2. \A i \in S : Statuses[i] = "running"
  BY <1>1, StatusIs
<1>3. \A i \in left : Statuses'[i] = "lost"
  BY <1>1, StatusWillBe
<1>4. \A i \in S \ left : Statuses'[i] = "handled"
  BY <1>1, StatusWillBe
<1>5. \A i \in Items \ S : Statuses'[i] = Statuses[i]
  BY <1>1, StatusIs, StatusWillBe DEF ClassesApart
<1>6. Statuses' = [i \in Items |-> IF i \in left THEN "lost"
                                   ELSE IF i \in S THEN "handled" ELSE Statuses[i]]
  BY <1>1, <1>3, <1>4, <1>5 DEF Statuses
<1>7. Ledger!FinishLast(S, left)
  BY <1>1, <1>2, <1>6 DEF Ledger!FinishLast, Statuses
<1>8. QED
  BY <1>1, <1>7 DEF LedgerStep, Ledger!Next

-----------------------------------------------------------------------------
(* The steps of the queue *)

\* A step that changes none of the classes' variables.
LEMMA StepOfNone ==
  ASSUME ClassesApart, ClassesApart', UNCHANGED <<accepted, handled, lost, removed, hbatch>>,
         mpc # "lasthandle", mpc' # "lasthandle"
  PROVE  LedgerStep
<1>1. Running' = Running
  BY RunningIs DEF Handling
<1>2. QED
  BY <1>1, SameStatus DEF Classes, LedgerStep

\* Nor does one of another goroutine than doRun.
LEMMA StepAside ==
  ASSUME ClassesApart, ClassesApart',
         UNCHANGED <<accepted, handled, lost, removed, hbatch, mpc, unhandled>>
  PROVE  LedgerStep
<1>1. Running' = Running
  BY RunningIs DEF Handling
<1>2. QED
  BY <1>1, SameStatus DEF Classes, LedgerStep

\* Callers, the pop loop, workers that end, and ShutdownWait.
LEMMA LedgerCaller ==
  ASSUME ClassesApart, ClassesApart',
         CallerStep \/ PopStep \/ StopStep \/ \E w \in Workers : WorkerStep(w)
  PROVE  LedgerStep
<1> USE DEF mainVars, flowVars, itemVars, execVars, handleVars, ledgerVars, outerVars
<1>1. ASSUME NEW i \in Items, Push(i) PROVE LedgerStep
  <2>1. /\ i \notin accepted /\ accepted' = accepted \cup {i}
        /\ UNCHANGED <<handled, lost, removed, hbatch, mpc, unhandled>>
    BY <1>1 DEF Push
  <2>2. Running' = Running
    BY <2>1, RunningIs DEF Handling
  <2>3. QED
    BY <2>1, <2>2, StepAccepts
<1>2. CASE RemoveAllItems
  <2>1. /\ removed' = removed \cup base
        /\ UNCHANGED <<accepted, handled, lost, hbatch, mpc, unhandled>>
    BY <1>2 DEF RemoveAllItems
  <2>2. Running' = Running
    BY <2>1, RunningIs DEF Handling
  <2>3. base \subseteq Waiting
    BY DEF Waiting
  <2>4. QED
    BY <2>1, <2>2, <2>3, StepRemoves
<1>3. ASSUME NEW n \in MaxNums, SetWorkerMaxNumber(n) PROVE LedgerStep
  BY <1>3, StepAside DEF SetWorkerMaxNumber
<1>4. ASSUME NEW f \in Flushers, FlushRequest(f) \/ FlushGiveUp(f) PROVE LedgerStep
  BY <1>4, StepAside DEF FlushRequest, FlushGiveUp
<1>5. CASE PopStep
  <2>1. CASE PopFail \/ \E i \in Items : PopItem(i)
    BY <2>1, StepAside DEF PopItem, PopFail
  <2>2. ASSUME NEW i \in Items, PopFailLoses(i) PROVE LedgerStep
    <3>1. PICK S : S = {i}
      OBVIOUS
    <3>2. /\ S \subseteq Waiting /\ lost' = lost \cup S
          /\ UNCHANGED <<accepted, handled, removed, hbatch, mpc, unhandled>>
      BY <2>2, <3>1 DEF PopFailLoses, Waiting
    <3>3. Running' = Running
      BY <3>2, RunningIs DEF Handling
    <3>4. Running' = Running \ S
      BY <3>2, <3>3 DEF ClassesApart
    <3>5. QED
      BY <3>2, <3>4, StepGivesUp
  <2>3. QED
    BY <1>5, <2>1, <2>2 DEF PopStep
<1>6. CASE StopStep
  BY <1>6, StepAside DEF StopStep, ParentCancel, StopBegin, StopExpire, StopReturn
<1>7. ASSUME NEW w \in Workers, WorkerStep(w) PROVE LedgerStep
  BY <1>7, StepAside DEF WorkerStep, WorkerStop, WorkerIdle, WorkerLeaves
<1>8. QED
  BY <1>1, <1>2, <1>3, <1>4, <1>5, <1>6, <1>7 DEF CallerStep

\* What leaves the hands of a goroutine leaves the running items.
LEMMA RunningLose ==
  ASSUME TypeOK, Conserved, NEW e \in Execs, NEW S, S \subseteq hbatch[e],
         hbatch' = [hbatch EXCEPT ![e] = hbatch[e] \ S], UNCHANGED <<mpc, unhandled>>
  PROVE  S \subseteq Running /\ Running' = Running \ S
<1>1. S \subseteq Handling /\ Handling' = Handling \ S
  BY HandsLose DEF Conserved
<1>2. S \cap unhandled = {}
  BY <1>1, PlacesApart
<1>3. QED
  BY <1>1, <1>2, RunningIs

\* The handler, the requeue and the put-back.
LEMMA LedgerHandle ==
  ASSUME TypeOK, ControlInv, Conserved, HandsInv, ClassesApart, ClassesApart',
         NEW e \in Execs, HandleStep(e)
  PROVE  LedgerStep
<1> USE DEF mainVars, flowVars, itemVars, ledgerVars, outerVars
<1>1. ASSUME NEW left \in SUBSET hbatch[e], HandlerReturn(e, left) PROVE LedgerStep
  <2>1. PICK S : S = hbatch[e] \ left
    OBVIOUS
  <2>2. hbatch[e] \ S = left /\ S \subseteq hbatch[e]
    BY <2>1
  <2>3. /\ hbatch' = [hbatch EXCEPT ![e] = hbatch[e] \ S] /\ handled' = handled \cup S
        /\ UNCHANGED <<accepted, lost, removed, mpc, unhandled>>
    BY <1>1, <2>1, <2>2 DEF HandlerReturn
  <2>4. S \subseteq Running /\ Running' = Running \ S
    BY <2>2, <2>3, RunningLose
  <2>5. QED
    BY <2>3, <2>4, StepFinishes
<1>2. CASE BackoffEnd(e)
  BY <1>2, StepAside DEF BackoffEnd
<1>3. CASE HandleEnd(e)
  <2>1. /\ e # Main => UNCHANGED mpc
        /\ e = Main => mpc = "handle" /\ mpc' # "lasthandle"
        /\ UNCHANGED <<accepted, handled, lost, removed, hbatch, unhandled>>
    BY <1>3 DEF HandleEnd, ControlInv, TypeOK
  <2>2. QED
    BY <2>1, StepAside, StepOfNone
<1>4. ASSUME NEW i \in hbatch[e], RequeuePush(e, i) PROVE LedgerStep
  <2>1. PICK S : S = {i}
    OBVIOUS
  <2>2. /\ S \subseteq hbatch[e] /\ hbatch' = [hbatch EXCEPT ![e] = hbatch[e] \ S]
        /\ UNCHANGED <<accepted, handled, lost, removed, mpc, unhandled>>
    BY <1>4, <2>1 DEF RequeuePush
  <2>3. S \subseteq Running /\ Running' = Running \ S
    BY <2>2, RunningLose
  <2>4. QED
    BY <2>2, <2>3, StepRequeues
<1>5. ASSUME NEW i \in hbatch[e], RequeueFail(e, i) PROVE LedgerStep
  BY <1>5, StepAside DEF RequeueFail, PutAside
<1>6. CASE HandlePutBack(e)
  <2>1. PICK S : S = {hitem[e]}
    OBVIOUS
  <2>2. /\ S \subseteq hbatch[e] /\ hbatch' = [hbatch EXCEPT ![e] = hbatch[e] \ S]
        /\ UNCHANGED <<accepted, handled, removed, mpc, unhandled>>
    BY <1>6, <2>1 DEF HandlePutBack, HandsInv
  <2>3. S \subseteq Running /\ Running' = Running \ S
    BY <2>2, RunningLose
  <2>4. lost' = lost \/ lost' = lost \cup S
    BY <1>6, <2>1 DEF HandlePutBack, BasePushForShutdown
  <2>5. QED
    BY <2>2, <2>3, <2>4, StepRequeues, StepGivesUp
<1>7. QED
  BY <1>1, <1>2, <1>3, <1>4, <1>5, <1>6 DEF HandleStep

\* What is received keeps waiting, unless it is corrupted.
LEMMA LedgerReceive ==
  ASSUME ClassesApart, ClassesApart', PopDeliver,
         UNCHANGED <<hbatch, removed>>, mpc # "lasthandle", mpc' # "lasthandle"
  PROVE  LedgerStep
<1>1. PICK S : S = {popItem} \cap Corrupted
  OBVIOUS
<1>2. S \subseteq Waiting /\ lost' = lost \cup S /\ UNCHANGED <<accepted, handled>>
  BY <1>1 DEF PopDeliver, Waiting, InPop
<1>3. Running' = Running
  BY RunningIs DEF Handling
<1>4. Running' = Running \ S
  BY <1>2, <1>3 DEF ClassesApart
<1>5. QED
  BY <1>2, <1>4, StepGivesUp

\* The select of doRun.
LEMMA LedgerSelect ==
  ASSUME ClassesApart, ClassesApart', SelectStep PROVE LedgerStep
<1> USE DEF flowVars, execVars, handleVars, ledgerVars, outerVars
<1>1. CASE MainReceive
  BY <1>1, LedgerReceive DEF MainReceive, PopDeliver
<1>2. CASE MainTimer
  BY <1>2, StepOfNone DEF MainTimer
<1>3. CASE MainReturn
  BY <1>3, StepOfNone DEF MainReturn
<1>4. ASSUME NEW f \in Flushers, MainFlush(f) PROVE LedgerStep
  BY <1>4, StepOfNone DEF MainFlush, BeforeFlush
<1>5. QED
  BY <1>1, <1>2, <1>3, <1>4 DEF SelectStep

\* A goroutine with empty hands takes waiting items.
LEMMA LedgerTakes ==
  ASSUME TypeOK, Conserved, ClassesApart, ClassesApart', NEW e \in Execs, hbatch[e] = {},
         NEW S, S \subseteq Waiting, HandleBegin(e, S),
         UNCHANGED <<accepted, handled, lost, removed>>, mpc # "lasthandle", mpc' # "lasthandle"
  PROVE  LedgerStep
<1>1. S \cap Handling = {}
  BY RunningIs DEF ClassesApart
<1>2. Handling' = Handling \cup S
  BY <1>1, HandsGain DEF HandleBegin, Conserved
<1>3. Running' = Running \cup S
  BY <1>2, RunningIs
<1>4. QED
  BY <1>3, StepTakes

\* The dispatch.
LEMMA LedgerDispatch ==
  ASSUME TypeOK, Conserved, HandsInv, ControlInv, ClassesApart, ClassesApart', DispatchStep
  PROVE  LedgerStep
<1> USE DEF execVars, handleVars, ctxVars, ledgerVars, outerVars
<1>1. ret # "lasthandle"
  BY DEF TypeOK
<1>2. CASE DispatchNothing \/ DispatchFull \/ Spawn \/ OfferEnds
  BY <1>1, <1>2, StepOfNone DEF DispatchNothing, DispatchFull, Spawn, OfferEnds
<1>3. buffer \subseteq Waiting /\ batch \subseteq Waiting
  BY DEF Waiting
<1>4. ASSUME NEW w \in Workers, DispatchSend(w) PROVE LedgerStep
  <2>1. w \in Execs /\ hbatch[w] = {}
    BY <1>4 DEF DispatchSend, Ready, HandsInv, Execs
  <2>2. PICK S : S = buffer
    OBVIOUS
  <2>3. QED
    BY <1>1, <1>3, <1>4, <2>1, <2>2, LedgerTakes DEF DispatchSend
<1>5. ASSUME NEW w \in Workers, OfferTaken(w) PROVE LedgerStep
  <2>1. w \in Execs /\ hbatch[w] = {}
    BY <1>5 DEF OfferTaken, Ready, HandsInv, Execs
  <2>2. PICK S : S = batch
    OBVIOUS
  <2>3. QED
    BY <1>1, <1>3, <1>5, <2>1, <2>2, LedgerTakes DEF OfferTaken
<1>6. ASSUME NEW f \in Flushers, OfferFlush(f) PROVE LedgerStep
  <2>1. Main \in Execs /\ hbatch[Main] = {}
    BY <1>6 DEF OfferFlush, HandsInv, ControlInv, Execs
  <2>2. PICK S : S = batch
    OBVIOUS
  <2>3. QED
    BY <1>1, <1>3, <1>6, <2>1, <2>2, LedgerTakes DEF OfferFlush
<1>7. QED
  BY <1>2, <1>4, <1>5, <1>6 DEF DispatchStep

\* The flush: what it receives runs at once, unless it is corrupted.
LEMMA LedgerFlush ==
  ASSUME TypeOK, Conserved, HandsInv, ControlInv, ClassesApart, ClassesApart', FlushStep
  PROVE  LedgerStep
<1> USE DEF flowVars, execVars, handleVars, ctxVars, ledgerVars, outerVars
<1>1. CASE FlushReceive
  <2>1. /\ PopDeliver /\ mpc = "drain" /\ mpc' # "lasthandle" /\ UNCHANGED removed
    BY <1>1 DEF FlushReceive, PopDeliver
  <2>2. CASE Received = {}
    BY <1>1, <2>1, <2>2, LedgerReceive DEF FlushReceive
  <2>3. CASE Received # {}
    <3>1. Main \in Execs /\ hbatch[Main] = {}
      BY <2>1 DEF HandsInv, ControlInv, Execs
    <3>2. PICK S : S = Received
      OBVIOUS
    <3>3. S \subseteq Waiting
      BY <2>1, <3>2 DEF Received, PopDeliver, Waiting, InPop
    <3>4. lost' = lost /\ UNCHANGED <<accepted, handled>>
      BY <2>1, <2>3 DEF PopDeliver, Received
    <3>5. QED
      BY <1>1, <2>1, <2>3, <3>1, <3>2, <3>3, <3>4, LedgerTakes DEF FlushReceive
  <2>4. QED
    BY <2>2, <2>3
<1>2. CASE FlushCancelWorkers \/ FlushWorkersGone
  BY <1>2, StepOfNone DEF FlushCancelWorkers, FlushWorkersGone
<1>3. CASE FlushTick \/ FlushStop
  BY <1>3, StepOfNone DEF FlushTick, FlushStop, FlushEnd
<1>4. QED
  BY <1>1, <1>2, <1>3 DEF FlushStep

\* The deferred shutdown: a last call of the handler, or all is put back.
LEMMA LedgerShutdown ==
  ASSUME Conserved, ClassesApart, ClassesApart', ShutdownStep PROVE LedgerStep
<1> USE DEF flowVars, itemVars, execVars, handleVars, ledgerVars, outerVars
<1>1. CASE ShutdownBegin
  BY <1>1, StepOfNone DEF ShutdownBegin
<1>2. CASE CollectReceive
  BY <1>2, LedgerReceive DEF CollectReceive, PopDeliver
<1>3. CASE CollectEnd
  <2>1. /\ mpc = "collect" /\ mpc' \in {"lasthandle", "putback"}
        /\ UNCHANGED <<accepted, handled, lost, removed, hbatch, unhandled>>
    BY <1>3 DEF CollectEnd
  <2>2. CASE mpc' = "putback"
    BY <2>1, <2>2, StepOfNone
  <2>3. CASE mpc' = "lasthandle"
    <3>1. unhandled \subseteq Waiting
      BY <2>1 DEF Waiting
    <3>2. Running' = Running \cup unhandled
      BY <2>1, <2>3, RunningIs DEF Handling
    <3>3. QED
      BY <2>1, <3>1, <3>2, StepTakes
  <2>4. QED
    BY <2>1, <2>2, <2>3
<1>4. CASE Join
  BY <1>4, StepOfNone DEF Join
<1>5. ASSUME NEW i \in unhandled, PutBack(i) PROVE LedgerStep
  <2>1. /\ mpc = "putback" /\ mpc' = "putback" /\ {i} \subseteq Waiting
        /\ UNCHANGED <<accepted, handled, removed, hbatch>>
    BY <1>5 DEF PutBack, Waiting
  <2>2. Running' = Running /\ Running' = Running \ {i}
    BY <2>1, RunningIs DEF Handling, ClassesApart
  <2>3. CASE lost' = lost
    BY <2>1, <2>3, StepOfNone
  <2>4. CASE lost' = lost \cup {i}
    BY <2>1, <2>2, <2>4, StepGivesUp
  <2>5. QED
    BY <1>5, <2>3, <2>4 DEF PutBack, BasePushForShutdown
<1>6. ASSUME NEW left \in SUBSET unhandled, LastHandle(left) PROVE LedgerStep
  <2>1. /\ mpc = "lasthandle" /\ mpc' = "done" /\ unhandled \subseteq Running
        /\ handled' = handled \cup (unhandled \ left) /\ lost' = lost \cup left
        /\ UNCHANGED <<accepted, removed, hbatch>>
    BY <1>6, RunningIs DEF LastHandle
  <2>2. Running' = Running \ unhandled
    BY <2>1, RunningIs, PlacesApart DEF Handling
  <2>3. QED
    BY <2>1, <2>2, StepFinishesLast
<1>7. QED
  BY <1>1, <1>2, <1>3, <1>4, <1>5, <1>6 DEF ShutdownStep

-----------------------------------------------------------------------------
(* The theorem *)

\* Every step of the queue is a step of the ledger.
LEMMA LedgerNext ==
  ASSUME TypeInv, PoolInv, ItemInv, ClassesApart, ClassesApart', [Next]_vars PROVE LedgerStep
<1>1. TypeOK /\ ControlInv /\ Conserved /\ HandsInv
  BY DEF TypeInv, PoolInv, ItemInv
<1>2. CASE UNCHANGED vars
  BY <1>2, StepAside DEF vars, mainVars, flowVars, itemVars, execVars, handleVars, outerVars,
                         ledgerVars
<1>3. QED
  BY <1>1, <1>2, LedgerCaller, LedgerHandle, LedgerSelect, LedgerDispatch, LedgerFlush,
     LedgerShutdown DEF Next

\* At first every item is new.
LEMMA LedgerInit == Init => Ledger!Init
<1> SUFFICES ASSUME Init PROVE Ledger!Init
  OBVIOUS
<1>1. ClassesApart
  BY TypeInvInit, ItemInvInit, ConservedApart DEF TypeInv, ItemInv
<1>2. \A i \in Items : Statuses[i] = "new"
  BY <1>1, StatusIs DEF Init
<1>3. QED
  BY <1>2 DEF Ledger!Init, Statuses

\* The queue implements ItemLedger: an item is handled only by being run, is
\* never run again once it is handled, given up or removed, and never comes
\* back, whatever the interleaving of producers, workers, flushes and shutdown.
THEOREM QueueImplementsLedger == Spec => ImplementsLedger
<1>1. TypeInv /\ PoolInv /\ ItemInv => ClassesApart
  BY ConservedApart DEF TypeInv, ItemInv
<1>2. TypeInv /\ PoolInv /\ ItemInv /\ ClassesApart /\ ClassesApart' /\ [Next]_vars =>
        [Ledger!Next]_Statuses
  BY LedgerNext DEF LedgerStep
<1>3. Spec => [][Ledger!Next]_Statuses
  BY <1>1, <1>2, ItemInvariant, PTL DEF Spec
<1>4. Spec => Ledger!Init
  BY LedgerInit DEF Spec
<1>5. QED
  BY <1>3, <1>4, PTL DEF ImplementsLedger, Ledger!Spec, Statuses
=============================================================================
