----------------------- MODULE WorkerPoolQueue_proofs -----------------------
(***************************************************************************)
(* What holds in WorkerPoolQueue for every set of items, workers and        *)
(* flushers and every capacity: the types, the counters of the worker pool, *)
(* that a batch on offer has a worker to take it, that doFlush works alone, *)
(* and how the pool grows and shrinks.                                      *)
(***************************************************************************)
EXTENDS WorkerPoolQueue, FiniteSetTheorems, TLAPS

\* Whoever has an item in hand has one of Items.
HandInv ==
    /\ popPc = "send" => popItem \in Items
    /\ \A e \in Execs : hpc[e] = "putback" => hitem[e] \in Items

TypeInv == TypeOK /\ HandInv

-----------------------------------------------------------------------------
\* The initial states are well typed.
LEMMA TypeInvInit == Init => TypeInv
<1> SUFFICES ASSUME Init PROVE TypeInv
  OBVIOUS
<1>1. /\ hpc \in [Execs -> {"idle", "handler", "backoff", "requeue", "putback"}]
      /\ hbatch \in [Execs -> SUBSET Items]
      /\ hitem \in [Execs -> Items \cup {NoItem}]
      /\ fl \in [Flushers -> {"idle", "sending", "waiting", "done", "gaveup"}]
  BY DEF Init
<1>2. HandInv
  BY DEF Init, HandInv
<1>3. /\ base = {} /\ buffer = {} /\ batch = {} /\ unhandled = {} /\ live = {}
      /\ accepted = {} /\ handled = {} /\ lost = {} /\ removed = {}
      /\ failed = {}
      /\ empty \in 0 .. 1 /\ workerNum \in Int /\ activeNum \in Int /\ maxNum \in MaxNums
  BY DEF Init
<1>4. /\ popPc = "pop" /\ popItem = NoItem /\ mpc \in Places /\ ret = "loop"
      /\ flush = NoFlush /\ ctxShutdown = "nil" /\ stop = "idle"
  BY DEF Init, Places
<1>5. debounce \in BOOLEAN /\ wcancel \in BOOLEAN /\ ctxRun \in BOOLEAN
  BY Zenon DEF Init
<1>6. QED
  BY <1>1, <1>2, <1>3, <1>4, <1>5 DEF TypeInv, TypeOK

\* Producers, administrators and the pop loop leave a well-typed state.
LEMMA TypeInvCaller == ASSUME TypeInv, CallerStep \/ PopStep PROVE TypeInv'
<1> USE DEF TypeInv, TypeOK, HandInv, popVars, sourceVars, mainVars, flowVars, itemVars,
        flushVars, execVars, poolVars, handleVars, ctxVars, ledgerVars, outerVars
<1>1. ASSUME NEW i \in Items, Push(i) PROVE TypeInv'
  BY <1>1 DEF Push
<1>2. CASE RemoveAllItems
  BY <1>2 DEF RemoveAllItems
<1>3. ASSUME NEW n \in MaxNums, SetWorkerMaxNumber(n) PROVE TypeInv'
  BY <1>3 DEF SetWorkerMaxNumber
<1>4. ASSUME NEW f \in Flushers, FlushRequest(f) PROVE TypeInv'
  BY <1>4 DEF FlushRequest
<1>5. ASSUME NEW f \in Flushers, FlushGiveUp(f) PROVE TypeInv'
  BY <1>5 DEF FlushGiveUp
<1>6. CASE PopFail
  BY <1>6 DEF PopFail
<1>7. ASSUME NEW i \in Items, PopItem(i) PROVE TypeInv'
  BY <1>7 DEF PopItem
<1>8. ASSUME NEW i \in Items, PopFailLoses(i) PROVE TypeInv'
  BY <1>8 DEF PopFailLoses
<1>9. QED
  BY <1>1, <1>2, <1>3, <1>4, <1>5, <1>6, <1>7, <1>8 DEF CallerStep, PopStep

\* The handler and the requeue leave a well-typed state.
LEMMA TypeInvHandle ==
  ASSUME TypeInv, NEW e \in Execs, HandleStep(e) PROVE TypeInv'
<1> USE DEF TypeInv, TypeOK, HandInv, popVars, sourceVars, mainVars, flowVars, itemVars,
        flushVars, execVars, poolVars, handleVars, ctxVars, ledgerVars, outerVars
<1>1. ASSUME NEW left \in SUBSET hbatch[e], HandlerReturn(e, left) PROVE TypeInv'
  BY <1>1 DEF HandlerReturn
<1>2. CASE BackoffEnd(e)
  BY <1>2 DEF BackoffEnd
<1>3. CASE HandlePutBack(e)
  BY <1>3 DEF HandlePutBack, BasePushForShutdown, BaseFails
<1>4. CASE HandleEnd(e)
  BY <1>4 DEF HandleEnd, Deactivate, Places
<1>5. ASSUME NEW i \in hbatch[e], RequeuePush(e, i) PROVE TypeInv'
  BY <1>5 DEF RequeuePush
<1>6. ASSUME NEW i \in hbatch[e], RequeueFail(e, i) PROVE TypeInv'
  BY <1>6 DEF RequeueFail, PutAside, BaseFails
<1>7. QED
  BY <1>1, <1>2, <1>3, <1>4, <1>5, <1>6 DEF HandleStep

\* The main loop and the dispatch leave a well-typed state.
LEMMA TypeInvDispatch ==
  ASSUME TypeInv, SelectStep \/ DispatchStep PROVE TypeInv'
<1> USE DEF TypeInv, TypeOK, HandInv, popVars, sourceVars, mainVars, flowVars, itemVars,
        flushVars, execVars, poolVars, handleVars, ctxVars, ledgerVars, outerVars,
        Places, Execs
<1>1. CASE MainReceive
  BY <1>1 DEF MainReceive, PopDeliver, Received, Debounce
<1>2. CASE MainTimer
  BY <1>2 DEF MainTimer
<1>3. CASE MainReturn
  BY <1>3 DEF MainReturn
<1>4. ASSUME NEW f \in Flushers, MainFlush(f) PROVE TypeInv'
  BY <1>4 DEF MainFlush, TakeFlush, BeforeFlush
<1>5. CASE DispatchNothing
  BY <1>5 DEF DispatchNothing
<1>6. CASE DispatchFull
  BY <1>6 DEF DispatchFull, ResetBuffer
<1>7. CASE Spawn
  BY <1>7 DEF Spawn, StartWorker
<1>8. CASE OfferEnds
  BY <1>8 DEF OfferEnds
<1>9. ASSUME NEW w \in Workers, DispatchSend(w) PROVE TypeInv'
  BY <1>9 DEF DispatchSend, HandleBegin, ResetBuffer
<1>10. ASSUME NEW w \in Workers, OfferTaken(w) PROVE TypeInv'
  BY <1>10 DEF OfferTaken, HandleBegin
<1>11. ASSUME NEW f \in Flushers, OfferFlush(f) PROVE TypeInv'
  BY <1>11 DEF OfferFlush, TakeFlush, HandleBegin
<1>12. QED
  BY <1>1, <1>2, <1>3, <1>4, <1>5, <1>6, <1>7, <1>8, <1>9, <1>10, <1>11
  DEF SelectStep, DispatchStep

\* The flush leaves a well-typed state.
LEMMA TypeInvFlush == ASSUME TypeInv, FlushStep PROVE TypeInv'
<1> USE DEF TypeInv, TypeOK, HandInv, popVars, sourceVars, mainVars, flowVars, itemVars,
        flushVars, execVars, poolVars, handleVars, ctxVars, ledgerVars, outerVars,
        Places, Execs
<1>1. CASE FlushCancelWorkers
  BY <1>1 DEF FlushCancelWorkers
<1>2. CASE FlushWorkersGone
  BY <1>2 DEF FlushWorkersGone
<1>3. CASE FlushReceive
  BY <1>3 DEF FlushReceive, PopDeliver, Received, HandleBegin
<1>4. ASSUME FlushEnd
      PROVE  /\ fl' \in [Flushers -> {"idle", "sending", "waiting", "done", "gaveup"}]
             /\ flush' = NoFlush /\ wcancel' = FALSE /\ mpc' = "loop" /\ ret' = "loop"
             /\ empty' = 0
  BY <1>4 DEF FlushEnd, CloseFlush
<1>5. CASE FlushTick
  <2>1. CASE FlushEnd
    BY <1>4, <1>5, <2>1 DEF FlushTick
  <2>2. CASE empty' \in 0 .. 1 /\ UNCHANGED <<fl, flush, wcancel, mpc, ret>>
    BY <1>5, <2>2 DEF FlushTick
  <2>3. QED
    BY <1>5, <2>1, <2>2 DEF FlushTick
<1>6. CASE FlushStop
  BY <1>4, <1>6 DEF FlushStop
<1>7. QED
  BY <1>1, <1>2, <1>3, <1>5, <1>6 DEF FlushStep

\* The shutdown, and workers that end, leave a well-typed state.
LEMMA TypeInvShutdown ==
  ASSUME TypeInv, ShutdownStep \/ StopStep \/ (\E w \in Workers : WorkerStep(w))
  PROVE  TypeInv'
<1> USE DEF TypeInv, TypeOK, HandInv, popVars, sourceVars, mainVars, flowVars, itemVars,
        flushVars, execVars, poolVars, handleVars, ctxVars, ledgerVars, outerVars, Places
<1>1. CASE ShutdownBegin
  BY <1>1 DEF ShutdownBegin, CollectBuffer
<1>2. CASE CollectReceive
  BY <1>2 DEF CollectReceive, PopDeliver, Received
<1>3. CASE CollectEnd
  BY <1>3 DEF CollectEnd
<1>4. CASE Join
  BY <1>4 DEF Join
<1>5. ASSUME NEW i \in unhandled, PutBack(i) PROVE TypeInv'
  BY <1>5 DEF PutBack, BasePushForShutdown, BaseFails
<1>6. ASSUME NEW left \in SUBSET unhandled, LastHandle(left) PROVE TypeInv'
  BY <1>6 DEF LastHandle
<1>7. CASE StopStep
  <2>1. CASE ParentCancel
    BY <2>1 DEF ParentCancel
  <2>2. CASE StopBegin
    BY <2>2 DEF StopBegin
  <2>3. CASE StopExpire
    BY <2>3 DEF StopExpire
  <2>4. CASE StopReturn
    BY <2>4 DEF StopReturn
  <2>5. QED
    BY <1>7, <2>1, <2>2, <2>3, <2>4 DEF StopStep
<1>8. ASSUME NEW w \in Workers, WorkerStep(w) PROVE TypeInv'
  BY <1>8 DEF WorkerStep, WorkerStop, WorkerIdle, WorkerLeaves
<1>9. QED
  BY <1>1, <1>2, <1>3, <1>4, <1>5, <1>6, <1>7, <1>8 DEF ShutdownStep

\* Every step leaves a well-typed state.
LEMMA TypeInvStep == TypeInv /\ [Next]_vars => TypeInv'
<1>1. ASSUME TypeInv, UNCHANGED vars PROVE TypeInv'
  BY <1>1
  DEF vars, TypeInv, TypeOK, HandInv, popVars, sourceVars, mainVars, flowVars, itemVars,
      flushVars, execVars, poolVars, handleVars, ctxVars, ledgerVars, outerVars
<1>2. QED
  BY <1>1, TypeInvCaller, TypeInvHandle, TypeInvDispatch, TypeInvFlush, TypeInvShutdown
  DEF Next

\* Every variable of the queue keeps its type.
THEOREM TypeCorrect == Spec => []TypeOK
<1>1. TypeInv => TypeOK
  BY DEF TypeInv
<1>2. QED
  BY <1>1, TypeInvInit, TypeInvStep, PTL DEF Spec

-----------------------------------------------------------------------------
(* Counting goroutines *)

\* The goroutines inside doWorkerHandle.
Busy == {e \in Execs : hpc[e] # "idle"}

LiveCounted == workerNum = Cardinality(live)

BusyCounted == activeNum = Cardinality(Busy)

\* The set of all goroutines that run the handler is finite.
LEMMA ExecsFinite == IsFiniteSet(Execs)
  BY WorkerPoolQueueAssumption, FS_AddElement DEF Execs

\* Entering doWorkerHandle adds one to both.
LEMMA BusyBegins ==
  ASSUME TypeOK, BusyCounted, NEW e \in Execs, hpc[e] = "idle", NEW items, HandleBegin(e, items)
  PROVE  BusyCounted'
<1>1. IsFiniteSet(Busy) /\ e \notin Busy
  BY ExecsFinite, FS_Subset DEF Busy
<1>2. Busy' = Busy \cup {e}
  BY DEF Busy, TypeOK, HandleBegin
<1>3. Cardinality(Busy \cup {e}) = Cardinality(Busy) + 1
  BY <1>1, FS_AddElement
<1>4. QED
  BY <1>2, <1>3 DEF BusyCounted, HandleBegin

\* Leaving it takes one from both.
LEMMA BusyEnds ==
  ASSUME TypeOK, BusyCounted, NEW e \in Execs, hpc[e] # "idle",
         hpc' = [hpc EXCEPT ![e] = "idle"], activeNum' = activeNum - 1
  PROVE  BusyCounted'
<1>1. IsFiniteSet(Busy) /\ e \in Busy
  BY ExecsFinite, FS_Subset DEF Busy
<1>2. Busy' = Busy \ {e}
  BY DEF Busy, TypeOK
<1>3. Cardinality(Busy \ {e}) = Cardinality(Busy) - 1
  BY <1>1, FS_RemoveElement
<1>4. QED
  BY <1>2, <1>3 DEF BusyCounted

\* Going on inside it changes neither.
LEMMA BusyGoesOn ==
  ASSUME TypeOK, BusyCounted, NEW e \in Execs, hpc[e] # "idle", NEW place, place # "idle",
         hpc' = [hpc EXCEPT ![e] = place], activeNum' = activeNum
  PROVE  BusyCounted'
<1>1. Busy' = Busy
  BY DEF Busy, TypeOK
<1>2. QED
  BY <1>1 DEF BusyCounted

\* A worker starts.
LEMMA LiveGrows ==
  ASSUME TypeOK, LiveCounted, StartWorker
  PROVE  LiveCounted' /\ live \subseteq live' /\ live' # {}
<1>1. PICK w \in Workers \ live : live' = live \cup {w} /\ workerNum' = workerNum + 1
  BY DEF StartWorker
<1>2. IsFiniteSet(live)
  BY WorkerPoolQueueAssumption, FS_Subset DEF TypeOK
<1>3. Cardinality(live \cup {w}) = Cardinality(live) + 1
  BY <1>1, <1>2, FS_AddElement
<1>4. QED
  BY <1>1, <1>3 DEF LiveCounted

\* A worker leaves; if there were two or more, there is one left.
LEMMA LiveShrinks ==
  ASSUME TypeOK, LiveCounted, NEW w \in live,
         live' = live \ {w}, workerNum' = workerNum - 1
  PROVE  LiveCounted' /\ (workerNum > 1 => live' # {})
<1>1. IsFiniteSet(live) /\ IsFiniteSet(live \ {w})
  BY WorkerPoolQueueAssumption, FS_Subset DEF TypeOK
<1>2. Cardinality(live \ {w}) = Cardinality(live) - 1
  BY <1>1, FS_RemoveElement
<1>3. Cardinality({}) = 0
  BY FS_EmptySet
<1>4. workerNum > 1 => Cardinality(live \ {w}) # 0
  BY <1>2 DEF LiveCounted, TypeOK
<1>5. QED
  BY <1>2, <1>3, <1>4 DEF LiveCounted

-----------------------------------------------------------------------------
(* The worker pool beside doRun *)

\* Only a running worker is inside doWorkerHandle.
WorkersInv == \A w \in Workers : hpc[w] # "idle" => w \in live

\* doRun is inside doWorkerHandle exactly when it says so; a dispatch never
\* returns to the drain; the workers' context is cancelled only in a flush.
ControlInv ==
    /\ mpc = "handle" <=> hpc[Main] # "idle"
    /\ mpc \in {"dispatch", "spawn", "offer"} => ret \in {"loop", "flush"}
    /\ wcancel => mpc \in {"flushwait", "drain"} \/ (mpc = "handle" /\ ret = "drain")

PoolInv ==
    /\ LiveCounted /\ BusyCounted /\ WorkersInv /\ ControlInv
    /\ OfferHasWorker /\ DrainIsAlone

\* The initial states satisfy the invariant.
LEMMA PoolInvInit == Init => PoolInv
<1> SUFFICES ASSUME Init PROVE PoolInv
  OBVIOUS
<1>1. \A e \in Execs : hpc[e] = "idle"
  BY DEF Init
<1>2. Busy = {} /\ WorkersInv
  BY <1>1 DEF Busy, WorkersInv, Execs
<1>3. LiveCounted /\ BusyCounted
  BY <1>2, FS_EmptySet DEF Init, LiveCounted, BusyCounted
<1>4. ControlInv
  BY <1>1 DEF Init, ControlInv, Execs
<1>5. OfferHasWorker /\ DrainIsAlone
  BY DEF Init, OfferHasWorker, DrainIsAlone
<1>6. QED
  BY <1>2, <1>3, <1>4, <1>5 DEF PoolInv

\* Steps that leave doRun, the workers and their context alone.
LEMMA PoolUntouched ==
  ASSUME PoolInv, UNCHANGED <<mpc, ret, live, workerNum, activeNum, hpc, wcancel>>,
         ctxRun => ctxRun'
  PROVE  PoolInv'
  BY DEF PoolInv, LiveCounted, BusyCounted, Busy, WorkersInv, ControlInv, OfferHasWorker,
         DrainIsAlone

\* Steps of doRun that leave the workers and their context alone.
LEMMA PoolControl ==
  ASSUME PoolInv, UNCHANGED <<live, workerNum, activeNum, hpc, ctxRun, wcancel>>,
         mpc # "handle", mpc' # "handle", mpc' # "offer",
         mpc' = "drain" => live = {},
         mpc' \in {"dispatch", "spawn"} => ret' \in {"loop", "flush"},
         wcancel => mpc' \in {"flushwait", "drain"}
  PROVE  PoolInv'
  BY DEF PoolInv, LiveCounted, BusyCounted, Busy, WorkersInv, ControlInv, OfferHasWorker,
         DrainIsAlone

\* Callers, the pop loop and ShutdownWait do not touch the pool.
LEMMA PoolInvCaller ==
  ASSUME PoolInv, CallerStep \/ PopStep \/ StopStep PROVE PoolInv'
<1>1. UNCHANGED <<mpc, ret, live, workerNum, activeNum, hpc, wcancel>> /\ (ctxRun => ctxRun')
  <2> USE DEF mainVars, flowVars, execVars, poolVars, handleVars, ctxVars, outerVars
  <2>1. CASE CallerStep
    BY <2>1 DEF CallerStep, Push, RemoveAllItems, SetWorkerMaxNumber, FlushRequest, FlushGiveUp
  <2>2. CASE PopStep
    BY <2>2 DEF PopStep, PopItem, PopFail, PopFailLoses
  <2>3. CASE StopStep
    BY <2>3 DEF StopStep, ParentCancel, StopBegin, StopExpire, StopReturn
  <2>4. QED
    BY <2>1, <2>2, <2>3
<1>2. QED
  BY <1>1, PoolUntouched

\* A goroutine inside doWorkerHandle goes on, or leaves it.
LEMMA PoolInvHandle ==
  ASSUME TypeOK, PoolInv, NEW e \in Execs, HandleStep(e) PROVE PoolInv'
<1> USE DEF mainVars, flowVars, poolVars, ctxVars, outerVars, Execs
<1>1. ASSUME NEW place, place # "idle", hpc[e] # "idle",
             hpc' = [hpc EXCEPT ![e] = place],
             UNCHANGED <<mpc, ret, live, workerNum, activeNum, wcancel, ctxRun>>
      PROVE  PoolInv'
  <2>1. BusyCounted' /\ LiveCounted'
    BY <1>1, BusyGoesOn DEF PoolInv, LiveCounted
  <2>2. \A d \in Execs : hpc'[d] # "idle" <=> hpc[d] # "idle"
    BY <1>1 DEF TypeOK
  <2>3. QED
    BY <1>1, <2>1, <2>2
    DEF PoolInv, WorkersInv, ControlInv, OfferHasWorker, DrainIsAlone
<1>2. ASSUME NEW left \in SUBSET hbatch[e], HandlerReturn(e, left) PROVE PoolInv'
  BY <1>1, <1>2 DEF HandlerReturn
<1>3. CASE BackoffEnd(e)
  BY <1>1, <1>3 DEF BackoffEnd
<1>4. CASE HandlePutBack(e)
  BY <1>1, <1>4 DEF HandlePutBack
<1>5. CASE HandleEnd(e)
  <2>1. /\ hpc[e] = "requeue" /\ hpc' = [hpc EXCEPT ![e] = "idle"]
        /\ activeNum' = activeNum - 1
        /\ mpc' = IF e = Main THEN ret ELSE mpc
        /\ UNCHANGED <<ret, live, workerNum, wcancel, ctxRun>>
    BY <1>5 DEF HandleEnd, Deactivate
  <2>2. BusyCounted' /\ LiveCounted'
    BY <2>1, BusyEnds DEF PoolInv, LiveCounted
  <2>3. hpc'[e] = "idle" /\ \A d \in Execs \ {e} : hpc'[d] = hpc[d]
    BY <2>1 DEF TypeOK
  <2>4. WorkersInv'
    BY <2>1, <2>3 DEF PoolInv, WorkersInv
  <2>5. CASE e = Main
    BY <2>1, <2>2, <2>3, <2>4, <2>5
    DEF PoolInv, ControlInv, OfferHasWorker, DrainIsAlone, TypeOK
  <2>6. CASE e # Main
    BY <2>1, <2>2, <2>3, <2>4, <2>6
    DEF PoolInv, ControlInv, OfferHasWorker, DrainIsAlone
  <2>7. QED
    BY <2>5, <2>6
<1>6. ASSUME NEW i \in hbatch[e], RequeuePush(e, i) PROVE PoolInv'
  BY <1>6, PoolUntouched DEF RequeuePush
<1>7. ASSUME NEW i \in hbatch[e], RequeueFail(e, i) PROVE PoolInv'
  BY <1>1, <1>7 DEF RequeueFail, PutAside
<1>8. QED
  BY <1>2, <1>3, <1>4, <1>5, <1>6, <1>7 DEF HandleStep

\* A worker ends: not the last one, unless it is told to.
LEMMA PoolInvWorker ==
  ASSUME TypeOK, PoolInv, NEW w \in Workers, WorkerStep(w) PROVE PoolInv'
<1>1. /\ w \in live /\ hpc[w] = "idle"
      /\ live' = live \ {w} /\ workerNum' = workerNum - 1
      /\ UNCHANGED <<mpc, ret, activeNum, hpc, wcancel, ctxRun>>
      /\ wcancel \/ ctxRun \/ workerNum > 1
  BY DEF WorkerStep, WorkerStop, WorkerIdle, WorkerLeaves, Ready, mainVars, flowVars,
         handleVars, ctxVars, outerVars
<1>2. LiveCounted' /\ (workerNum > 1 => live' # {})
  BY <1>1, LiveShrinks DEF PoolInv
<1>3. BusyCounted' /\ WorkersInv' /\ ControlInv' /\ DrainIsAlone'
  BY <1>1 DEF PoolInv, BusyCounted, Busy, WorkersInv, ControlInv, DrainIsAlone
<1>4. OfferHasWorker'
  BY <1>1, <1>2 DEF PoolInv, ControlInv, OfferHasWorker
<1>5. QED
  BY <1>2, <1>3, <1>4 DEF PoolInv

\* The select of doRun starts a dispatch, or the shutdown.
LEMMA PoolInvSelect ==
  ASSUME PoolInv, SelectStep PROVE PoolInv'
<1> USE DEF flowVars, execVars, poolVars, handleVars, ctxVars, outerVars
<1>1. /\ mpc = "loop" /\ mpc' \in {"loop", "dispatch", "shutdown"}
      /\ mpc' = "dispatch" => ret' \in {"loop", "flush"}
      /\ UNCHANGED <<live, workerNum, activeNum, hpc, ctxRun, wcancel>>
  <2>1. CASE MainReceive
    BY <2>1 DEF MainReceive
  <2>2. CASE MainTimer
    BY <2>2 DEF MainTimer
  <2>3. CASE MainReturn
    BY <2>3 DEF MainReturn
  <2>4. ASSUME NEW f \in Flushers, MainFlush(f)
        PROVE  /\ mpc = "loop" /\ mpc' = "dispatch" /\ ret' = "flush"
               /\ UNCHANGED <<live, workerNum, activeNum, hpc, ctxRun, wcancel>>
    BY <2>4 DEF MainFlush, BeforeFlush
  <2>5. QED
    BY <2>1, <2>2, <2>3, <2>4 DEF SelectStep
<1>2. ~wcancel
  BY <1>1 DEF PoolInv, ControlInv
<1>3. QED
  BY <1>1, <1>2, PoolControl

\* A dispatch hands the batch to a worker, or waits with a worker to take it.
LEMMA PoolInvDispatch ==
  ASSUME TypeOK, PoolInv, DispatchStep PROVE PoolInv'
<1> USE DEF flowVars, flushVars, execVars, poolVars, handleVars, ctxVars, outerVars
<1>1. mpc \in {"dispatch", "spawn", "offer"}
  BY DEF DispatchStep, DispatchNothing, DispatchFull, Spawn, OfferEnds, DispatchSend,
         OfferTaken, OfferFlush
<1>2. ~wcancel /\ ret \in {"loop", "flush"} /\ hpc[Main] = "idle"
  BY <1>1 DEF PoolInv, ControlInv
<1>3. CASE DispatchNothing
  BY <1>2, <1>3, PoolControl DEF DispatchNothing
<1>4. CASE DispatchFull
  BY <1>2, <1>4, PoolControl DEF DispatchFull
<1>5. CASE OfferEnds
  BY <1>2, <1>5, PoolControl DEF OfferEnds
<1>6. CASE Spawn
  <2>1. /\ mpc' \in {"offer", "loop", "flush"} /\ ret' = ret
        /\ UNCHANGED <<activeNum, hpc, ctxRun, wcancel>>
        /\ IF NeedsWorker THEN StartWorker ELSE UNCHANGED <<live, workerNum>>
        /\ mpc' = "offer" => batch # {}
    BY <1>2, <1>6 DEF Spawn
  <2>2. LiveCounted' /\ live \subseteq live'
    BY <2>1, LiveGrows DEF PoolInv, LiveCounted
  <2>3. mpc' = "offer" => live' # {}
    <3>1. CASE NeedsWorker
      BY <2>1, <3>1, LiveGrows DEF PoolInv
    <3>2. CASE ~NeedsWorker /\ batch # {}
      <4>1. workerNum # 0
        BY <3>2, WorkerPoolQueueAssumption DEF NeedsWorker, NoWorker, TypeOK
      <4>2. live # {}
        BY <4>1, FS_EmptySet DEF PoolInv, LiveCounted
      <4>3. QED
        BY <2>2, <4>2
    <3>3. QED
      BY <2>1, <3>1, <3>2
  <2>4. BusyCounted'
    BY <2>1 DEF PoolInv, BusyCounted, Busy
  <2>5. WorkersInv'
    BY <2>1, <2>2 DEF PoolInv, WorkersInv
  <2>6. ControlInv' /\ OfferHasWorker' /\ DrainIsAlone'
    BY <1>2, <2>1, <2>3 DEF ControlInv, OfferHasWorker, DrainIsAlone
  <2>7. QED
    BY <2>2, <2>4, <2>5, <2>6 DEF PoolInv
<1>7. ASSUME NEW w \in Workers, NEW items, Ready(w), HandleBegin(w, items),
             mpc' \in {"spawn", "loop", "flush"}, ret' = ret,
             UNCHANGED <<live, workerNum, ctxRun, wcancel>>
      PROVE  PoolInv'
  <2>1. w # Main /\ w \in Execs /\ hpc[w] = "idle" /\ w \in live
    BY <1>7, WorkerPoolQueueAssumption DEF Ready, Execs
  <2>2. BusyCounted' /\ LiveCounted'
    BY <1>7, <2>1, BusyBegins DEF PoolInv, LiveCounted
  <2>3. hpc'[w] = "handler" /\ \A d \in Execs \ {w} : hpc'[d] = hpc[d]
    BY <1>7, <2>1 DEF HandleBegin, TypeOK
  <2>4. WorkersInv'
    BY <1>7, <2>1, <2>3 DEF PoolInv, WorkersInv, Execs
  <2>5. hpc'[Main] = "idle"
    BY <1>2, <2>1, <2>3 DEF Execs
  <2>6. ControlInv' /\ OfferHasWorker' /\ DrainIsAlone'
    BY <1>2, <1>7, <2>5 DEF ControlInv, OfferHasWorker, DrainIsAlone
  <2>7. QED
    BY <2>2, <2>4, <2>6 DEF PoolInv
<1>8. ASSUME NEW w \in Workers, DispatchSend(w) PROVE PoolInv'
  BY <1>2, <1>7, <1>8 DEF DispatchSend
<1>9. ASSUME NEW w \in Workers, OfferTaken(w) PROVE PoolInv'
  BY <1>2, <1>7, <1>9 DEF OfferTaken
<1>10. ASSUME NEW f \in Flushers, OfferFlush(f) PROVE PoolInv'
  <2>1. /\ HandleBegin(Main, batch) /\ mpc' = "handle" /\ ret' = "flush"
        /\ UNCHANGED <<live, workerNum, ctxRun, wcancel>>
    BY <1>10 DEF OfferFlush
  <2>2. BusyCounted' /\ LiveCounted'
    BY <1>2, <2>1, BusyBegins DEF PoolInv, LiveCounted, Execs
  <2>3. hpc'[Main] = "handler" /\ \A d \in Execs \ {Main} : hpc'[d] = hpc[d]
    BY <2>1 DEF HandleBegin, TypeOK, Execs
  <2>4. WorkersInv'
    BY <2>1, <2>3, WorkerPoolQueueAssumption DEF PoolInv, WorkersInv, Execs
  <2>5. ControlInv' /\ OfferHasWorker' /\ DrainIsAlone'
    BY <1>2, <2>1, <2>3 DEF ControlInv, OfferHasWorker, DrainIsAlone
  <2>6. QED
    BY <2>2, <2>4, <2>5 DEF PoolInv
<1>11. QED
  BY <1>3, <1>4, <1>5, <1>6, <1>8, <1>9, <1>10 DEF DispatchStep

\* A flush waits for the workers and then handles items without them.
LEMMA PoolInvFlush ==
  ASSUME TypeOK, PoolInv, FlushStep PROVE PoolInv'
<1> USE DEF flowVars, execVars, poolVars, handleVars, ctxVars, outerVars
<1>1. CASE FlushCancelWorkers
  BY <1>1
  DEF FlushCancelWorkers, PoolInv, LiveCounted, BusyCounted, Busy, WorkersInv, ControlInv,
      OfferHasWorker, DrainIsAlone
<1>2. CASE FlushWorkersGone
  BY <1>2, PoolControl DEF FlushWorkersGone
<1>3. CASE FlushReceive
  <2>1. mpc = "drain" /\ live = {} /\ hpc[Main] = "idle"
    BY <1>3 DEF FlushReceive, PoolInv, ControlInv, DrainIsAlone
  <2>2. UNCHANGED <<live, workerNum, ctxRun, wcancel>>
    BY <1>3 DEF FlushReceive
  <2>3. CASE UNCHANGED <<flowVars, handleVars>>
    BY <2>2, <2>3, PoolUntouched
  <2>4. CASE HandleBegin(Main, Received) /\ mpc' = "handle" /\ ret' = "drain"
    <3>1. BusyCounted' /\ LiveCounted'
      BY <2>1, <2>2, <2>4, BusyBegins DEF PoolInv, LiveCounted, Execs
    <3>2. hpc'[Main] = "handler" /\ \A d \in Execs \ {Main} : hpc'[d] = hpc[d]
      BY <2>4 DEF HandleBegin, TypeOK, Execs
    <3>3. WorkersInv'
      BY <2>2, <3>2, WorkerPoolQueueAssumption DEF PoolInv, WorkersInv, Execs
    <3>4. ControlInv' /\ OfferHasWorker' /\ DrainIsAlone'
      BY <2>1, <2>2, <2>4, <3>2 DEF ControlInv, OfferHasWorker, DrainIsAlone
    <3>5. QED
      BY <3>1, <3>3, <3>4 DEF PoolInv
  <2>5. QED
    BY <1>3, <2>3, <2>4 DEF FlushReceive
<1>4. ASSUME FlushEnd, mpc = "drain", UNCHANGED <<execVars, ctxRun>> PROVE PoolInv'
  BY <1>4
  DEF FlushEnd, PoolInv, LiveCounted, BusyCounted, Busy, WorkersInv, ControlInv,
      OfferHasWorker, DrainIsAlone
<1>5. CASE FlushTick
  <2>1. CASE FlushEnd
    BY <1>4, <1>5, <2>1 DEF FlushTick
  <2>2. CASE UNCHANGED <<fl, flush, wcancel, mpc, ret>>
    BY <1>5, <2>2, PoolUntouched DEF FlushTick
  <2>3. QED
    BY <1>5, <2>1, <2>2 DEF FlushTick
<1>6. CASE FlushStop
  BY <1>4, <1>6 DEF FlushStop
<1>7. QED
  BY <1>1, <1>2, <1>3, <1>5, <1>6 DEF FlushStep

\* The deferred shutdown starts no worker.
LEMMA PoolInvShutdown ==
  ASSUME PoolInv, ShutdownStep PROVE PoolInv'
<1> USE DEF mainVars, flowVars, execVars, poolVars, handleVars, ctxVars, outerVars
<1>1. CASE ShutdownBegin
  BY <1>1
  DEF ShutdownBegin, PoolInv, LiveCounted, BusyCounted, Busy, WorkersInv, ControlInv,
      OfferHasWorker, DrainIsAlone
<1>2. CASE CollectReceive
  BY <1>2, PoolUntouched DEF CollectReceive
<1>3. CASE CollectEnd
  BY <1>3, PoolControl DEF CollectEnd, PoolInv, ControlInv
<1>4. CASE Join
  BY <1>4, PoolControl DEF Join, PoolInv, ControlInv
<1>5. ASSUME NEW i \in unhandled, PutBack(i) PROVE PoolInv'
  BY <1>5, PoolUntouched DEF PutBack
<1>6. ASSUME NEW left \in SUBSET unhandled, LastHandle(left) PROVE PoolInv'
  BY <1>6, PoolControl DEF LastHandle, PoolInv, ControlInv
<1>7. QED
  BY <1>1, <1>2, <1>3, <1>4, <1>5, <1>6 DEF ShutdownStep

\* Every step keeps the invariant.
LEMMA PoolInvStep == TypeInv /\ PoolInv /\ [Next]_vars => PoolInv'
<1> SUFFICES ASSUME TypeInv, PoolInv, [Next]_vars PROVE PoolInv'
  OBVIOUS
<1>1. TypeOK
  BY DEF TypeInv
<1>2. CASE UNCHANGED vars
  BY <1>2, PoolUntouched
  DEF vars, mainVars, flowVars, execVars, poolVars, handleVars, ctxVars, outerVars
<1>3. QED
  BY <1>1, <1>2, PoolInvCaller, PoolInvHandle, PoolInvWorker, PoolInvSelect, PoolInvDispatch,
     PoolInvFlush, PoolInvShutdown DEF Next

\* The types and the invariant hold throughout.
LEMMA PoolInvariant == Spec => [](TypeInv /\ PoolInv)
<1>1. Init => TypeInv /\ PoolInv
  BY TypeInvInit, PoolInvInit
<1>2. TypeInv /\ PoolInv /\ [Next]_vars => TypeInv' /\ PoolInv'
  BY TypeInvStep, PoolInvStep
<1>3. QED
  BY <1>1, <1>2, PTL DEF Spec

-----------------------------------------------------------------------------
(* The theorems *)

\* GetWorkerNumber and GetWorkerActiveNumber agree with the goroutines, in
\* every interleaving of starts, stops, flushes and panics, for any number of
\* workers.
THEOREM CountersAreExact == Spec => []CountersExact
<1>1. PoolInv => CountersExact
  BY DEF PoolInv, LiveCounted, BusyCounted, Busy, WorkersInv, CountersExact
<1>2. QED
  BY <1>1, PoolInvariant, PTL

\* doDispatchBatchToWorker never blocks on a batch without a worker to take it,
\* whatever the maximum number of workers, unless the queue is shutting down.
THEOREM OffersAreTaken == Spec => []OfferHasWorker
<1>1. PoolInv => OfferHasWorker
  BY DEF PoolInv
<1>2. QED
  BY <1>1, PoolInvariant, PTL

\* While doFlush drains the base queue no worker runs.
THEOREM FlushIsAlone == Spec => []DrainIsAlone
<1>1. PoolInv => DrainIsAlone
  BY DEF PoolInv
<1>2. QED
  BY <1>1, PoolInvariant, PTL

\* Only the dispatch and a worker that ends change the number of workers.
LEMMA WorkerNumChanges ==
  ASSUME [Next]_vars
  PROVE  \/ UNCHANGED workerNum
         \/ Spawn
         \/ \E w \in Workers : WorkerStep(w)
<1> USE DEF execVars, poolVars
<1>1. CASE CallerStep \/ PopStep \/ StopStep
  BY <1>1
  DEF CallerStep, Push, RemoveAllItems, SetWorkerMaxNumber, FlushRequest, FlushGiveUp,
      PopStep, PopItem, PopFail, PopFailLoses, StopStep, ParentCancel, StopBegin, StopExpire, StopReturn
<1>2. ASSUME NEW e \in Execs, HandleStep(e) PROVE UNCHANGED workerNum
  BY <1>2 DEF HandleStep, HandlerReturn, BackoffEnd, HandlePutBack, HandleEnd, RequeuePush,
              RequeueFail, PutAside
<1>3. CASE SelectStep
  BY <1>3 DEF SelectStep, MainReceive, MainTimer, MainReturn, MainFlush
<1>4. CASE DispatchStep
  BY <1>4 DEF DispatchStep, DispatchNothing, DispatchFull, OfferEnds, DispatchSend, OfferTaken,
              OfferFlush
<1>5. CASE FlushStep
  BY <1>5 DEF FlushStep, FlushCancelWorkers, FlushWorkersGone, FlushReceive, FlushTick, FlushStop
<1>6. CASE ShutdownStep
  BY <1>6 DEF ShutdownStep, ShutdownBegin, CollectReceive, CollectEnd, Join, PutBack, LastHandle
<1>7. CASE UNCHANGED vars
  BY <1>7 DEF vars
<1>8. QED
  BY <1>1, <1>2, <1>3, <1>4, <1>5, <1>6, <1>7 DEF Next

\* doStartNewWorker: the pool grows only below its maximum, or to one worker,
\* for any number of workers and any changes of the maximum.
THEOREM GrowthIsBounded == Spec => GrowthBounded
<1>1. TypeInv /\ PoolInv /\ [Next]_vars =>
        [workerNum' > workerNum => workerNum' <= maxNum \/ workerNum' = 1]_vars
  <2> SUFFICES ASSUME TypeInv, [Next]_vars, workerNum' > workerNum
               PROVE  workerNum' <= maxNum \/ workerNum' = 1
    OBVIOUS
  <2>1. workerNum \in Int /\ maxNum \in Int
    BY WorkerPoolQueueAssumption DEF TypeInv, TypeOK
  <2>2. CASE Spawn
    BY <2>1, <2>2 DEF Spawn, NeedsWorker, NoWorker, StartWorker
  <2>3. ASSUME NEW w \in Workers, WorkerStep(w) PROVE FALSE
    BY <2>1, <2>3 DEF WorkerStep, WorkerStop, WorkerIdle, WorkerLeaves
  <2>4. QED
    BY <2>1, <2>2, <2>3, WorkerNumChanges
<1>2. QED
  BY <1>1, PoolInvariant, PTL DEF Spec, GrowthBounded

\* workerqueue_test.go:212: no number of idle workers that end together leaves
\* the queue without a worker; only a flush or a shutdown does.
THEOREM TheLastWorkerStays == Spec => LastWorkerStays
<1>1. TypeInv /\ PoolInv /\ [Next]_vars =>
        [workerNum > 0 /\ workerNum' = 0 => wcancel \/ ctxRun]_vars
  <2> SUFFICES ASSUME TypeInv, [Next]_vars, workerNum > 0, workerNum' = 0
               PROVE  wcancel \/ ctxRun
    OBVIOUS
  <2>1. workerNum \in Int
    BY DEF TypeInv, TypeOK
  <2>2. CASE Spawn
    BY <2>1, <2>2 DEF Spawn, StartWorker
  <2>3. ASSUME NEW w \in Workers, WorkerStep(w) PROVE wcancel \/ ctxRun
    BY <2>1, <2>3 DEF WorkerStep, WorkerStop, WorkerIdle, WorkerLeaves
  <2>4. QED
    BY <2>1, <2>2, <2>3, WorkerNumChanges
<1>2. QED
  BY <1>1, PoolInvariant, PTL DEF Spec, LastWorkerStays
=============================================================================
