----------------------- MODULE WorkerPoolItems_proofs -----------------------
(***************************************************************************)
(* What becomes of the items of a WorkerPoolQueue, for every set of items,  *)
(* workers and flushers and every capacity: each is always in exactly one   *)
(* place.  Every step that moves items moves them from one place to another *)
(* or splits them between two.                                              *)
(***************************************************************************)
EXTENDS WorkerPoolQueue_proofs

-----------------------------------------------------------------------------
(* Places that share nothing *)

Names == {"base", "pop", "buffer", "batch", "unhandled", "handling", "handled", "lost", "removed"}

\* W says of each place what is there: all of A, each item in one place.
Partition(W, A) ==
    /\ \A x : x \in A <=> \E n \in Names : x \in W[n]
    /\ \A m, n \in Names : m # n => \A x : ~(x \in W[m] /\ x \in W[n])

\* The items S go from the place p to q, and T from p to r.
Moved(W, V, p, q, r, S, T) ==
    /\ \A n \in Names \ {p, q, r} : V[n] = W[n]
    /\ V[p] = W[p] \ (S \cup T)
    /\ V[q] = W[q] \cup S
    /\ V[r] = W[r] \cup T

\* A move between places keeps the partition.
LEMMA MoveKeepsPartition ==
  ASSUME NEW W, NEW V, NEW A, NEW p \in Names, NEW q \in Names, NEW r \in Names,
         p # q, p # r, q # r, NEW S, NEW T, S \cap T = {}, S \cup T \subseteq W[p],
         Partition(W, A), Moved(W, V, p, q, r, S, T)
  PROVE  Partition(V, A)
<1>1. ASSUME NEW x PROVE x \in A <=> \E n \in Names : x \in V[n]
  <2>1. ASSUME NEW n \in Names, x \in V[n] PROVE \E m \in Names : x \in W[m]
    BY <2>1 DEF Moved
  <2>2. ASSUME NEW n \in Names, x \in W[n] PROVE \E m \in Names : x \in V[m]
    BY <2>2 DEF Moved
  <2>3. QED
    BY <2>1, <2>2 DEF Partition
<1>2. ASSUME NEW m \in Names, NEW n \in Names, m # n, NEW x PROVE ~(x \in V[m] /\ x \in V[n])
  BY <1>2 DEF Partition, Moved
<1>3. QED
  BY <1>1, <1>2 DEF Partition

\* The items S go from the place p to q.
MovedTo(W, V, p, q, S) ==
    /\ \A n \in Names \ {p, q} : V[n] = W[n]
    /\ V[p] = W[p] \ S
    /\ V[q] = W[q] \cup S

\* So does a move to one place.
LEMMA MoveToKeepsPartition ==
  ASSUME NEW W, NEW V, NEW A, NEW p \in Names, NEW q \in Names, p # q,
         NEW S, S \subseteq W[p], Partition(W, A), MovedTo(W, V, p, q, S)
  PROVE  Partition(V, A)
<1>1. ASSUME NEW x PROVE x \in A <=> \E n \in Names : x \in V[n]
  <2>1. ASSUME NEW n \in Names, x \in V[n] PROVE \E m \in Names : x \in W[m]
    BY <2>1 DEF MovedTo
  <2>2. ASSUME NEW n \in Names, x \in W[n] PROVE \E m \in Names : x \in V[m]
    BY <2>2 DEF MovedTo
  <2>3. QED
    BY <2>1, <2>2 DEF Partition
<1>2. ASSUME NEW m \in Names, NEW n \in Names, m # n, NEW x PROVE ~(x \in V[m] /\ x \in V[n])
  BY <1>2 DEF Partition, MovedTo
<1>3. QED
  BY <1>1, <1>2 DEF Partition

\* Nothing moves.
LEMMA StillPartition ==
  ASSUME NEW W, NEW V, NEW A, Partition(W, A), \A n \in Names : V[n] = W[n]
  PROVE  Partition(V, A)
  BY DEF Partition

\* A new item arrives in the base queue.
LEMMA ArrivalKeepsPartition ==
  ASSUME NEW W, NEW V, NEW A, NEW i, i \notin A, Partition(W, A),
         \A n \in Names \ {"base"} : V[n] = W[n], V["base"] = W["base"] \cup {i}
  PROVE  Partition(V, A \cup {i})
<1>1. "base" \in Names
  BY DEF Names
<1>2. \A n \in Names : i \notin W[n]
  BY DEF Partition
<1>3. ASSUME NEW x PROVE x \in A \cup {i} <=> \E n \in Names : x \in V[n]
  BY <1>1, <1>2 DEF Partition
<1>4. ASSUME NEW m \in Names, NEW n \in Names, m # n, NEW x PROVE ~(x \in V[m] /\ x \in V[n])
  BY <1>2, <1>4 DEF Partition
<1>5. QED
  BY <1>3, <1>4 DEF Partition

-----------------------------------------------------------------------------
(* The items in the hands of the goroutines *)

Handling == UNION {hbatch[e] : e \in Execs}

HandsApart == \A d, e \in Execs : d # e => hbatch[d] \cap hbatch[e] = {}

\* A goroutine with empty hands takes a batch that is in nobody's hands.
LEMMA HandsGain ==
  ASSUME TypeOK, HandsApart, NEW e \in Execs, hbatch[e] = {}, NEW S, S \cap Handling = {},
         hbatch' = [hbatch EXCEPT ![e] = S]
  PROVE  HandsApart' /\ Handling' = Handling \cup S
<1>1. /\ hbatch'[e] = S
      /\ \A d \in Execs \ {e} : hbatch'[d] = hbatch[d] /\ hbatch[d] \subseteq Handling
  BY DEF TypeOK, Handling
<1>2. HandsApart'
  BY <1>1 DEF HandsApart
<1>3. ASSUME NEW x PROVE x \in Handling' <=> x \in Handling \/ x \in S
  BY <1>1 DEF Handling
<1>4. QED
  BY <1>2, <1>3

\* A goroutine puts some of its items elsewhere.
LEMMA HandsLose ==
  ASSUME TypeOK, HandsApart, NEW e \in Execs, NEW S, S \subseteq hbatch[e],
         hbatch' = [hbatch EXCEPT ![e] = hbatch[e] \ S]
  PROVE  HandsApart' /\ S \subseteq Handling /\ Handling' = Handling \ S
<1>1. /\ hbatch'[e] = hbatch[e] \ S
      /\ \A d \in Execs \ {e} : hbatch'[d] = hbatch[d] /\ hbatch[d] \cap S = {}
  BY DEF TypeOK, HandsApart
<1>2. HandsApart'
  BY <1>1 DEF HandsApart
<1>3. ASSUME NEW x PROVE x \in Handling' <=> x \in Handling /\ x \notin S
  BY <1>1 DEF Handling
<1>4. S \subseteq Handling
  BY DEF Handling
<1>5. QED
  BY <1>2, <1>3, <1>4

-----------------------------------------------------------------------------
(* What a step does to the places *)

\* The places, now and after a step.
LEMMA Fields ==
  /\ Whereabouts["base"] = base /\ Whereabouts["pop"] = InPop
  /\ Whereabouts["buffer"] = buffer /\ Whereabouts["batch"] = batch
  /\ Whereabouts["unhandled"] = unhandled /\ Whereabouts["handling"] = Handling
  /\ Whereabouts["handled"] = handled /\ Whereabouts["lost"] = lost
  /\ Whereabouts["removed"] = removed
  /\ Whereabouts'["base"] = base' /\ Whereabouts'["pop"] = InPop'
  /\ Whereabouts'["buffer"] = buffer' /\ Whereabouts'["batch"] = batch'
  /\ Whereabouts'["unhandled"] = unhandled' /\ Whereabouts'["handling"] = Handling'
  /\ Whereabouts'["handled"] = handled' /\ Whereabouts'["lost"] = lost'
  /\ Whereabouts'["removed"] = removed'
  BY DEF Whereabouts, Handling

Conserved == Partition(Whereabouts, accepted) /\ HandsApart

\* What is in one's hands, and what doRun holds where.
HandsInv ==
    \A e \in Execs : /\ hpc[e] = "idle" => hbatch[e] = {}
                     /\ hpc[e] = "putback" => hitem[e] \in hbatch[e]

FlowInv ==
    /\ batch # {} => mpc \in {"spawn", "offer"} /\ buffer = {}
    /\ unhandled # {} => mpc \in {"collect", "putback", "lasthandle"}
    /\ mpc = "offer" => batch # {}

\* No two places share an item.
LEMMA PlacesApart ==
  ASSUME Conserved
  PROVE  /\ Handling \cap (InPop \cup buffer \cup batch \cup unhandled) = {}
         /\ \A x : x \in base \/ x \in Handling => x \in accepted
  BY Fields DEF Conserved, Partition, Names

\* A step that touches no place keeps every item where it is.
LEMMA Untouched ==
  ASSUME Conserved,
         UNCHANGED <<base, InPop, buffer, batch, unhandled, hbatch, handled, lost, removed,
                     accepted>>
  PROVE  Conserved'
<1>1. Handling' = Handling /\ HandsApart'
  BY DEF Handling, HandsApart, Conserved
<1>2. \A n \in Names : Whereabouts'[n] = Whereabouts[n]
  BY <1>1, Fields DEF Names
<1>3. Partition(Whereabouts', accepted)
  BY <1>2, StillPartition DEF Conserved
<1>4. QED
  BY <1>1, <1>3 DEF Conserved

\* Callers and the pop loop: an item arrives, is removed, or is popped.
LEMMA ConservedCaller ==
  ASSUME TypeInv, Conserved, CallerStep \/ PopStep PROVE Conserved'
<1> USE DEF popVars, sourceVars, mainVars, flowVars, itemVars, execVars, handleVars, ctxVars,
        ledgerVars, outerVars
<1>1. ASSUME NEW i \in Items, Push(i) PROVE Conserved'
  <2>1. /\ base' = base \cup {i} /\ accepted' = accepted \cup {i} /\ i \notin accepted
        /\ UNCHANGED <<InPop, Handling, HandsApart, buffer, batch, unhandled, handled, lost,
                       removed>>
    BY <1>1 DEF Push, InPop, Handling, HandsApart
  <2>2. /\ \A n \in Names \ {"base"} : Whereabouts'[n] = Whereabouts[n]
        /\ Whereabouts'["base"] = Whereabouts["base"] \cup {i}
    BY <2>1, Fields DEF Names
  <2>3. Partition(Whereabouts', accepted \cup {i})
    BY <2>1, <2>2, ArrivalKeepsPartition DEF Conserved
  <2>4. QED
    BY <2>1, <2>3 DEF Conserved
<1>2. CASE RemoveAllItems
  <2>1. /\ base' = {} /\ removed' = removed \cup base
        /\ UNCHANGED <<InPop, Handling, HandsApart, buffer, batch, unhandled, handled, lost,
                       accepted>>
    BY <1>2 DEF RemoveAllItems, InPop, Handling, HandsApart
  <2>2. MovedTo(Whereabouts, Whereabouts', "base", "removed", base)
    BY <2>1, Fields DEF MovedTo, Names
  <2>3. Partition(Whereabouts', accepted)
    BY <2>2, MoveToKeepsPartition, Fields DEF Conserved, Names
  <2>4. QED
    BY <2>1, <2>3 DEF Conserved
<1>3. ASSUME NEW i \in Items, PopItem(i) PROVE Conserved'
  <2>1. /\ i \in base /\ base' = base \ {i} /\ InPop = {} /\ InPop' = {i}
        /\ UNCHANGED <<Handling, HandsApart, buffer, batch, unhandled, handled, lost, removed,
                       accepted>>
    BY <1>3 DEF PopItem, InPop, Handling, HandsApart
  <2>2. MovedTo(Whereabouts, Whereabouts', "base", "pop", {i})
    BY <2>1, Fields DEF MovedTo, Names
  <2>3. Partition(Whereabouts', accepted)
    BY <2>1, <2>2, MoveToKeepsPartition, Fields DEF Conserved, Names
  <2>4. QED
    BY <2>1, <2>3 DEF Conserved
<1>4. CASE PopFail
  BY <1>4, Untouched DEF PopFail, InPop
<1>5. ASSUME NEW n \in MaxNums, SetWorkerMaxNumber(n) PROVE Conserved'
  BY <1>5, Untouched DEF SetWorkerMaxNumber, InPop
<1>6. ASSUME NEW f \in Flushers, FlushRequest(f) \/ FlushGiveUp(f) PROVE Conserved'
  BY <1>6, Untouched DEF FlushRequest, FlushGiveUp, InPop
<1>7. ASSUME NEW i \in Items, PopFailLoses(i) PROVE Conserved'
  <2>1. /\ i \in base /\ base' = base \ {i} /\ lost' = lost \cup {i}
        /\ UNCHANGED <<InPop, Handling, HandsApart, buffer, batch, unhandled, handled, removed,
                       accepted>>
    BY <1>7 DEF PopFailLoses, InPop, Handling, HandsApart
  <2>2. MovedTo(Whereabouts, Whereabouts', "base", "lost", {i})
    BY <2>1, Fields DEF MovedTo, Names
  <2>3. Partition(Whereabouts', accepted)
    BY <2>1, <2>2, MoveToKeepsPartition, Fields DEF Conserved, Names
  <2>4. QED
    BY <2>1, <2>3 DEF Conserved
<1>8. QED
  BY <1>1, <1>2, <1>3, <1>4, <1>5, <1>6, <1>7 DEF CallerStep, PopStep

\* A receive: the item popped goes to the receiver's place q, or is corrupted and lost.
LEMMA ConservedReceive ==
  ASSUME Conserved, PopDeliver, NEW q \in {"buffer", "unhandled", "handling"},
         HandsApart',
         UNCHANGED <<batch, removed>>,
         q = "buffer" => buffer' = buffer \cup Received,
         q = "unhandled" => unhandled' = unhandled \cup Received,
         q = "handling" => Handling' = Handling \cup Received,
         q # "buffer" => buffer' = buffer,
         q # "unhandled" => unhandled' = unhandled,
         q # "handling" => Handling' = Handling
  PROVE  Conserved'
<1> DEFINE T == {popItem} \cap Corrupted
<1>1. /\ InPop = {popItem} /\ InPop' = {} /\ lost' = lost \cup T
      /\ Received \cap T = {} /\ Received \cup T = {popItem}
      /\ UNCHANGED <<base, accepted, handled>>
  BY DEF PopDeliver, InPop, Received
<1> HIDE DEF T
<1>2. Moved(Whereabouts, Whereabouts', "pop", q, "lost", Received, T)
  <2>1. CASE q = "buffer"
    BY <1>1, <2>1, Fields DEF Moved, Names
  <2>2. CASE q = "unhandled"
    BY <1>1, <2>2, Fields DEF Moved, Names
  <2>3. CASE q = "handling"
    BY <1>1, <2>3, Fields DEF Moved, Names
  <2>4. QED
    BY <2>1, <2>2, <2>3
<1>3. /\ "pop" \in Names /\ q \in Names /\ "lost" \in Names
      /\ q # "pop" /\ q # "lost" /\ Received \cup T \subseteq Whereabouts["pop"]
  BY <1>1, Fields DEF Names
<1>4. PICK S : S = Received
  OBVIOUS
<1>5. Partition(Whereabouts', accepted)
  BY <1>1, <1>2, <1>3, <1>4, MoveKeepsPartition DEF Conserved
<1>6. QED
  BY <1>1, <1>5 DEF Conserved

\* A goroutine's hands lose the items S to the place q.
LEMMA ConservedLose ==
  ASSUME TypeOK, Conserved, NEW e \in Execs, NEW S, S \subseteq hbatch[e],
         hbatch' = [hbatch EXCEPT ![e] = hbatch[e] \ S],
         NEW q \in {"base", "handled", "lost"},
         UNCHANGED <<InPop, buffer, batch, unhandled, removed, accepted>>,
         base' = IF q = "base" THEN base \cup S ELSE base,
         handled' = IF q = "handled" THEN handled \cup S ELSE handled,
         lost' = IF q = "lost" THEN lost \cup S ELSE lost
  PROVE  Conserved'
<1>1. HandsApart' /\ S \subseteq Handling /\ Handling' = Handling \ S
  BY HandsLose DEF Conserved
<1>2. MovedTo(Whereabouts, Whereabouts', "handling", q, S)
  <2>1. CASE q = "base"
    BY <1>1, <2>1, Fields DEF MovedTo, Names
  <2>2. CASE q = "handled"
    BY <1>1, <2>2, Fields DEF MovedTo, Names
  <2>3. CASE q = "lost"
    BY <1>1, <2>3, Fields DEF MovedTo, Names
  <2>4. QED
    BY <2>1, <2>2, <2>3
<1>3. /\ "handling" \in Names /\ q \in Names
      /\ q # "handling" /\ S \subseteq Whereabouts["handling"]
  BY <1>1, Fields DEF Names
<1>4. Partition(Whereabouts', accepted)
  BY <1>2, <1>3, MoveToKeepsPartition DEF Conserved
<1>5. QED
  BY <1>1, <1>4 DEF Conserved

\* The handler handles items; the requeue puts them back, or gives them up.
LEMMA ConservedHandle ==
  ASSUME TypeInv, Conserved, HandsInv, NEW e \in Execs, HandleStep(e) PROVE Conserved'
<1> USE DEF popVars, sourceVars, mainVars, itemVars, ledgerVars, outerVars, TypeInv
<1>1. ASSUME NEW left \in SUBSET hbatch[e], HandlerReturn(e, left) PROVE Conserved'
  <2>1. PICK S : S = hbatch[e] \ left
    OBVIOUS
  <2>2. hbatch[e] \ S = left
    BY <2>1
  <2>3. /\ hbatch' = [hbatch EXCEPT ![e] = hbatch[e] \ S] /\ handled' = handled \cup S
        /\ UNCHANGED <<base, InPop, buffer, batch, unhandled, lost, removed, accepted>>
    BY <1>1, <2>1, <2>2 DEF HandlerReturn, InPop
  <2>4. QED
    BY <2>1, <2>3, ConservedLose
<1>2. CASE BackoffEnd(e)
  BY <1>2, Untouched DEF BackoffEnd, InPop
<1>3. CASE HandlePutBack(e)
  <2>1. PICK S : S = {hitem[e]}
    OBVIOUS
  <2>2. /\ S \subseteq hbatch[e] /\ hbatch' = [hbatch EXCEPT ![e] = hbatch[e] \ S]
        /\ UNCHANGED <<InPop, buffer, batch, unhandled, handled, removed, accepted>>
    BY <1>3, <2>1 DEF HandlePutBack, InPop, HandsInv
  <2>3. \/ base' = base \cup S /\ lost' = lost
        \/ base' = base /\ lost' = lost \cup S
    BY <1>3, <2>1 DEF HandlePutBack, BasePushForShutdown
  <2>4. QED
    BY <2>2, <2>3, ConservedLose
<1>4. CASE HandleEnd(e)
  BY <1>4, Untouched DEF HandleEnd, InPop
<1>5. ASSUME NEW i \in hbatch[e], RequeuePush(e, i) PROVE Conserved'
  <2>1. PICK S : S = {i}
    OBVIOUS
  <2>2. /\ S \subseteq hbatch[e] /\ hbatch' = [hbatch EXCEPT ![e] = hbatch[e] \ S]
        /\ base' = base \cup S
        /\ UNCHANGED <<InPop, buffer, batch, unhandled, handled, lost, removed, accepted>>
    BY <1>5, <2>1 DEF RequeuePush, InPop
  <2>3. QED
    BY <2>2, ConservedLose
<1>6. ASSUME NEW i \in hbatch[e], RequeueFail(e, i) PROVE Conserved'
  BY <1>6, Untouched DEF RequeueFail, PutAside, InPop
<1>7. QED
  BY <1>1, <1>2, <1>3, <1>4, <1>5, <1>6 DEF HandleStep

\* The main loop buffers what it receives.
LEMMA ConservedSelect ==
  ASSUME Conserved, SelectStep PROVE Conserved'
<1> USE DEF popVars, sourceVars, itemVars, execVars, handleVars, ledgerVars, outerVars
<1>1. CASE MainReceive
  <2>1. /\ PopDeliver /\ buffer' = buffer \cup Received
        /\ UNCHANGED <<batch, unhandled, hbatch, removed>>
    BY <1>1 DEF MainReceive, PopDeliver
  <2>2. HandsApart' /\ Handling' = Handling
    BY <2>1 DEF Conserved, HandsApart, Handling
  <2>3. QED
    BY <2>1, <2>2, ConservedReceive
<1>2. CASE MainTimer
  BY <1>2, Untouched DEF MainTimer, InPop
<1>3. CASE MainReturn
  BY <1>3, Untouched DEF MainReturn, InPop
<1>4. ASSUME NEW f \in Flushers, MainFlush(f) PROVE Conserved'
  BY <1>4, Untouched DEF MainFlush, InPop
<1>5. QED
  BY <1>1, <1>2, <1>3, <1>4 DEF SelectStep

\* A goroutine with empty hands takes all of the buffer or all of the batch.
LEMMA ConservedGain ==
  ASSUME TypeOK, Conserved, NEW e \in Execs, hbatch[e] = {},
         NEW p \in {"buffer", "batch"}, HandleBegin(e, IF p = "buffer" THEN buffer ELSE batch),
         buffer' = IF p = "buffer" THEN {} ELSE buffer,
         batch' = IF p = "batch" THEN {} ELSE batch,
         UNCHANGED <<base, InPop, unhandled, handled, lost, removed, accepted>>
  PROVE  Conserved'
<1>1. PICK S : S = Whereabouts[p]
  OBVIOUS
<1>2. S = IF p = "buffer" THEN buffer ELSE batch
  BY <1>1, Fields
<1>3. S \cap Handling = {}
  BY <1>2, PlacesApart
<1>4. hbatch' = [hbatch EXCEPT ![e] = S]
  BY <1>2 DEF HandleBegin
<1>5. HandsApart' /\ Handling' = Handling \cup S
  BY <1>3, <1>4, HandsGain DEF Conserved
<1>6. MovedTo(Whereabouts, Whereabouts', p, "handling", S)
  <2>1. CASE p = "buffer"
    BY <1>2, <1>5, <2>1, Fields DEF MovedTo, Names
  <2>2. CASE p = "batch"
    BY <1>2, <1>5, <2>2, Fields DEF MovedTo, Names
  <2>3. QED
    BY <2>1, <2>2
<1>7. /\ p \in Names /\ "handling" \in Names
      /\ p # "handling" /\ S \subseteq Whereabouts[p]
  BY <1>1 DEF Names
<1>8. Partition(Whereabouts', accepted)
  BY <1>6, <1>7, MoveToKeepsPartition DEF Conserved
<1>9. QED
  BY <1>5, <1>8 DEF Conserved

\* The dispatch passes the buffer, or the batch, to somebody with empty hands.
LEMMA ConservedDispatch ==
  ASSUME TypeOK, Conserved, HandsInv, FlowInv, ControlInv, DispatchStep PROVE Conserved'
<1> USE DEF popVars, sourceVars, itemVars, execVars, handleVars, ledgerVars, ctxVars, outerVars
<1>1. CASE DispatchNothing
  BY <1>1, Untouched DEF DispatchNothing, InPop
<1>2. CASE Spawn
  BY <1>2, Untouched DEF Spawn, InPop
<1>3. CASE DispatchFull \/ OfferEnds
  <2>1. PICK p \in {"buffer", "batch"}, q \in {"buffer", "batch"} :
          /\ p # q
          /\ MovedTo(Whereabouts, Whereabouts', p, q, Whereabouts[p])
    <3>1. UNCHANGED <<base, InPop, Handling, unhandled, handled, lost, removed>>
      BY <1>3 DEF DispatchFull, OfferEnds, InPop, Handling
    <3>2. CASE DispatchFull
      <4>1. batch = {} /\ batch' = buffer /\ buffer' = {}
        BY <3>2 DEF DispatchFull, ResetBuffer, FlowInv
      <4>2. MovedTo(Whereabouts, Whereabouts', "buffer", "batch", Whereabouts["buffer"])
        BY <3>1, <4>1, Fields DEF MovedTo, Names
      <4>3. QED
        BY <4>2
    <3>3. CASE OfferEnds
      <4>1. (batch # {} => buffer = {}) /\ buffer' = batch /\ batch' = {}
        BY <3>3 DEF OfferEnds, FlowInv
      <4>2. CASE batch # {}
        <5>1. MovedTo(Whereabouts, Whereabouts', "batch", "buffer", Whereabouts["batch"])
          BY <3>1, <4>1, <4>2, Fields DEF MovedTo, Names
        <5>2. QED
          BY <5>1
      <4>3. CASE batch = {}
        <5>1. FALSE
          BY <3>3, <4>3 DEF OfferEnds, FlowInv
        <5>2. QED
          BY <5>1
      <4>4. QED
        BY <4>2, <4>3
    <3>4. QED
      BY <1>3, <3>2, <3>3
  <2>2. /\ p \in Names /\ q \in Names
    BY DEF Names
  <2>3. PICK S : S = Whereabouts[p]
    OBVIOUS
  <2>4. Partition(Whereabouts', accepted)
    BY <2>1, <2>2, <2>3, MoveToKeepsPartition DEF Conserved
  <2>5. HandsApart' /\ accepted' = accepted
    BY <1>3 DEF DispatchFull, OfferEnds, Conserved, HandsApart
  <2>6. QED
    BY <2>4, <2>5 DEF Conserved
<1>4. ASSUME NEW w \in Workers, DispatchSend(w) PROVE Conserved'
  <2>1. w \in Execs /\ hbatch[w] = {}
    BY <1>4 DEF DispatchSend, Ready, HandsInv, Execs
  <2>2. QED
    BY <1>4, <2>1, ConservedGain DEF DispatchSend, ResetBuffer, InPop
<1>5. ASSUME NEW w \in Workers, OfferTaken(w) PROVE Conserved'
  <2>1. w \in Execs /\ hbatch[w] = {}
    BY <1>5 DEF OfferTaken, Ready, HandsInv, Execs
  <2>2. QED
    BY <1>5, <2>1, ConservedGain DEF OfferTaken, InPop
<1>6. ASSUME NEW f \in Flushers, OfferFlush(f) PROVE Conserved'
  <2>1. Main \in Execs /\ hbatch[Main] = {}
    BY <1>6 DEF OfferFlush, HandsInv, ControlInv, Execs
  <2>2. QED
    BY <1>6, <2>1, ConservedGain DEF OfferFlush, InPop
<1>7. QED
  BY <1>1, <1>2, <1>3, <1>4, <1>5, <1>6 DEF DispatchStep

\* While it flushes, doRun handles what it receives, with nothing else in hand.
LEMMA ConservedFlush ==
  ASSUME TypeOK, Conserved, HandsInv, ControlInv, FlushStep PROVE Conserved'
<1> USE DEF popVars, sourceVars, itemVars, execVars, handleVars, ledgerVars, ctxVars, outerVars
<1>1. CASE FlushReceive
  <2>1. /\ PopDeliver
        /\ UNCHANGED <<buffer, batch, unhandled, removed>>
    BY <1>1 DEF FlushReceive, PopDeliver
  <2>2. hbatch[Main] = {}
    BY <1>1 DEF FlushReceive, ControlInv, HandsInv, Execs
  <2>3. Received \cap Handling = {}
    BY <2>1, PlacesApart DEF Received, PopDeliver, InPop
  <2>4. HandsApart' /\ Handling' = Handling \cup Received
    <3>1. CASE Received # {}
      <4>1. hbatch' = [hbatch EXCEPT ![Main] = Received]
        BY <1>1, <3>1 DEF FlushReceive, HandleBegin
      <4>2. PICK S : S = Received
        OBVIOUS
      <4>3. QED
        BY <2>2, <2>3, <4>1, <4>2, HandsGain DEF Conserved, Execs
    <3>2. CASE Received = {}
      <4>1. hbatch' = hbatch
        BY <1>1, <3>2 DEF FlushReceive
      <4>2. QED
        BY <3>2, <4>1 DEF Conserved, HandsApart, Handling
    <3>3. QED
      BY <3>1, <3>2
  <2>5. QED
    BY <2>1, <2>4, ConservedReceive
<1>2. CASE FlushCancelWorkers
  BY <1>2, Untouched DEF FlushCancelWorkers, InPop
<1>3. CASE FlushWorkersGone
  BY <1>3, Untouched DEF FlushWorkersGone, InPop
<1>4. CASE FlushTick
  BY <1>4, Untouched DEF FlushTick, InPop
<1>5. CASE FlushStop
  BY <1>5, Untouched DEF FlushStop, InPop
<1>6. QED
  BY <1>1, <1>2, <1>3, <1>4, <1>5 DEF FlushStep

\* The deferred shutdown collects what doRun holds, and gives all of it away.
LEMMA ConservedShutdown ==
  ASSUME Conserved, FlowInv, ShutdownStep PROVE Conserved'
<1> USE DEF popVars, sourceVars, itemVars, execVars, handleVars, ledgerVars, ctxVars, outerVars
<1>1. CASE ShutdownBegin
  <2>1. /\ unhandled = {} /\ unhandled' = buffer /\ buffer' = {}
        /\ UNCHANGED <<base, InPop, batch, Handling, HandsApart, handled, lost, removed,
                       accepted>>
    BY <1>1 DEF ShutdownBegin, CollectBuffer, FlowInv, InPop, Handling, HandsApart
  <2>2. MovedTo(Whereabouts, Whereabouts', "buffer", "unhandled", buffer)
    BY <2>1, Fields DEF MovedTo, Names
  <2>3. Partition(Whereabouts', accepted)
    BY <2>2, MoveToKeepsPartition, Fields DEF Conserved, Names
  <2>4. QED
    BY <2>1, <2>3 DEF Conserved
<1>2. CASE CollectReceive
  <2>1. /\ PopDeliver /\ unhandled' = unhandled \cup Received
        /\ UNCHANGED <<buffer, batch, hbatch, removed>>
    BY <1>2 DEF CollectReceive, PopDeliver
  <2>2. HandsApart' /\ Handling' = Handling
    BY <2>1 DEF Conserved, HandsApart, Handling
  <2>3. QED
    BY <2>1, <2>2, ConservedReceive
<1>3. CASE CollectEnd
  BY <1>3, Untouched DEF CollectEnd, InPop
<1>4. CASE Join
  BY <1>4, Untouched DEF Join, InPop
<1>5. ASSUME NEW i \in unhandled, PutBack(i) PROVE Conserved'
  <2>1. /\ unhandled' = unhandled \ {i}
        /\ UNCHANGED <<InPop, buffer, batch, Handling, HandsApart, handled, removed, accepted>>
    BY <1>5 DEF PutBack, InPop, Handling, HandsApart
  <2>2. CASE base' = base \cup {i} /\ lost' = lost
    <3>1. MovedTo(Whereabouts, Whereabouts', "unhandled", "base", {i})
      BY <2>1, <2>2, Fields DEF MovedTo, Names
    <3>2. Partition(Whereabouts', accepted)
      BY <3>1, MoveToKeepsPartition, Fields DEF Conserved, Names
    <3>3. QED
      BY <2>1, <3>2 DEF Conserved
  <2>3. CASE base' = base /\ lost' = lost \cup {i}
    <3>1. MovedTo(Whereabouts, Whereabouts', "unhandled", "lost", {i})
      BY <2>1, <2>3, Fields DEF MovedTo, Names
    <3>2. Partition(Whereabouts', accepted)
      BY <3>1, MoveToKeepsPartition, Fields DEF Conserved, Names
    <3>3. QED
      BY <2>1, <3>2 DEF Conserved
  <2>4. QED
    BY <1>5, <2>2, <2>3 DEF PutBack, BasePushForShutdown
<1>6. ASSUME NEW left \in SUBSET unhandled, LastHandle(left) PROVE Conserved'
  <2>1. PICK S : S = unhandled \ left
    OBVIOUS
  <2>2. /\ handled' = handled \cup S /\ lost' = lost \cup left /\ unhandled' = {}
        /\ S \cap left = {} /\ S \cup left = unhandled
        /\ UNCHANGED <<base, InPop, buffer, batch, Handling, HandsApart, removed, accepted>>
    BY <1>6, <2>1 DEF LastHandle, InPop, Handling, HandsApart
  <2>3. Moved(Whereabouts, Whereabouts', "unhandled", "handled", "lost", S, left)
    BY <2>2, Fields DEF Moved, Names
  <2>4. S \cup left \subseteq Whereabouts["unhandled"]
    BY <2>2, Fields
  <2>5. Partition(Whereabouts', accepted)
    BY <2>2, <2>3, <2>4, MoveKeepsPartition DEF Conserved, Names
  <2>6. QED
    BY <2>2, <2>5 DEF Conserved
<1>7. QED
  BY <1>1, <1>2, <1>3, <1>4, <1>5, <1>6 DEF ShutdownStep

-----------------------------------------------------------------------------
(* The hands and the flow *)

\* Steps that change neither.
LEMMA HandsUntouched ==
  ASSUME HandsInv, UNCHANGED <<hpc, hbatch, hitem>> PROVE HandsInv'
  BY DEF HandsInv

\* A goroutine in its select takes a batch.
LEMMA HandsBegin ==
  ASSUME TypeOK, HandsInv, NEW e \in Execs, NEW S, HandleBegin(e, S) PROVE HandsInv'
<1>1. hpc'[e] = "handler" /\ \A d \in Execs \ {e} : UNCHANGED <<hpc[d], hbatch[d], hitem[d]>>
  BY DEF HandleBegin, TypeOK
<1>2. QED
  BY <1>1 DEF HandsInv

\* A goroutine inside doWorkerHandle leaves it with empty hands, and has the
\* item it puts aside in hand.
LEMMA HandsInvHandle ==
  ASSUME TypeOK, HandsInv, NEW e \in Execs, HandleStep(e) PROVE HandsInv'
<1>1. ASSUME \A d \in Execs \ {e} : UNCHANGED <<hpc[d], hbatch[d], hitem[d]>>,
             hpc'[e] = "idle" => hbatch'[e] = {},
             hpc'[e] = "putback" => hitem'[e] \in hbatch'[e]
      PROVE  HandsInv'
  BY <1>1 DEF HandsInv
<1>2. ASSUME NEW left \in SUBSET hbatch[e], HandlerReturn(e, left) PROVE HandsInv'
  BY <1>1, <1>2 DEF HandlerReturn, TypeOK
<1>3. CASE BackoffEnd(e)
  BY <1>1, <1>3 DEF BackoffEnd, TypeOK
<1>4. CASE HandlePutBack(e)
  BY <1>1, <1>4 DEF HandlePutBack, TypeOK
<1>5. CASE HandleEnd(e)
  BY <1>1, <1>5 DEF HandleEnd, TypeOK
<1>6. ASSUME NEW i \in hbatch[e], RequeuePush(e, i) PROVE HandsInv'
  BY <1>1, <1>6 DEF RequeuePush, TypeOK
<1>7. ASSUME NEW i \in hbatch[e], RequeueFail(e, i) PROVE HandsInv'
  BY <1>1, <1>7 DEF RequeueFail, PutAside, TypeOK
<1>8. QED
  BY <1>2, <1>3, <1>4, <1>5, <1>6, <1>7 DEF HandleStep

\* Every step keeps the hands.
LEMMA HandsInvStep ==
  ASSUME TypeOK, HandsInv, [Next]_vars PROVE HandsInv'
<1> USE DEF mainVars, execVars, handleVars
<1>1. CASE CallerStep \/ PopStep \/ StopStep
  BY <1>1, HandsUntouched
  DEF CallerStep, Push, RemoveAllItems, SetWorkerMaxNumber, FlushRequest, FlushGiveUp,
      PopStep, PopItem, PopFail, PopFailLoses, StopStep, ParentCancel, StopBegin, StopExpire, StopReturn
<1>2. ASSUME NEW w \in Workers, WorkerStep(w) PROVE HandsInv'
  BY <1>2, HandsUntouched DEF WorkerStep, WorkerStop, WorkerIdle, WorkerLeaves
<1>3. CASE SelectStep
  BY <1>3, HandsUntouched DEF SelectStep, MainReceive, MainTimer, MainReturn, MainFlush
<1>4. CASE DispatchStep
  <2>1. CASE DispatchNothing \/ DispatchFull \/ Spawn \/ OfferEnds
    BY <2>1, HandsUntouched DEF DispatchNothing, DispatchFull, Spawn, OfferEnds
  <2>2. ASSUME NEW w \in Workers, DispatchSend(w) \/ OfferTaken(w) PROVE HandsInv'
    BY <2>2, HandsBegin DEF DispatchSend, OfferTaken, Execs
  <2>3. ASSUME NEW f \in Flushers, OfferFlush(f) PROVE HandsInv'
    BY <2>3, HandsBegin DEF OfferFlush, Execs
  <2>4. QED
    BY <1>4, <2>1, <2>2, <2>3 DEF DispatchStep
<1>5. CASE FlushStep
  <2>1. CASE FlushReceive
    BY <2>1, HandsUntouched, HandsBegin DEF FlushReceive, Execs
  <2>2. CASE FlushCancelWorkers \/ FlushWorkersGone \/ FlushTick \/ FlushStop
    BY <2>2, HandsUntouched DEF FlushCancelWorkers, FlushWorkersGone, FlushTick, FlushStop
  <2>3. QED
    BY <1>5, <2>1, <2>2 DEF FlushStep
<1>6. CASE ShutdownStep
  BY <1>6, HandsUntouched
  DEF ShutdownStep, ShutdownBegin, CollectReceive, CollectEnd, Join, PutBack, LastHandle
<1>7. CASE UNCHANGED vars
  BY <1>7, HandsUntouched DEF vars
<1>8. QED
  BY <1>1, <1>2, <1>3, <1>4, <1>5, <1>6, <1>7, HandsInvHandle DEF Next

\* Every step keeps the flow: doRun has a batch in hand only until it is taken,
\* and collects unhandled items only in the deferred shutdown.
LEMMA FlowInvStep ==
  ASSUME TypeOK, ControlInv, FlowInv, [Next]_vars PROVE FlowInv'
<1> USE DEF mainVars, flowVars, itemVars
<1>1. ASSUME UNCHANGED <<mpc, buffer, batch, unhandled>> PROVE FlowInv'
  BY <1>1 DEF FlowInv
<1>2. CASE CallerStep \/ PopStep \/ StopStep
  BY <1>1, <1>2
  DEF CallerStep, Push, RemoveAllItems, SetWorkerMaxNumber, FlushRequest, FlushGiveUp,
      PopStep, PopItem, PopFail, PopFailLoses, StopStep, ParentCancel, StopBegin, StopExpire, StopReturn
<1>3. ASSUME NEW w \in Workers, WorkerStep(w) PROVE FlowInv'
  BY <1>1, <1>3 DEF WorkerStep, WorkerStop, WorkerIdle, WorkerLeaves
<1>4. ASSUME NEW e \in Execs, HandleStep(e) PROVE FlowInv'
  <2>1. CASE HandleEnd(e)
    BY <2>1 DEF HandleEnd, ControlInv, FlowInv, TypeOK
  <2>2. CASE ~HandleEnd(e)
    BY <1>1, <1>4, <2>2
    DEF HandleStep, HandlerReturn, BackoffEnd, HandlePutBack, RequeuePush, RequeueFail, PutAside
  <2>3. QED
    BY <2>1, <2>2
<1>5. CASE SelectStep
  BY <1>5 DEF SelectStep, MainReceive, MainTimer, MainReturn, MainFlush, BeforeFlush, FlowInv
<1>6. CASE DispatchStep
  BY <1>6 DEF DispatchStep, DispatchNothing, DispatchFull, Spawn, OfferEnds, DispatchSend,
              OfferTaken, OfferFlush, ResetBuffer, ControlInv, FlowInv, TypeOK
<1>7. CASE FlushStep
  BY <1>7 DEF FlushStep, FlushCancelWorkers, FlushWorkersGone, FlushReceive, FlushTick,
              FlushStop, FlushEnd, FlowInv
<1>8. CASE ShutdownStep
  BY <1>8 DEF ShutdownStep, ShutdownBegin, CollectBuffer, CollectReceive, CollectEnd, Join,
              PutBack, LastHandle, FlowInv
<1>9. CASE UNCHANGED vars
  BY <1>1, <1>9 DEF vars
<1>10. QED
  BY <1>2, <1>3, <1>4, <1>5, <1>6, <1>7, <1>8, <1>9 DEF Next

-----------------------------------------------------------------------------
(* The theorem *)

ItemInv == Conserved /\ HandsInv /\ FlowInv

\* At first no place holds an item.
LEMMA ItemInvInit == Init => ItemInv
<1> SUFFICES ASSUME Init PROVE ItemInv
  OBVIOUS
<1>1. /\ base = {} /\ buffer = {} /\ batch = {} /\ unhandled = {} /\ handled = {} /\ lost = {}
      /\ removed = {} /\ accepted = {} /\ mpc = "loop"
      /\ \A e \in Execs : hbatch[e] = {} /\ hpc[e] = "idle"
  BY DEF Init
<1>2. InPop = {} /\ Handling = {} /\ HandsApart
  BY <1>1 DEF Init, InPop, Handling, HandsApart
<1>3. \A n \in Names : Whereabouts[n] = {}
  BY <1>1, <1>2, Fields DEF Names
<1>4. Conserved
  BY <1>1, <1>2, <1>3 DEF Conserved, Partition
<1>5. HandsInv /\ FlowInv
  BY <1>1 DEF HandsInv, FlowInv
<1>6. QED
  BY <1>4, <1>5 DEF ItemInv

\* Every step keeps every item in one place.
LEMMA ItemInvStep == TypeInv /\ PoolInv /\ ItemInv /\ [Next]_vars => ItemInv'
<1> SUFFICES ASSUME TypeInv, PoolInv, ItemInv, [Next]_vars PROVE ItemInv'
  OBVIOUS
<1>1. TypeOK /\ ControlInv /\ Conserved /\ HandsInv /\ FlowInv
  BY DEF TypeInv, PoolInv, ItemInv
<1>2. ASSUME NEW w \in Workers, WorkerStep(w) PROVE Conserved'
  BY <1>1, <1>2, Untouched
  DEF WorkerStep, WorkerStop, WorkerIdle, WorkerLeaves, InPop, sourceVars, popVars, mainVars,
      itemVars, handleVars, outerVars, ledgerVars
<1>3. ASSUME StopStep PROVE Conserved'
  BY <1>1, <1>3, Untouched
  DEF StopStep, ParentCancel, StopBegin, StopExpire, StopReturn, InPop, sourceVars, popVars,
      mainVars, itemVars, execVars, handleVars, ledgerVars
<1>4. ASSUME UNCHANGED vars PROVE Conserved'
  BY <1>1, <1>4, Untouched
  DEF vars, InPop, sourceVars, popVars, mainVars, itemVars, execVars, handleVars, outerVars,
      ledgerVars
<1>5. Conserved'
  BY <1>1, <1>2, <1>3, <1>4, ConservedCaller, ConservedHandle, ConservedSelect,
     ConservedDispatch, ConservedFlush, ConservedShutdown DEF Next
<1>6. QED
  BY <1>1, <1>5, HandsInvStep, FlowInvStep DEF ItemInv

\* All of it holds throughout.
LEMMA ItemInvariant == Spec => [](TypeInv /\ PoolInv /\ ItemInv)
<1>1. Init => ItemInv
  BY ItemInvInit
<1>2. TypeInv /\ PoolInv /\ ItemInv /\ [Next]_vars => ItemInv'
  BY ItemInvStep
<1>3. QED
  BY <1>1, <1>2, PoolInvariant, PTL DEF Spec

\* Whatever the number of items, workers and flushes, whatever fails, and
\* however the queue is shut down: every item that was accepted is in exactly
\* one place, and in the hands of one goroutine.
THEOREM ItemsAreConserved == Spec => []ItemsConserved
<1>1. ItemInv => ItemsConserved
  <2> SUFFICES ASSUME ItemInv PROVE ItemsConserved
    OBVIOUS
  <2>1. DOMAIN Whereabouts = Names
    BY DEF Whereabouts, Names
  <2>2. \A x : x \in accepted <=> \E n \in Names : x \in Whereabouts[n]
    BY DEF ItemInv, Conserved, Partition
  <2>3. UNION {Whereabouts[n] : n \in Names} = accepted
    BY <2>2
  <2>4. \A m, n \in Names : m # n => Whereabouts[m] \cap Whereabouts[n] = {}
    BY DEF ItemInv, Conserved, Partition
  <2>5. QED
    BY <2>1, <2>3, <2>4 DEF ItemsConserved, ItemInv, Conserved, HandsApart
<1>2. QED
  BY <1>1, ItemInvariant, PTL
=============================================================================
