----------------------- MODULE BaseLocalQueue_proofs ------------------------
(***************************************************************************)
(* What the unique base queues of one process guarantee, for every set of   *)
(* items, every length and any number of goroutines.                        *)
(* BaseChannel: the queue never holds an item twice until two pushes of one *)
(* item overlap, or RemoveAll clears the set while a popper holds an item.  *)
(* The window between the send and the insertion in the set is harmless,    *)
(* since until the pusher is back it vouches for the item.                  *)
(* BaseLevelQueueUnique: no mutex is needed for the same, nor for a truthful *)
(* set, since the set is entered before the queue and left after it.        *)
(***************************************************************************)
EXTENDS BaseChannel, BaseLevelQueueUnique, FiniteSetTheorems, TLAPS

\* The set knows the item, or a pusher is about to tell it.
Vouched(x) == x \in known \/ Adding(x)

\* A popper has received the item and not told the set.
Held(x) == \E r \in Poppers : step[r] = "remove" /\ value[r] = x

Removing(m) == step[m] \in {"drain", "receive", "clear"}

\* The removers are the only ones to hold mu across steps.
MutexInv == \A m \in ChannelRemovers : Removing(m) => mu = m

\* While a remover holds mu at the end of its loop, the channel holds nothing
\* but what a pusher is about to add.
ClearInv ==
    \A m \in ChannelRemovers : step[m] = "clear" => \A x \in ChannelItems : InChannel(x) => Adding(x)

\* No two pushers are at work on one item.
OverlapInv ==
    \A p, q \in Pushers : step[p] # "idle" /\ step[q] # "idle" /\ value[p] = value[q] => p = q

Distinct == \A i, j \in DOMAIN c : c[i] = c[j] => i = j

ChannelInv ==
    /\ Distinct
    /\ \A x \in ChannelItems : InChannel(x) => Vouched(x)

\* Nobody vouches for what a pusher is about to send.
SendInv == \A p \in Pushers : step[p] = "send" => ~Vouched(value[p])

\* An item a popper has received is vouched for until the popper removes it.
HeldInv ==
    \A r \in Poppers : step[r] = "remove" =>
        /\ Vouched(value[r])
        /\ ~InChannel(value[r])
        /\ \A q \in Poppers : step[q] = "remove" /\ value[q] = value[r] => q = r

\* Who is vouched for is in the channel or in the hands of a popper, unless
\* RemoveAll is at work.
TruthInv ==
    \A x \in ChannelItems :
        Vouched(x) => InChannel(x) \/ Held(x) \/ \E m \in ChannelRemovers : Removing(m)

OrderlyInv == ClearInv /\ OverlapInv /\ ChannelInv /\ SendInv /\ HeldInv

UniqueInv ==
    /\ MutexInv
    /\ IsUnique /\ Orderly => OrderlyInv
    /\ IsUnique /\ raced = {} => TruthInv

\* A goroutine is at a step of its own operation, with an item in hand.
RoleInv ==
    /\ \A p \in Pushers : /\ step[p] \in {"idle", "check", "send", "add"}
                          /\ step[p] # "idle" => value[p] \in ChannelItems
    /\ \A r \in Poppers : /\ step[r] \in {"idle", "remove"}
                          /\ step[r] # "idle" => value[r] \in ChannelItems
    /\ \A m \in ChannelRemovers : step[m] \in {"idle", "drain", "receive", "clear"}

TypeInv == ChannelTypeOK /\ RoleInv

-----------------------------------------------------------------------------
\* The initial states are well typed.
LEMMA TypeInvInit == ChannelInit => TypeInv
  BY BaseChannelAssumption DEF ChannelInit, TypeInv, ChannelTypeOK, RoleInv, Threads

\* Every step leaves a well-typed state.
LEMMA TypeInvStep == TypeInv /\ [ChannelNext]_channelVars => TypeInv'
<1> SUFFICES ASSUME TypeInv, [ChannelNext]_channelVars PROVE TypeInv'
  OBVIOUS
<1> USE BaseChannelAssumption DEF TypeInv, ChannelTypeOK, RoleInv, Threads, ChannelGoto, ChannelReturn, Notes
<1>1. ASSUME NEW p \in Pushers, NEW x \in ChannelItems, PushBegin(p, x) PROVE TypeInv'
  BY <1>1 DEF PushBegin
<1>2. ASSUME NEW p \in Pushers, PushCheck(p) PROVE TypeInv'
  BY <1>2 DEF PushCheck
<1>3. ASSUME NEW p \in Pushers, PushSend(p) PROVE TypeInv'
  BY <1>3 DEF PushSend
<1>4. ASSUME NEW p \in Pushers, PushGiveUp(p) PROVE TypeInv'
  BY <1>4 DEF PushGiveUp
<1>5. ASSUME NEW p \in Pushers, PushAdd(p) PROVE TypeInv'
  BY <1>5 DEF PushAdd
<1>6. ASSUME NEW r \in Poppers, PopReceive(r) PROVE TypeInv'
  BY <1>6 DEF PopReceive
<1>7. ASSUME NEW r \in Poppers, PopRemove(r) PROVE TypeInv'
  BY <1>7 DEF PopRemove
<1>8. ASSUME NEW m \in ChannelRemovers, RemoveBegin(m) PROVE TypeInv'
  BY <1>8 DEF RemoveBegin
<1>9. ASSUME NEW m \in ChannelRemovers, RemoveLook(m) PROVE TypeInv'
  BY <1>9 DEF RemoveLook
<1>10. ASSUME NEW m \in ChannelRemovers, RemoveReceive(m) PROVE TypeInv'
  BY <1>10 DEF RemoveReceive
<1>11. ASSUME NEW m \in ChannelRemovers, RemoveClear(m) PROVE TypeInv'
  BY <1>11 DEF RemoveClear
<1>12. CASE UNCHANGED channelVars
  BY <1>12 DEF channelVars
<1>13. QED
  BY <1>1, <1>2, <1>3, <1>4, <1>5, <1>6, <1>7, <1>8, <1>9, <1>10, <1>11, <1>12
  DEF ChannelNext, ChannelPushStep, ChannelRemoveStep

\* The variables of base_channel.go keep their types: the channel never holds
\* more than its capacity, the set names only pushed items.
THEOREM TypeCorrect == ChannelSpec => []ChannelTypeOK
<1>1. TypeInv => ChannelTypeOK
  BY DEF TypeInv
<1>2. QED
  BY <1>1, TypeInvInit, TypeInvStep, PTL DEF ChannelSpec

-----------------------------------------------------------------------------
(* The two operations on the channel, seen through InChannel *)

\* The send: the channel has one more item, and all those it had.
LEMMA AppendToChannel ==
  ASSUME c \in Seq(ChannelItems), NEW x \in ChannelItems, c' = Append(c, x)
  PROVE  /\ \A y \in ChannelItems : InChannel(y)' <=> InChannel(y) \/ y = x
         /\ Distinct /\ ~InChannel(x) => Distinct'
<1>1. /\ DOMAIN c = 1 .. Len(c)
      /\ DOMAIN c' = 1 .. (Len(c) + 1)
      /\ \A i \in 1 .. Len(c) : c'[i] = c[i]
      /\ c'[Len(c) + 1] = x
      /\ Len(c) \in Nat
  OBVIOUS
<1>2. ASSUME NEW y \in ChannelItems PROVE InChannel(y)' <=> InChannel(y) \/ y = x
  BY <1>1 DEF InChannel
<1>3. ASSUME Distinct, ~InChannel(x) PROVE Distinct'
  BY <1>1, <1>3 DEF Distinct, InChannel
<1>4. QED
  BY <1>2, <1>3

\* The receive: what is left was there, and the items stay distinct.
LEMMA TailOfChannel ==
  ASSUME c \in Seq(ChannelItems), c # <<>>, c' = Tail(c), NEW x, x = Head(c)
  PROVE  /\ x \in ChannelItems /\ InChannel(x)
         /\ \A y \in ChannelItems : /\ InChannel(y)' => InChannel(y)
                                    /\ InChannel(y) => InChannel(y)' \/ y = x
         /\ Distinct => Distinct' /\ ~InChannel(x)'
<1>1. /\ DOMAIN c = 1 .. Len(c)
      /\ DOMAIN c' = 1 .. (Len(c) - 1)
      /\ \A i \in 1 .. (Len(c) - 1) : c'[i] = c[i + 1]
      /\ Len(c) \in Nat \ {0}
      /\ x = c[1] /\ x \in ChannelItems
  OBVIOUS
<1>2. InChannel(x)
  BY <1>1 DEF InChannel
<1>3. ASSUME NEW y \in ChannelItems, InChannel(y)' PROVE InChannel(y)
  <2>1. PICK i \in DOMAIN c' : c'[i] = y
    BY <1>3 DEF InChannel
  <2>2. i + 1 \in DOMAIN c /\ c[i + 1] = y
    BY <1>1, <2>1
  <2>3. QED
    BY <2>2 DEF InChannel
<1>5. ASSUME NEW y \in ChannelItems, InChannel(y), y # x PROVE InChannel(y)'
  <2>1. PICK i \in DOMAIN c : c[i] = y
    BY <1>5 DEF InChannel
  <2>2. i - 1 \in DOMAIN c' /\ c'[i - 1] = y
    BY <1>1, <1>5, <2>1
  <2>3. QED
    BY <2>2 DEF InChannel
<1>4. ASSUME Distinct PROVE Distinct' /\ ~InChannel(x)'
  <2>1. ASSUME NEW i \in DOMAIN c', NEW j \in DOMAIN c', c'[i] = c'[j] PROVE i = j
    BY <1>1, <1>4, <2>1 DEF Distinct
  <2>2. ASSUME NEW i \in DOMAIN c' PROVE c'[i] # x
    BY <1>1, <1>4, <2>2 DEF Distinct
  <2>3. QED
    BY <2>1, <2>2 DEF Distinct, InChannel
<1>6. QED
  BY <1>1, <1>2, <1>3, <1>4, <1>5

\* A step that leaves the channel alone leaves what is in it.
LEMMA ChannelUntouched ==
  ASSUME c' = c
  PROVE  /\ \A x \in ChannelItems : InChannel(x)' <=> InChannel(x)
         /\ Distinct' <=> Distinct
  BY DEF InChannel, Distinct

-----------------------------------------------------------------------------
(* Any number of pushers, poppers and removers *)

\* Whoever moves, nothing that was noted is forgotten.
LEMMA RacedGrows == [ChannelNext]_channelVars => raced \subseteq raced'
  BY DEF ChannelNext, ChannelPushStep, ChannelRemoveStep, PushBegin, PushCheck, PushSend, PushGiveUp,
         PushAdd, PopReceive, PopRemove, RemoveBegin, RemoveLook, RemoveReceive, RemoveClear, Notes,
         channelVars

\* The mutex is a mutex.
LEMMA MutexStep ==
  ASSUME TypeInv, MutexInv, [ChannelNext]_channelVars
  PROVE  MutexInv'
<1> USE BaseChannelAssumption
    DEF TypeInv, ChannelTypeOK, RoleInv, Threads, ChannelGoto, ChannelReturn, Locked, MutexInv, Removing
<1>1. ASSUME NEW p \in Pushers, ChannelPushStep(p) \/ \E x \in ChannelItems : PushBegin(p, x)
      PROVE  MutexInv'
  BY <1>1 DEF ChannelPushStep, PushBegin, PushCheck, PushSend, PushGiveUp, PushAdd
<1>2. ASSUME NEW r \in Poppers, PopReceive(r) \/ PopRemove(r) PROVE MutexInv'
  BY <1>2 DEF PopReceive, PopRemove
<1>3. ASSUME NEW m \in ChannelRemovers, RemoveBegin(m) \/ ChannelRemoveStep(m) PROVE MutexInv'
  BY <1>3 DEF ChannelRemoveStep, RemoveBegin, RemoveLook, RemoveReceive, RemoveClear
<1>4. CASE UNCHANGED channelVars
  BY <1>4 DEF channelVars
<1>5. QED
  BY <1>1, <1>2, <1>3, <1>4 DEF ChannelNext

\* Until pushes overlap or RemoveAll clears under a popper, a step keeps the set
\* and the channel in order.
LEMMA OrderlyStep ==
  ASSUME TypeInv, TypeInv', MutexInv, IsUnique, OrderlyInv, Orderly', [ChannelNext]_channelVars
  PROVE  OrderlyInv'
<1> USE BaseChannelAssumption
    DEF TypeInv, ChannelTypeOK, RoleInv, Threads, ChannelGoto, ChannelReturn, Locked, MutexInv, Removing,
        OrderlyInv, ClearInv, OverlapInv, ChannelInv, SendInv, HeldInv, Vouched, Adding
<1>1. ASSUME NEW p \in Pushers, NEW x \in ChannelItems, PushBegin(p, x) PROVE OrderlyInv'
  <2>1. \A q \in Pushers : step[q] # "idle" => value[q] # x
    BY <1>1 DEF PushBegin, Notes, Orderly, Pushing
  <2>2. QED
    BY <1>1, <2>1, ChannelUntouched DEF PushBegin
<1>2. ASSUME NEW p \in Pushers, PushCheck(p) PROVE OrderlyInv'
  <2>1. /\ c' = c /\ known' = known /\ mu' = mu
        /\ \A t \in Threads \ {p} : step'[t] = step[t] /\ value'[t] = value[t]
        /\ step[p] = "check" /\ step'[p] \in {"idle", "send"}
        /\ step'[p] = "send" => value'[p] = value[p] /\ value[p] \notin known
    BY <1>2 DEF PushCheck
  <2>2. /\ \A x \in ChannelItems : InChannel(x)' <=> InChannel(x)
        /\ Distinct' <=> Distinct
    BY <2>1, ChannelUntouched
  <2>3. \A x \in ChannelItems : Adding(x)' <=> Adding(x)
    BY <2>1
  <2>4. ClearInv' /\ OverlapInv' /\ ChannelInv'
    BY <2>1, <2>2, <2>3
  <2>5. SendInv'
    BY <2>1, <2>2, <2>3
  <2>6. HeldInv'
    BY <2>1, <2>2, <2>3
  <2>7. QED
    BY <2>4, <2>5, <2>6
<1>3. ASSUME NEW p \in Pushers, PushSend(p) PROVE OrderlyInv'
  <2> DEFINE x == value[p]
  <2>1. /\ x \in ChannelItems /\ c' = Append(c, x) /\ known' = known /\ mu' = mu
        /\ \A t \in Threads \ {p} : step'[t] = step[t] /\ value'[t] = value[t]
        /\ step[p] = "send" /\ step'[p] = "add" /\ value'[p] = x
    BY <1>3 DEF PushSend
  <2>2. /\ \A y \in ChannelItems : InChannel(y)' <=> InChannel(y) \/ y = x
        /\ Distinct'
    BY <2>1, AppendToChannel
  <2>3. \A y \in ChannelItems : Adding(y)' <=> Adding(y) \/ y = x
    BY <2>1
  <2>4. ClearInv' /\ OverlapInv' /\ ChannelInv'
    BY <2>1, <2>2, <2>3
  <2>5. SendInv'
    BY <2>1, <2>2, <2>3
  <2>6. HeldInv'
    BY <2>1, <2>2, <2>3
  <2>7. QED
    BY <2>4, <2>5, <2>6
<1>4. ASSUME NEW p \in Pushers, PushGiveUp(p) PROVE OrderlyInv'
  BY <1>4, ChannelUntouched DEF PushGiveUp
<1>5. ASSUME NEW p \in Pushers, PushAdd(p) PROVE OrderlyInv'
  BY <1>5, ChannelUntouched DEF PushAdd
<1>6. ASSUME NEW r \in Poppers, PopReceive(r) PROVE OrderlyInv'
  <2>0. PICK x : x = Head(c)
    OBVIOUS
  <2>1. /\ x \in ChannelItems /\ InChannel(x)
        /\ \A y \in ChannelItems : /\ InChannel(y)' => InChannel(y)
                                   /\ InChannel(y) => InChannel(y)' \/ y = x
        /\ Distinct => Distinct' /\ ~InChannel(x)'
    BY <1>6, <2>0, TailOfChannel DEF PopReceive
  <2>2. /\ known' = known /\ mu' = mu
        /\ \A p \in Pushers : step'[p] = step[p] /\ value'[p] = value[p]
        /\ \A q \in Poppers \ {r} : step'[q] = step[q] /\ value'[q] = value[q]
        /\ \A n \in ChannelRemovers : step'[n] = step[n]
        /\ step[r] = "idle" /\ step'[r] = "remove" /\ value'[r] = x
    BY <1>6, <2>0 DEF PopReceive
  <2>3. \A y \in ChannelItems : (Adding(y)' <=> Adding(y)) /\ (Vouched(y)' <=> Vouched(y))
    BY <2>2
  <2> HIDE DEF Adding, Vouched
  <2>4. ClearInv' /\ OverlapInv'
    BY <2>1, <2>2, <2>3
  <2>5. Distinct' /\ ~InChannel(x)'
    BY <2>1
  <2>6. ASSUME NEW y \in ChannelItems, InChannel(y)' PROVE Vouched(y)'
    BY <2>1, <2>2, <2>3, <2>6
  <2>7. SendInv'
    BY <2>2, <2>3
  <2>8. HeldInv'
    BY <2>1, <2>2, <2>3, <2>5
  <2>9. QED
    BY <2>4, <2>5, <2>6, <2>7, <2>8
<1>7. ASSUME NEW r \in Poppers, PopRemove(r) PROVE OrderlyInv'
  BY <1>7, ChannelUntouched DEF PopRemove
<1>8. ASSUME NEW m \in ChannelRemovers, RemoveBegin(m) PROVE OrderlyInv'
  BY <1>8, ChannelUntouched DEF RemoveBegin
<1>9. ASSUME NEW m \in ChannelRemovers, RemoveLook(m) PROVE OrderlyInv'
  <2>1. /\ c' = c /\ known' = known /\ mu' = mu
        /\ \A t \in Threads \ {m} : step'[t] = step[t] /\ value'[t] = value[t]
        /\ step[m] = "drain" /\ step'[m] \in {"receive", "clear"}
        /\ step'[m] = "clear" => c = <<>>
    BY <1>9 DEF RemoveLook
  <2>2. /\ \A x \in ChannelItems : InChannel(x)' <=> InChannel(x)
        /\ Distinct' <=> Distinct
        /\ c = <<>> => \A x \in ChannelItems : ~InChannel(x)
    BY <2>1, ChannelUntouched DEF InChannel
  <2>3. \A x \in ChannelItems : Adding(x)' <=> Adding(x)
    BY <2>1
  <2>4. OverlapInv' /\ ChannelInv' /\ SendInv'
    BY <2>1, <2>2, <2>3
  <2>5. ClearInv'
    BY <2>1, <2>2, <2>3
  <2>6. HeldInv'
    BY <2>1, <2>2, <2>3
  <2>7. QED
    BY <2>4, <2>5, <2>6
<1>10. ASSUME NEW m \in ChannelRemovers, RemoveReceive(m) PROVE OrderlyInv'
  <2>0. PICK x : x = Head(c)
    OBVIOUS
  <2>1. /\ x \in ChannelItems /\ InChannel(x)
        /\ \A y \in ChannelItems : /\ InChannel(y)' => InChannel(y)
                                   /\ InChannel(y) => InChannel(y)' \/ y = x
        /\ Distinct => Distinct' /\ ~InChannel(x)'
    BY <1>10, <2>0, TailOfChannel DEF RemoveReceive
  <2>2. /\ known' = known /\ mu' = mu
        /\ \A p \in Pushers : step'[p] = step[p] /\ value'[p] = value[p]
        /\ \A q \in Poppers : step'[q] = step[q] /\ value'[q] = value[q]
        /\ \A n \in ChannelRemovers \ {m} : step'[n] = step[n]
        /\ step[m] = "receive" /\ step'[m] = "drain"
    BY <1>10 DEF RemoveReceive
  <2>3. \A y \in ChannelItems : (Adding(y)' <=> Adding(y)) /\ (Vouched(y)' <=> Vouched(y))
    BY <2>2
  <2> HIDE DEF Adding, Vouched
  <2>4. ClearInv' /\ OverlapInv'
    BY <2>1, <2>2, <2>3
  <2>5. Distinct' /\ ~InChannel(x)'
    BY <2>1
  <2>6. ASSUME NEW y \in ChannelItems, InChannel(y)' PROVE Vouched(y)'
    BY <2>1, <2>2, <2>3, <2>6
  <2>7. SendInv'
    BY <2>2, <2>3
  <2>8. HeldInv'
    BY <2>1, <2>2, <2>3, <2>5
  <2>9. QED
    BY <2>4, <2>5, <2>6, <2>7, <2>8
<1>11. ASSUME NEW m \in ChannelRemovers, RemoveClear(m) PROVE OrderlyInv'
  <2>1. \A r \in Poppers : step[r] # "remove"
    BY <1>11 DEF RemoveClear, Orderly, Popping
  <2>2. QED
    BY <1>11, <2>1, ChannelUntouched DEF RemoveClear
<1>12. CASE UNCHANGED channelVars
  BY <1>12, ChannelUntouched DEF channelVars
<1>13. QED
  BY <1>1, <1>2, <1>3, <1>4, <1>5, <1>6, <1>7, <1>8, <1>9, <1>10, <1>11, <1>12
  DEF ChannelNext, ChannelPushStep, ChannelRemoveStep

\* Until something is noted, a step keeps the names of the set true.
LEMMA TruthStep ==
  ASSUME TypeInv, TypeInv', MutexInv, IsUnique, TruthInv, raced' = {}, [ChannelNext]_channelVars
  PROVE  TruthInv'
<1> USE BaseChannelAssumption
    DEF TypeInv, ChannelTypeOK, RoleInv, Threads, ChannelGoto, ChannelReturn, Locked, MutexInv, Removing,
        TruthInv, Vouched, Adding, Held
<1>1. ASSUME NEW p \in Pushers, NEW x \in ChannelItems, PushBegin(p, x) PROVE TruthInv'
  BY <1>1, ChannelUntouched DEF PushBegin
<1>2. ASSUME NEW p \in Pushers, PushCheck(p) PROVE TruthInv'
  BY <1>2, ChannelUntouched DEF PushCheck
<1>3. ASSUME NEW p \in Pushers, PushSend(p) PROVE TruthInv'
  BY <1>3, AppendToChannel DEF PushSend
<1>4. ASSUME NEW p \in Pushers, PushGiveUp(p) PROVE TruthInv'
  BY <1>4, ChannelUntouched DEF PushGiveUp
<1>5. ASSUME NEW p \in Pushers, PushAdd(p) PROVE TruthInv'
  BY <1>5, ChannelUntouched DEF PushAdd
<1>6. ASSUME NEW r \in Poppers, PopReceive(r) PROVE TruthInv'
  <2>0. PICK x : x = Head(c)
    OBVIOUS
  <2>1. /\ x \in ChannelItems /\ InChannel(x)
        /\ \A y \in ChannelItems : /\ InChannel(y)' => InChannel(y)
                                   /\ InChannel(y) => InChannel(y)' \/ y = x
        /\ Distinct => Distinct' /\ ~InChannel(x)'
    BY <1>6, <2>0, TailOfChannel DEF PopReceive
  <2>2. /\ known' = known /\ mu' = mu
        /\ \A p \in Pushers : step'[p] = step[p] /\ value'[p] = value[p]
        /\ \A q \in Poppers \ {r} : step'[q] = step[q] /\ value'[q] = value[q]
        /\ \A n \in ChannelRemovers : step'[n] = step[n]
        /\ step[r] = "idle" /\ step'[r] = "remove" /\ value'[r] = x
    BY <1>6, <2>0 DEF PopReceive
  <2>3. \A y \in ChannelItems : Vouched(y)' <=> Vouched(y)
    BY <2>2
  <2>4. \A y \in ChannelItems : Held(y)' <=> Held(y) \/ y = x
    BY <2>2
  <2> HIDE DEF Vouched, Adding, Held
  <2>5. QED
    BY <2>1, <2>2, <2>3, <2>4
<1>7. ASSUME NEW r \in Poppers, PopRemove(r) PROVE TruthInv'
  <2>1. ~Adding(value[r])
    BY <1>7 DEF PopRemove, Notes
  <2>2. QED
    BY <1>7, <2>1, ChannelUntouched DEF PopRemove
<1>8. ASSUME NEW m \in ChannelRemovers, RemoveBegin(m) PROVE TruthInv'
  BY <1>8 DEF RemoveBegin
<1>9. ASSUME NEW m \in ChannelRemovers, RemoveLook(m) PROVE TruthInv'
  BY <1>9 DEF RemoveLook
<1>10. ASSUME NEW m \in ChannelRemovers, RemoveReceive(m) PROVE TruthInv'
  BY <1>10 DEF RemoveReceive
<1>11. ASSUME NEW m \in ChannelRemovers, RemoveClear(m) PROVE TruthInv'
  <2>1. \A x \in ChannelItems : Adding(x) => InChannel(x)
    BY <1>11 DEF RemoveClear, Drained
  <2>2. QED
    BY <1>11, <2>1, ChannelUntouched DEF RemoveClear
<1>12. CASE UNCHANGED channelVars
  BY <1>12, ChannelUntouched DEF channelVars
<1>13. QED
  BY <1>1, <1>2, <1>3, <1>4, <1>5, <1>6, <1>7, <1>8, <1>9, <1>10, <1>11, <1>12
  DEF ChannelNext, ChannelPushStep, ChannelRemoveStep

\* The invariant holds in every state, for any number of goroutines.
LEMMA UniqueAlways == ChannelSpec => [](TypeInv /\ UniqueInv)
<1>1. ChannelInit => UniqueInv
  BY BaseChannelAssumption
  DEF ChannelInit, UniqueInv, OrderlyInv, MutexInv, ClearInv, OverlapInv, ChannelInv, SendInv, HeldInv,
      TruthInv, Vouched, Adding, Removing, Distinct, InChannel, Threads
<1>2. TypeInv /\ UniqueInv /\ [ChannelNext]_channelVars => TypeInv' /\ UniqueInv'
  <2> SUFFICES ASSUME TypeInv, UniqueInv, [ChannelNext]_channelVars PROVE TypeInv' /\ UniqueInv'
    OBVIOUS
  <2>1. TypeInv' /\ MutexInv'
    BY TypeInvStep, MutexStep DEF UniqueInv
  <2>2. raced \subseteq raced'
    BY RacedGrows
  <2>3. ASSUME IsUnique, Orderly' PROVE OrderlyInv'
    BY <2>1, <2>2, <2>3, OrderlyStep DEF UniqueInv, Orderly
  <2>4. ASSUME IsUnique, raced' = {} PROVE TruthInv'
    BY <2>1, <2>2, <2>4, TruthStep DEF UniqueInv
  <2>5. QED
    BY <2>1, <2>3, <2>4 DEF UniqueInv
<1>3. QED
  BY <1>1, <1>2, TypeInvInit, PTL DEF ChannelSpec

\* base_channel.go: for any number of goroutines that push, pop and remove side
\* by side, a unique queue at rest knows every item it holds, until two pushes of
\* one item overlap or RemoveAll clears the set under a popper, and no other item,
\* unless one was gone before the set learned of it.
THEOREM ChannelSetTruthful == ChannelSpec => []ChannelSetIsTruthful
<1>1. TypeInv /\ UniqueInv => ChannelSetIsTruthful
  <2> SUFFICES ASSUME TypeInv, UniqueInv, IsUnique, Orderly, ChannelQuiescent, NEW x \in ChannelItems
               PROVE  /\ InChannel(x) => x \in known
                      /\ "overtaken" \notin raced => (x \in known => InChannel(x))
    BY DEF ChannelSetIsTruthful
  <2>1. \A t \in Threads : step[t] = "idle"
    BY DEF ChannelQuiescent
  <2>2. ~Adding(x) /\ ~Held(x) /\ \A m \in ChannelRemovers : ~Removing(m)
    BY <2>1 DEF Adding, Held, Removing, Threads
  <2>3. InChannel(x) => x \in known
    BY <2>2 DEF UniqueInv, OrderlyInv, ChannelInv, Vouched
  <2>4. ASSUME "overtaken" \notin raced, x \in known PROVE InChannel(x)
    <3>1. raced = {}
      BY <2>4 DEF Orderly, TypeInv, ChannelTypeOK
    <3>2. QED
      BY <2>2, <2>4, <3>1 DEF UniqueInv, TruthInv, Vouched
  <2>5. QED
    BY <2>3, <2>4
<1>2. QED
  BY <1>1, UniqueAlways, PTL

-----------------------------------------------------------------------------
(* The channel and its set are one queue *)

\* A step of a goroutine is a push, a pop or nothing to those who see the channel.
LEMMA ChannelStep ==
  ASSUME TypeInv, UniqueInv, [ChannelNext]_channelVars
  PROVE  ChannelQueue!Next \/ UNCHANGED <<c, IsUnique /\ Orderly>>
<1> DEFINE U == IsUnique /\ Orderly
<1>a. ASSUME c # <<>>, c' = Tail(c), raced' = raced PROVE ChannelQueue!Next
  <2>1. ChannelQueue!Pop
    BY <1>a DEF ChannelQueue!Pop, Orderly
  <2>2. QED
    BY <2>1 DEF ChannelQueue!Next
<1>b. ASSUME c' = c, raced \subseteq raced' PROVE ChannelQueue!Next \/ UNCHANGED <<c, U>>
  <2>1. U' => U
    BY <1>b DEF Orderly
  <2>2. U' \in BOOLEAN /\ U \in BOOLEAN
    BY BaseChannelAssumption DEF Orderly
  <2>3. CASE U' = U
    BY <1>b, <2>3
  <2>4. CASE U' = FALSE
    <3>1. ChannelQueue!PushesOverlap
      BY <1>b, <2>4 DEF ChannelQueue!PushesOverlap
    <3>2. QED
      BY <3>1 DEF ChannelQueue!Next
  <2>5. QED
    BY <2>1, <2>2, <2>3, <2>4
<1>1. ASSUME NEW p \in Pushers, PushSend(p) PROVE ChannelQueue!Next
  <2>1. value[p] \in ChannelItems
    BY <1>1 DEF PushSend, TypeInv, RoleInv
  <2>2. U => \A i \in DOMAIN c : c[i] # value[p]
    BY <1>1, <2>1 DEF PushSend, UniqueInv, OrderlyInv, ChannelInv, SendInv, InChannel
  <2>3. ChannelQueue!Push(value[p])
    BY <1>1, <2>2 DEF PushSend, ChannelQueue!Push, Orderly
  <2>4. QED
    BY <2>1, <2>3 DEF ChannelQueue!Next
<1>2. ASSUME NEW p \in Pushers, ChannelPushStep(p) \/ \E x \in ChannelItems : PushBegin(p, x)
      PROVE  ChannelQueue!Next \/ UNCHANGED <<c, U>>
  BY <1>1, <1>2, <1>b, RacedGrows DEF ChannelPushStep, PushBegin, PushCheck, PushGiveUp, PushAdd
<1>3. ASSUME NEW r \in Poppers, PopReceive(r) \/ PopRemove(r)
      PROVE  ChannelQueue!Next \/ UNCHANGED <<c, U>>
  BY <1>3, <1>a, <1>b, RacedGrows DEF PopReceive, PopRemove
<1>4. ASSUME NEW m \in ChannelRemovers, RemoveBegin(m) \/ ChannelRemoveStep(m)
      PROVE  ChannelQueue!Next \/ UNCHANGED <<c, U>>
  BY <1>4, <1>a, <1>b, RacedGrows
  DEF ChannelRemoveStep, RemoveBegin, RemoveLook, RemoveReceive, RemoveClear
<1>5. CASE UNCHANGED channelVars
  BY <1>5 DEF channelVars, Orderly
<1>6. QED
  BY <1>2, <1>3, <1>4, <1>5 DEF ChannelNext

\* base.go:13-20 for base_channel.go: for any number of goroutines the channel
\* is a queue that never exceeds its capacity, and a unique one until two pushes
\* of one item overlap or RemoveAll clears the set under a popper, although the
\* set is asked before the send and told after it.
THEOREM ChannelIsQueue == ChannelSpec => ChannelImplementsQueue
<1>1. TypeInv /\ UniqueInv /\ [ChannelNext]_channelVars =>
        [ChannelQueue!Next]_<<c, IsUnique /\ Orderly>>
  BY ChannelStep
<1>2. ChannelInit => ChannelQueue!Init
  <2>1. (IsUnique /\ Orderly) \in BOOLEAN
    BY BaseChannelAssumption DEF Orderly
  <2>2. QED
    BY <2>1 DEF ChannelInit, ChannelQueue!Init
<1>3. QED
  BY <1>1, <1>2, UniqueAlways, PTL
  DEF ChannelSpec, ChannelImplementsQueue, ChannelQueue!Spec

-----------------------------------------------------------------------------
(* The level queue *)

\* An item in hand between two steps is an item.
LevelHandInv == \A t \in LevelThreads : at[t] \in {"add", "rpush", "remove"} => data[t] \in LevelItems

\* Whoever is inside RemoveAll has begun a removal.
LevelRemovalInv == \A t \in LevelThreads : at[t] \in RemovingPlaces => "removal" \in history

LevelTypeInv == LevelTypeOK /\ LevelHandInv /\ LevelRemovalInv

\* The set knows every item of the queue ...
LevelKnownInv == \A i \in DOMAIN levelQueue : levelQueue[i] \in levelSet

LevelMoving(t) == at[t] \in {"rpush", "remove"}

\* ... and every item that a goroutine brings or takes away, which is then not
\* in the queue and in no other goroutine's hands.
LevelMovingInv ==
    /\ \A t \in LevelThreads : LevelMoving(t) => data[t] \in levelSet /\ ~InQueue(data[t])
    /\ \A t, u \in LevelThreads :
          LevelMoving(t) /\ LevelMoving(u) /\ data[t] = data[u] => t = u

LevelUniqueInv == LevelDistinct /\ LevelKnownInv /\ LevelMovingInv

LevelCarried(x) == \E t \in LevelThreads : LevelMoving(t) /\ data[t] = x

\* Until a step fails or the process dies, and nobody removes, what the set names is
\* in the queue or being moved.
LevelTruthInv == history = {} => \A x \in levelSet : InQueue(x) \/ LevelCarried(x)

\* The initial states are well typed.
LEMMA LevelTypeInvInit == LevelInit => LevelTypeInv
  BY LevelAssumption DEF LevelInit, LevelTypeInv, LevelTypeOK, LevelHandInv, LevelRemovalInv,
                         RemovingPlaces

\* Every step leaves a well-typed state.
LEMMA LevelTypeInvStep == LevelTypeInv /\ [LevelNext]_levelVars => LevelTypeInv'
<1> SUFFICES ASSUME LevelTypeInv, [LevelNext]_levelVars PROVE LevelTypeInv'
  OBVIOUS
<1> USE LevelAssumption DEF LevelTypeInv, LevelTypeOK, LevelHandInv, LevelRemovalInv,
                            RemovingPlaces, LevelGoto, LevelReturn
<1>1. ASSUME NEW t \in LevelThreads, NEW x \in LevelItems, LevelPushLen(t, x)
      PROVE  LevelTypeInv'
  BY <1>1 DEF LevelPushLen
<1>2. ASSUME NEW t \in LevelThreads, LevelAdd(t) PROVE LevelTypeInv'
  BY <1>2 DEF LevelAdd
<1>3. ASSUME NEW t \in LevelThreads, LevelRPush(t) PROVE LevelTypeInv'
  BY <1>3 DEF LevelRPush
<1>4. ASSUME NEW t \in LevelThreads, LevelLPop(t) PROVE LevelTypeInv'
  BY <1>4 DEF LevelLPop
<1>5. ASSUME NEW t \in LevelThreads, LevelRemove(t) PROVE LevelTypeInv'
  BY <1>5 DEF LevelRemove
<1>9. ASSUME NEW t \in LevelThreads, LevelAddFails(t) \/ LevelRemoveFails(t)
      PROVE  LevelTypeInv'
  BY <1>9 DEF LevelAddFails, LevelRemoveFails, LevelFails
<1>10. ASSUME NEW t \in LevelThreads, LevelRPushFails(t) PROVE LevelTypeInv'
  <2>1. data[t] \in LevelItems
    BY <1>10 DEF LevelRPushFails
  <2>2. levelQueue' \in Seq(LevelItems)
    BY <1>10, <2>1 DEF LevelRPushFails
  <2> QED
    BY <1>10, <2>2 DEF LevelRPushFails, LevelFails
<1>11. ASSUME NEW t \in LevelThreads, LevelLPopFails(t) PROVE LevelTypeInv'
  BY <1>11 DEF LevelLPopFails, LevelFails
<1>6. ASSUME NEW t \in LevelRemovers, LevelRemoveStep(t) PROVE LevelTypeInv'
  <2>0. t \in LevelThreads
    BY <1>6
  <2>1. CASE LevelRemoveAll(t)
    BY <2>0, <2>1 DEF LevelRemoveAll
  <2>2. CASE LevelLook(t)
    BY <2>0, <2>2 DEF LevelLook
  <2>3. CASE LevelRemoveLPop(t)
    <3>1. levelQueue' \in Seq(LevelItems)
      <4>1. levelQueue' = levelQueue \/ (levelQueue # <<>> /\ levelQueue' = Tail(levelQueue))
        BY <2>3 DEF LevelRemoveLPop
      <4>2. CASE levelQueue' = levelQueue
        BY <4>2
      <4>3. CASE levelQueue # <<>> /\ levelQueue' = Tail(levelQueue)
        BY <4>3
      <4> QED
        BY <4>1, <4>2, <4>3
    <3>2. /\ at' \in [LevelThreads -> {"idle", "add", "rpush", "remove"} \cup RemovingPlaces]
          /\ data' \in [LevelThreads -> LevelItems \cup {NoData}]
          /\ LevelHandInv' /\ LevelRemovalInv'
      BY <2>0, <2>3 DEF LevelRemoveLPop
    <3> QED
      BY <2>3, <3>1, <3>2 DEF LevelRemoveLPop
  <2>4. CASE LevelMembers(t)
    BY <2>0, <2>4 DEF LevelMembers
  <2>5. CASE LevelClear(t)
    BY <2>0, <2>5 DEF LevelClear
  <2>6. CASE LevelClearEnd(t)
    BY <2>0, <2>6 DEF LevelClearEnd
  <2>7. CASE LevelRemoveLPopFails(t)
    <3>1. levelQueue' \in Seq(LevelItems)
      BY <2>7 DEF LevelRemoveLPopFails
    <3>2. /\ at' \in [LevelThreads -> {"idle", "add", "rpush", "remove"} \cup RemovingPlaces]
          /\ data' \in [LevelThreads -> LevelItems \cup {NoData}]
          /\ LevelHandInv' /\ LevelRemovalInv'
      BY <2>0, <2>7 DEF LevelRemoveLPopFails, LevelFails
    <3> QED
      BY <2>7, <3>1, <3>2 DEF LevelRemoveLPopFails, LevelFails
  <2>8. CASE LevelMembersFails(t) \/ LevelClearFails(t)
    BY <2>0, <2>8 DEF LevelMembersFails, LevelClearFails, LevelFails
  <2> QED
    BY <1>6, <2>1, <2>2, <2>3, <2>4, <2>5, <2>6, <2>7, <2>8 DEF LevelRemoveStep
<1>7. CASE LevelCrash
  BY <1>7 DEF LevelCrash
<1>8. CASE UNCHANGED levelVars
  BY <1>8 DEF levelVars
<1> QED
  BY <1>1, <1>2, <1>3, <1>4, <1>5, <1>6, <1>7, <1>8, <1>9, <1>10, <1>11
  DEF LevelNext, LevelPushStep, LevelPopStep

\* Every variable keeps its type.
THEOREM LevelTypeCorrect == LevelSpec => []LevelTypeOK
<1>1. LevelTypeInv => LevelTypeOK
  BY DEF LevelTypeInv
<1> QED
  BY <1>1, LevelTypeInvInit, LevelTypeInvStep, PTL DEF LevelSpec

\* What the library's RPush does to the queue.
LEMMA AppendToQueue ==
  ASSUME NEW s \in Seq(LevelItems), NEW x \in LevelItems
  PROVE  /\ DOMAIN Append(s, x) = DOMAIN s \cup {Len(s) + 1}
         /\ Len(s) + 1 \notin DOMAIN s
         /\ \A i \in DOMAIN s : Append(s, x)[i] = s[i]
         /\ Append(s, x)[Len(s) + 1] = x
  OBVIOUS

\* What its LPop does.
LEMMA TailOfQueue ==
  ASSUME NEW s \in Seq(LevelItems), s # <<>>
  PROVE  /\ 1 \in DOMAIN s /\ Head(s) = s[1]
         /\ DOMAIN Tail(s) \subseteq Nat \ {0}
         /\ \A i \in DOMAIN Tail(s) : i + 1 \in DOMAIN s /\ Tail(s)[i] = s[i + 1]
         /\ \A i \in DOMAIN s : i = 1 \/ (i - 1 \in DOMAIN Tail(s) /\ Tail(s)[i - 1] = s[i])
  OBVIOUS

\* Popping keeps the items distinct, and the popped one is no longer there.
LEMMA LevelTailKeepsUnique ==
  ASSUME LevelTypeInv, LevelDistinct, LevelKnownInv, levelQueue # <<>>,
         levelQueue' = Tail(levelQueue), levelSet' = levelSet, NEW x, x = Head(levelQueue)
  PROVE  /\ LevelDistinct' /\ LevelKnownInv'
         /\ InQueue(x) /\ x \in levelSet /\ ~InQueue(x)'
         /\ \A y : InQueue(y)' => InQueue(y)
         /\ \A y : InQueue(y) => InQueue(y)' \/ y = x
<1>1. /\ 1 \in DOMAIN levelQueue /\ x = levelQueue[1]
      /\ DOMAIN levelQueue' \subseteq Nat \ {0}
      /\ \A i \in DOMAIN levelQueue' :
            i + 1 \in DOMAIN levelQueue /\ levelQueue'[i] = levelQueue[i + 1]
      /\ \A i \in DOMAIN levelQueue :
            i = 1 \/ (i - 1 \in DOMAIN levelQueue' /\ levelQueue'[i - 1] = levelQueue[i])
  BY TailOfQueue DEF LevelTypeInv, LevelTypeOK
<1>2. LevelDistinct'
  <2> SUFFICES ASSUME NEW i \in DOMAIN levelQueue', NEW j \in DOMAIN levelQueue',
                      levelQueue'[i] = levelQueue'[j]
               PROVE  i = j
    BY DEF LevelDistinct
  <2>1. /\ levelQueue[i + 1] = levelQueue[j + 1]
        /\ i + 1 \in DOMAIN levelQueue /\ j + 1 \in DOMAIN levelQueue
    BY <1>1
  <2>2. i + 1 = j + 1
    BY <2>1 DEF LevelDistinct
  <2> QED
    BY <1>1, <2>2
<1>3. LevelKnownInv' /\ \A y : InQueue(y)' => InQueue(y)
  BY <1>1 DEF LevelKnownInv, InQueue
<1>4. InQueue(x) /\ x \in levelSet
  BY <1>1 DEF LevelKnownInv, InQueue
<1>5. ~InQueue(x)'
  <2> SUFFICES ASSUME NEW i \in DOMAIN levelQueue', levelQueue'[i] = levelQueue[1] PROVE FALSE
    BY <1>1 DEF InQueue
  <2>1. i + 1 = 1
    BY <1>1 DEF LevelDistinct
  <2> QED
    BY <1>1, <2>1
<1>6. \A y : InQueue(y) => InQueue(y)' \/ y = x
  BY <1>1 DEF InQueue
<1> QED
  BY <1>2, <1>3, <1>4, <1>5, <1>6

\* What RPush adds is distinct from what is there.
LEMMA LevelAppendKeepsUnique ==
  ASSUME LevelTypeInv, LevelUniqueInv, NEW t \in LevelThreads, at[t] = "rpush",
         levelQueue' = Append(levelQueue, data[t]), levelSet' = levelSet
  PROVE  /\ LevelDistinct' /\ LevelKnownInv'
         /\ \A y : InQueue(y)' <=> InQueue(y) \/ y = data[t]
<1>1. /\ data[t] \in LevelItems /\ data[t] \in levelSet /\ ~InQueue(data[t])
      /\ levelQueue' = Append(levelQueue, data[t]) /\ levelSet' = levelSet
  BY DEF LevelTypeInv, LevelHandInv, LevelUniqueInv, LevelMovingInv, LevelMoving
<1>2. /\ DOMAIN levelQueue' = DOMAIN levelQueue \cup {Len(levelQueue) + 1}
      /\ Len(levelQueue) + 1 \notin DOMAIN levelQueue
      /\ \A i \in DOMAIN levelQueue : levelQueue'[i] = levelQueue[i]
      /\ levelQueue'[Len(levelQueue) + 1] = data[t]
  BY <1>1, AppendToQueue DEF LevelTypeInv, LevelTypeOK
<1> QED
  BY <1>1, <1>2 DEF LevelUniqueInv, LevelDistinct, LevelKnownInv, InQueue

\* While nobody has called RemoveAll, a step keeps the agreement of the queue
\* and the set, although no mutex joins them.
LEMMA LevelUniqueStep ==
  ASSUME LevelTypeInv, LevelUniqueInv, [LevelNext]_levelVars, "removal" \notin history'
  PROVE  LevelUniqueInv'
<1> USE DEF LevelUniqueInv
<1>u. ASSUME levelQueue' = levelQueue, levelSet \subseteq levelSet'
      PROVE  LevelDistinct' /\ LevelKnownInv' /\ \A y : InQueue(y)' <=> InQueue(y)
  BY <1>u DEF LevelDistinct, LevelKnownInv, InQueue
<1>1. ASSUME NEW t \in LevelThreads, NEW x \in LevelItems, LevelPushLen(t, x)
      PROVE  LevelUniqueInv'
  BY <1>1, <1>u DEF LevelPushLen, LevelGoto, LevelTypeInv, LevelTypeOK, LevelMovingInv, LevelMoving
<1>2. ASSUME NEW t \in LevelThreads, LevelAdd(t) PROVE LevelUniqueInv'
  <2>1. CASE data[t] \in levelSet
    BY <1>2, <2>1, <1>u DEF LevelAdd, LevelReturn, LevelGoto, LevelTypeInv, LevelTypeOK,
                            LevelMovingInv, LevelMoving
  <2>2. CASE data[t] \notin levelSet
    <3>1. ~InQueue(data[t])
      BY <2>2 DEF LevelKnownInv, InQueue
    <3> QED
      BY <1>2, <2>2, <3>1, <1>u DEF LevelAdd, LevelGoto, LevelTypeInv, LevelTypeOK,
                                    LevelMovingInv, LevelMoving
  <2> QED
    BY <2>1, <2>2
<1>3. ASSUME NEW t \in LevelThreads, LevelRPush(t) PROVE LevelUniqueInv'
  <2>1. /\ LevelDistinct' /\ LevelKnownInv'
        /\ \A y : InQueue(y)' <=> InQueue(y) \/ y = data[t]
    BY <1>3, LevelAppendKeepsUnique DEF LevelRPush
  <2> QED
    BY <1>3, <2>1 DEF LevelRPush, LevelReturn, LevelGoto, LevelTypeInv, LevelTypeOK,
                      LevelMovingInv, LevelMoving
<1>4. ASSUME NEW t \in LevelThreads, LevelLPop(t) PROVE LevelUniqueInv'
  <2> PICK x : x = Head(levelQueue)
    OBVIOUS
  <2>1. /\ LevelDistinct' /\ LevelKnownInv'
        /\ InQueue(x) /\ x \in levelSet /\ ~InQueue(x)'
        /\ \A y : InQueue(y)' => InQueue(y)
    BY <1>4, LevelTailKeepsUnique DEF LevelLPop
  <2>2. /\ \A u \in LevelThreads :
              LevelMoving(u) => data[u] \in levelSet /\ data[u] # x /\ ~InQueue(data[u])
        /\ levelSet' = levelSet
    BY <1>4, <2>1 DEF LevelLPop, LevelMovingInv
  <2>3. /\ data'[t] = x
        /\ \A u \in LevelThreads \ {t} : data'[u] = data[u] /\ (LevelMoving(u)' <=> LevelMoving(u))
    BY <1>4 DEF LevelLPop, LevelGoto, LevelTypeInv, LevelTypeOK, LevelMoving
  <2>4. LevelMovingInv'
    BY <2>1, <2>2, <2>3, LevelMovingInv DEF LevelMovingInv, InQueue, LevelMoving
  <2> QED
    BY <2>1, <2>4
<1>5. ASSUME NEW t \in LevelThreads, LevelRemove(t) PROVE LevelUniqueInv'
  <2>1. ~InQueue(data[t]) /\ LevelMoving(t)
    BY <1>5 DEF LevelRemove, LevelMovingInv, LevelMoving
  <2>2. LevelDistinct' /\ LevelKnownInv' /\ \A y : InQueue(y)' <=> InQueue(y)
    BY <1>5, <2>1 DEF LevelRemove, LevelDistinct, LevelKnownInv, InQueue
  <2> QED
    BY <1>5, <2>1, <2>2 DEF LevelRemove, LevelReturn, LevelGoto, LevelTypeInv, LevelTypeOK,
                            LevelMovingInv, LevelMoving
<1>6. ASSUME NEW t \in LevelRemovers, LevelRemoveStep(t) PROVE FALSE
  BY <1>6, LevelAssumption
  DEF LevelRemoveStep, LevelRemoveAll, LevelLook, LevelRemoveLPop, LevelRemoveLPopFails,
      LevelMembers, LevelMembersFails, LevelClear, LevelClearFails, LevelClearEnd, LevelFails,
      LevelTypeInv, LevelRemovalInv, RemovingPlaces
<1>9. ASSUME NEW t \in LevelThreads, LevelAddFails(t) PROVE LevelUniqueInv'
  BY <1>9, <1>u DEF LevelAddFails, LevelReturn, LevelGoto, LevelTypeInv, LevelTypeOK,
                    LevelMovingInv, LevelMoving
<1>10. ASSUME NEW t \in LevelThreads, LevelRPushFails(t) PROVE LevelUniqueInv'
  <2>1. CASE levelQueue' = levelQueue
    BY <1>10, <2>1, <1>u DEF LevelRPushFails, LevelReturn, LevelGoto, LevelTypeInv, LevelTypeOK,
                             LevelMovingInv, LevelMoving
  <2>2. CASE levelQueue' = Append(levelQueue, data[t])
    <3>1. /\ LevelDistinct' /\ LevelKnownInv'
          /\ \A y : InQueue(y)' <=> InQueue(y) \/ y = data[t]
      BY <1>10, <2>2, LevelAppendKeepsUnique DEF LevelRPushFails
    <3> QED
      BY <1>10, <3>1 DEF LevelRPushFails, LevelReturn, LevelGoto, LevelTypeInv, LevelTypeOK,
                         LevelMovingInv, LevelMoving
  <2> QED
    BY <1>10, <2>1, <2>2 DEF LevelRPushFails
<1>11. ASSUME NEW t \in LevelThreads, LevelLPopFails(t) PROVE LevelUniqueInv'
  <2> PICK x : x = Head(levelQueue)
    OBVIOUS
  <2>1. /\ LevelDistinct' /\ LevelKnownInv'
        /\ \A y : InQueue(y)' => InQueue(y)
    BY <1>11, LevelTailKeepsUnique DEF LevelLPopFails
  <2> QED
    BY <1>11, <2>1 DEF LevelLPopFails, LevelMovingInv, LevelMoving
<1>12. ASSUME NEW t \in LevelThreads, LevelRemoveFails(t) PROVE LevelUniqueInv'
  <2>1. ~InQueue(data[t]) /\ LevelMoving(t)
    BY <1>12 DEF LevelRemoveFails, LevelMovingInv, LevelMoving
  <2>2. LevelDistinct' /\ LevelKnownInv' /\ \A y : InQueue(y)' <=> InQueue(y)
    BY <1>12, <2>1 DEF LevelRemoveFails, LevelDistinct, LevelKnownInv, InQueue
  <2> QED
    BY <1>12, <2>1, <2>2 DEF LevelRemoveFails, LevelReturn, LevelGoto, LevelTypeInv, LevelTypeOK,
                             LevelMovingInv, LevelMoving
<1>7. CASE LevelCrash
  BY <1>7, <1>u DEF LevelCrash, LevelTypeInv, LevelTypeOK, LevelMovingInv, LevelMoving
<1>8. CASE UNCHANGED levelVars
  BY <1>8, <1>u DEF levelVars, LevelMovingInv, LevelMoving
<1> QED
  BY <1>1, <1>2, <1>3, <1>4, <1>5, <1>6, <1>7, <1>8, <1>9, <1>10, <1>11, <1>12
  DEF LevelNext, LevelPushStep, LevelPopStep

\* The history only grows.
LEMMA HistoryGrows == LevelTypeInv /\ [LevelNext]_levelVars => history \subseteq history'
  BY DEF LevelNext, levelVars, LevelPushStep, LevelPopStep, LevelRemoveStep, LevelPushLen,
         LevelAdd, LevelAddFails, LevelRPush, LevelRPushFails, LevelLPop, LevelLPopFails,
         LevelRemove, LevelRemoveFails, LevelRemoveAll, LevelLook, LevelRemoveLPop,
         LevelRemoveLPopFails, LevelMembers, LevelMembersFails, LevelClear, LevelClearFails,
         LevelClearEnd, LevelCrash, LevelFails,
         LevelTypeInv, LevelTypeOK

LevelUntilRemoval == "removal" \in history \/ LevelUniqueInv

\* The queue and the set agree in every state before the first removal.
LEMMA LevelUniqueAlways == LevelSpec => [](LevelTypeInv /\ LevelUntilRemoval)
<1>1. LevelInit => LevelUntilRemoval
  BY DEF LevelInit, LevelUntilRemoval, LevelUniqueInv, LevelDistinct, LevelKnownInv,
         LevelMovingInv, LevelMoving, InQueue
<1>2. LevelTypeInv /\ LevelUntilRemoval /\ [LevelNext]_levelVars => LevelUntilRemoval'
  BY LevelUniqueStep, HistoryGrows DEF LevelUntilRemoval
<1> QED
  BY <1>1, <1>2, LevelTypeInvInit, LevelTypeInvStep, PTL DEF LevelSpec

\* base_levelqueue_unique.go:22: without the mutex that was meant to protect
\* them, no number of goroutines and no crash puts an item twice into the
\* queue, until somebody calls RemoveAll.
THEOREM LevelUnique == LevelSpec => []LevelNoDuplicates
<1>1. LevelTypeInv /\ LevelUntilRemoval => LevelNoDuplicates
  BY DEF LevelUntilRemoval, LevelUniqueInv, LevelNoDuplicates
<1> QED
  BY <1>1, LevelUniqueAlways, PTL

\* While nobody dies and nothing is removed, what a step adds to the set it
\* moves, and what it moves out of the queue it takes out of the set.
LEMMA LevelTruthStep ==
  ASSUME LevelTypeInv, LevelUniqueInv, LevelTruthInv, [LevelNext]_levelVars, history' = {}
  PROVE  LevelTruthInv'
<1> USE DEF LevelReturn, LevelGoto, LevelTypeInv, LevelTypeOK, LevelTruthInv, LevelCarried,
            LevelMoving
<1>1. \A x \in levelSet : InQueue(x) \/ LevelCarried(x)
  BY HistoryGrows
<1>2. ASSUME NEW t \in LevelThreads, NEW x \in LevelItems, LevelPushLen(t, x)
      PROVE  LevelTruthInv'
  BY <1>1, <1>2 DEF LevelPushLen, InQueue
<1>3. ASSUME NEW t \in LevelThreads, LevelAdd(t) PROVE LevelTruthInv'
  BY <1>1, <1>3 DEF LevelAdd, InQueue
<1>4. ASSUME NEW t \in LevelThreads, LevelRPush(t) PROVE LevelTruthInv'
  <2>1. \A y : InQueue(y)' <=> InQueue(y) \/ y = data[t]
    BY <1>4, LevelAppendKeepsUnique DEF LevelRPush
  <2> QED
    BY <1>1, <1>4, <2>1 DEF LevelRPush
<1>5. ASSUME NEW t \in LevelThreads, LevelLPop(t) PROVE LevelTruthInv'
  <2> PICK x : x = Head(levelQueue)
    OBVIOUS
  <2>1. \A y : InQueue(y) => InQueue(y)' \/ y = x
    BY <1>5, LevelTailKeepsUnique DEF LevelLPop, LevelUniqueInv
  <2>2. LevelCarried(x)'
    BY <1>5 DEF LevelLPop
  <2>3. \A y : LevelCarried(y) => LevelCarried(y)'
    BY <1>5 DEF LevelLPop
  <2>4. levelSet' = levelSet
    BY <1>5 DEF LevelLPop
  <2> QED
    BY <1>1, <2>1, <2>2, <2>3, <2>4 DEF LevelTruthInv
<1>6. ASSUME NEW t \in LevelThreads, LevelRemove(t) PROVE LevelTruthInv'
  BY <1>1, <1>6 DEF LevelRemove, InQueue
<1>7. CASE UNCHANGED levelVars
  BY <1>1, <1>7 DEF levelVars, InQueue
<1>8. ASSUME LevelCrash \/ LevelFails PROVE FALSE
  BY <1>8 DEF LevelCrash, LevelFails
<1>9. ASSUME NEW t \in LevelRemovers, LevelRemoveStep(t) PROVE FALSE
  BY <1>8, <1>9, LevelAssumption, HistoryGrows
  DEF LevelRemoveStep, LevelRemoveAll, LevelLook, LevelRemoveLPop, LevelRemoveLPopFails,
      LevelMembers, LevelMembersFails, LevelClear, LevelClearFails, LevelClearEnd,
      LevelRemovalInv, RemovingPlaces
<1> QED
  BY <1>2, <1>3, <1>4, <1>5, <1>6, <1>7, <1>8, <1>9
  DEF LevelNext, LevelPushStep, LevelPopStep, LevelAddFails, LevelRPushFails, LevelLPopFails,
      LevelRemoveFails

\* base_levelqueue_unique.go PushItem and PopItem: for any number of goroutines,
\* until somebody calls RemoveAll, the set names all that the queue holds, though
\* steps fail and the process dies; and if neither happens, a queue at rest
\* refuses exactly the items it holds.
THEOREM LevelSetTruthful == LevelSpec => []LevelSetIsTruthful
<1>1. LevelInit => LevelTruthInv
  BY DEF LevelInit, LevelTruthInv
<1>2. LevelTypeInv /\ LevelUntilRemoval /\ LevelTruthInv /\ [LevelNext]_levelVars
        => LevelTruthInv'
  <2> SUFFICES ASSUME LevelTypeInv, LevelUntilRemoval, LevelTruthInv,
                      [LevelNext]_levelVars, history' = {}
               PROVE  LevelTruthInv'
    BY DEF LevelTruthInv
  <2>1. LevelUniqueInv
    BY HistoryGrows DEF LevelUntilRemoval
  <2> QED
    BY <2>1, LevelTruthStep
<1>3. LevelTypeInv /\ LevelUntilRemoval /\ LevelTruthInv => LevelSetIsTruthful
  BY DEF LevelUntilRemoval, LevelUniqueInv, LevelTruthInv, LevelSetIsTruthful, LevelQuiescent,
         LevelCarried, LevelMoving, LevelKnownInv, InQueue
<1> QED
  BY <1>1, <1>2, <1>3, LevelUniqueAlways, PTL DEF LevelSpec

-----------------------------------------------------------------------------
(* The level queue and its set are one queue *)

\* The goroutines that have passed the check of the length.
LevelPassed == {t \in LevelThreads : at[t] \in {"add", "rpush"}}

\* The places they may still take are counted in advance.
LevelPassedInv ==
    Len(levelQueue) + Cardinality(LevelPassed) <= LevelLength + Cardinality(LevelThreads) - 1

\* No more goroutines have passed the check than there are.
LEMMA LevelPassedSize ==
  /\ IsFiniteSet(LevelPassed) /\ Cardinality(LevelPassed) \in Nat
  /\ Cardinality(LevelThreads) \in Nat
  /\ Cardinality(LevelPassed) <= Cardinality(LevelThreads)
<1>1. LevelPassed \subseteq LevelThreads
  BY DEF LevelPassed
<1> QED
  BY <1>1, LevelAssumption, FS_Subset, FS_CardinalityType

\* At first nobody has passed the check.
LEMMA LevelPassedInit == LevelInit => LevelPassedInv
<1> SUFFICES ASSUME LevelInit PROVE LevelPassedInv
  OBVIOUS
<1>1. LevelPassed = {} /\ Len(levelQueue) = 0
  BY DEF LevelInit, LevelPassed
<1> QED
  BY <1>1, LevelPassedSize, FS_EmptySet, LevelAssumption DEF LevelPassedInv

\* A step takes a place that was counted, or counts one while there is room.
LEMMA LevelPassedStep ==
  ASSUME LevelTypeInv, LevelPassedInv, [LevelNext]_levelVars
  PROVE  LevelPassedInv'
<1> USE LevelAssumption DEF LevelTypeInv, LevelTypeOK, LevelGoto, LevelReturn
<1>n. /\ IsFiniteSet(LevelPassed) /\ Cardinality(LevelPassed) \in Nat
      /\ Cardinality(LevelThreads) \in Nat /\ Len(levelQueue) \in Nat
  BY LevelPassedSize
<1>t. LevelTypeInv'
  BY LevelTypeInvStep
<1>p. /\ IsFiniteSet(LevelPassed') /\ Cardinality(LevelPassed') \in Nat
      /\ Cardinality(LevelPassed') <= Cardinality(LevelThreads) /\ Len(levelQueue') \in Nat
  <2>1. LevelPassed' \subseteq LevelThreads
    BY DEF LevelPassed
  <2> QED
    BY <2>1, <1>t, FS_Subset, FS_CardinalityType
<1>a. ASSUME LevelPassed' \subseteq LevelPassed, Len(levelQueue') <= Len(levelQueue)
      PROVE  LevelPassedInv'
  <2>1. Cardinality(LevelPassed') <= Cardinality(LevelPassed)
    BY <1>a, <1>n, FS_Subset
  <2> QED
    BY <1>a, <1>n, <1>p, <2>1 DEF LevelPassedInv
<1>b. ASSUME levelQueue # <<>>, levelQueue' = Tail(levelQueue)
      PROVE  Len(levelQueue') <= Len(levelQueue)
  BY <1>b
<1>1. ASSUME NEW t \in LevelThreads, NEW x \in LevelItems, LevelPushLen(t, x)
      PROVE  LevelPassedInv'
  <2>1. Len(levelQueue') = Len(levelQueue) /\ Len(levelQueue) < LevelLength
    BY <1>1 DEF LevelPushLen
  <2> QED
    BY <2>1, <1>n, <1>p DEF LevelPassedInv
<1>2. ASSUME NEW t \in LevelThreads, LevelAdd(t) PROVE LevelPassedInv'
  <2>1. LevelPassed' \subseteq LevelPassed /\ levelQueue' = levelQueue
    BY <1>2 DEF LevelAdd, LevelPassed
  <2> QED
    BY <1>a, <1>n, <2>1
<1>3. ASSUME NEW t \in LevelThreads, LevelRPush(t) PROVE LevelPassedInv'
  <2>1. t \in LevelPassed /\ LevelPassed' = LevelPassed \ {t}
    BY <1>3 DEF LevelRPush, LevelPassed
  <2>2. Cardinality(LevelPassed') = Cardinality(LevelPassed) - 1
    BY <2>1, <1>n, FS_RemoveElement
  <2>3. data[t] \in LevelItems /\ levelQueue' = Append(levelQueue, data[t])
    BY <1>3 DEF LevelRPush, LevelHandInv
  <2>4. Len(levelQueue') = Len(levelQueue) + 1
    BY <2>3
  <2> QED
    BY <2>2, <2>4, <1>n, <1>p DEF LevelPassedInv
<1>8. ASSUME NEW t \in LevelThreads, LevelAddFails(t) PROVE LevelPassedInv'
  <2>1. LevelPassed' \subseteq LevelPassed /\ levelQueue' = levelQueue
    BY <1>8 DEF LevelAddFails, LevelPassed
  <2> QED
    BY <1>a, <1>n, <2>1
<1>9. ASSUME NEW t \in LevelThreads, LevelRPushFails(t) PROVE LevelPassedInv'
  <2>1. t \in LevelPassed /\ LevelPassed' = LevelPassed \ {t}
    BY <1>9 DEF LevelRPushFails, LevelPassed
  <2>2. Cardinality(LevelPassed') = Cardinality(LevelPassed) - 1
    BY <2>1, <1>n, FS_RemoveElement
  <2>3. /\ data[t] \in LevelItems
        /\ levelQueue' = levelQueue \/ levelQueue' = Append(levelQueue, data[t])
    BY <1>9 DEF LevelRPushFails, LevelHandInv
  <2>4. Len(levelQueue') <= Len(levelQueue) + 1
    BY <2>3
  <2> QED
    BY <2>2, <2>4, <1>n, <1>p DEF LevelPassedInv
<1>4. ASSUME NEW t \in LevelThreads, LevelPopStep(t) PROVE LevelPassedInv'
  <2>1. LevelPassed' \subseteq LevelPassed
    BY <1>4 DEF LevelPopStep, LevelLPop, LevelLPopFails, LevelRemove, LevelRemoveFails, LevelPassed
  <2>2. levelQueue' = levelQueue \/ (levelQueue # <<>> /\ levelQueue' = Tail(levelQueue))
    BY <1>4 DEF LevelPopStep, LevelLPop, LevelLPopFails, LevelRemove, LevelRemoveFails
  <2> QED
    BY <1>a, <1>b, <1>n, <2>1, <2>2
<1>5. ASSUME NEW t \in LevelRemovers, LevelRemoveStep(t) PROVE LevelPassedInv'
  <2>1. t \in LevelThreads /\ LevelPassed' \subseteq LevelPassed
    BY <1>5 DEF LevelRemoveStep, LevelRemoveAll, LevelLook, LevelRemoveLPop, LevelRemoveLPopFails,
                LevelMembers, LevelMembersFails, LevelClear, LevelClearFails, LevelClearEnd,
                LevelPassed
  <2>2. levelQueue' = levelQueue \/ (levelQueue # <<>> /\ levelQueue' = Tail(levelQueue))
    BY <1>5 DEF LevelRemoveStep, LevelRemoveAll, LevelLook, LevelRemoveLPop, LevelRemoveLPopFails,
                LevelMembers, LevelMembersFails, LevelClear, LevelClearFails, LevelClearEnd
  <2> QED
    BY <1>a, <1>b, <1>n, <2>1, <2>2
<1>6. CASE LevelCrash
  <2>1. LevelPassed' \subseteq LevelPassed /\ levelQueue' = levelQueue
    BY <1>6 DEF LevelCrash, LevelPassed
  <2> QED
    BY <1>a, <1>n, <2>1
<1>7. CASE UNCHANGED levelVars
  <2>1. LevelPassed' \subseteq LevelPassed /\ levelQueue' = levelQueue
    BY <1>7 DEF levelVars, LevelPassed
  <2> QED
    BY <1>a, <1>n, <2>1
<1> QED
  BY <1>1, <1>2, <1>3, <1>4, <1>5, <1>6, <1>7, <1>8, <1>9 DEF LevelNext, LevelPushStep

\* A step of a goroutine, or a crash, is a push, a pop, a removal or nothing to
\* those who see the queue.
LEMMA LevelQueueStep ==
  ASSUME LevelTypeInv, LevelUntilRemoval, LevelPassedInv, [LevelNext]_levelVars
  PROVE  LevelUniqueQueue!Next \/ UNCHANGED <<levelQueue, "removal" \notin history>>
<1> DEFINE Unique == "removal" \notin history
<1> DEFINE Same == UNCHANGED <<levelQueue, Unique>>
<1>a. ASSUME levelQueue # <<>>, levelQueue' = Tail(levelQueue), UNCHANGED Unique
      PROVE  LevelUniqueQueue!Next
  <2>1. LevelUniqueQueue!Pop
    BY <1>a DEF LevelUniqueQueue!Pop
  <2> QED
    BY <2>1 DEF LevelUniqueQueue!Next
<1>1. ASSUME NEW t \in LevelThreads, at[t] = "rpush", UNCHANGED Unique,
             levelQueue' = Append(levelQueue, data[t])
      PROVE  LevelUniqueQueue!Next
  <2>1. data[t] \in LevelItems
    BY <1>1 DEF LevelTypeInv, LevelHandInv
  <2>2. Len(levelQueue) < LevelLength + Cardinality(LevelThreads) - 1
    <3>1. t \in LevelPassed
      BY <1>1 DEF LevelPassed
    <3>2. Cardinality(LevelPassed) # 0
      BY <3>1, LevelPassedSize, FS_EmptySet
    <3>3. Len(levelQueue) \in Nat
      BY DEF LevelTypeInv, LevelTypeOK
    <3> QED
      BY <3>2, <3>3, LevelPassedSize, LevelAssumption DEF LevelPassedInv
  <2>3. Unique => \A i \in DOMAIN levelQueue : levelQueue[i] # data[t]
    BY <1>1 DEF LevelUntilRemoval, LevelUniqueInv, LevelMovingInv, LevelMoving, InQueue
  <2>4. LevelUniqueQueue!Push(data[t])
    BY <1>1, <2>2, <2>3 DEF LevelUniqueQueue!Push
  <2> QED
    BY <2>1, <2>4 DEF LevelUniqueQueue!Next
<1>2. ASSUME NEW t \in LevelThreads, LevelPushStep(t) PROVE LevelUniqueQueue!Next \/ Same
  BY <1>1, <1>2
  DEF LevelPushStep, LevelPushLen, LevelAdd, LevelAddFails, LevelRPush, LevelRPushFails, LevelFails
<1>3. ASSUME NEW t \in LevelThreads, LevelPopStep(t) PROVE LevelUniqueQueue!Next \/ Same
  BY <1>3, <1>a
  DEF LevelPopStep, LevelLPop, LevelLPopFails, LevelRemove, LevelRemoveFails, LevelFails
<1>4. ASSUME NEW t \in LevelRemovers, LevelRemoveAll(t) PROVE LevelUniqueQueue!Next
  <2>1. levelQueue' = levelQueue /\ Unique' = FALSE
    BY <1>4 DEF LevelRemoveAll
  <2>2. LevelUniqueQueue!RemoveAll
    BY <2>1 DEF LevelUniqueQueue!RemoveAll
  <2> QED
    BY <2>2 DEF LevelUniqueQueue!Next
<1>5. ASSUME NEW t \in LevelRemovers, LevelRemoveStep(t) PROVE LevelUniqueQueue!Next \/ Same
  BY <1>4, <1>5, <1>a
  DEF LevelRemoveStep, LevelLook, LevelRemoveLPop, LevelRemoveLPopFails, LevelMembers,
      LevelMembersFails, LevelClear, LevelClearFails, LevelClearEnd, LevelFails
<1>6. CASE LevelCrash
  BY <1>6 DEF LevelCrash
<1>7. CASE UNCHANGED levelVars
  BY <1>7 DEF levelVars
<1> QED
  BY <1>2, <1>3, <1>5, <1>6, <1>7 DEF LevelNext

\* base.go:13-20 for base_levelqueue_unique.go: any number of goroutines that no mutex
\* keeps apart have one unique queue, which outgrows its length by less than one item
\* for each of them, and a crash at any moment leaves it as it is.
THEOREM LevelIsQueue == LevelSpec => LevelImplementsQueue
<1>1. LevelTypeInv /\ LevelPassedInv /\ [LevelNext]_levelVars => LevelPassedInv'
  BY LevelPassedStep
<1>2. LevelTypeInv /\ LevelUntilRemoval /\ LevelPassedInv /\ [LevelNext]_levelVars =>
        [LevelUniqueQueue!Next]_<<levelQueue, "removal" \notin history>>
  BY LevelQueueStep
<1>3. LevelInit => LevelUniqueQueue!Init
  BY DEF LevelInit, LevelUniqueQueue!Init
<1> QED
  BY <1>1, <1>2, <1>3, LevelPassedInit, LevelUniqueAlways, PTL
  DEF LevelSpec, LevelImplementsQueue, LevelUniqueQueue!Spec
=============================================================================
