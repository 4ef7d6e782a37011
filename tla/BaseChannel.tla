---------------------------- MODULE BaseChannel ----------------------------
(***************************************************************************)
(* modules/queue/base_channel.go: the in-memory base queue.  A buffered Go  *)
(* channel holds the items; a unique queue also keeps a set of the items it *)
(* believes are in the channel.  The mutex mu protects the set only: the    *)
(* send and the receive on the channel happen outside it, so an operation   *)
(* is several steps here, one per critical section or channel operation.    *)
(*                                                                          *)
(* Pushers are goroutines that call PushItem, Poppers call PopItem (a queue *)
(* in production has one, popItemByChan in base.go), Removers call          *)
(* RemoveAll (the "remove all items" button of the queue admin page).       *)
(*                                                                          *)
(* The end of a caller's context is not a step of its own: it lets PushItem *)
(* give up exactly as its five second timer does.                           *)
(*                                                                          *)
(* Nothing in the code keeps RemoveAll from running beside PopItem, which   *)
(* the popper goroutine calls all the time, or one push from another.       *)
(***************************************************************************)
EXTENDS Integers, Sequences

CONSTANTS
    ChannelItems,     \* the values that are pushed
    Pushers,          \* goroutines in PushItem
    Poppers,          \* goroutines in PopItem
    ChannelRemovers,  \* goroutines in RemoveAll
    Capacity,         \* the capacity of the channel (cfg.Length)
    IsUnique,         \* whether the queue was created unique
    NoValue,          \* no value in hand
    Unlocked          \* mu is free

Threads == Pushers \cup Poppers \cup ChannelRemovers

ASSUME BaseChannelAssumption ==
    /\ Capacity \in Nat \ {0}
    /\ IsUnique \in BOOLEAN
    /\ NoValue \notin ChannelItems
    /\ Unlocked \notin Threads
    /\ Pushers \cap Poppers = {}
    /\ Pushers \cap ChannelRemovers = {}
    /\ Poppers \cap ChannelRemovers = {}

VARIABLES
    c,      \* the channel
    known,  \* the set of a unique queue
    mu,     \* the holder of the mutex across steps
    step,   \* where each goroutine stands
    value,  \* the item each goroutine has in hand
    raced   \* history: which operations have come between the steps of another

channelVars == <<c, known, mu, step, value, raced>>

ChannelInit ==
    /\ c = <<>>
    /\ known = {}
    /\ mu = Unlocked
    /\ step = [t \in Threads |-> "idle"]
    /\ value = [t \in Threads |-> NoValue]
    /\ raced = {}

(***************************************************************************)
(* A short critical section is one step, taken while mu is free.           *)
(***************************************************************************)
Locked == mu = Unlocked

ChannelGoto(t, label, x) ==
    /\ step' = [step EXCEPT ![t] = label]
    /\ value' = [value EXCEPT ![t] = x]

ChannelReturn(t) == ChannelGoto(t, "idle", NoValue)

\* History only: it lets no step happen and keeps none from happening.
Notes(what, happens) == raced' = IF happens THEN raced \cup {what} ELSE raced

\* Somebody is pushing x.
Pushing(p, x) == step[p] # "idle" /\ value[p] = x

\* Somebody has sent x and not told the set.
Adding(x) == \E p \in Pushers : step[p] = "add" /\ value[p] = x

InChannel(x) == \E i \in DOMAIN c : c[i] = x

\* Somebody has received an item and not told the set.
Popping == \E r \in Poppers : step[r] = "remove"

\* What somebody has sent is gone before the set has been told.
Drained == \E p \in Pushers : step[p] = "add" /\ ~InChannel(value[p])

-----------------------------------------------------------------------------
(* PushItem *)

PushBegin(p, x) ==
    /\ step[p] = "idle"
    /\ ChannelGoto(p, IF IsUnique THEN "check" ELSE "send", x)
    /\ Notes("pushers", \E q \in Pushers : Pushing(q, x))
    /\ UNCHANGED <<c, known, mu>>

\* The lookup under mu: an item already in the set is refused.
PushCheck(p) ==
    /\ step[p] = "check"
    /\ Locked
    /\ IF value[p] \in known THEN ChannelReturn(p) ELSE ChannelGoto(p, "send", value[p])
    /\ UNCHANGED <<c, known, mu, raced>>

PushSend(p) ==
    /\ step[p] = "send"
    /\ Len(c) < Capacity
    /\ c' = Append(c, value[p])
    /\ IF IsUnique THEN ChannelGoto(p, "add", value[p]) ELSE ChannelReturn(p)
    /\ UNCHANGED <<known, mu, raced>>

\* The five second timer fires, or the context ends.
PushGiveUp(p) ==
    /\ step[p] = "send"
    /\ ChannelReturn(p)
    /\ UNCHANGED <<c, known, mu, raced>>

\* Mutant: the set does not learn of the item.
PushAddForgets(p) ==
    /\ step[p] = "add"
    /\ Locked
    /\ ChannelReturn(p)
    /\ UNCHANGED <<c, known, mu, raced>>

\* Only now does the set learn of the item that is already in the channel.
PushAdd(p) ==
    /\ step[p] = "add"
    /\ Locked
    /\ known' = known \cup {value[p]}
    /\ ChannelReturn(p)
    /\ UNCHANGED <<c, mu, raced>>

-----------------------------------------------------------------------------
(* PopItem *)

PopReceive(r) ==
    /\ step[r] = "idle"
    /\ c # <<>>
    /\ c' = Tail(c)
    /\ ChannelGoto(r, "remove", Head(c))
    /\ UNCHANGED <<known, mu, raced>>

\* Mutant: the set keeps the name of the item that was taken.
PopRemoveForgets(r) ==
    /\ step[r] = "remove"
    /\ Locked
    /\ ChannelReturn(r)
    /\ UNCHANGED <<c, known, mu, raced>>

PopRemove(r) ==
    /\ step[r] = "remove"
    /\ Locked
    /\ known' = known \ {value[r]}
    /\ ChannelReturn(r)
    /\ Notes("overtaken", Adding(value[r]))
    /\ UNCHANGED <<c, mu>>

-----------------------------------------------------------------------------
(* RemoveAll: mu is held from the first look at the channel to the end *)

RemoveBegin(m) ==
    /\ step[m] = "idle"
    /\ Locked
    /\ mu' = m
    /\ ChannelGoto(m, "drain", NoValue)
    /\ UNCHANGED <<c, known, raced>>

\* for len(q.c) > 0: the length is read ...
RemoveLook(m) ==
    /\ step[m] = "drain"
    /\ ChannelGoto(m, IF c # <<>> THEN "receive" ELSE "clear", NoValue)
    /\ UNCHANGED <<c, known, mu, raced>>

\* ... and then an item is received, which blocks if it has gone meanwhile.
RemoveReceive(m) ==
    /\ step[m] = "receive"
    /\ c # <<>>
    /\ c' = Tail(c)
    /\ ChannelGoto(m, "drain", NoValue)
    /\ UNCHANGED <<known, mu, raced>>

RemoveClear(m) ==
    /\ step[m] = "clear"
    /\ known' = IF IsUnique THEN {} ELSE known
    /\ mu' = Unlocked
    /\ ChannelReturn(m)
    /\ raced' = raced \cup {w \in {"removal"} : Popping} \cup {w \in {"overtaken"} : Drained}
    /\ UNCHANGED c

-----------------------------------------------------------------------------
ChannelPushStep(p) == PushCheck(p) \/ PushSend(p) \/ PushGiveUp(p) \/ PushAdd(p)

ChannelRemoveStep(m) == RemoveLook(m) \/ RemoveReceive(m) \/ RemoveClear(m)

ChannelNext ==
    \/ \E p \in Pushers : ChannelPushStep(p) \/ \E x \in ChannelItems : PushBegin(p, x)
    \/ \E r \in Poppers : PopReceive(r) \/ PopRemove(r)
    \/ \E m \in ChannelRemovers : RemoveBegin(m) \/ ChannelRemoveStep(m)

ChannelSpec == ChannelInit /\ [][ChannelNext]_channelVars

(***************************************************************************)
(* A goroutine inside an operation keeps running while it is not blocked.   *)
(* sync.Mutex is starvation free, hence strong fairness for the sections    *)
(* that wait for mu.  Nothing obliges a caller to begin an operation; the   *)
(* popper goroutine is a loop, so it does call PopItem again.               *)
(***************************************************************************)
ChannelFairness ==
    /\ \A p \in Pushers : /\ SF_channelVars(PushCheck(p))
                          /\ WF_channelVars(PushSend(p) \/ PushGiveUp(p))
                          /\ SF_channelVars(PushAdd(p))
    /\ \A r \in Poppers : WF_channelVars(PopReceive(r)) /\ SF_channelVars(PopRemove(r))
    /\ \A m \in ChannelRemovers : WF_channelVars(ChannelRemoveStep(m))

FairChannelSpec == ChannelSpec /\ ChannelFairness

-----------------------------------------------------------------------------
(***************************************************************************)
(* Properties                                                              *)
(***************************************************************************)

\* Each variable ranges over the values its Go counterpart can hold.
ChannelTypeOK ==
    /\ c \in Seq(ChannelItems) /\ Len(c) <= Capacity
    /\ known \subseteq ChannelItems
    /\ mu \in ChannelRemovers \cup {Unlocked}
    /\ step \in [Threads -> {"idle", "check", "send", "add", "remove",
                           "drain", "receive", "clear"}]
    /\ value \in [Threads -> ChannelItems \cup {NoValue}]
    /\ raced \subseteq {"pushers", "removal", "overtaken"}

\* No two pushes of one item have overlapped, and no RemoveAll has cleared the
\* set while a popper held an item.
Orderly == raced \cap {"pushers", "removal"} = {}

ChannelQuiescent == \A t \in Threads : step[t] = "idle"

\* base_channel.go PushItem, PopItem and RemoveAll: though an item is sent before
\* the set learns of it and received before the set forgets it, a unique queue at
\* rest knows every item it holds and no other, whoever pushed, popped and removed
\* side by side.  Three things undo it: pushes of one item that overlap, and a
\* RemoveAll that clears the set while a popper holds an item, after which an item
\* may be twice in the channel; and an item that is gone before the set has
\* learned of it, which the set then refuses though it is not there.
ChannelSetIsTruthful ==
    IsUnique /\ Orderly /\ ChannelQuiescent =>
        \A x \in ChannelItems :
            /\ InChannel(x) => x \in known
            /\ "overtaken" \notin raced => (x \in known => InChannel(x))

\* queue.go:14-15: a call of Push does not block forever.
PushReturns == \A p \in Pushers : step[p] # "idle" ~> step[p] = "idle"

ChannelQueue ==
    INSTANCE UniqueQueue
    WITH Items <- ChannelItems, Limit <- Capacity, queue <- c, unique <- IsUnique /\ Orderly

\* base.go:13-20: though the channel and the set are used one after the other,
\* by any number of goroutines, the channel is a queue of bounded length, and a
\* unique one until two pushes of one item overlap, or RemoveAll clears the set
\* while a popper holds an item.
ChannelImplementsQueue == ChannelQueue!Spec
=============================================================================
