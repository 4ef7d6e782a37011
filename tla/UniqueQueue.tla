---------------------------- MODULE UniqueQueue ----------------------------
(***************************************************************************)
(* What a base queue promises whoever uses it (the interface baseQueue of   *)
(* modules/queue/base.go), whatever it keeps its items in: PushItem puts an *)
(* item at the end, PopItem takes the first, and RemoveAll takes them all,  *)
(* each at once.  A unique queue accepts only an item it does not hold.     *)
(* RemoveAll may end that for ever: it deletes the items and the set of     *)
(* their names one after the other, "better to have duplicate items than    *)
(* losing items" (base_redis.go:129).  So may two callers who push one item *)
(* at once: where the lookup and the insertion are two steps, each may find *)
(* that the item is not there.                                              *)
(***************************************************************************)
EXTENDS Naturals, Sequences

CONSTANTS
    Items,
    Limit   \* the greatest number of items it may hold

VARIABLES
    queue,  \* the items, the oldest first
    unique  \* whether it holds no item twice

Init ==
    /\ queue = <<>>
    /\ unique \in BOOLEAN

Push(x) ==
    /\ Len(queue) < Limit
    /\ unique => \A i \in DOMAIN queue : queue[i] # x
    /\ queue' = Append(queue, x)
    /\ UNCHANGED unique

Pop ==
    /\ queue # <<>>
    /\ queue' = Tail(queue)
    /\ UNCHANGED unique

\* It may also fail and leave the items where they are.
RemoveAll ==
    /\ queue' \in {queue, <<>>}
    /\ unique' = FALSE

\* Pushes of one item overlap: no item moves, but one may come in twice.
PushesOverlap ==
    /\ UNCHANGED queue
    /\ unique' = FALSE

Next == Pop \/ RemoveAll \/ PushesOverlap \/ \E x \in Items : Push(x)

Spec == Init /\ [][Next]_<<queue, unique>>
=============================================================================
