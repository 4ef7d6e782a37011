------------------------ MODULE BaseLevelQueueUnique ------------------------
(***************************************************************************)
(* modules/queue/base_levelqueue_unique.go and base_levelqueue_common.go:   *)
(* the unique base queue kept in a LevelDB by the levelqueue library, whose *)
(* UniqueQueue is a queue and a set, each with a lock of its own.           *)
(*                                                                          *)
(* baseLevelQueueUnique gives its mutex mu to baseLevelQueueCommon, which   *)
(* drops it (base_levelqueue_common.go:70), so PushItem and PopItem run     *)
(* between each other's steps and between those of RemoveAll; only RemoveAll *)
(* itself holds mu.  The database outlives the process.                     *)
(*                                                                          *)
(* A step on the database may fail.  Its error ends the operation, and the  *)
(* steps before it are not undone.                                          *)
(***************************************************************************)
EXTENDS Integers, Sequences, FiniteSets

CONSTANTS
    LevelItems,
    LevelThreads,   \* goroutines that push and pop
    LevelRemovers,  \* those that may call RemoveAll
    LevelLength,    \* q.length
    NoData,
    LevelMayCrash,  \* the process may die in the middle of an operation
    LevelMayFail    \* the database may refuse a step

ASSUME LevelAssumption ==
    /\ IsFiniteSet(LevelThreads)
    /\ LevelRemovers \subseteq LevelThreads
    /\ LevelLength \in Nat \ {0}
    /\ NoData \notin LevelItems
    /\ LevelMayCrash \in BOOLEAN
    /\ LevelMayFail \in BOOLEAN

VARIABLES
    levelQueue,  \* the queue of the UniqueQueue
    levelSet,    \* its set
    at,          \* where each goroutine stands
    data,        \* the item it has in hand
    members,     \* what is left of the snapshot RemoveAll took of the set
    history      \* what there was of "crash", "removal" and "failure"

levelVars == <<levelQueue, levelSet, at, data, members, history>>

LevelInit ==
    /\ levelQueue = <<>>
    /\ levelSet = {}
    /\ at = [t \in LevelThreads |-> "idle"]
    /\ data = [t \in LevelThreads |-> NoData]
    /\ members = {}
    /\ history = {}

LevelGoto(t, there, x) ==
    /\ at' = [at EXCEPT ![t] = there]
    /\ data' = [data EXCEPT ![t] = x]

LevelReturn(t) == LevelGoto(t, "idle", NoData)

\* The database refuses a step, which may have taken effect all the same.
LevelFails ==
    /\ LevelMayFail
    /\ history' = history \cup {"failure"}

-----------------------------------------------------------------------------
(* PushItem: Len, then UniqueQueue.RPush: the set first, the queue second *)

\* A full queue is looked at again later.
LevelPushLen(t, x) ==
    /\ at[t] = "idle"
    /\ Len(levelQueue) < LevelLength
    /\ LevelGoto(t, "add", x)
    /\ UNCHANGED <<levelQueue, levelSet, members, history>>

\* Mutant: the answer of the set is not looked at.
LevelAddAnyhow(t) ==
    /\ at[t] = "add"
    /\ levelSet' = levelSet \cup {data[t]}
    /\ LevelGoto(t, "rpush", data[t])
    /\ UNCHANGED <<levelQueue, members, history>>

\* ErrAlreadyInQueue, or the item is the set's.
LevelAdd(t) ==
    /\ at[t] = "add"
    /\ levelSet' = levelSet \cup {data[t]}
    /\ IF data[t] \in levelSet THEN LevelReturn(t) ELSE LevelGoto(t, "rpush", data[t])
    /\ UNCHANGED <<levelQueue, members, history>>

LevelAddFails(t) ==
    /\ at[t] = "add"
    /\ LevelFails
    /\ levelSet' \in {levelSet, levelSet \cup {data[t]}}
    /\ LevelReturn(t)
    /\ UNCHANGED <<levelQueue, members>>

LevelRPush(t) ==
    /\ at[t] = "rpush"
    /\ levelQueue' = Append(levelQueue, data[t])
    /\ LevelReturn(t)
    /\ UNCHANGED <<levelSet, members, history>>

\* The set keeps the item.
LevelRPushFails(t) ==
    /\ at[t] = "rpush"
    /\ LevelFails
    /\ levelQueue' \in {levelQueue, Append(levelQueue, data[t])}
    /\ LevelReturn(t)
    /\ UNCHANGED <<levelSet, members>>

-----------------------------------------------------------------------------
(* PopItem: UniqueQueue.LPop: the queue first, the set second *)

LevelLPop(t) ==
    /\ at[t] = "idle"
    /\ levelQueue # <<>>
    /\ levelQueue' = Tail(levelQueue)
    /\ LevelGoto(t, "remove", Head(levelQueue))
    /\ UNCHANGED <<levelSet, members, history>>

\* The set keeps the item; one that fails and leaves it changes nothing.
LevelLPopFails(t) ==
    /\ at[t] = "idle"
    /\ levelQueue # <<>>
    /\ LevelFails
    /\ levelQueue' = Tail(levelQueue)
    /\ UNCHANGED <<levelSet, at, data, members>>

\* Mutant: the popped item stays in the set.
LevelRemoveForgets(t) ==
    /\ at[t] = "remove"
    /\ LevelReturn(t)
    /\ UNCHANGED <<levelQueue, levelSet, members, history>>

LevelRemove(t) ==
    /\ at[t] = "remove"
    /\ levelSet' = levelSet \ {data[t]}
    /\ LevelReturn(t)
    /\ UNCHANGED <<levelQueue, members, history>>

\* PopItem returns the error, and nobody has the item.
LevelRemoveFails(t) ==
    /\ at[t] = "remove"
    /\ LevelFails
    /\ levelSet' \in {levelSet, levelSet \ {data[t]}}
    /\ LevelReturn(t)
    /\ UNCHANGED <<levelQueue, members>>

-----------------------------------------------------------------------------
(* RemoveAll, through the queue and the set the library hides *)

RemovingPlaces == {"look", "lpop", "members", "clear"}

\* q.mu, which RemoveAll alone holds across steps.
MuFree == \A t \in LevelThreads : at[t] \notin RemovingPlaces

LevelRemoveAll(t) ==
    /\ at[t] = "idle"
    /\ MuFree
    /\ LevelGoto(t, "look", NoData)
    /\ history' = history \cup {"removal"}
    /\ UNCHANGED <<levelQueue, levelSet, members>>

\* for lq.q.Len() > 0: the length is read ...
LevelLook(t) ==
    /\ at[t] = "look"
    /\ LevelGoto(t, IF levelQueue # <<>> THEN "lpop" ELSE "members", NoData)
    /\ UNCHANGED <<levelQueue, levelSet, members, history>>

\* ... and an item is popped.  If a popper took it meanwhile, LPop fails, and
\* RemoveAll returns without clearing the set of what it has removed.
LevelRemoveLPop(t) ==
    /\ at[t] = "lpop"
    /\ IF levelQueue = <<>>
       THEN LevelReturn(t) /\ UNCHANGED levelQueue
       ELSE LevelGoto(t, "look", NoData) /\ levelQueue' = Tail(levelQueue)
    /\ UNCHANGED <<levelSet, members, history>>

LevelRemoveLPopFails(t) ==
    /\ at[t] = "lpop"
    /\ levelQueue # <<>>
    /\ LevelFails
    /\ levelQueue' \in {levelQueue, Tail(levelQueue)}
    /\ LevelReturn(t)
    /\ UNCHANGED <<levelSet, members>>

LevelMembers(t) ==
    /\ at[t] = "members"
    /\ members' = levelSet
    /\ LevelGoto(t, "clear", NoData)
    /\ UNCHANGED <<levelQueue, levelSet, history>>

LevelMembersFails(t) ==
    /\ at[t] = "members"
    /\ LevelFails
    /\ LevelReturn(t)
    /\ UNCHANGED <<levelQueue, levelSet, members>>

LevelClear(t) ==
    /\ at[t] = "clear"
    /\ \E x \in members : members' = members \ {x} /\ levelSet' = levelSet \ {x}
    /\ UNCHANGED <<levelQueue, at, data, history>>

\* Its error is ignored.
LevelClearFails(t) ==
    /\ at[t] = "clear"
    /\ LevelFails
    /\ \E x \in members : members' = members \ {x}
    /\ UNCHANGED <<levelQueue, levelSet, at, data>>

LevelClearEnd(t) ==
    /\ at[t] = "clear"
    /\ members = {}
    /\ LevelReturn(t)
    /\ UNCHANGED <<levelQueue, levelSet, members, history>>

-----------------------------------------------------------------------------
\* The process dies and is started again; the database is as it was.
LevelCrash ==
    /\ LevelMayCrash
    /\ \E t \in LevelThreads : at[t] # "idle"
    /\ at' = [t \in LevelThreads |-> "idle"]
    /\ data' = [t \in LevelThreads |-> NoData]
    /\ members' = {}
    /\ history' = history \cup {"crash"}
    /\ UNCHANGED <<levelQueue, levelSet>>

LevelPushStep(t) ==
    \/ \E x \in LevelItems : LevelPushLen(t, x)
    \/ LevelAdd(t) \/ LevelAddFails(t) \/ LevelRPush(t) \/ LevelRPushFails(t)

LevelPopStep(t) ==
    LevelLPop(t) \/ LevelLPopFails(t) \/ LevelRemove(t) \/ LevelRemoveFails(t)

LevelRemoveStep(t) ==
    \/ LevelRemoveAll(t) \/ LevelLook(t) \/ LevelRemoveLPop(t) \/ LevelRemoveLPopFails(t)
    \/ LevelMembers(t) \/ LevelMembersFails(t)
    \/ LevelClear(t) \/ LevelClearFails(t) \/ LevelClearEnd(t)

LevelNext ==
    \/ \E t \in LevelThreads : LevelPushStep(t) \/ LevelPopStep(t)
    \/ \E t \in LevelRemovers : LevelRemoveStep(t)
    \/ LevelCrash

LevelSpec == LevelInit /\ [][LevelNext]_levelVars

-----------------------------------------------------------------------------
(***************************************************************************)
(* Properties                                                              *)
(***************************************************************************)

\* Each variable ranges over the values its counterpart can hold.
LevelTypeOK ==
    /\ levelQueue \in Seq(LevelItems)
    /\ levelSet \subseteq LevelItems
    /\ at \in [LevelThreads -> {"idle", "add", "rpush", "remove"} \cup RemovingPlaces]
    /\ data \in [LevelThreads -> LevelItems \cup {NoData}]
    /\ members \subseteq LevelItems
    /\ history \subseteq {"crash", "removal", "failure"}

InQueue(x) == \E i \in DOMAIN levelQueue : levelQueue[i] = x

LevelDistinct ==
    \A i, j \in DOMAIN levelQueue : levelQueue[i] = levelQueue[j] => i = j

LevelQuiescent == \A t \in LevelThreads : at[t] = "idle"

\* base_levelqueue_unique.go:22: though no mutex protects "the underlying
\* queue&set together", the order of the library's steps keeps an item from
\* being twice in the queue, whoever interleaves and whenever the process
\* dies, until somebody calls RemoveAll.
LevelNoDuplicates == "removal" \in history \/ LevelDistinct

\* It also keeps the set truthful until somebody calls RemoveAll: the set names
\* every item of the queue, though steps fail and the process dies; and nothing
\* else when no operation is under way, so that no item is refused that is not
\* there, as long as nothing has failed and nobody has died.
LevelSetIsTruthful ==
    "removal" \notin history =>
        \A x \in LevelItems :
            /\ InQueue(x) => x \in levelSet
            /\ history = {} /\ LevelQuiescent => (x \in levelSet => InQueue(x))

\* RemoveAll "it's better to have duplicate items than losing items"
\* (base_levelqueue_unique.go:87): if no step fails and nobody dies, an item that
\* the set names while nothing is under way is in the queue, and its pushes are
\* not refused for ever.
LevelRefusesNothingLost ==
    history \subseteq {"removal"} /\ LevelQuiescent =>
        \A x \in levelSet : InQueue(x)

LevelUniqueQueue ==
    INSTANCE UniqueQueue
    WITH Items <- LevelItems,
         Limit <- LevelLength + Cardinality(LevelThreads) - 1,
         queue <- levelQueue,
         unique <- "removal" \notin history

\* base.go:13-20: the goroutines, whose operations run between each other's
\* steps, have one unique queue, which neither a crash nor a failing step
\* doubles, reorders or empties; it outgrows its length by less than one item for each of them.
LevelImplementsQueue == LevelUniqueQueue!Spec
=============================================================================
