------------------------------ MODULE BaseRedis ------------------------------
(***************************************************************************)
(* modules/queue/base_redis.go: the base queue kept in a Redis list, and    *)
(* for a unique queue a Redis set beside it.  The processes of a cluster    *)
(* share both.  Within a process q.mu is held over every attempt of an      *)
(* operation, so a process does one thing at a time; between processes      *)
(* there is nothing but the atomicity of a single Redis command.            *)
(*                                                                          *)
(* A command may fail, and then it may have been carried out or not: the    *)
(* reply may be what was lost.  A process may die between two commands.     *)
(* The queue is a unique one; backoff and its timeouts are a retry that may *)
(* or may not come.                                                         *)
(***************************************************************************)
EXTENDS Integers, Sequences, FiniteSets

CONSTANTS
    Items,
    Processes,   \* instances that share the Redis server
    Removers,    \* those whose administrator calls RemoveAll
    Length,      \* q.cfg.Length
    NoItem,
    MayFail,     \* commands may fail
    MayCrash     \* processes may die in the middle of an operation

ASSUME BaseRedisAssumption ==
    /\ IsFiniteSet(Processes)
    /\ Removers \subseteq Processes
    /\ Length \in Nat \ {0}
    /\ NoItem \notin Items
    /\ MayFail \in BOOLEAN
    /\ MayCrash \in BOOLEAN

VARIABLES
    list,  \* the Redis list QueueFullName
    set,   \* the Redis set SetFullName
    pc,    \* the command each process sends next
    arg,   \* the item it has in hand
    past   \* history: whether there was a "fault" or a "removal"

vars == <<list, set, pc, arg, past>>

Init ==
    /\ list = <<>>
    /\ set = {}
    /\ pc = [p \in Processes |-> "idle"]
    /\ arg = [p \in Processes |-> NoItem]
    /\ past = {}

Goto(p, command, x) ==
    /\ pc' = [pc EXCEPT ![p] = command]
    /\ arg' = [arg EXCEPT ![p] = x]

Return(p) == Goto(p, "idle", NoItem)

Fault == past' = past \cup {"fault"}

-----------------------------------------------------------------------------
(* PushItem: LLEN, SADD, RPUSH *)

\* Mutant: the item is not the caller's.
PushLLenForgets(p, x) ==
    /\ pc[p] = "idle"
    /\ Len(list) < Length
    /\ Goto(p, "SADD", NoItem)
    /\ UNCHANGED <<list, set, past>>

\* A full list, like a failed LLEN, leaves everything as it is.
PushLLen(p, x) ==
    /\ pc[p] = "idle"
    /\ Len(list) < Length
    /\ Goto(p, "SADD", x)
    /\ UNCHANGED <<list, set, past>>

\* Mutant: the answer of SADD is not looked at.
PushSAddAnyhow(p) ==
    /\ pc[p] = "SADD"
    /\ set' = set \cup {arg[p]}
    /\ Goto(p, "RPUSH", arg[p])
    /\ UNCHANGED <<list, past>>

PushSAdd(p) ==
    /\ pc[p] = "SADD"
    /\ set' = set \cup {arg[p]}
    /\ IF arg[p] \in set THEN Return(p) ELSE Goto(p, "RPUSH", arg[p])
    /\ UNCHANGED <<list, past>>

PushSAddFails(p) ==
    /\ MayFail
    /\ pc[p] = "SADD"
    /\ set' \in {set, set \cup {arg[p]}}
    /\ Return(p)
    /\ Fault
    /\ UNCHANGED list

PushRPush(p) ==
    /\ pc[p] = "RPUSH"
    /\ list' = Append(list, arg[p])
    /\ Return(p)
    /\ UNCHANGED <<set, past>>

PushRPushFails(p) ==
    /\ MayFail
    /\ pc[p] = "RPUSH"
    /\ list' \in {list, Append(list, arg[p])}
    /\ Return(p)
    /\ Fault
    /\ UNCHANGED set

-----------------------------------------------------------------------------
(* PopItem: LPOP, SREM *)

PopLPop(p) ==
    /\ pc[p] = "idle"
    /\ list # <<>>
    /\ list' = Tail(list)
    /\ Goto(p, "SREM", Head(list))
    /\ UNCHANGED <<set, past>>

\* The pop is retried; if the command was carried out, its item is gone.
PopLPopFails(p) ==
    /\ MayFail
    /\ pc[p] = "idle"
    /\ list # <<>>
    /\ list' = Tail(list)
    /\ Fault
    /\ UNCHANGED <<set, pc, arg>>

\* Mutant: the popped item stays in the set.
PopSRemSkipped(p) ==
    /\ pc[p] = "SREM"
    /\ Return(p)
    /\ UNCHANGED <<list, set, past>>

PopSRem(p) ==
    /\ pc[p] = "SREM"
    /\ set' = set \ {arg[p]}
    /\ Return(p)
    /\ UNCHANGED <<list, past>>

\* The error of SREM is ignored.
PopSRemFails(p) ==
    /\ MayFail
    /\ pc[p] = "SREM"
    /\ Return(p)
    /\ Fault
    /\ UNCHANGED <<list, set>>

-----------------------------------------------------------------------------
(* RemoveAll: DEL of the list, DEL of the set, whatever the first one says *)

RemoveDelList(p) ==
    /\ pc[p] = "idle"
    /\ list' = <<>>
    /\ Goto(p, "DEL", NoItem)
    /\ past' = past \cup {"removal"}
    /\ UNCHANGED set

RemoveDelListFails(p) ==
    /\ MayFail
    /\ pc[p] = "idle"
    /\ list' \in {list, <<>>}
    /\ Goto(p, "DEL", NoItem)
    /\ past' = past \cup {"removal", "fault"}
    /\ UNCHANGED set

\* Mutant: the first command is thought to be enough.
RemoveDelSetSkipped(p) ==
    /\ pc[p] = "DEL"
    /\ Return(p)
    /\ UNCHANGED <<list, set, past>>

RemoveDelSet(p) ==
    /\ pc[p] = "DEL"
    /\ set' = {}
    /\ Return(p)
    /\ UNCHANGED <<list, past>>

RemoveDelSetFails(p) ==
    /\ MayFail
    /\ pc[p] = "DEL"
    /\ set' \in {set, {}}
    /\ Return(p)
    /\ Fault
    /\ UNCHANGED list

-----------------------------------------------------------------------------
\* The process dies and is started again.
Crash(p) ==
    /\ MayCrash
    /\ pc[p] # "idle"
    /\ Return(p)
    /\ Fault
    /\ UNCHANGED <<list, set>>

PushStep(p) ==
    \/ \E x \in Items : PushLLen(p, x)
    \/ PushSAdd(p) \/ PushSAddFails(p) \/ PushRPush(p) \/ PushRPushFails(p)

PopStep(p) == PopLPop(p) \/ PopLPopFails(p) \/ PopSRem(p) \/ PopSRemFails(p)

RemoveStep(p) ==
    \/ RemoveDelList(p) \/ RemoveDelListFails(p)
    \/ RemoveDelSet(p) \/ RemoveDelSetFails(p)

Next ==
    \/ \E p \in Processes : PushStep(p) \/ PopStep(p) \/ Crash(p)
    \/ \E p \in Removers : RemoveStep(p)

Spec == Init /\ [][Next]_vars

-----------------------------------------------------------------------------
(***************************************************************************)
(* Properties                                                              *)
(***************************************************************************)

\* Each variable ranges over the values its counterpart in Redis or Go can hold.
TypeOK ==
    /\ list \in Seq(Items)
    /\ set \subseteq Items
    /\ pc \in [Processes -> {"idle", "SADD", "RPUSH", "SREM", "DEL"}]
    /\ arg \in [Processes -> Items \cup {NoItem}]
    /\ past \subseteq {"fault", "removal"}

InList(x) == \E i \in DOMAIN list : list[i] = x

Distinct == \A i, j \in DOMAIN list : list[i] = list[j] => i = j

Quiescent == \A p \in Processes : pc[p] = "idle"

\* base_redis.go PushItem and PopItem: SADD before RPUSH and LPOP before SREM
\* keep an item from being twice in the list of a unique queue, whatever
\* processes interleave, commands fail or processes die, until somebody calls
\* RemoveAll.
NoDuplicates == "removal" \in past \/ Distinct

\* base_redis.go:23: "the queue operation and set operation should be
\* protected together": with nothing under way the set names exactly the items
\* of the list, so that no item is refused that is not there.  The mutex does
\* this for one process; the order of the commands does it for a cluster, if
\* every command succeeds.
SetIsTruthful == past = {} /\ Quiescent => \A x \in Items : x \in set <=> InList(x)

\* base_redis.go:60-66: the length is checked and used in two commands, so
\* every process may push an item over the configured length, but no more:
\* exactly the length where there is one process.
BoundedOvershoot == Len(list) <= Length + Cardinality(Processes) - 1

\* base_redis.go:128-129: "the set must be cleared after the list", since it is
\* "better to have duplicate items than losing items": with removals too, as
\* long as every command succeeds and nobody dies, an item that the set names
\* while nothing is under way is in the list, and is not refused for ever.
RedisRefusesNothingLost ==
    "fault" \notin past /\ Quiescent => \A x \in set : InList(x)

RedisQueue ==
    INSTANCE UniqueQueue
    WITH Limit <- Length + Cardinality(Processes) - 1,
         queue <- list,
         unique <- "removal" \notin past

\* base.go:13-20: the processes of a cluster, whose operations are two or three
\* commands each, have one unique queue between them, and what fails or
\* dies neither doubles, reorders nor loses an item that nobody popped or removed.
RedisImplementsQueue == RedisQueue!Spec
=============================================================================
