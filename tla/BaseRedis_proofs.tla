-------------------------- MODULE BaseRedis_proofs --------------------------
(***************************************************************************)
(* A unique queue in Redis, for any number of processes, commands that fail *)
(* and processes that die: no item is in the list twice until somebody      *)
(* calls RemoveAll; until then, and until something fails, the set names    *)
(* the items of the list; and the list outgrows its length by less than one *)
(* item for each process.  The set is what the processes agree through: an  *)
(* item in the list, or on its way into or out of it, is in the set, and    *)
(* only the process that brings it or takes it away may have it in hand.    *)
(***************************************************************************)
EXTENDS BaseRedis, FiniteSetTheorems, TLAPS

\* An item in hand between two commands is an item.
HandInv == \A p \in Processes : pc[p] \in {"SADD", "RPUSH", "SREM"} => arg[p] \in Items

\* A process between the two DELs has begun a removal.
RemovalInv == \A p \in Processes : pc[p] = "DEL" => "removal" \in past

TypeInv == TypeOK /\ HandInv /\ RemovalInv

\* The set knows every item of the list ...
KnownInv == \A i \in DOMAIN list : list[i] \in set

Moving(p) == pc[p] \in {"RPUSH", "SREM"}

\* ... and every item that a process brings or takes away, which is then not
\* in the list and in no other process's hands.
MovingInv ==
    /\ \A p \in Processes : Moving(p) => arg[p] \in set /\ ~InList(arg[p])
    /\ \A p, q \in Processes : Moving(p) /\ Moving(q) /\ arg[p] = arg[q] => p = q

UniqueInv == Distinct /\ KnownInv /\ MovingInv

Carried(x) == \E p \in Processes : Moving(p) /\ arg[p] = x

\* Until something fails, what the set names is in the list or being moved.
TruthInv == past = {} => \A x \in set : InList(x) \/ Carried(x)

\* The processes that have passed the check of the length.
Passed == {p \in Processes : pc[p] \in {"SADD", "RPUSH"}}

PassedInv == Len(list) + Cardinality(Passed) <= Length + Cardinality(Processes) - 1

-----------------------------------------------------------------------------
\* The initial states are well typed.
LEMMA TypeInvInit == Init => TypeInv
  BY BaseRedisAssumption DEF Init, TypeInv, TypeOK, HandInv, RemovalInv

\* Every command, failed or not, leaves a well-typed state.
LEMMA TypeInvStep == TypeInv /\ [Next]_vars => TypeInv'
<1> SUFFICES ASSUME TypeInv, [Next]_vars PROVE TypeInv'
  OBVIOUS
<1> USE BaseRedisAssumption DEF TypeInv, TypeOK, HandInv, RemovalInv, Goto, Return, Fault
<1>1. ASSUME NEW p \in Processes, NEW x \in Items, PushLLen(p, x) PROVE TypeInv'
  BY <1>1 DEF PushLLen
<1>2. ASSUME NEW p \in Processes, PushSAdd(p) PROVE TypeInv'
  BY <1>2 DEF PushSAdd
<1>3. ASSUME NEW p \in Processes, PushSAddFails(p) PROVE TypeInv'
  BY <1>3 DEF PushSAddFails
<1>4. ASSUME NEW p \in Processes, PushRPush(p) PROVE TypeInv'
  BY <1>4 DEF PushRPush
<1>5. ASSUME NEW p \in Processes, PushRPushFails(p) PROVE TypeInv'
  BY <1>5 DEF PushRPushFails
<1>6. ASSUME NEW p \in Processes, PopLPop(p) PROVE TypeInv'
  BY <1>6 DEF PopLPop
<1>7. ASSUME NEW p \in Processes, PopLPopFails(p) PROVE TypeInv'
  BY <1>7 DEF PopLPopFails
<1>8. ASSUME NEW p \in Processes, PopSRem(p) PROVE TypeInv'
  BY <1>8 DEF PopSRem
<1>9. ASSUME NEW p \in Processes, PopSRemFails(p) PROVE TypeInv'
  BY <1>9 DEF PopSRemFails
<1>10. ASSUME NEW p \in Processes, Crash(p) PROVE TypeInv'
  BY <1>10 DEF Crash
<1>11. ASSUME NEW p \in Removers, RemoveDelList(p) \/ RemoveDelListFails(p) PROVE TypeInv'
  <2>1. p \in Processes
    BY <1>11
  <2>2. list' \in Seq(Items)
    <3>1. list' = <<>> \/ list' = list
      BY <1>11 DEF RemoveDelList, RemoveDelListFails
    <3>2. CASE list' = <<>>
      BY <3>2
    <3>3. CASE list' = list
      BY <3>3
    <3> QED
      BY <3>1, <3>2, <3>3
  <2>3. pc' \in [Processes -> {"idle", "SADD", "RPUSH", "SREM", "DEL"}] /\ HandInv'
    BY <1>11, <2>1 DEF RemoveDelList, RemoveDelListFails
  <2>4. /\ arg' \in [Processes -> Items \cup {NoItem}] /\ set' \subseteq Items
        /\ past' \subseteq {"fault", "removal"} /\ RemovalInv'
    BY <1>11, <2>1 DEF RemoveDelList, RemoveDelListFails
  <2> QED
    BY <2>2, <2>3, <2>4
<1>12. ASSUME NEW p \in Removers, RemoveDelSet(p) \/ RemoveDelSetFails(p) PROVE TypeInv'
  BY <1>12 DEF RemoveDelSet, RemoveDelSetFails
<1>13. CASE UNCHANGED vars
  BY <1>13 DEF vars
<1> QED
  BY <1>1, <1>2, <1>3, <1>4, <1>5, <1>6, <1>7, <1>8, <1>9, <1>10, <1>11, <1>12, <1>13
  DEF Next, PushStep, PopStep, RemoveStep

\* Every variable keeps its type.
THEOREM TypeCorrect == Spec => []TypeOK
<1>1. TypeInv => TypeOK
  BY DEF TypeInv
<1> QED
  BY <1>1, TypeInvInit, TypeInvStep, PTL DEF Spec

-----------------------------------------------------------------------------
\* What RPUSH does to the list.
LEMMA AppendToList ==
  ASSUME NEW s \in Seq(Items), NEW x \in Items
  PROVE  /\ DOMAIN Append(s, x) = DOMAIN s \cup {Len(s) + 1}
         /\ Len(s) + 1 \notin DOMAIN s
         /\ \A i \in DOMAIN s : Append(s, x)[i] = s[i]
         /\ Append(s, x)[Len(s) + 1] = x
         /\ Len(Append(s, x)) = Len(s) + 1
  OBVIOUS

\* What LPOP does to it.
LEMMA TailOfList ==
  ASSUME NEW s \in Seq(Items), s # <<>>
  PROVE  /\ 1 \in DOMAIN s /\ Head(s) = s[1]
         /\ DOMAIN Tail(s) \subseteq Nat \ {0}
         /\ \A i \in DOMAIN Tail(s) : i + 1 \in DOMAIN s /\ Tail(s)[i] = s[i + 1]
         /\ \A i \in DOMAIN s : i = 1 \/ (i - 1 \in DOMAIN Tail(s) /\ Tail(s)[i - 1] = s[i])
         /\ Len(Tail(s)) = Len(s) - 1
  OBVIOUS

\* Appending an item the set knows and the list lacks keeps the items distinct.
LEMMA AppendKeepsUnique ==
  ASSUME TypeInv, Distinct, KnownInv, NEW x \in Items, x \in set, ~InList(x),
         list' = Append(list, x), set' = set
  PROVE  Distinct' /\ KnownInv' /\ \A y : InList(y)' <=> InList(y) \/ y = x
<1>1. /\ DOMAIN list' = DOMAIN list \cup {Len(list) + 1}
      /\ Len(list) + 1 \notin DOMAIN list
      /\ \A i \in DOMAIN list : list'[i] = list[i]
      /\ list'[Len(list) + 1] = x
  BY AppendToList DEF TypeInv, TypeOK
<1> QED
  BY <1>1 DEF Distinct, KnownInv, InList

\* Popping keeps them distinct, and the popped item is no longer there.
LEMMA TailKeepsUnique ==
  ASSUME TypeInv, Distinct, KnownInv, list # <<>>, list' = Tail(list), set' = set,
         NEW x, x = Head(list)
  PROVE  /\ Distinct' /\ KnownInv'
         /\ InList(x) /\ x \in set /\ ~InList(x)'
         /\ \A y : InList(y)' => InList(y)
         /\ \A y : InList(y) => InList(y)' \/ y = x
<1>1. /\ 1 \in DOMAIN list /\ x = list[1]
      /\ DOMAIN list' \subseteq Nat \ {0}
      /\ \A i \in DOMAIN list' : i + 1 \in DOMAIN list /\ list'[i] = list[i + 1]
      /\ \A i \in DOMAIN list : i = 1 \/ (i - 1 \in DOMAIN list' /\ list'[i - 1] = list[i])
  BY TailOfList DEF TypeInv, TypeOK
<1>2. Distinct'
  <2> SUFFICES ASSUME NEW i \in DOMAIN list', NEW j \in DOMAIN list', list'[i] = list'[j]
               PROVE  i = j
    BY DEF Distinct
  <2>1. list[i + 1] = list[j + 1] /\ i + 1 \in DOMAIN list /\ j + 1 \in DOMAIN list
    BY <1>1
  <2>2. i + 1 = j + 1
    BY <2>1 DEF Distinct
  <2> QED
    BY <1>1, <2>2
<1>3. KnownInv' /\ \A y : InList(y)' => InList(y)
  BY <1>1 DEF KnownInv, InList
<1>4. InList(x) /\ x \in set
  BY <1>1 DEF KnownInv, InList
<1>5. ~InList(x)'
  <2> SUFFICES ASSUME NEW i \in DOMAIN list', list'[i] = list[1] PROVE FALSE
    BY <1>1 DEF InList
  <2>1. i + 1 = 1
    BY <1>1 DEF Distinct
  <2> QED
    BY <1>1, <2>1
<1>6. \A y : InList(y) => InList(y)' \/ y = x
  BY <1>1 DEF InList
<1> QED
  BY <1>2, <1>3, <1>4, <1>5, <1>6

\* While nobody has called RemoveAll, a step keeps the agreement between the list and the set.
LEMMA UniqueStep ==
  ASSUME TypeInv, UniqueInv, [Next]_vars, "removal" \notin past'
  PROVE  UniqueInv'
<1> USE DEF UniqueInv
<1>u. ASSUME list' = list, set \subseteq set' PROVE Distinct' /\ KnownInv' /\ \A y : InList(y)' <=> InList(y)
  BY <1>u DEF Distinct, KnownInv, InList
<1>1. ASSUME NEW p \in Processes, NEW x \in Items, PushLLen(p, x) PROVE UniqueInv'
  BY <1>1, <1>u DEF PushLLen, Goto, TypeInv, TypeOK, MovingInv, Moving
<1>2. ASSUME NEW p \in Processes, PushSAdd(p) PROVE UniqueInv'
  <2>1. CASE arg[p] \in set
    BY <1>2, <2>1, <1>u DEF PushSAdd, Return, Goto, TypeInv, TypeOK, MovingInv, Moving
  <2>2. CASE arg[p] \notin set
    <3>1. ~InList(arg[p])
      BY <2>2 DEF KnownInv, InList
    <3> QED
      BY <1>2, <2>2, <3>1, <1>u DEF PushSAdd, Goto, TypeInv, TypeOK, MovingInv, Moving
  <2> QED
    BY <2>1, <2>2
<1>3. ASSUME NEW p \in Processes, PushSAddFails(p) PROVE UniqueInv'
  BY <1>3, <1>u DEF PushSAddFails, Return, Goto, TypeInv, TypeOK, MovingInv, Moving
<1>a. ASSUME NEW p \in Processes, pc[p] = "RPUSH", Return(p), set' = set,
             list' = Append(list, arg[p])
      PROVE  UniqueInv'
  <2>1. arg[p] \in Items /\ arg[p] \in set /\ ~InList(arg[p])
    BY <1>a DEF TypeInv, HandInv, MovingInv, Moving
  <2>2. Distinct' /\ KnownInv' /\ \A y : InList(y)' <=> InList(y) \/ y = arg[p]
    BY <1>a, <2>1, AppendKeepsUnique
  <2> QED
    BY <1>a, <2>2 DEF Return, Goto, TypeInv, TypeOK, MovingInv, Moving
<1>4. ASSUME NEW p \in Processes, PushRPush(p) PROVE UniqueInv'
  BY <1>4, <1>a DEF PushRPush
<1>5. ASSUME NEW p \in Processes, PushRPushFails(p) PROVE UniqueInv'
  <2>1. CASE list' = list
    BY <1>5, <2>1, <1>u DEF PushRPushFails, Return, Goto, TypeInv, TypeOK, MovingInv, Moving
  <2> QED
    BY <1>5, <2>1, <1>a DEF PushRPushFails
<1>6. ASSUME NEW p \in Processes, PopLPop(p) PROVE UniqueInv'
  <2> PICK x : x = Head(list)
    OBVIOUS
  <2>1. /\ Distinct' /\ KnownInv'
        /\ InList(x) /\ x \in set /\ ~InList(x)'
        /\ \A y : InList(y)' => InList(y)
    BY <1>6, TailKeepsUnique DEF PopLPop
  <2>2. /\ \A q \in Processes : Moving(q) => arg[q] \in set /\ arg[q] # x /\ ~InList(arg[q])
        /\ set' = set
    BY <1>6, <2>1 DEF PopLPop, MovingInv
  <2>3. /\ arg'[p] = x
        /\ \A q \in Processes \ {p} : arg'[q] = arg[q] /\ (Moving(q)' <=> Moving(q))
    BY <1>6 DEF PopLPop, Goto, TypeInv, TypeOK, Moving
  <2>4. MovingInv'
    BY <2>1, <2>2, <2>3, MovingInv DEF MovingInv, InList, Moving
  <2> QED
    BY <2>1, <2>4
<1>7. ASSUME NEW p \in Processes, PopLPopFails(p) PROVE UniqueInv'
  <2>1. Distinct' /\ KnownInv' /\ \A y : InList(y)' => InList(y)
    BY <1>7, TailKeepsUnique DEF PopLPopFails
  <2> QED
    BY <1>7, <2>1 DEF PopLPopFails, MovingInv, Moving
<1>8. ASSUME NEW p \in Processes, PopSRem(p) PROVE UniqueInv'
  <2>1. ~InList(arg[p]) /\ Moving(p)
    BY <1>8 DEF PopSRem, MovingInv, Moving
  <2>2. Distinct' /\ KnownInv' /\ \A y : InList(y)' <=> InList(y)
    BY <1>8, <2>1 DEF PopSRem, Distinct, KnownInv, InList
  <2> QED
    BY <1>8, <2>1, <2>2 DEF PopSRem, Return, Goto, TypeInv, TypeOK, MovingInv, Moving
<1>9. ASSUME NEW p \in Processes, PopSRemFails(p) PROVE UniqueInv'
  BY <1>9, <1>u DEF PopSRemFails, Return, Goto, TypeInv, TypeOK, MovingInv, Moving
<1>10. ASSUME NEW p \in Processes, Crash(p) PROVE UniqueInv'
  BY <1>10, <1>u DEF Crash, Return, Goto, TypeInv, TypeOK, MovingInv, Moving
<1>11. CASE UNCHANGED vars
  BY <1>11, <1>u DEF vars, MovingInv, Moving
<1>12. ASSUME NEW p \in Removers, RemoveStep(p) PROVE FALSE
  BY <1>12, BaseRedisAssumption DEF RemoveStep, RemoveDelList, RemoveDelListFails,
     RemoveDelSet, RemoveDelSetFails, Fault, TypeInv, RemovalInv
<1> QED
  BY <1>1, <1>2, <1>3, <1>4, <1>5, <1>6, <1>7, <1>8, <1>9, <1>10, <1>11, <1>12
  DEF Next, PushStep, PopStep

\* The history only grows.
LEMMA PastGrows == TypeInv /\ [Next]_vars => past \subseteq past'
  BY DEF Next, vars, PushStep, PopStep, PushLLen, PushSAdd, PushSAddFails, PushRPush,
         PushRPushFails, PopLPop, PopLPopFails, PopSRem, PopSRemFails, Crash,
         RemoveStep, RemoveDelList, RemoveDelListFails, RemoveDelSet, RemoveDelSetFails,
         Fault, TypeInv, TypeOK

UniqueUntilRemoval == "removal" \in past \/ UniqueInv

\* The list and the set agree in every state before the first removal.
LEMMA UniqueAlways == Spec => [](TypeInv /\ UniqueUntilRemoval)
<1>1. Init => UniqueUntilRemoval
  BY DEF Init, UniqueUntilRemoval, UniqueInv, Distinct, KnownInv, MovingInv, Moving, InList
<1>2. TypeInv /\ UniqueUntilRemoval /\ [Next]_vars => UniqueUntilRemoval'
  BY UniqueStep, PastGrows DEF UniqueUntilRemoval
<1> QED
  BY <1>1, <1>2, TypeInvInit, TypeInvStep, PTL DEF Spec

\* base_redis.go PushItem and PopItem: until somebody calls RemoveAll, a unique
\* queue never holds an item twice, whatever fails and whoever dies.
THEOREM ClusterNoDuplicates == Spec => []NoDuplicates
<1>1. TypeInv /\ UniqueUntilRemoval => NoDuplicates
  BY DEF UniqueUntilRemoval, UniqueInv, NoDuplicates
<1> QED
  BY <1>1, UniqueAlways, PTL

\* While nothing has failed and nothing was removed, what a step adds to the
\* set it moves, and what it moves out of the list it takes out of the set.
LEMMA TruthStep ==
  ASSUME TypeInv, UniqueInv, TruthInv, [Next]_vars, past' = {}
  PROVE  TruthInv'
<1>0. past = {}
  BY PastGrows
<1>1. \A x \in set : InList(x) \/ Carried(x)
  BY <1>0 DEF TruthInv
<1>2. ASSUME NEW p \in Processes, NEW x \in Items, PushLLen(p, x) PROVE TruthInv'
  BY <1>1, <1>2 DEF PushLLen, Goto, TypeInv, TypeOK, TruthInv, Carried, Moving, InList
<1>3. ASSUME NEW p \in Processes, PushSAdd(p) PROVE TruthInv'
  BY <1>1, <1>3 DEF PushSAdd, Return, Goto, TypeInv, TypeOK, TruthInv, Carried, Moving, InList
<1>4. ASSUME NEW p \in Processes, PushRPush(p) PROVE TruthInv'
  <2>1. arg[p] \in Items /\ arg[p] \in set /\ ~InList(arg[p])
    BY <1>4 DEF PushRPush, TypeInv, HandInv, UniqueInv, MovingInv, Moving
  <2>2. \A y : InList(y)' <=> InList(y) \/ y = arg[p]
    BY <1>4, <2>1, AppendKeepsUnique DEF PushRPush, UniqueInv
  <2> QED
    BY <1>1, <1>4, <2>2 DEF PushRPush, Return, Goto, TypeInv, TypeOK, TruthInv, Carried, Moving
<1>5. ASSUME NEW p \in Processes, PopLPop(p) PROVE TruthInv'
  <2> PICK x : x = Head(list)
    OBVIOUS
  <2>1. \A y : InList(y) => InList(y)' \/ y = x
    BY <1>5, TailKeepsUnique DEF PopLPop, UniqueInv
  <2>2. Carried(x)'
    BY <1>5 DEF PopLPop, Goto, TypeInv, TypeOK, Carried, Moving
  <2>3. \A y : Carried(y) => Carried(y)'
    BY <1>5 DEF PopLPop, Goto, TypeInv, TypeOK, Carried, Moving
  <2>4. set' = set
    BY <1>5 DEF PopLPop
  <2> QED
    BY <1>1, <2>1, <2>2, <2>3, <2>4 DEF TruthInv
<1>6. ASSUME NEW p \in Processes, PopSRem(p) PROVE TruthInv'
  BY <1>1, <1>6 DEF PopSRem, Return, Goto, TypeInv, TypeOK, TruthInv, Carried, Moving, InList
<1>7. CASE UNCHANGED vars
  BY <1>1, <1>7 DEF vars, TruthInv, Carried, Moving, InList
<1>8. ASSUME NEW p \in Processes,
             PushSAddFails(p) \/ PushRPushFails(p) \/ PopLPopFails(p) \/ PopSRemFails(p)
                \/ Crash(p)
      PROVE  FALSE
  BY <1>8 DEF PushSAddFails, PushRPushFails, PopLPopFails, PopSRemFails, Crash, Fault
<1>9. ASSUME NEW p \in Removers, RemoveStep(p) PROVE FALSE
  BY <1>0, <1>9, BaseRedisAssumption DEF RemoveStep, RemoveDelList, RemoveDelListFails,
     RemoveDelSet, RemoveDelSetFails, Fault, TypeInv, RemovalInv
<1> QED
  BY <1>2, <1>3, <1>4, <1>5, <1>6, <1>7, <1>8, <1>9 DEF Next, PushStep, PopStep

\* base_redis.go:23: for any number of processes, if every command succeeds and
\* nobody calls RemoveAll, a queue at rest refuses exactly the items it holds.
THEOREM ClusterSetIsTruthful == Spec => []SetIsTruthful
<1>1. Init => TruthInv
  BY DEF Init, TruthInv
<1>2. TypeInv /\ UniqueUntilRemoval /\ TruthInv /\ [Next]_vars => TruthInv'
  <2> SUFFICES ASSUME TypeInv, UniqueUntilRemoval, TruthInv, [Next]_vars, past' = {}
               PROVE  TruthInv'
    BY DEF TruthInv
  <2>1. UniqueInv
    BY PastGrows DEF UniqueUntilRemoval
  <2> QED
    BY <2>1, TruthStep
<1>3. TypeInv /\ UniqueUntilRemoval /\ TruthInv => SetIsTruthful
  BY DEF UniqueUntilRemoval, UniqueInv, TruthInv, SetIsTruthful, Quiescent, Carried, Moving,
         KnownInv, InList
<1> QED
  BY <1>1, <1>2, <1>3, UniqueAlways, PTL DEF Spec

-----------------------------------------------------------------------------
\* At most one process fewer than there are can have passed the check if one
\* of them has not.
LEMMA PassedSize ==
  /\ IsFiniteSet(Passed) /\ Cardinality(Passed) \in Nat
  /\ Cardinality(Processes) \in Nat
  /\ Cardinality(Passed) <= Cardinality(Processes)
<1>1. Passed \subseteq Processes
  BY DEF Passed
<1> QED
  BY <1>1, BaseRedisAssumption, FS_Subset, FS_CardinalityType

\* The places a process that has passed the check may still take are counted
\* in advance.
LEMMA PassedStep ==
  ASSUME TypeInv, PassedInv, [Next]_vars
  PROVE  PassedInv'
<1> USE BaseRedisAssumption DEF TypeInv, TypeOK
<1>n. /\ IsFiniteSet(Passed) /\ Cardinality(Passed) \in Nat /\ Cardinality(Processes) \in Nat
      /\ Len(list) \in Nat
  BY PassedSize
<1>t. TypeInv'
  BY TypeInvStep
<1>p. /\ IsFiniteSet(Passed') /\ Cardinality(Passed') \in Nat
      /\ Cardinality(Passed') <= Cardinality(Processes) /\ Len(list') \in Nat
  <2>1. Passed' \subseteq Processes
    BY DEF Passed
  <2> QED
    BY <2>1, <1>t, FS_Subset, FS_CardinalityType
<1>a. ASSUME Passed' \subseteq Passed, Len(list') <= Len(list) PROVE PassedInv'
  <2>1. Cardinality(Passed') <= Cardinality(Passed)
    BY <1>a, <1>n, FS_Subset
  <2> QED
    BY <1>a, <1>n, <1>p, <2>1 DEF PassedInv
<1>b. ASSUME NEW p \in Processes, pc[p] = "RPUSH", Return(p), Len(list') <= Len(list) + 1
      PROVE  PassedInv'
  <2>1. p \in Passed /\ Passed' = Passed \ {p}
    BY <1>b DEF Passed, Return, Goto
  <2>2. Cardinality(Passed') = Cardinality(Passed) - 1
    BY <2>1, <1>n, FS_RemoveElement
  <2> QED
    BY <1>b, <1>n, <1>p, <2>2 DEF PassedInv
<1>1. ASSUME NEW p \in Processes, NEW x \in Items, PushLLen(p, x) PROVE PassedInv'
  <2>1. Len(list') = Len(list) /\ Len(list) < Length
    BY <1>1 DEF PushLLen
  <2> QED
    BY <2>1, <1>n, <1>p DEF PassedInv
<1>2. ASSUME NEW p \in Processes, PushSAdd(p) PROVE PassedInv'
  <2>1. Passed' \subseteq Passed /\ list' = list
    BY <1>2 DEF PushSAdd, Passed, Return, Goto
  <2> QED
    BY <1>a, <1>n, <2>1
<1>3. ASSUME NEW p \in Processes, PushSAddFails(p) PROVE PassedInv'
  <2>1. Passed' \subseteq Passed /\ list' = list
    BY <1>3 DEF PushSAddFails, Passed, Return, Goto
  <2> QED
    BY <1>a, <1>n, <2>1
<1>4. ASSUME NEW p \in Processes, PushRPush(p) PROVE PassedInv'
  <2>1. Len(list') = Len(list) + 1
    BY <1>4, AppendToList DEF PushRPush, HandInv
  <2> QED
    BY <1>4, <1>b, <1>n, <2>1 DEF PushRPush
<1>5. ASSUME NEW p \in Processes, PushRPushFails(p) PROVE PassedInv'
  <2>1. Len(list') <= Len(list) + 1
    BY <1>5, <1>n, AppendToList DEF PushRPushFails, HandInv
  <2> QED
    BY <1>5, <1>b, <2>1 DEF PushRPushFails
<1>6. ASSUME NEW p \in Processes, PopStep(p) PROVE PassedInv'
  <2>1. Passed' \subseteq Passed
    BY <1>6 DEF PopStep, PopLPop, PopLPopFails, PopSRem, PopSRemFails, Passed, Return, Goto
  <2>2. list' = list \/ (list # <<>> /\ list' = Tail(list))
    BY <1>6 DEF PopStep, PopLPop, PopLPopFails, PopSRem, PopSRemFails
  <2>3. Len(list') <= Len(list)
    BY <2>2, <1>n, TailOfList
  <2> QED
    BY <1>a, <2>1, <2>3
<1>7. ASSUME NEW p \in Processes, Crash(p) PROVE PassedInv'
  <2>1. Passed' \subseteq Passed /\ list' = list
    BY <1>7 DEF Crash, Passed, Return, Goto
  <2> QED
    BY <1>a, <1>n, <2>1
<1>8. ASSUME NEW p \in Removers, RemoveStep(p) PROVE PassedInv'
  <2>1. p \in Processes /\ Passed' \subseteq Passed
    BY <1>8 DEF RemoveStep, RemoveDelList, RemoveDelListFails, RemoveDelSet, RemoveDelSetFails,
                Passed, Return, Goto
  <2>2. list' = list \/ list' = <<>>
    BY <1>8 DEF RemoveStep, RemoveDelList, RemoveDelListFails, RemoveDelSet, RemoveDelSetFails
  <2>3. Len(list') <= Len(list)
    BY <2>2, <1>n
  <2> QED
    BY <1>a, <2>1, <2>3
<1>9. CASE UNCHANGED vars
  <2>1. Passed' \subseteq Passed /\ list' = list
    BY <1>9 DEF vars, Passed
  <2> QED
    BY <1>a, <1>n, <2>1
<1> QED
  BY <1>1, <1>2, <1>3, <1>4, <1>5, <1>6, <1>7, <1>8, <1>9 DEF Next, PushStep

\* base_redis.go:60-66: the list outgrows its configured length by less than
\* one item for each process, with removals, failures and crashes.
THEOREM OvershootIsBounded == Spec => []BoundedOvershoot
<1>1. Init => PassedInv
  <2> SUFFICES ASSUME Init PROVE PassedInv
    OBVIOUS
  <2>1. Passed = {} /\ Len(list) = 0
    BY DEF Init, Passed
  <2>2. Cardinality(Processes) \in Nat
    BY PassedSize
  <2> QED
    BY <2>1, <2>2, FS_EmptySet, BaseRedisAssumption DEF PassedInv
<1>2. TypeInv /\ PassedInv /\ [Next]_vars => PassedInv'
  BY PassedStep
<1>3. TypeInv /\ PassedInv => BoundedOvershoot
  <2> SUFFICES ASSUME TypeInv, PassedInv PROVE BoundedOvershoot
    OBVIOUS
  <2>1. Len(list) \in Nat
    BY DEF TypeInv, TypeOK
  <2> QED
    BY <2>1, PassedSize, BaseRedisAssumption DEF PassedInv, BoundedOvershoot
<1> QED
  BY <1>1, <1>2, <1>3, TypeInvInit, TypeInvStep, PTL DEF Spec

-----------------------------------------------------------------------------
\* A removal that deleted the list has yet to delete the set.
Deleting == \E p \in Processes : pc[p] = "DEL"

\* While nothing fails, what the set names is in the list or being moved, or
\* the set is about to be deleted.
KeptInv == "fault" \notin past => Deleting \/ \A x \in set : InList(x) \/ Carried(x)

\* What LPOP and RPUSH leave in the list, whether or not an item is there twice.
LEMMA AppendInList ==
  ASSUME TypeInv, NEW x \in Items, list' = Append(list, x)
  PROVE  \A y : InList(y)' <=> InList(y) \/ y = x
<1>1. /\ DOMAIN list' = DOMAIN list \cup {Len(list) + 1}
      /\ Len(list) + 1 \notin DOMAIN list
      /\ \A i \in DOMAIN list : list'[i] = list[i]
      /\ list'[Len(list) + 1] = x
  BY AppendToList DEF TypeInv, TypeOK
<1> QED
  BY <1>1 DEF InList

\* Of what was in the list, LPOP takes the first item at most.
LEMMA TailInList ==
  ASSUME TypeInv, list # <<>>, list' = Tail(list), NEW x, x = Head(list)
  PROVE  \A y : InList(y) => InList(y)' \/ y = x
<1>1. /\ x = list[1]
      /\ \A i \in DOMAIN list : i = 1 \/ (i - 1 \in DOMAIN list' /\ list'[i - 1] = list[i])
  BY TailOfList DEF TypeInv, TypeOK
<1> QED
  BY <1>1 DEF InList

\* A step without a failure loses no item that the set goes on naming.
LEMMA KeptStep ==
  ASSUME TypeInv, KeptInv, [Next]_vars, "fault" \notin past'
  PROVE  KeptInv'
<1>0. Deleting \/ \A x \in set : InList(x) \/ Carried(x)
  BY PastGrows DEF KeptInv
<1> USE DEF Goto, Return, TypeInv, TypeOK, KeptInv, Carried, Moving
<1>d. ASSUME NEW p \in Processes, pc[p] # "DEL", \A q \in Processes \ {p} : pc'[q] = pc[q],
             Deleting
      PROVE  KeptInv'
  BY <1>d DEF Deleting
<1>1. ASSUME NEW p \in Processes, NEW x \in Items, PushLLen(p, x) PROVE KeptInv'
  BY <1>0, <1>1, <1>d DEF PushLLen, InList
<1>2. ASSUME NEW p \in Processes, PushSAdd(p) PROVE KeptInv'
  BY <1>0, <1>2, <1>d DEF PushSAdd, InList
<1>3. ASSUME NEW p \in Processes, PushRPush(p) PROVE KeptInv'
  <2>1. \A y : InList(y)' <=> InList(y) \/ y = arg[p]
    BY <1>3, AppendInList DEF PushRPush, HandInv
  <2> QED
    BY <1>0, <1>3, <1>d, <2>1 DEF PushRPush
<1>4. ASSUME NEW p \in Processes, PopLPop(p) PROVE KeptInv'
  <2> PICK x : x = Head(list)
    OBVIOUS
  <2>1. \A y : InList(y) => InList(y)' \/ y = x
    BY <1>4, TailInList DEF PopLPop
  <2>2. Carried(x)'
    BY <1>4 DEF PopLPop
  <2>3. \A y : Carried(y) => Carried(y)'
    BY <1>4 DEF PopLPop
  <2>4. set' = set /\ pc[p] # "DEL" /\ \A q \in Processes \ {p} : pc'[q] = pc[q]
    BY <1>4 DEF PopLPop
  <2>5. CASE Deleting
    BY <2>4, <2>5, <1>d
  <2>6. CASE \A y \in set : InList(y) \/ Carried(y)
    BY <2>1, <2>2, <2>3, <2>4, <2>6 DEF KeptInv
  <2> QED
    BY <1>0, <2>5, <2>6
<1>5. ASSUME NEW p \in Processes, PopSRem(p) PROVE KeptInv'
  BY <1>0, <1>5, <1>d DEF PopSRem, InList
<1>6. ASSUME NEW p \in Removers, RemoveDelList(p) PROVE KeptInv'
  <2>1. Deleting'
    BY <1>6, BaseRedisAssumption DEF RemoveDelList, Deleting
  <2> QED
    BY <2>1
<1>7. ASSUME NEW p \in Removers, RemoveDelSet(p) PROVE KeptInv'
  BY <1>7 DEF RemoveDelSet
<1>8. CASE UNCHANGED vars
  BY <1>0, <1>8 DEF vars, InList, Deleting
<1>9. ASSUME NEW p \in Processes,
             PushSAddFails(p) \/ PushRPushFails(p) \/ PopLPopFails(p) \/ PopSRemFails(p)
                \/ Crash(p)
      PROVE  FALSE
  BY <1>9 DEF PushSAddFails, PushRPushFails, PopLPopFails, PopSRemFails, Crash, Fault
<1>10. ASSUME NEW p \in Removers, RemoveDelListFails(p) \/ RemoveDelSetFails(p) PROVE FALSE
  BY <1>10 DEF RemoveDelListFails, RemoveDelSetFails, Fault
<1> QED
  BY <1>1, <1>2, <1>3, <1>4, <1>5, <1>6, <1>7, <1>8, <1>9, <1>10
  DEF Next, PushStep, PopStep, RemoveStep

\* base_redis.go:128-129: for any number of processes and removals, a queue at
\* rest refuses no item that it has lost, unless a command failed or a process died.
THEOREM ClusterRefusesNothingLost == Spec => []RedisRefusesNothingLost
<1>1. Init => KeptInv
  BY DEF Init, KeptInv
<1>2. TypeInv /\ KeptInv /\ [Next]_vars => KeptInv'
  BY KeptStep DEF KeptInv
<1>3. KeptInv => RedisRefusesNothingLost
  BY DEF KeptInv, RedisRefusesNothingLost, Quiescent, Carried, Moving, Deleting
<1> QED
  BY <1>1, <1>2, <1>3, TypeInvInit, TypeInvStep, PTL DEF Spec

-----------------------------------------------------------------------------
(* The cluster has one unique queue *)

\* Whatever a process does, the others and the list see a push, a pop, a
\* removal or nothing.
LEMMA QueueStep ==
  ASSUME TypeInv, TypeInv', UniqueUntilRemoval, PassedInv, [Next]_vars
  PROVE  RedisQueue!Next \/ UNCHANGED <<list, "removal" \notin past>>
<1> DEFINE Unique == "removal" \notin past
<1> DEFINE Same == UNCHANGED <<list, Unique>>
<1>f. ASSUME Fault \/ past' = past PROVE UNCHANGED Unique
  BY <1>f DEF Fault
<1>a. ASSUME NEW p \in Processes, pc[p] = "RPUSH", list' = Append(list, arg[p]), UNCHANGED Unique
      PROVE  RedisQueue!Next
  <2>1. arg[p] \in Items
    BY <1>a DEF TypeInv, HandInv
  <2>2. Len(list) < Length + Cardinality(Processes) - 1
    <3>1. p \in Passed
      BY <1>a DEF Passed
    <3>2. Cardinality(Passed) # 0
      BY <3>1, PassedSize, FS_EmptySet
    <3>3. Len(list) \in Nat
      BY DEF TypeInv, TypeOK
    <3> QED
      BY <3>2, <3>3, PassedSize, BaseRedisAssumption DEF PassedInv
  <2>3. Unique => \A i \in DOMAIN list : list[i] # arg[p]
    BY <1>a DEF UniqueUntilRemoval, UniqueInv, MovingInv, Moving, InList
  <2>4. RedisQueue!Push(arg[p])
    BY <1>a, <2>2, <2>3 DEF RedisQueue!Push
  <2> QED
    BY <2>1, <2>4 DEF RedisQueue!Next
<1>b. ASSUME list # <<>>, list' = Tail(list), UNCHANGED Unique PROVE RedisQueue!Next
  <2>1. RedisQueue!Pop
    BY <1>b DEF RedisQueue!Pop
  <2> QED
    BY <2>1 DEF RedisQueue!Next
<1>c. ASSUME list' \in {list, <<>>}, ~Unique' PROVE RedisQueue!Next
  <2>1. Unique' = FALSE
    BY <1>c
  <2>2. RedisQueue!RemoveAll
    BY <1>c, <2>1 DEF RedisQueue!RemoveAll
  <2> QED
    BY <2>2 DEF RedisQueue!Next
<1>1. ASSUME NEW p \in Processes, PushStep(p) PROVE RedisQueue!Next \/ Same
  <2>1. ASSUME NEW x \in Items, PushLLen(p, x) PROVE Same
    BY <2>1 DEF PushLLen
  <2>2. CASE PushSAdd(p)
    BY <2>2 DEF PushSAdd
  <2>3. CASE PushSAddFails(p)
    BY <2>3, <1>f DEF PushSAddFails
  <2>4. CASE PushRPush(p)
    BY <2>4, <1>a, <1>f DEF PushRPush
  <2>5. CASE PushRPushFails(p)
    BY <2>5, <1>a, <1>f DEF PushRPushFails
  <2> QED
    BY <1>1, <2>1, <2>2, <2>3, <2>4, <2>5 DEF PushStep
<1>2. ASSUME NEW p \in Processes, PopStep(p) PROVE RedisQueue!Next \/ Same
  <2>1. CASE PopLPop(p)
    BY <2>1, <1>b, <1>f DEF PopLPop
  <2>2. CASE PopLPopFails(p)
    BY <2>2, <1>b, <1>f DEF PopLPopFails
  <2>3. CASE PopSRem(p)
    BY <2>3 DEF PopSRem
  <2>4. CASE PopSRemFails(p)
    BY <2>4, <1>f DEF PopSRemFails
  <2> QED
    BY <1>2, <2>1, <2>2, <2>3, <2>4 DEF PopStep
<1>3. ASSUME NEW p \in Processes, Crash(p) PROVE Same
  BY <1>3, <1>f DEF Crash
<1>4. ASSUME NEW p \in Removers, RemoveStep(p) PROVE RedisQueue!Next \/ Same
  <2>1. CASE RemoveDelList(p) \/ RemoveDelListFails(p)
    BY <2>1, <1>c DEF RemoveDelList, RemoveDelListFails
  <2>2. CASE RemoveDelSet(p) \/ RemoveDelSetFails(p)
    BY <2>2, <1>f DEF RemoveDelSet, RemoveDelSetFails
  <2> QED
    BY <1>4, <2>1, <2>2 DEF RemoveStep
<1>5. CASE UNCHANGED vars
  BY <1>5 DEF vars
<1> QED
  BY <1>1, <1>2, <1>3, <1>4, <1>5 DEF Next

\* base.go:13-20: any number of processes whose operations are two or three
\* commands each have one unique queue between them: each item is pushed at once and
\* where it is not, popped in its turn, and none is lost otherwise, whatever
\* fails and whoever dies, until a removal ends the uniqueness.
THEOREM ClusterImplementsQueue == Spec => RedisImplementsQueue
<1>1. Init => PassedInv
  <2> SUFFICES ASSUME Init PROVE PassedInv
    OBVIOUS
  <2>1. Passed = {} /\ Len(list) = 0
    BY DEF Init, Passed
  <2>2. Cardinality(Processes) \in Nat
    BY PassedSize
  <2> QED
    BY <2>1, <2>2, FS_EmptySet, BaseRedisAssumption DEF PassedInv
<1>2. TypeInv /\ PassedInv /\ [Next]_vars => PassedInv'
  BY PassedStep
<1>3. TypeInv /\ TypeInv' /\ UniqueUntilRemoval /\ PassedInv /\ [Next]_vars =>
        [RedisQueue!Next]_<<list, "removal" \notin past>>
  BY QueueStep
<1>4. Init => RedisQueue!Init
  BY DEF Init, RedisQueue!Init
<1> QED
  BY <1>1, <1>2, <1>3, <1>4, UniqueAlways, PTL DEF Spec, RedisImplementsQueue, RedisQueue!Spec
=============================================================================
