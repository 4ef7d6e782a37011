------------------------ MODULE ExclusivePool_proofs ------------------------
(***************************************************************************)
(* Mutual exclusion in ExclusivePool, for any number of instances,          *)
(* identities and mutexes.  What has to be excluded is that an entry is     *)
(* deleted while somebody still waits on its mutex: the next instance would *)
(* get another one.  The count prevents it, so the invariant ties the count *)
(* to the instances, and a set of cardinality one to its only element.      *)
(***************************************************************************)
EXTENDS ExclusivePool, FiniteSetTheorems, TLAPS

\* Two identities never share a mutex.
PoolInjective ==
    \A i, j \in Identities : pool[i] = pool[j] /\ pool[i] # NoLock => i = j

\* A locked mutex is held by exactly one instance that is in.
HeldByOne ==
    /\ \A t \in Instances : pc[t] = "in" => lock[t] \in locked
    /\ \A t, u \in Instances : pc[t] = "in" /\ pc[u] = "in" /\ lock[t] = lock[u] => t = u
    /\ \A l \in locked : \E t \in Instances : pc[t] = "in" /\ lock[t] = l

PoolInv == TypeOK /\ Recycled /\ SameLock /\ PoolInjective /\ HeldByOne

\* The instances of an identity are finitely many.
LEMMA MembersFinite == \A i \in Identities : IsFiniteSet(Members(i))
<1> TAKE i \in Identities
<1>1. Members(i) \in SUBSET Instances
  BY DEF Members
<1> QED
  BY <1>1, FS_Subset, ExclusivePoolAssumption

\* The initial states satisfy the invariant.
LEMMA PoolInit == Init => PoolInv
<1> SUFFICES ASSUME Init PROVE PoolInv
  OBVIOUS
<1>1. \A i \in Identities : Members(i) = {}
  BY DEF Init, Members
<1>2. Recycled
  BY <1>1, FS_EmptySet DEF Recycled, Init
<1> QED
  BY <1>2 DEF Init, PoolInv, TypeOK, SameLock, PoolInjective, HeldByOne

\* CheckIn adds its instance to those of the identity, and to no other.
LEMMA CheckInStep ==
  ASSUME PoolInv, NEW t \in Instances, NEW i \in Identities, CheckIn(t, i)
  PROVE  PoolInv'
<1> USE ExclusivePoolAssumption
<1> PICK l \in Locks : /\ Find(i, l)
                       /\ pool' = [pool EXCEPT ![i] = l]
                       /\ lock' = [lock EXCEPT ![t] = l]
  BY DEF CheckIn
<1>0. /\ pc[t] = "out"
      /\ count' = [count EXCEPT ![i] = @ + 1]
      /\ pc' = [pc EXCEPT ![t] = "waiting"]
      /\ id' = [id EXCEPT ![t] = i]
      /\ locked' = locked
  BY DEF CheckIn
<1>1. TypeOK'
  BY <1>0 DEF PoolInv, TypeOK
<1>2. Members(i)' = Members(i) \cup {t} /\ t \notin Members(i)
  BY <1>0 DEF Members, PoolInv, TypeOK
<1>3. \A j \in Identities \ {i} : Members(j)' = Members(j)
  BY <1>0 DEF Members, PoolInv, TypeOK
<1>4. Cardinality(Members(i)') = Cardinality(Members(i)) + 1
  BY <1>2, MembersFinite, FS_AddElement
<1>5. Recycled'
  <2>1. count'[i] = Cardinality(Members(i)') /\ Members(i)' # {}
    BY <1>0, <1>2, <1>4 DEF PoolInv, TypeOK, Recycled
  <2>2. ASSUME NEW j \in Identities \ {i}
        PROVE  count'[j] = Cardinality(Members(j)') /\ (Members(j)' = {} => pool'[j] = NoLock)
    BY <1>0, <1>3 DEF PoolInv, TypeOK, Recycled
  <2> QED
    BY <2>1, <2>2 DEF Recycled
<1>6. pool[i] # NoLock => l = pool[i]
  BY DEF Find
<1>7. pool[i] = NoLock => Fresh(l)
  BY DEF Find
<1>8. pool[i] = NoLock => Members(i) = {}
  BY DEF PoolInv, SameLock, Members
<1>9. SameLock'
  BY <1>0, <1>6, <1>8 DEF PoolInv, TypeOK, SameLock, Members
<1>10. PoolInjective'
  BY <1>0, <1>6, <1>7 DEF PoolInv, TypeOK, PoolInjective, Fresh
<1>11. HeldByOne'
  BY <1>0 DEF PoolInv, TypeOK, HeldByOne
<1> QED
  BY <1>1, <1>5, <1>9, <1>10, <1>11 DEF PoolInv

\* Locking a mutex that is free makes its instance the only holder.
LEMMA EnterStep ==
  ASSUME PoolInv, NEW t \in Instances, Enter(t)
  PROVE  PoolInv'
<1>1. TypeOK'
  BY DEF PoolInv, TypeOK, Enter, SameLock
<1>2. \A i \in Identities : Members(i)' = Members(i)
  BY DEF Members, PoolInv, TypeOK, Enter
<1>3. Recycled'
  BY <1>2 DEF Recycled, PoolInv, Enter
<1>4. SameLock' /\ PoolInjective'
  BY DEF PoolInv, TypeOK, SameLock, PoolInjective, Enter
<1>5. HeldByOne'
  BY DEF PoolInv, TypeOK, HeldByOne, Enter
<1> QED
  BY <1>1, <1>3, <1>4, <1>5 DEF PoolInv

\* CheckOut deletes the entry only if its instance is the last one.
LEMMA CheckOutStep ==
  ASSUME PoolInv, NEW t \in Instances, CheckOut(t)
  PROVE  PoolInv'
<1>i. PICK i \in Identities : i = id[t]
  BY DEF PoolInv, TypeOK
<1>0. /\ i = id[t]
      /\ pc[t] = "in"
      /\ locked' = locked \ {lock[t]}
      /\ pc' = [pc EXCEPT ![t] = "out"]
      /\ id' = id /\ lock' = lock
  BY <1>i DEF CheckOut, PoolInv, TypeOK, SameLock
<1>1. Members(i)' = Members(i) \ {t} /\ t \in Members(i)
  BY <1>0 DEF Members, PoolInv, TypeOK
<1>2. \A j \in Identities \ {i} : Members(j)' = Members(j)
  BY <1>0 DEF Members, PoolInv, TypeOK
<1>3. Cardinality(Members(i)') = Cardinality(Members(i)) - 1
  BY <1>0, <1>1, MembersFinite, FS_RemoveElement
<1>4. count[i] = Cardinality(Members(i)) /\ count[i] \in Nat
  BY <1>0 DEF PoolInv, Recycled, TypeOK
<1>5. count[i] = 1 => Members(i) = {t}
  <2>1. IsFiniteSet(Members(i))
    BY <1>0, MembersFinite
  <2>2. ASSUME Cardinality(Members(i)) = 1 PROVE \E x : Members(i) = {x}
    BY <2>1, <2>2, FS_Singleton, Zenon
  <2> QED
    BY <1>1, <1>4, <2>2
<1>6. count[i] # 0
  BY <1>0, <1>1, <1>4, MembersFinite, FS_EmptySet
<1>7. /\ count' = [count EXCEPT ![i] = @ - 1]
      /\ pool' = IF count[i] = 1 THEN [pool EXCEPT ![i] = NoLock] ELSE pool
  BY <1>0 DEF CheckOut, PoolInv, TypeOK
<1>8. TypeOK'
  BY <1>0, <1>4, <1>6, <1>7 DEF PoolInv, TypeOK
<1>9. Recycled'
  <2>1. Members(i)' = {} => pool'[i] = NoLock
    <3>1. ASSUME Members(i)' = {} PROVE count[i] = 1
      BY <3>1, <1>3, <1>4, FS_EmptySet
    <3> QED
      BY <3>1, <1>0, <1>7 DEF PoolInv, TypeOK
  <2>2. count'[i] = Cardinality(Members(i)')
    BY <1>0, <1>3, <1>4, <1>7 DEF PoolInv, TypeOK
  <2>3. ASSUME NEW j \in Identities \ {i}
        PROVE  count'[j] = Cardinality(Members(j)') /\ (Members(j)' = {} => pool'[j] = NoLock)
    BY <1>0, <1>2, <1>7 DEF PoolInv, TypeOK, Recycled
  <2> QED
    BY <2>1, <2>2, <2>3 DEF Recycled
<1>10. SameLock'
  BY <1>0, <1>5, <1>7 DEF PoolInv, TypeOK, SameLock, Members
<1>11. PoolInjective'
  BY <1>0, <1>7 DEF PoolInv, TypeOK, PoolInjective
<1>12. HeldByOne'
  BY <1>0 DEF PoolInv, TypeOK, HeldByOne
<1> QED
  BY <1>8, <1>9, <1>10, <1>11, <1>12 DEF PoolInv

\* A step of the pool, or a stutter, keeps the invariant.
LEMMA PoolStep == PoolInv /\ [Next]_vars => PoolInv'
<1> SUFFICES ASSUME PoolInv, [Next]_vars PROVE PoolInv'
  OBVIOUS
<1>1. CASE UNCHANGED vars
  <2>1. \A i \in Identities : Members(i)' = Members(i)
    BY <1>1 DEF vars, Members
  <2> QED
    BY <1>1, <2>1 DEF vars, PoolInv, TypeOK, Recycled, SameLock, PoolInjective, HeldByOne
<1>2. CASE Next
  BY <1>2, CheckInStep, EnterStep, CheckOutStep DEF Next
<1> QED
  BY <1>1, <1>2

\* Two instances that are in with one identity have one mutex, hence are one.
LEMMA PoolExclusion == PoolInv => MutualExclusion
  BY DEF PoolInv, SameLock, HeldByOne, MutualExclusion

\* The invariant holds in every behaviour.
THEOREM PoolCorrect == Spec => []PoolInv
BY PoolInit, PoolStep, PTL DEF Spec

\* ExclusivePool.CheckIn and CheckOut: only one instance with an identity is
\* in at a time.
THEOREM PoolIsExclusive == Spec => []MutualExclusion
BY PoolCorrect, PoolExclusion, PTL

\* The mutex of an identity is in the map, and the same one, exactly as long
\* as an instance has checked in with the identity.
THEOREM LocksLiveWithUsers == Spec => []LockLivesWithUsers
<1>1. PoolInv => LockLivesWithUsers
  BY DEF PoolInv, LockLivesWithUsers
<1> QED
  BY <1>1, PoolCorrect, PTL

\* An instance waits for one that is in, with its own identity; or for nobody,
\* and then the mutex is free.
WaitsForSomebody ==
    \A t \in Instances : pc[t] = "waiting" /\ lock[t] \in locked =>
        \E u \in Instances : pc[u] = "in" /\ id[u] = id[t]

\* exclusive_pool.go CheckIn: nobody waits on a mutex that was left locked, or
\* that the map no longer knows, though entries are deleted while others are
\* looked up: the half of CheckInReturns that does not depend on the scheduler.
THEOREM NobodyIsForgotten == Spec => []WaitsForSomebody
<1>1. PoolInv => WaitsForSomebody
  <2> SUFFICES ASSUME PoolInv, NEW t \in Instances, pc[t] = "waiting", lock[t] \in locked
               PROVE  \E u \in Instances : pc[u] = "in" /\ id[u] = id[t]
    BY DEF WaitsForSomebody
  <2>1. PICK u \in Instances : pc[u] = "in" /\ lock[u] = lock[t]
    BY DEF PoolInv, HeldByOne
  <2>2. id[u] = id[t]
    BY <2>1 DEF PoolInv, TypeOK, SameLock, PoolInjective
  <2> QED
    BY <2>1, <2>2
<1> QED
  BY <1>1, PoolCorrect, PTL
=============================================================================
