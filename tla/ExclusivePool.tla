---------------------------- MODULE ExclusivePool ----------------------------
(***************************************************************************)
(* modules/sync/exclusive_pool.go: one mutex per identity, made when the    *)
(* first instance checks in and thrown away when the last one checks out.   *)
(* Pull requests, repository transfers and wikis take it to work on the     *)
(* files of one repository at a time.                                       *)
(*                                                                          *)
(* The pool's own lock is held over sections that never block, so each of   *)
(* them is one step.  An instance remembers the mutex that CheckIn found,   *)
(* while CheckOut looks it up again.                                        *)
(***************************************************************************)
EXTENDS Integers, FiniteSets

CONSTANTS
    Instances,   \* goroutines that check in and out
    Identities,  \* what they work on
    Locks,       \* the mutexes there are to allocate
    NoLock

ASSUME ExclusivePoolAssumption ==
    /\ IsFiniteSet(Instances)
    /\ NoLock \notin Locks

VARIABLES
    pool,    \* p.pool; NoLock where the map has no entry
    count,   \* p.count; 0 where the map has no entry
    locked,  \* the mutexes that are locked
    pc,      \* each instance: "out", "waiting" for its mutex, or "in"
    id,      \* the identity it checked in with
    lock     \* the mutex CheckIn found

vars == <<pool, count, locked, pc, id, lock>>

Init ==
    /\ pool = [i \in Identities |-> NoLock]
    /\ count = [i \in Identities |-> 0]
    /\ locked = {}
    /\ pc = [t \in Instances |-> "out"]
    /\ id \in [Instances -> Identities]
    /\ lock = [t \in Instances |-> NoLock]

Members(i) == {t \in Instances : pc[t] # "out" /\ id[t] = i}

\* A mutex nobody refers to: &sync.Mutex{} returns one.
Fresh(l) ==
    /\ l \in Locks \ locked
    /\ \A i \in Identities : pool[i] # l
    /\ \A t \in Instances : pc[t] # "out" => lock[t] # l

Find(i, l) ==
    IF pool[i] # NoLock THEN l = pool[i] ELSE Fresh(l)

\* CheckIn, up to the release of p.lock.
CheckIn(t, i) ==
    /\ pc[t] = "out"
    /\ \E l \in Locks :
          /\ Find(i, l)
          /\ pool' = [pool EXCEPT ![i] = l]
          /\ lock' = [lock EXCEPT ![t] = l]
    /\ count' = [count EXCEPT ![i] = @ + 1]
    /\ pc' = [pc EXCEPT ![t] = "waiting"]
    /\ id' = [id EXCEPT ![t] = i]
    /\ UNCHANGED locked

\* lock.Lock() at the end of CheckIn.
Enter(t) ==
    /\ pc[t] = "waiting"
    /\ lock[t] \notin locked
    /\ locked' = locked \cup {lock[t]}
    /\ pc' = [pc EXCEPT ![t] = "in"]
    /\ UNCHANGED <<pool, count, id, lock>>

\* Mutants: the entry goes with the first instance that leaves, or stays for ever.
CheckOutDeletes(t) ==
    /\ pc[t] = "in"
    /\ locked' = locked \ {pool[id[t]]}
    /\ pool' = [pool EXCEPT ![id[t]] = NoLock]
    /\ count' = [count EXCEPT ![id[t]] = @ - 1]
    /\ pc' = [pc EXCEPT ![t] = "out"]
    /\ UNCHANGED <<id, lock>>

CheckOutKeeps(t) ==
    /\ pc[t] = "in"
    /\ locked' = locked \ {pool[id[t]]}
    /\ count' = [count EXCEPT ![id[t]] = @ - 1]
    /\ pc' = [pc EXCEPT ![t] = "out"]
    /\ UNCHANGED <<pool, id, lock>>

\* Mutant: the mutex is not unlocked.
CheckOutLocked(t) ==
    /\ pc[t] = "in"
    /\ count' = [count EXCEPT ![id[t]] = @ - 1]
    /\ pool' = IF count[id[t]] = 1 THEN [pool EXCEPT ![id[t]] = NoLock] ELSE pool
    /\ pc' = [pc EXCEPT ![t] = "out"]
    /\ UNCHANGED <<locked, id, lock>>

CheckOut(t) ==
    /\ pc[t] = "in"
    /\ locked' = locked \ {pool[id[t]]}
    /\ IF count[id[t]] = 1
       THEN /\ pool' = [pool EXCEPT ![id[t]] = NoLock]
            /\ count' = [count EXCEPT ![id[t]] = 0]
       ELSE /\ count' = [count EXCEPT ![id[t]] = @ - 1]
            /\ UNCHANGED pool
    /\ pc' = [pc EXCEPT ![t] = "out"]
    /\ UNCHANGED <<id, lock>>

Next == \E t \in Instances : Enter(t) \/ CheckOut(t) \/ \E i \in Identities : CheckIn(t, i)

Spec == Init /\ [][Next]_vars

(***************************************************************************)
(* An instance leaves in the end, and sync.Mutex is starvation free: one    *)
(* that waits while the mutex is unlocked again and again gets it.          *)
(***************************************************************************)
Fairness == \A t \in Instances : SF_vars(Enter(t)) /\ WF_vars(CheckOut(t))

FairSpec == Spec /\ Fairness

-----------------------------------------------------------------------------
(***************************************************************************)
(* Properties                                                              *)
(***************************************************************************)

\* Each variable ranges over the values its Go counterpart can hold.
TypeOK ==
    /\ pool \in [Identities -> Locks \cup {NoLock}]
    /\ count \in [Identities -> Nat]
    /\ locked \subseteq Locks
    /\ pc \in [Instances -> {"out", "waiting", "in"}]
    /\ id \in [Instances -> Identities]
    /\ lock \in [Instances -> Locks \cup {NoLock}]

\* exclusive_pool.go:10-14: only one instance with an identity is in the pool
\* at a time, though mutexes come and go.
MutualExclusion ==
    \A t, u \in Instances : pc[t] = "in" /\ pc[u] = "in" /\ id[t] = id[u] => t = u

\* exclusive_pool.go:24-28: count is the number of instances that checked in
\* with the identity, and the map keeps an entry only for those that have some.
Recycled ==
    \A i \in Identities :
        /\ count[i] = Cardinality(Members(i))
        /\ Members(i) = {} => pool[i] = NoLock

\* CheckOut unlocks the mutex its instance locked, and whoever waits on a
\* mutex waits on the one in the map.
SameLock == \A t \in Instances : pc[t] # "out" => lock[t] # NoLock /\ lock[t] = pool[id[t]]

\* The two together: the mutex of an identity lives as long as somebody has
\* checked in with it, and no longer.
LockLivesWithUsers == Recycled /\ SameLock

\* An instance that checks in gets in.
CheckInReturns == \A t \in Instances : pc[t] = "waiting" ~> pc[t] = "in"
=============================================================================
