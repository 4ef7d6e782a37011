----------------------------- MODULE ItemLedger -----------------------------
(***************************************************************************)
(* What a worker pool queue promises for each item a Push accepted, with    *)
(* batches, goroutines and channels out of sight: the item waits, runs in   *)
(* the handler, and ends handled, given up or removed; it may go back and   *)
(* forth between waiting and running, and where it ends it stays.           *)
(***************************************************************************)
CONSTANT Items

VARIABLE status

Outcomes == {"handled", "lost", "removed"}

Init == status = [i \in Items |-> "new"]

Move(S, from, to) ==
    /\ S # {}
    /\ \A i \in S : status[i] \in from
    /\ status' = [i \in Items |-> IF i \in S THEN to ELSE status[i]]

Accept(S) == Move(S, {"new"}, "waiting")

Take(S) == Move(S, {"waiting"}, "running")

\* The handler returns; those it did not handle keep running until requeued.
Finish(S) == Move(S, {"running"}, "handled")

Requeue(S) == Move(S, {"running"}, "waiting")

GiveUp(S) == Move(S, {"waiting", "running"}, "lost")

Remove(S) == Move(S, {"waiting"}, "removed")

\* The handler's last call, whose unhandled items nobody requeues.
FinishLast(S, left) ==
    /\ left \subseteq S
    /\ \A i \in S : status[i] = "running"
    /\ status' = [i \in Items |-> IF i \in left THEN "lost"
                                  ELSE IF i \in S THEN "handled" ELSE status[i]]

Next ==
    \E S \in SUBSET Items :
        \/ Accept(S) \/ Take(S) \/ Finish(S) \/ Requeue(S) \/ GiveUp(S) \/ Remove(S)
        \/ \E left \in SUBSET S : FinishLast(S, left)

Spec == Init /\ [][Next]_status
=============================================================================
