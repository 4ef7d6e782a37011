--------------------------- MODULE GracefulServer ---------------------------
(***************************************************************************)
(* modules/graceful/server.go and server_hooks.go: one listening server,    *)
(* composed with the manager of GracefulManager.  Two goroutines of the     *)
(* server follow the manager's contexts and each other's state: Serve,      *)
(* which accepts connections and then waits for them, and awaitShutdown,    *)
(* which closes the listener and, at hammer time, empties the wait group.   *)
(*                                                                          *)
(* The wait group is Go's: its counter is changed first and checked after,  *)
(* so the Done that panics leaves it negative; a waiter is released when    *)
(* the counter reaches zero and panics if it is no longer zero on waking.   *)
(***************************************************************************)
EXTENDS GracefulManager

CONSTANTS
    Server,        \* the goroutine of Serve, as the manager counts it
    Conns,         \* connections that arrive
    AcceptMayFail  \* the serve function may return with the listener open

ASSUME GracefulServerAssumption ==
    /\ Server \notin Callers \cup TerminateFns
    /\ IsFiniteSet(Conns)
    /\ AcceptMayFail \in BOOLEAN

VARIABLES
    srv,        \* srv.state
    serve,      \* where Serve stands
    await,      \* where awaitShutdown stands
    listening,  \* the listener is open
    conn,       \* each connection: "none", "accepted", "open" or "closed"
    counter,    \* srv.wg: its counter ...
    waiting     \* ... and whether Serve is its waiter

serverVars == <<srv, serve, await, listening, conn, counter, waiting>>
vars == <<managerVars, serverVars>>

Init ==
    /\ ManagerInit
    /\ srv = "init" /\ serve = "new" /\ await = "select"
    /\ listening = TRUE
    /\ conn = [c \in Conns |-> "none"]
    /\ counter = 0 /\ waiting = FALSE

-----------------------------------------------------------------------------
(* sync.WaitGroup.  Done is Add(-1), which panics when the counter is negative *)

Done ==
    /\ counter' = counter - 1
    /\ waiting' = (waiting /\ counter' # 0)

Negative == counter' < 0

-----------------------------------------------------------------------------
(* Serve *)

ServeBegin ==
    /\ serve = "new"
    /\ srv' = "running"
    /\ serve' = "register"
    /\ UNCHANGED <<managerVars, await, listening, conn, counter, waiting>>

\* Mutant: the server does not register with the manager.
ServeUnregistered ==
    /\ serve = "register"
    /\ serve' = "accept"
    /\ UNCHANGED <<managerVars, srv, await, listening, conn, counter, waiting>>

ServeRegister ==
    /\ serve = "register"
    /\ RegisterServer
    /\ Registers(Server, ServersAwaited)
    /\ serve' = "accept"
    /\ UNCHANGED <<state, closed, caller, timer, waiter, runner, shutFn, termFn, forked,
                   child, signals, srv, await, listening, conn, counter, waiting>>

\* wrappedListener.Accept: the connection first, the wait group second.
Accept(c) ==
    /\ serve = "accept"
    /\ listening
    /\ conn[c] = "none"
    /\ conn' = [conn EXCEPT ![c] = "accepted"]
    /\ serve' = "add"
    /\ UNCHANGED <<managerVars, srv, await, listening, counter, waiting>>

\* Add(1) panics, as Done does, when it leaves the counter negative.
AddConn(c) ==
    /\ conn[c] = "accepted"
    /\ conn' = [conn EXCEPT ![c] = "open"]
    /\ counter' = counter + 1
    /\ serve' = IF Negative THEN "panicked" ELSE "accept"
    /\ UNCHANGED <<managerVars, srv, await, listening, waiting>>

\* Mutant: a closed connection stays in the wait group.
CloseConnUncounted(c) ==
    /\ conn[c] = "open"
    /\ conn' = [conn EXCEPT ![c] = "closed"]
    /\ UNCHANGED <<managerVars, srv, serve, await, listening, counter, waiting>>

\* wrappedConn.Close recovers from a panic of Done.
CloseConn(c) ==
    /\ conn[c] = "open"
    /\ conn' = [conn EXCEPT ![c] = "closed"]
    /\ Done
    /\ UNCHANGED <<managerVars, srv, serve, await, listening>>

ServeEnds ==
    /\ serve = "accept"
    /\ ~listening \/ AcceptMayFail
    /\ serve' = "wait"
    /\ UNCHANGED <<managerVars, srv, await, listening, conn, counter, waiting>>

\* Mutant: Serve does not wait for its connections.
WaitNoConns ==
    /\ serve = "wait"
    /\ serve' = "finish"
    /\ UNCHANGED <<managerVars, srv, await, listening, conn, counter, waiting>>

\* srv.wg.Wait()
WaitConns ==
    /\ serve = "wait"
    /\ IF counter = 0
       THEN serve' = "finish" /\ UNCHANGED waiting
       ELSE serve' = "blocked" /\ waiting' = TRUE
    /\ UNCHANGED <<managerVars, srv, await, listening, conn, counter>>

\* Released, Serve wakes up and looks at the wait group again.
WakeUp ==
    /\ serve = "blocked"
    /\ ~waiting
    /\ serve' = IF counter = 0 THEN "finish" ELSE "panicked"
    /\ UNCHANGED <<managerVars, srv, await, listening, conn, counter, waiting>>

ServeFinish ==
    /\ serve = "finish"
    /\ srv' = "terminate"
    /\ serve' = "unregister"
    /\ UNCHANGED <<managerVars, await, listening, conn, counter, waiting>>

\* Mutant: Serve returns without telling the manager.
ServeReturnSilent ==
    /\ serve = "unregister"
    /\ serve' = "returned"
    /\ UNCHANGED <<managerVars, srv, await, listening, conn, counter, waiting>>

ServeReturn ==
    /\ serve = "unregister"
    /\ ServerDone
    /\ serve' = "returned"
    /\ UNCHANGED <<state, closed, caller, timer, waiter, runner, shutFn, termFn, forked,
                   child, signals, late, srv, await, listening, conn, counter, waiting>>

-----------------------------------------------------------------------------
(* awaitShutdown.  After "shutdown_early" it calls doHammer twice. *)

AwaitSelect ==
    /\ await = "select"
    /\ \/ "shutdown" \in closed /\ await' = "shutdown"
       \/ "hammer" \in closed /\ await' = "shutdown_early"
    /\ UNCHANGED <<managerVars, srv, serve, listening, conn, counter, waiting>>

AfterShutdown == IF await \in {"shutdown", "close"} THEN "await_hammer" ELSE "hammer_early"

\* doShutdown reads the state ...
CheckRunning ==
    /\ await \in {"shutdown", "shutdown_early"}
    /\ await' = IF srv # "running" THEN AfterShutdown
                ELSE IF await = "shutdown" THEN "close" ELSE "close_early"
    /\ UNCHANGED <<managerVars, srv, serve, listening, conn, counter, waiting>>

\* ... and then sets it and closes the listener.
CloseListener ==
    /\ await \in {"close", "close_early"}
    /\ srv' = "shuttingDown"
    /\ listening' = FALSE
    /\ await' = AfterShutdown
    /\ UNCHANGED <<managerVars, serve, conn, counter, waiting>>

AwaitHammer ==
    /\ await = "await_hammer"
    /\ "hammer" \in closed
    /\ await' = "hammer"
    /\ UNCHANGED <<managerVars, srv, serve, listening, conn, counter, waiting>>

AfterHammer == IF await \in {"hammer", "force"} THEN "end" ELSE "await_hammer"

\* doHammer returns at once unless doShutdown has closed the listener.
HammerBegin ==
    /\ await \in {"hammer", "hammer_early"}
    /\ await' = IF srv # "shuttingDown" THEN AfterHammer
                ELSE IF await = "hammer" THEN "force" ELSE "force_early"
    /\ UNCHANGED <<managerVars, srv, serve, listening, conn, counter, waiting>>

\* Done again and again, until Serve has finished or Done panics.
HammerForce ==
    /\ await \in {"force", "force_early"}
    /\ IF srv = "terminate"
       THEN await' = AfterHammer /\ UNCHANGED <<counter, waiting>>
       ELSE Done /\ await' = IF Negative THEN AfterHammer ELSE await
    /\ UNCHANGED <<managerVars, srv, serve, listening, conn>>

-----------------------------------------------------------------------------
ServeStep ==
    \/ ServeBegin \/ ServeRegister \/ ServeEnds \/ WaitConns \/ WakeUp
    \/ ServeFinish \/ ServeReturn
    \/ \E c \in Conns : AddConn(c)

AwaitStep ==
    \/ AwaitSelect \/ CheckRunning \/ CloseListener \/ AwaitHammer
    \/ HammerBegin \/ HammerForce

Next ==
    \/ ManagerNext /\ UNCHANGED serverVars
    \/ ServeStep \/ AwaitStep
    \/ \E c \in Conns : Accept(c) \/ CloseConn(c)

Spec == Init /\ [][Next]_vars

(***************************************************************************)
(* The two goroutines and the manager's keep running; a Serve that accepts  *)
(* ends once the listener is closed, and may go on for ever until then.  A  *)
(* connection owes its end only after the hammer context, which is its      *)
(* request's context, is cancelled.                                         *)
(***************************************************************************)
Fairness ==
    /\ WF_vars((serve = "accept" => ~listening) /\ ServeStep) /\ SF_vars(AwaitStep)
    /\ \A c \in Conns : WF_vars("hammer" \in closed /\ CloseConn(c))
    /\ \A c \in Callers : WF_vars(CallerStep(c) /\ UNCHANGED serverVars)
    /\ WF_vars(HammerTime /\ UNCHANGED serverVars)
    /\ WF_vars(WaiterStep /\ UNCHANGED serverVars)

FairSpec == Spec /\ Fairness

-----------------------------------------------------------------------------
(***************************************************************************)
(* Properties                                                              *)
(***************************************************************************)

\* Each variable ranges over the values its Go counterpart can hold.
TypeOK ==
    /\ ManagerVarsOK
    /\ late \subseteq Runners \cup TerminateFns \cup {Server}
    /\ srv \in {"init", "running", "shuttingDown", "terminate"}
    /\ serve \in {"new", "register", "accept", "add", "wait", "blocked", "panicked", "finish",
                  "unregister", "returned"}
    /\ await \in {"select", "shutdown", "shutdown_early", "close", "close_early",
                  "await_hammer", "hammer", "hammer_early", "force", "force_early", "end"}
    /\ listening \in BOOLEAN
    /\ conn \in [Conns -> {"none", "accepted", "open", "closed"}]
    /\ counter \in Int /\ waiting \in BOOLEAN

Open == {c \in Conns : conn[c] = "open"}

\* server.go:175-177: outstanding connections are served before the server
\* goes down; only the hammer cuts a connection short.
ConnsAreServed == serve \in {"finish", "unregister", "returned"} => Open = {} \/ "hammer" \in closed

\* While nobody hammers, the wait group counts the open connections.
CounterExact == "hammer" \notin closed => counter = Cardinality(Open)

Drained ==
    /\ ~listening
    /\ \A c \in Conns : conn[c] \in {"none", "closed"}

\* manager.go:275: a server the manager waits for, with its listener closed and
\* its connections gone, returns from Serve, and the process can end; unless it
\* is hammered before Serve returns.
IdleServerEnds ==
    Drained /\ running > 0 /\ waiter = "servers" ~>
        IF serve = "returned" THEN "manager" \in closed ELSE "hammer" \in closed

\* Where Serve stands, as a runner; one that panicked has not left.
ServerRuns ==
    CASE serve \in {"new", "register"} -> "out"
      [] serve = "returned" -> "left"
      [] OTHER -> "in"

\* What the manager keeps of each runner, and of the server beside them.
WithServer(f, v) == [r \in DOMAIN f \cup {Server} |-> IF r = Server THEN v ELSE f[r]]

Manager ==
    INSTANCE GracefulManager
    WITH Runners <- Runners \cup {Server},
         runner <- WithServer(runner, ServerRuns),
         shutFn <- WithServer(shutFn, "unset"),
         caller <- WithServer(caller, "idle")

\* server.go:181 and 186: the manager and the server that registers with it are
\* the manager alone with one runner more, so that what it promises its runners
\* it promises the server.
ImplementsManager == Manager!ManagerSpec
=============================================================================
