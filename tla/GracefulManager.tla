-------------------------- MODULE GracefulManager --------------------------
(***************************************************************************)
(* modules/graceful/manager.go and manager_unix.go: how the process goes    *)
(* from running to its end.  Four contexts are cancelled on the way, and    *)
(* closed is the set of those that are: the shutdown context asks servers   *)
(* to stop, the hammer context forces them to, the terminate context starts *)
(* the last callbacks, the manager context lets main return.                *)
(*                                                                          *)
(* doShutdown is called by the goroutine of handleSignals and by a runner   *)
(* that panics; each caller goes through it step by step.                   *)
(***************************************************************************)
EXTENDS Integers, FiniteSets

CONSTANTS
    Sig,           \* the goroutine of handleSignals
    Runners,       \* goroutines in RunWithShutdownFns or RunWithShutdownContext
    TerminateFns,  \* functions given to RunAtTerminate
    Signals,       \* the signals that arrive: "HUP", "USR2", "TERM"
    MaxSignals,    \* bound: how many of them
    HammerTimer,   \* setting.GracefulHammerTime >= 0
    RunnersPanic   \* a runner may panic

Callers == {Sig} \cup Runners

Contexts == {"shutdown", "hammer", "terminate", "manager"}

ASSUME GracefulManagerAssumption ==
    /\ Sig \notin Runners
    /\ IsFiniteSet(Runners)
    /\ IsFiniteSet(TerminateFns)
    /\ Signals \subseteq {"HUP", "USR2", "TERM"}
    /\ MaxSignals \in Nat
    /\ HammerTimer \in BOOLEAN
    /\ RunnersPanic \in BOOLEAN
    /\ Runners \cap TerminateFns = {}

VARIABLES
    state,      \* g.state
    closed,     \* the contexts that are cancelled
    caller,     \* where each caller of doShutdown stands
    timer,      \* the goroutine that sleeps for GracefulHammerTime
    waiter,     \* the goroutine doShutdown leaves behind
    running,    \* the counter of runningServerWaitGroup
    runner,     \* each runner: "out", "in", "panicking" or "left"
    shutFn,     \* the function each runner gives to atShutdown
    termFn,     \* each RunAtTerminate function
    forked,     \* g.forked
    child,      \* the process doFork started
    signals,    \* signals received, up to MaxSignals
    late        \* history: who registered when the wait for its kind was over

managerVars == <<state, closed, caller, timer, waiter, running, runner, shutFn,
                 termFn, forked, child, signals, late>>

ManagerInit ==
    /\ state = "running"
    /\ closed = {}
    /\ caller = [c \in Callers |-> "idle"]
    /\ timer = "off"
    /\ waiter = "off"
    /\ running = 0
    /\ runner = [r \in Runners |-> "out"]
    /\ shutFn = [r \in Runners |-> "unset"]
    /\ termFn = [f \in TerminateFns |-> "unset"]
    /\ forked = FALSE
    /\ child = "none"
    /\ signals = 0
    /\ late = {}

CallerGoes(c, place) == caller' = [caller EXCEPT ![c] = place]

-----------------------------------------------------------------------------
(* handleSignals: one signal at a time *)

Receive(s) ==
    /\ s \in Signals
    /\ signals < MaxSignals
    /\ signals' = signals + 1
    /\ caller[Sig] = "idle"
    /\ "manager" \notin closed

SigTerm ==
    /\ Receive("TERM")
    /\ CallerGoes(Sig, "shutdown")
    /\ UNCHANGED <<state, closed, timer, waiter, running, runner, shutFn, termFn, forked,
                   child, late>>

SigUsr2 ==
    /\ Receive("USR2")
    /\ CallerGoes(Sig, "hammer")
    /\ UNCHANGED <<state, closed, timer, waiter, running, runner, shutFn, termFn, forked,
                   child, late>>

\* DoGracefulRestart: the first one forks, the next one hammers; both then
\* call doShutdown, and so does one whose fork fails.
SigHup ==
    /\ Receive("HUP")
    /\ forked' = TRUE
    /\ IF forked
       THEN CallerGoes(Sig, "hammer_shutdown") /\ UNCHANGED child
       ELSE CallerGoes(Sig, "shutdown") /\ child' \in {"none", "starting"}
    /\ UNCHANGED <<state, closed, timer, waiter, running, runner, shutFn, termFn, late>>

\* In the child, RegisterServer calls KillParent: SIGTERM, once.
ChildKillsParent ==
    /\ child = "starting"
    /\ caller[Sig] = "idle"
    /\ child' = "serving"
    /\ IF "manager" \in closed THEN UNCHANGED caller ELSE CallerGoes(Sig, "shutdown")
    /\ UNCHANGED <<state, closed, timer, waiter, running, runner, shutFn, termFn, forked,
                   signals, late>>

-----------------------------------------------------------------------------
(* doShutdown, doHammerTime and doTerminate *)

\* Mutant: the state is set without being tested.
DoShutdownAlways(c) ==
    /\ caller[c] = "shutdown"
    /\ state' = "shuttingDown"
    /\ CallerGoes(c, "won")
    /\ UNCHANGED <<closed, timer, waiter, running, runner, shutFn, termFn, forked, child,
                   signals, late>>

\* setStateTransition decides who shuts down; whoever comes later hammers.
DoShutdown(c) ==
    /\ caller[c] = "shutdown"
    /\ IF state = "running"
       THEN state' = "shuttingDown" /\ CallerGoes(c, "won")
       ELSE UNCHANGED state /\ CallerGoes(c, "hammer")
    /\ UNCHANGED <<closed, timer, waiter, running, runner, shutFn, termFn, forked, child,
                   signals, late>>

DoShutdownWon(c) ==
    /\ caller[c] = "won"
    /\ closed' = closed \cup {"shutdown"}
    /\ timer' = IF HammerTimer THEN "armed" ELSE "off"
    /\ waiter' = "servers"
    /\ shutFn' = [r \in Runners |-> IF shutFn[r] = "set" THEN "launched" ELSE shutFn[r]]
    /\ CallerGoes(c, "idle")
    /\ UNCHANGED <<state, running, runner, termFn, forked, child, signals, late>>

DoImmediateHammer(c) ==
    /\ caller[c] \in {"hammer", "hammer_shutdown"}
    /\ closed' = closed \cup {"hammer"}
    /\ CallerGoes(c, IF caller[c] = "hammer" THEN "idle" ELSE "shutdown")
    /\ UNCHANGED <<state, timer, waiter, running, runner, shutFn, termFn, forked, child,
                   signals, late>>

HammerTime ==
    /\ timer = "armed"
    /\ timer' = "fired"
    /\ closed' = closed \cup {"hammer"}
    /\ UNCHANGED <<state, caller, waiter, running, runner, shutFn, termFn, forked, child,
                   signals, late>>

\* Mutant: nobody waits for the servers.
WaitForNoServers ==
    /\ waiter = "servers"
    /\ waiter' = "hammer"
    /\ UNCHANGED <<state, closed, caller, timer, running, runner, shutFn, termFn, forked, child,
                   signals, late>>

WaitForServers ==
    /\ waiter = "servers"
    /\ running = 0
    /\ waiter' = "hammer"
    /\ UNCHANGED <<state, closed, caller, timer, running, runner, shutFn, termFn, forked, child,
                   signals, late>>

MopUp ==
    /\ waiter = "hammer"
    /\ closed' = closed \cup {"hammer"}
    /\ waiter' = "terminate"
    /\ UNCHANGED <<state, caller, timer, running, runner, shutFn, termFn, forked, child,
                   signals, late>>

\* One second later.  A RunAtTerminate under way may still append its function
\* afterwards, which nobody then runs.
DoTerminate ==
    /\ waiter = "terminate"
    /\ state' = "terminate"
    /\ closed' = closed \cup {"terminate"}
    /\ termFn' = [f \in TerminateFns |-> IF termFn[f] = "set" THEN "launched" ELSE termFn[f]]
    /\ waiter' = "fns"
    /\ UNCHANGED <<caller, timer, running, runner, shutFn, forked, child, signals, late>>

\* The counter of terminateWaitGroup.
Terminating == Cardinality({f \in TerminateFns : termFn[f] \in {"counted", "set", "launched"}})

\* Mutant: nobody waits for the terminating functions.
WaitForNothing ==
    /\ waiter = "fns"
    /\ closed' = closed \cup {"manager"}
    /\ waiter' = "end"
    /\ UNCHANGED <<state, caller, timer, running, runner, shutFn, termFn, forked, child,
                   signals, late>>

WaitForTerminate ==
    /\ waiter = "fns"
    /\ Terminating = 0
    /\ closed' = closed \cup {"manager"}
    /\ waiter' = "end"
    /\ UNCHANGED <<state, caller, timer, running, runner, shutFn, termFn, forked, child,
                   signals, late>>

-----------------------------------------------------------------------------
(* Runners, and the functions run at termination *)

RegisterServer == running' = running + 1

ServerDone == running' = running - 1

\* Whoever registers once the goroutine of doShutdown has waited for those of
\* its kind comes too late to be waited for; nothing in the code forbids it.
Registers(x, waited) == late' = IF waited THEN late \cup {x} ELSE late

ServersAwaited == waiter \notin {"off", "servers"}

TerminateAwaited == waiter = "end"

RunnerEnter(r) ==
    /\ runner[r] = "out"
    /\ RegisterServer
    /\ Registers(r, ServersAwaited)
    /\ runner' = [runner EXCEPT ![r] = "in"]
    /\ UNCHANGED <<state, closed, caller, timer, waiter, shutFn, termFn, forked, child, signals>>

\* atShutdown(f) inside RunWithShutdownFns: f joins toRunAtShutdown.
RunnerRegisters(r) ==
    /\ runner[r] = "in"
    /\ shutFn[r] = "unset"
    /\ shutFn' = [shutFn EXCEPT ![r] = "set"]
    /\ UNCHANGED <<state, closed, caller, timer, waiter, running, runner, termFn, forked,
                   child, signals, late>>

RunnerPanic(r) ==
    /\ RunnersPanic
    /\ runner[r] = "in"
    /\ runner' = [runner EXCEPT ![r] = "panicking"]
    /\ CallerGoes(r, "shutdown")
    /\ UNCHANGED <<state, closed, timer, waiter, running, shutFn, termFn, forked, child,
                   signals, late>>

\* Mutant: a runner that panicked does not call Done.
RunnerLeaveUncounted(r) ==
    /\ runner[r] \in {"in", "panicking"}
    /\ caller[r] = "idle"
    /\ IF runner[r] = "in" THEN ServerDone ELSE UNCHANGED running
    /\ runner' = [runner EXCEPT ![r] = "left"]
    /\ UNCHANGED <<state, closed, caller, timer, waiter, shutFn, termFn, forked, child,
                   signals, late>>

\* The deferred calls: doShutdown after a panic, then Done.
RunnerLeave(r) ==
    /\ runner[r] \in {"in", "panicking"}
    /\ caller[r] = "idle"
    /\ ServerDone
    /\ runner' = [runner EXCEPT ![r] = "left"]
    /\ UNCHANGED <<state, closed, caller, timer, waiter, shutFn, termFn, forked, child,
                   signals, late>>

\* RunAtTerminate: Add(1) first, the append under the lock second.
RunAtTerminate(f) ==
    /\ \/ /\ termFn[f] = "unset"
          /\ termFn' = [termFn EXCEPT ![f] = "counted"]
          /\ Registers(f, TerminateAwaited)
       \/ /\ termFn[f] = "counted"
          /\ termFn' = [termFn EXCEPT ![f] = "set"]
          /\ UNCHANGED late
    /\ UNCHANGED <<state, closed, caller, timer, waiter, running, runner, shutFn, forked, child,
                   signals>>

TerminateFnReturns(f) ==
    /\ termFn[f] = "launched"
    /\ termFn' = [termFn EXCEPT ![f] = "done"]
    /\ UNCHANGED <<state, closed, caller, timer, waiter, running, runner, shutFn, forked, child,
                   signals, late>>

-----------------------------------------------------------------------------
SignalStep == SigTerm \/ SigUsr2 \/ SigHup \/ ChildKillsParent

CallerStep(c) == DoShutdown(c) \/ DoShutdownWon(c) \/ DoImmediateHammer(c)

WaiterStep == WaitForServers \/ MopUp \/ DoTerminate \/ WaitForTerminate

ManagerNext ==
    \/ SignalStep
    \/ \E c \in Callers : CallerStep(c)
    \/ HammerTime \/ WaiterStep
    \/ \E r \in Runners : RunnerEnter(r) \/ RunnerRegisters(r) \/ RunnerPanic(r) \/ RunnerLeave(r)
    \/ \E f \in TerminateFns : RunAtTerminate(f) \/ TerminateFnReturns(f)

ManagerSpec == ManagerInit /\ [][ManagerNext]_managerVars

(***************************************************************************)
(* Goroutines keep running.  A runner owes its return once the shutdown     *)
(* context is cancelled (manager.go:58-66); callers owe no signal.          *)
(***************************************************************************)
ManagerFairness ==
    /\ \A c \in Callers : WF_managerVars(CallerStep(c))
    /\ WF_managerVars(HammerTime)
    /\ WF_managerVars(WaiterStep)
    /\ \A r \in Runners : WF_managerVars("shutdown" \in closed /\ RunnerLeave(r))
    /\ \A f \in TerminateFns :
          /\ WF_managerVars(termFn[f] = "counted" /\ RunAtTerminate(f))
          /\ WF_managerVars(TerminateFnReturns(f))

FairManagerSpec == ManagerSpec /\ ManagerFairness

-----------------------------------------------------------------------------
(***************************************************************************)
(* Properties                                                              *)
(***************************************************************************)

\* Each variable ranges over the values its Go counterpart can hold.
ManagerVarsOK ==
    /\ state \in {"running", "shuttingDown", "terminate"}
    /\ closed \subseteq Contexts
    /\ caller \in [Callers -> {"idle", "shutdown", "won", "hammer", "hammer_shutdown"}]
    /\ timer \in {"off", "armed", "fired"}
    /\ waiter \in {"off", "servers", "hammer", "terminate", "fns", "end"}
    /\ running \in Nat
    /\ runner \in [Runners -> {"out", "in", "panicking", "left"}]
    /\ shutFn \in [Runners -> {"unset", "set", "launched"}]
    /\ termFn \in [TerminateFns -> {"unset", "counted", "set", "launched", "done"}]
    /\ forked \in BOOLEAN
    /\ child \in {"none", "starting", "serving"}
    /\ signals \in 0 .. MaxSignals

ManagerTypeOK ==
    /\ ManagerVarsOK
    /\ late \subseteq Runners \cup TerminateFns

\* doShutdown and doTerminate: whatever signals and panics come, only one
\* caller ever shuts the process down, and it terminates after the shutdown
\* and the hammer.
OneShutdown ==
    /\ \A c, d \in Callers : caller[c] = "won" /\ caller[d] = "won" => c = d
    /\ \A c \in Callers : caller[c] = "won" => closed \subseteq {"hammer"} /\ waiter = "off"
    /\ "terminate" \in closed => {"shutdown", "hammer"} \subseteq closed

\* manager.go:257: "IsTerminate will only close once all running servers have
\* stopped": all those that registered before WaitForServers returned.
TerminateAfterServers ==
    []["terminate" \in closed' \ closed =>
           \A r \in Runners : runner[r] \in {"in", "panicking"} => r \in late]_managerVars

\* manager.go:275: WaitForTerminate waits for all terminating actions, so that
\* when main may return every runner and every such function has finished,
\* those apart that registered when the wait for them was over.
ManagerLast ==
    "manager" \in closed =>
        /\ \A r \in Runners \ late : runner[r] \in {"out", "left"}
        /\ \A f \in TerminateFns \ late : termFn[f] \in {"unset", "done"}

\* docs/content/doc/administration/config-cheat-sheet.en-us.md:419: the shutdown
\* is forced "if it takes longer than" GRACEFUL_HAMMER_TIME, and not before,
\* while a server still runs.
HammerHonoured ==
    []["hammer" \in closed' \ closed /\ running > 0 => timer = "armed" /\ timer' = "fired"]_managerVars

\* The terminate context is closed, and the function is waited for though
\* nobody will run it.
Stranded(f) == "terminate" \in closed /\ termFn[f] \in {"counted", "set"}

\* A shutdown, however it was asked for and whoever registers meanwhile, leads
\* to the end of the process, unless a RunAtTerminate is not through when
\* doTerminate runs the functions: WaitForTerminate then waits for ever.
ShutdownCompletes ==
    [](\A f \in TerminateFns : ~Stranded(f)) => (state # "running" ~> "manager" \in closed)
=============================================================================
