-------------------------- MODULE Graceful_proofs ---------------------------
(***************************************************************************)
(* What holds in GracefulManager for every number of runners, functions and *)
(* signals, whenever they register: the types, that one caller shuts the    *)
(* process down, that it terminates when the servers it waits for have      *)
(* stopped and ends when all it waits for have, and who is to blame if it   *)
(* does not end.  And what holds in GracefulServer, for every number of     *)
(* connections beside them.                                                 *)
(***************************************************************************)
EXTENDS GracefulServer, FiniteSetTheorems, TLAPS

-----------------------------------------------------------------------------
(* The counter of running servers *)

\* The runners that have entered and not left.
Inside == {r \in Runners : runner[r] \in {"in", "panicking"}}

RunningCounted == running = Cardinality(Inside)

\* All the types but that of running, which follows from what it counts.
Types ==
    /\ state \in {"running", "shuttingDown", "terminate"}
    /\ closed \subseteq Contexts
    /\ caller \in [Callers -> {"idle", "shutdown", "won", "hammer", "hammer_shutdown"}]
    /\ timer \in {"off", "armed", "fired"}
    /\ waiter \in {"off", "servers", "hammer", "terminate", "fns", "end"}
    /\ runner \in [Runners -> {"out", "in", "panicking", "left"}]
    /\ shutFn \in [Runners -> {"unset", "set", "launched"}]
    /\ termFn \in [TerminateFns -> {"unset", "counted", "set", "launched", "done"}]
    /\ forked \in BOOLEAN
    /\ child \in {"none", "starting", "serving"}
    /\ signals \in 0 .. MaxSignals

\* The runners inside are finitely many.
LEMMA InsideFinite == IsFiniteSet(Inside) /\ Cardinality(Inside) \in Nat
<1>1. IsFiniteSet(Inside)
  BY GracefulManagerAssumption, FS_Subset DEF Inside
<1>2. QED
  BY <1>1, FS_CardinalityType

\* A runner enters, beside n servers that are not runners.
LEMMA RunnerEnters ==
  ASSUME NEW n \in Nat, running = Cardinality(Inside) + n, NEW r \in Runners, r \notin Inside,
         Inside' = Inside \cup {r}, running' = running + 1
  PROVE  running' = Cardinality(Inside') + n
<1>1. Cardinality(Inside \cup {r}) = Cardinality(Inside) + 1
  BY InsideFinite, FS_AddElement
<1>2. QED
  BY <1>1, InsideFinite

\* A runner leaves.
LEMMA RunnerLeaves ==
  ASSUME NEW n \in Nat, running = Cardinality(Inside) + n, NEW r \in Inside,
         Inside' = Inside \ {r}, running' = running - 1
  PROVE  running' = Cardinality(Inside') + n
<1>1. Cardinality(Inside \ {r}) = Cardinality(Inside) - 1
  BY InsideFinite, FS_RemoveElement
<1>2. QED
  BY <1>1, InsideFinite

\* At zero nobody is inside.
LEMMA NobodyInside == ASSUME RunningCounted PROVE running = 0 <=> Inside = {}
  BY InsideFinite, FS_EmptySet DEF RunningCounted

-----------------------------------------------------------------------------
(* The course of a shutdown *)

\* One caller at most has moved the state on from "running" and not yet closed
\* the shutdown context; with that begins the goroutine that ends the process.
ShutInv ==
    /\ \A c, d \in Callers : caller[c] = "won" /\ caller[d] = "won" => c = d
    /\ \A c \in Callers : caller[c] = "won" => state # "running" /\ waiter = "off"
    /\ waiter = "off" => closed \subseteq {"hammer"}
    /\ waiter # "off" => state # "running" /\ "shutdown" \in closed
    /\ waiter \in {"terminate", "fns", "end"} => "hammer" \in closed
    /\ waiter \in {"fns", "end"} => "terminate" \in closed
    /\ "terminate" \in closed => "hammer" \in closed
    /\ "manager" \in closed <=> waiter = "end"

ManagerInv == Types /\ late \subseteq Runners \cup TerminateFns /\ RunningCounted /\ ShutInv

\* The initial states satisfy the invariant.
LEMMA ManagerInvInit == ManagerInit => ManagerInv
<1> SUFFICES ASSUME ManagerInit PROVE ManagerInv
  OBVIOUS
<1>1. Inside = {} /\ running = 0
  BY DEF ManagerInit, Inside
<1>2. RunningCounted
  BY <1>1, FS_EmptySet DEF RunningCounted
<1>3. Types
  <2>1. forked \in BOOLEAN
    BY DEF ManagerInit
  <2>2. signals \in 0 .. MaxSignals
    BY GracefulManagerAssumption DEF ManagerInit
  <2>3. QED
    BY <2>1, <2>2 DEF ManagerInit, Types
<1>4. ShutInv
  BY DEF ManagerInit, ShutInv
<1>5. QED
  BY <1>2, <1>3, <1>4 DEF ManagerInv, ManagerInit

\* Only runners and functions register, and those who came late stay so.
LEMMA LateStep ==
  ASSUME NEW S, Runners \cup TerminateFns \subseteq S, late \subseteq S, [ManagerNext]_managerVars
  PROVE  late \subseteq late' /\ late' \subseteq S
<1>1. CASE SignalStep
  BY <1>1 DEF SignalStep, SigTerm, SigUsr2, SigHup, ChildKillsParent
<1>2. ASSUME NEW c \in Callers, CallerStep(c) PROVE late' = late
  BY <1>2 DEF CallerStep, DoShutdown, DoShutdownWon, DoImmediateHammer
<1>3. CASE HammerTime \/ WaiterStep
  BY <1>3 DEF HammerTime, WaiterStep, WaitForServers, MopUp, DoTerminate, WaitForTerminate
<1>4. ASSUME NEW r \in Runners, RunnerEnter(r) \/ RunnerRegisters(r) \/ RunnerPanic(r)
                                \/ RunnerLeave(r)
      PROVE  late' \in {late, late \cup {r}}
  BY <1>4 DEF RunnerEnter, RunnerRegisters, RunnerPanic, RunnerLeave, Registers
<1>5. ASSUME NEW f \in TerminateFns, RunAtTerminate(f) \/ TerminateFnReturns(f)
      PROVE  late' \in {late, late \cup {f}}
  BY <1>5 DEF RunAtTerminate, TerminateFnReturns, Registers
<1>6. CASE UNCHANGED managerVars
  BY <1>6 DEF managerVars
<1>7. QED
  BY <1>1, <1>2, <1>3, <1>4, <1>5, <1>6 DEF ManagerNext

\* Every step keeps the types.
LEMMA TypesStep ==
  ASSUME Types, ManagerNext PROVE Types'
<1> USE DEF Types, CallerGoes, Callers
<1>1. CASE SignalStep
  <2>1. CASE SigTerm
    BY <2>1, GracefulManagerAssumption DEF SigTerm, Receive
  <2>2. CASE SigUsr2
    BY <2>2, GracefulManagerAssumption DEF SigUsr2, Receive
  <2>3. CASE SigHup
    BY <2>3, GracefulManagerAssumption DEF SigHup, Receive
  <2>4. CASE ChildKillsParent
    BY <2>4 DEF ChildKillsParent
  <2>5. QED
    BY <1>1, <2>1, <2>2, <2>3, <2>4 DEF SignalStep
<1>2. ASSUME NEW c \in Callers, CallerStep(c) PROVE Types'
  <2>1. CASE DoShutdown(c)
    BY <2>1 DEF DoShutdown
  <2>2. CASE DoShutdownWon(c)
    BY <2>2 DEF DoShutdownWon, Contexts
  <2>3. CASE DoImmediateHammer(c)
    BY <2>3 DEF DoImmediateHammer, Contexts
  <2>4. QED
    BY <1>2, <2>1, <2>2, <2>3 DEF CallerStep
<1>3. CASE HammerTime \/ WaiterStep
  <2>1. CASE DoTerminate
    BY <2>1 DEF DoTerminate, Contexts
  <2>2. CASE HammerTime \/ WaitForServers \/ MopUp \/ WaitForTerminate
    BY <2>2 DEF HammerTime, WaitForServers, MopUp, WaitForTerminate, Contexts
  <2>3. QED
    BY <1>3, <2>1, <2>2 DEF WaiterStep
<1>4. ASSUME NEW r \in Runners, RunnerEnter(r) \/ RunnerRegisters(r) \/ RunnerPanic(r)
                                \/ RunnerLeave(r)
      PROVE  Types'
  BY <1>4 DEF RunnerEnter, RunnerRegisters, RunnerPanic, RunnerLeave
<1>5. ASSUME NEW f \in TerminateFns, RunAtTerminate(f) \/ TerminateFnReturns(f) PROVE Types'
  BY <1>5 DEF RunAtTerminate, TerminateFnReturns
<1>6. QED
  BY <1>1, <1>2, <1>3, <1>4, <1>5 DEF ManagerNext

\* Every step of the manager keeps the counter.
LEMMA CountStep ==
  ASSUME Types, NEW n \in Nat, running = Cardinality(Inside) + n, [ManagerNext]_managerVars
  PROVE  running' = Cardinality(Inside') + n
<1> DEFINE Goal == running' = Cardinality(Inside') + n
<1> SUFFICES Goal
  OBVIOUS
<1>1. ASSUME UNCHANGED <<running, runner>> PROVE Goal
  BY <1>1 DEF Inside
<1>2. CASE SignalStep
  BY <1>1, <1>2 DEF SignalStep, SigTerm, SigUsr2, SigHup, ChildKillsParent
<1>3. ASSUME NEW c \in Callers, CallerStep(c) PROVE Goal
  BY <1>1, <1>3 DEF CallerStep, DoShutdown, DoShutdownWon, DoImmediateHammer
<1>4. CASE HammerTime \/ WaiterStep
  BY <1>1, <1>4 DEF HammerTime, WaiterStep, WaitForServers, MopUp, DoTerminate, WaitForTerminate
<1>5. ASSUME NEW r \in Runners, RunnerEnter(r) PROVE Goal
  <2>1. r \notin Inside /\ Inside' = Inside \cup {r} /\ running' = running + 1
    BY <1>5 DEF RunnerEnter, RegisterServer, Inside, Types
  <2>2. QED
    BY <2>1, RunnerEnters
<1>6. ASSUME NEW r \in Runners, RunnerRegisters(r) PROVE Goal
  BY <1>1, <1>6 DEF RunnerRegisters
<1>7. ASSUME NEW r \in Runners, RunnerPanic(r) PROVE Goal
  <2>1. Inside' = Inside /\ running' = running
    BY <1>7 DEF RunnerPanic, Inside, Types
  <2>2. QED
    BY <2>1
<1>8. ASSUME NEW r \in Runners, RunnerLeave(r) PROVE Goal
  <2>1. r \in Inside /\ Inside' = Inside \ {r} /\ running' = running - 1
    BY <1>8 DEF RunnerLeave, ServerDone, Inside, Types
  <2>2. QED
    BY <2>1, RunnerLeaves
<1>9. ASSUME NEW f \in TerminateFns, RunAtTerminate(f) \/ TerminateFnReturns(f)
      PROVE  Goal
  BY <1>1, <1>9 DEF RunAtTerminate, TerminateFnReturns
<1>10. CASE UNCHANGED managerVars
  BY <1>1, <1>10 DEF managerVars
<1>11. QED
  BY <1>2, <1>3, <1>4, <1>5, <1>6, <1>7, <1>8, <1>9, <1>10 DEF ManagerNext

\* Every step keeps the course of the shutdown.
LEMMA ShutStep ==
  ASSUME Types, ShutInv, [ManagerNext]_managerVars PROVE ShutInv'
<1> USE DEF CallerGoes
<1>1. ASSUME UNCHANGED <<state, closed, waiter>>,
             \A c \in Callers : caller'[c] = "won" => caller[c] = "won"
      PROVE  ShutInv'
  BY <1>1 DEF ShutInv
<1>2. CASE SignalStep
  BY <1>1, <1>2
  DEF SignalStep, SigTerm, SigUsr2, SigHup, ChildKillsParent, Receive, Types, Callers
<1>3. ASSUME NEW c \in Callers, DoShutdown(c) PROVE ShutInv'
  <2>1. CASE state = "running"
    <3>1. /\ \A d \in Callers : caller[d] # "won"
          /\ \A d \in Callers \ {c} : caller'[d] # "won"
          /\ waiter = "off" /\ waiter' = "off" /\ closed' = closed /\ state' = "shuttingDown"
      BY <1>3, <2>1 DEF DoShutdown, ShutInv, Types
    <3>2. QED
      BY <3>1 DEF ShutInv
  <2>2. CASE state # "running"
    BY <1>1, <1>3, <2>2 DEF DoShutdown, Types
  <2>3. QED
    BY <2>1, <2>2
<1>4. ASSUME NEW c \in Callers, DoShutdownWon(c) PROVE ShutInv'
  <2>1. /\ caller[c] = "won" /\ waiter = "off" /\ waiter' = "servers"
        /\ state' = state /\ closed' = closed \cup {"shutdown"}
        /\ \A d \in Callers : caller'[d] # "won"
    BY <1>4 DEF DoShutdownWon, ShutInv, Types
  <2>2. QED
    BY <2>1 DEF ShutInv
<1>5. ASSUME NEW c \in Callers, DoImmediateHammer(c) PROVE ShutInv'
  <2>1. /\ closed' = closed \cup {"hammer"} /\ UNCHANGED <<state, waiter>>
        /\ \A d \in Callers : caller'[d] = "won" => caller[d] = "won"
    BY <1>5 DEF DoImmediateHammer, Types
  <2>2. QED
    BY <2>1 DEF ShutInv
<1>6. CASE HammerTime
  BY <1>6 DEF HammerTime, ShutInv
<1>7. CASE WaiterStep
  BY <1>7 DEF WaiterStep, WaitForServers, MopUp, DoTerminate, WaitForTerminate, ShutInv
<1>8. ASSUME NEW r \in Runners, RunnerEnter(r) \/ RunnerRegisters(r) \/ RunnerPanic(r)
                                \/ RunnerLeave(r)
      PROVE  ShutInv'
  BY <1>1, <1>8
  DEF RunnerEnter, RunnerRegisters, RunnerPanic, RunnerLeave, Types, Callers
<1>9. ASSUME NEW f \in TerminateFns, RunAtTerminate(f) \/ TerminateFnReturns(f) PROVE ShutInv'
  BY <1>1, <1>9 DEF RunAtTerminate, TerminateFnReturns
<1>10. CASE UNCHANGED managerVars
  BY <1>1, <1>10 DEF managerVars
<1>11. QED
  BY <1>2, <1>3, <1>4, <1>5, <1>6, <1>7, <1>8, <1>9, <1>10 DEF ManagerNext, CallerStep

\* The invariant holds throughout.
LEMMA ManagerInvariant == ManagerSpec => []ManagerInv
<1>1. ManagerInv /\ [ManagerNext]_managerVars => ManagerInv'
  <2> SUFFICES ASSUME ManagerInv, [ManagerNext]_managerVars PROVE ManagerInv'
    OBVIOUS
  <2>1. Types'
    <3>1. CASE UNCHANGED managerVars
      BY <3>1 DEF managerVars, ManagerInv, Types
    <3>2. QED
      BY <3>1, TypesStep DEF ManagerInv
  <2>2. RunningCounted'
    <3>1. running = Cardinality(Inside) + 0
      BY InsideFinite DEF ManagerInv, RunningCounted
    <3>2. running' = Cardinality(Inside') + 0
      BY <3>1, CountStep DEF ManagerInv
    <3>3. Cardinality(Inside') \in Nat
      BY <2>1, GracefulManagerAssumption, FS_Subset, FS_CardinalityType DEF Inside
    <3>4. QED
      BY <3>2, <3>3 DEF RunningCounted
  <2>3. late' \subseteq Runners \cup TerminateFns
    BY LateStep DEF ManagerInv
  <2>4. QED
    BY <2>1, <2>2, <2>3, ShutStep DEF ManagerInv
<1>2. QED
  BY <1>1, ManagerInvInit, PTL DEF ManagerSpec

-----------------------------------------------------------------------------
(* The theorems *)

\* The variables of the manager keep their types; the counter of running
\* servers never goes negative.
THEOREM ManagerTypeCorrect == ManagerSpec => []ManagerTypeOK
<1>1. ManagerInv => ManagerTypeOK
  BY InsideFinite DEF ManagerInv, Types, RunningCounted, ManagerTypeOK, ManagerVarsOK
<1>2. QED
  BY <1>1, ManagerInvariant, PTL

\* doShutdown: whatever signals arrive, however many runners panic, one caller
\* shuts the process down, and it terminates after the shutdown and the hammer.
THEOREM ThereIsOneShutdown == ManagerSpec => []OneShutdown
<1>1. ManagerInv => OneShutdown
  BY DEF ManagerInv, ShutInv, OneShutdown
<1>2. QED
  BY <1>1, ManagerInvariant, PTL

-----------------------------------------------------------------------------
(* Who is waited for *)

\* Past the wait for the servers only those are inside who came late; at the end
\* only such functions have not finished.
LastInv ==
    /\ waiter \in {"hammer", "terminate", "fns", "end"} => Inside \subseteq late
    /\ waiter = "end" => \A f \in TerminateFns \ late : termFn[f] \in {"unset", "done"}

\* The functions that have registered and not returned.
Pending == {f \in TerminateFns : termFn[f] \in {"counted", "set", "launched"}}

\* At zero there are none.
LEMMA NonePending == ASSUME Terminating = 0 PROVE Pending = {}
<1>1. IsFiniteSet(Pending) /\ Terminating = Cardinality(Pending)
  BY GracefulManagerAssumption, FS_Subset DEF Pending, Terminating
<1>2. QED
  BY <1>1, FS_EmptySet

\* Every step keeps it.
LEMMA LastInvStep ==
  ASSUME Types, running = 0 => Inside = {}, LastInv, [ManagerNext]_managerVars
  PROVE  LastInv'
<1>1. ASSUME UNCHANGED <<waiter, runner, termFn, late>> PROVE LastInv'
  BY <1>1 DEF LastInv, Inside
<1>2. CASE SignalStep
  BY <1>1, <1>2 DEF SignalStep, SigTerm, SigUsr2, SigHup, ChildKillsParent
<1>3. ASSUME NEW c \in Callers, CallerStep(c) PROVE LastInv'
  <2>1. CASE DoShutdownWon(c)
    BY <2>1 DEF DoShutdownWon, LastInv
  <2>2. CASE ~DoShutdownWon(c)
    BY <1>1, <1>3, <2>2 DEF CallerStep, DoShutdown, DoImmediateHammer
  <2>3. QED
    BY <2>1, <2>2
<1>4. CASE HammerTime
  BY <1>1, <1>4 DEF HammerTime
<1>5. CASE WaitForServers
  <2>1. Inside' = {} /\ waiter' = "hammer"
    BY <1>5 DEF WaitForServers, Inside
  <2>2. QED
    BY <2>1 DEF LastInv
<1>6. CASE MopUp
  BY <1>6 DEF MopUp, LastInv, Inside
<1>7. CASE DoTerminate
  BY <1>7 DEF DoTerminate, LastInv, Inside
<1>8. CASE WaitForTerminate
  <2>1. /\ waiter = "fns" /\ waiter' = "end" /\ UNCHANGED <<runner, termFn, late>> /\ Pending = {}
    BY <1>8, NonePending DEF WaitForTerminate
  <2>2. \A f \in TerminateFns : termFn[f] \in {"unset", "done"}
    BY <2>1 DEF Pending, Types
  <2>3. QED
    BY <2>1, <2>2 DEF LastInv, Inside
<1>9. ASSUME NEW r \in Runners, RunnerEnter(r) PROVE LastInv'
  <2>1. /\ Inside' \subseteq Inside \cup {r} /\ UNCHANGED <<waiter, termFn>>
        /\ late' = IF waiter \notin {"off", "servers"} THEN late \cup {r} ELSE late
    BY <1>9 DEF RunnerEnter, Registers, ServersAwaited, Inside, Types
  <2>2. QED
    BY <2>1 DEF LastInv
<1>10. ASSUME NEW r \in Runners, RunnerRegisters(r) \/ RunnerPanic(r) \/ RunnerLeave(r)
       PROVE  LastInv'
  <2>1. Inside' \subseteq Inside /\ UNCHANGED <<waiter, termFn, late>>
    BY <1>10 DEF RunnerRegisters, RunnerPanic, RunnerLeave, Inside, Types
  <2>2. QED
    BY <2>1 DEF LastInv
<1>11. ASSUME NEW f \in TerminateFns, RunAtTerminate(f) PROVE LastInv'
  <2>1. /\ UNCHANGED <<waiter, runner>> /\ late \subseteq late'
        /\ \A g \in TerminateFns \ {f} : termFn'[g] = termFn[g]
    BY <1>11 DEF RunAtTerminate, Registers, Types
  <2>2. waiter = "end" => f \in late'
    BY <1>11, <2>1 DEF RunAtTerminate, Registers, TerminateAwaited, LastInv
  <2>3. QED
    BY <2>1, <2>2 DEF LastInv, Inside
<1>12. ASSUME NEW f \in TerminateFns, TerminateFnReturns(f) PROVE LastInv'
  <2>1. /\ termFn'[f] = "done" /\ \A g \in TerminateFns \ {f} : termFn'[g] = termFn[g]
        /\ UNCHANGED <<waiter, runner, late>>
    BY <1>12 DEF TerminateFnReturns, Types
  <2>2. QED
    BY <2>1 DEF LastInv, Inside
<1>13. CASE UNCHANGED managerVars
  BY <1>1, <1>13 DEF managerVars
<1>14. QED
  BY <1>2, <1>3, <1>4, <1>5, <1>6, <1>7, <1>8, <1>9, <1>10, <1>11, <1>12, <1>13
  DEF ManagerNext, WaiterStep

\* It holds throughout.
LEMMA LastInvariant == ManagerSpec => [](ManagerInv /\ LastInv)
<1>1. ManagerInit => LastInv
  BY DEF ManagerInit, LastInv
<1>2. ManagerInv /\ LastInv /\ [ManagerNext]_managerVars => LastInv'
  BY LastInvStep, NobodyInside DEF ManagerInv
<1>3. QED
  BY <1>1, <1>2, ManagerInvariant, PTL DEF ManagerSpec

\* manager.go:275: when main may return, every runner that registered before
\* WaitForServers returned has left, and every function given to RunAtTerminate
\* before WaitForTerminate returned has finished, however many there are.
THEOREM TheManagerIsLast == ManagerSpec => []ManagerLast
<1>1. ManagerInv /\ LastInv => ManagerLast
  BY DEF ManagerInv, Types, ShutInv, LastInv, Inside, ManagerLast
<1>2. QED
  BY <1>1, LastInvariant, PTL

\* The terminate context is cancelled by doTerminate alone.
LEMMA TerminatedByDoTerminate ==
  ASSUME [ManagerNext]_managerVars, "terminate" \in closed' \ closed PROVE DoTerminate
  BY DEF ManagerNext, SignalStep, SigTerm, SigUsr2, SigHup, ChildKillsParent, CallerStep,
         DoShutdown, DoShutdownWon, DoImmediateHammer, HammerTime, WaiterStep,
         WaitForServers, MopUp, WaitForTerminate, RunnerEnter, RunnerRegisters, RunnerPanic,
         RunnerLeave, RunAtTerminate, TerminateFnReturns, managerVars

\* manager.go:257: the terminate context is cancelled only when no server runs
\* that registered before WaitForServers returned.
THEOREM TerminatesAfterServers == ManagerSpec => TerminateAfterServers
<1>1. ManagerInv /\ LastInv /\ [ManagerNext]_managerVars =>
        ["terminate" \in closed' \ closed =>
            \A r \in Runners : runner[r] \in {"in", "panicking"} => r \in late]_managerVars
  <2> SUFFICES ASSUME ManagerInv, LastInv, [ManagerNext]_managerVars,
                      "terminate" \in closed' \ closed
               PROVE  Inside \subseteq late
    BY DEF Inside
  <2>1. DoTerminate
    BY TerminatedByDoTerminate
  <2>2. QED
    BY <2>1 DEF DoTerminate, LastInv
<1>2. QED
  BY <1>1, LastInvariant, PTL DEF ManagerSpec, TerminateAfterServers

-----------------------------------------------------------------------------
(* A shutdown that has begun is in somebody's hands *)

\* Who has moved the state on is about to start the goroutine that ends the
\* process, or has started it; and a runner calls doShutdown only after a panic.
WonInv ==
    /\ state # "running" => waiter # "off" \/ \E c \in Callers : caller[c] = "won"
    /\ \A r \in Runners : runner[r] # "panicking" => caller[r] = "idle"

\* Every step keeps it.
LEMMA WonInvStep ==
  ASSUME Types, WonInv, [ManagerNext]_managerVars PROVE WonInv'
<1> USE GracefulManagerAssumption DEF CallerGoes, Callers
<1>1. ASSUME state' = state, waiter' = waiter,
             \A c \in Callers : caller[c] = "won" => caller'[c] = "won",
             \A r \in Runners : runner'[r] # "panicking" => caller'[r] = "idle"
      PROVE  WonInv'
  BY <1>1 DEF WonInv
<1>2. CASE SignalStep
  <2>1. UNCHANGED <<state, waiter, runner>> /\ Sig \notin Runners
    BY <1>2 DEF SignalStep, SigTerm, SigUsr2, SigHup, ChildKillsParent
  <2>2. /\ \A c \in Callers \ {Sig} : caller'[c] = caller[c]
        /\ caller[Sig] = "idle"
    BY <1>2 DEF SignalStep, SigTerm, SigUsr2, SigHup, ChildKillsParent, Receive, Types
  <2>3. QED
    BY <1>1, <2>1, <2>2 DEF WonInv
<1>3. ASSUME NEW c \in Callers, DoShutdown(c) PROVE WonInv'
  <2>1. \A r \in Runners : runner'[r] # "panicking" => caller'[r] = "idle"
    BY <1>3 DEF DoShutdown, WonInv, Types
  <2>2. CASE state = "running"
    <3>1. caller'[c] = "won"
      BY <1>3, <2>2 DEF DoShutdown, Types
    <3>2. QED
      BY <2>1, <3>1 DEF WonInv
  <2>3. CASE state # "running"
    BY <1>1, <1>3, <2>1, <2>3 DEF DoShutdown, Types
  <2>4. QED
    BY <2>2, <2>3
<1>4. ASSUME NEW c \in Callers, DoShutdownWon(c) PROVE WonInv'
  BY <1>4 DEF DoShutdownWon, WonInv, Types
<1>5. ASSUME NEW c \in Callers, DoImmediateHammer(c) PROVE WonInv'
  BY <1>1, <1>5 DEF DoImmediateHammer, WonInv, Types
<1>6. CASE HammerTime
  BY <1>1, <1>6 DEF HammerTime, WonInv
<1>7. CASE WaiterStep
  BY <1>7 DEF WaiterStep, WaitForServers, MopUp, DoTerminate, WaitForTerminate, WonInv
<1>8. ASSUME NEW r \in Runners, RunnerEnter(r) \/ RunnerRegisters(r) \/ RunnerLeave(r)
      PROVE  WonInv'
  BY <1>1, <1>8 DEF RunnerEnter, RunnerRegisters, RunnerLeave, WonInv, Types
<1>9. ASSUME NEW r \in Runners, RunnerPanic(r) PROVE WonInv'
  BY <1>1, <1>9 DEF RunnerPanic, WonInv, Types
<1>10. ASSUME NEW f \in TerminateFns, RunAtTerminate(f) \/ TerminateFnReturns(f) PROVE WonInv'
  BY <1>1, <1>10 DEF RunAtTerminate, TerminateFnReturns, WonInv
<1>11. CASE UNCHANGED managerVars
  BY <1>1, <1>11 DEF managerVars, WonInv
<1>12. QED
  BY <1>2, <1>3, <1>4, <1>5, <1>6, <1>7, <1>8, <1>9, <1>10, <1>11 DEF ManagerNext, CallerStep

\* Once a shutdown has begun, and until the process may end, somebody's step is
\* due: the winner's, that of the goroutine it starts, a runner's or a
\* terminating function's.  Each wait group that is not empty has a member, and
\* only a function that came too late to be run is waited for in vain.
ShutdownGoesOn ==
    state # "running" =>
        \/ \E c \in Callers : caller[c] = "won"
        \/ waiter = "servers" /\ (running = 0 \/ Inside # {})
        \/ waiter \in {"hammer", "terminate"}
        \/ /\ waiter = "fns"
           /\ \/ Terminating = 0
              \/ \E f \in TerminateFns : termFn[f] = "launched" \/ Stranded(f)
        \/ "manager" \in closed

\* doShutdown: whoever changes the state ends the process, and the two waits on
\* the way are for somebody: the half of ShutdownCompletes that does not depend
\* on the scheduler, for any number of runners, functions and signals.
THEOREM ShutdownIsNeverStuck == ManagerSpec => []ShutdownGoesOn
<1>1. ManagerInit => WonInv
  BY GracefulManagerAssumption DEF ManagerInit, WonInv, Callers
<1>2. ManagerInv /\ WonInv /\ [ManagerNext]_managerVars => WonInv'
  BY WonInvStep DEF ManagerInv
<1>3. ManagerInv /\ WonInv => ShutdownGoesOn
  <2> SUFFICES ASSUME ManagerInv, WonInv, state # "running",
                      \A c \in Callers : caller[c] # "won"
               PROVE  \/ waiter = "servers" /\ (running = 0 \/ Inside # {})
                      \/ waiter \in {"hammer", "terminate"}
                      \/ /\ waiter = "fns"
                         /\ \/ Terminating = 0
                            \/ \E f \in TerminateFns : termFn[f] = "launched" \/ Stranded(f)
                      \/ "manager" \in closed
    BY DEF ShutdownGoesOn
  <2>1. waiter # "off"
    BY DEF WonInv
  <2>2. CASE waiter = "servers"
    BY <2>2, NobodyInside DEF ManagerInv
  <2>3. CASE waiter = "fns"
    <3>1. CASE Pending = {}
      BY <2>3, <3>1, FS_EmptySet DEF Pending, Terminating
    <3>2. ASSUME NEW f \in Pending PROVE termFn[f] = "launched" \/ Stranded(f)
      BY <2>3, <3>2 DEF Pending, Stranded, ManagerInv, ShutInv
    <3>3. QED
      BY <2>3, <3>1, <3>2 DEF Pending
  <2>4. CASE waiter = "end"
    BY <2>4 DEF ManagerInv, ShutInv
  <2>5. QED
    BY <2>1, <2>2, <2>3, <2>4 DEF ManagerInv, Types
<1>4. QED
  BY <1>1, <1>2, <1>3, ManagerInvariant, PTL DEF ManagerSpec

-----------------------------------------------------------------------------
(* A server beside the runners *)

\* The server counts as one of those the manager waits for.
Registered == IF serve \in {"new", "register", "returned"} THEN 0 ELSE 1

ServerTypes ==
    /\ srv \in {"init", "running", "shuttingDown", "terminate"}
    /\ serve \in {"new", "register", "accept", "add", "wait", "blocked", "panicked", "finish",
                  "unregister", "returned"}
    /\ await \in {"select", "shutdown", "shutdown_early", "close", "close_early",
                  "await_hammer", "hammer", "hammer_early", "force", "force_early", "end"}
    /\ listening \in BOOLEAN
    /\ conn \in [Conns -> {"none", "accepted", "open", "closed"}]
    /\ counter \in Int /\ waiting \in BOOLEAN

\* awaitShutdown comes to these places only through the hammer context.
AwaitInv ==
    await \in {"shutdown_early", "close_early", "hammer", "hammer_early", "force", "force_early"} =>
        "hammer" \in closed

\* Serve has at most one connection that it has not counted yet.
AcceptInv ==
    /\ \A c \in Conns : conn[c] = "accepted" => serve = "add"
    /\ \A c, d \in Conns : conn[c] = "accepted" /\ conn[d] = "accepted" => c = d

ServerInv ==
    /\ Types /\ ServerTypes /\ late \subseteq Runners \cup TerminateFns \cup {Server}
    /\ running = Cardinality(Inside) + Registered
    /\ AwaitInv /\ AcceptInv /\ CounterExact /\ ConnsAreServed

\* The open connections are finitely many.
LEMMA OpenFinite == IsFiniteSet(Open) /\ Cardinality(Open) \in Nat
<1>1. IsFiniteSet(Open)
  BY GracefulServerAssumption, FS_Subset DEF Open
<1>2. QED
  BY <1>1, FS_CardinalityType

\* No context is ever opened again.
LEMMA ClosedGrows == ASSUME [ManagerNext]_managerVars PROVE closed \subseteq closed'
<1>1. CASE SignalStep
  BY <1>1 DEF SignalStep, SigTerm, SigUsr2, SigHup, ChildKillsParent, Receive, CallerGoes
<1>2. ASSUME NEW c \in Callers, CallerStep(c) PROVE closed \subseteq closed'
  BY <1>2 DEF CallerStep, DoShutdown, DoShutdownWon, DoImmediateHammer
<1>3. CASE HammerTime \/ WaiterStep
  BY <1>3 DEF HammerTime, WaiterStep, WaitForServers, MopUp, DoTerminate, WaitForTerminate
<1>4. ASSUME NEW r \in Runners, RunnerEnter(r) \/ RunnerRegisters(r) \/ RunnerPanic(r)
                                \/ RunnerLeave(r)
      PROVE  closed \subseteq closed'
  BY <1>4 DEF RunnerEnter, RunnerRegisters, RunnerPanic, RunnerLeave
<1>5. ASSUME NEW f \in TerminateFns, RunAtTerminate(f) \/ TerminateFnReturns(f)
      PROVE  closed \subseteq closed'
  BY <1>5 DEF RunAtTerminate, TerminateFnReturns
<1>6. CASE UNCHANGED managerVars
  BY <1>6 DEF managerVars
<1>7. QED
  BY <1>1, <1>2, <1>3, <1>4, <1>5, <1>6 DEF ManagerNext

\* The initial states satisfy the invariant.
LEMMA ServerInvInit == Init => ServerInv
<1> SUFFICES ASSUME Init PROVE ServerInv
  OBVIOUS
<1>1. Types
  BY ManagerInvInit DEF Init, ManagerInv
<1>2. ServerTypes /\ AwaitInv /\ AcceptInv /\ ConnsAreServed
  <2>1. listening \in BOOLEAN /\ waiting \in BOOLEAN
    BY DEF Init
  <2>2. QED
    BY <2>1 DEF Init, ServerTypes, AwaitInv, AcceptInv, ConnsAreServed
<1>3. Inside = {} /\ Open = {} /\ running = 0 /\ counter = 0
  BY DEF Init, ManagerInit, Inside, Open
<1>4. CounterExact /\ running = Cardinality(Inside) + Registered
  BY <1>3, FS_EmptySet DEF CounterExact, Init, Registered
<1>5. QED
  BY <1>1, <1>2, <1>4 DEF ServerInv, Init, ManagerInit

\* What the manager does to the server's invariant: it closes contexts.
LEMMA ServerManagerStep ==
  ASSUME ServerInv, [ManagerNext]_managerVars, UNCHANGED serverVars
  PROVE  ServerInv'
<1> USE DEF serverVars, ServerInv
<1>1. closed \subseteq closed'
  BY ClosedGrows
<1>2. Types'
  <2>1. CASE ManagerNext
    BY <2>1, TypesStep
  <2>2. CASE UNCHANGED managerVars
    BY <2>2 DEF managerVars, Types
  <2>3. QED
    BY <2>1, <2>2
<1>3. running' = Cardinality(Inside') + Registered'
  <2> PICK n \in Nat : n = Registered
    BY DEF Registered
  <2>1. running' = Cardinality(Inside') + n
    BY CountStep
  <2>2. QED
    BY <2>1 DEF Registered
<1>4. ServerTypes' /\ AwaitInv' /\ AcceptInv'
  BY <1>1 DEF ServerTypes, AwaitInv, AcceptInv
<1>5. Open' = Open
  BY DEF Open
<1>6. CounterExact' /\ ConnsAreServed'
  BY <1>1, <1>5 DEF CounterExact, ConnsAreServed
<1>7. late' \subseteq Runners \cup TerminateFns \cup {Server}
  BY LateStep
<1>8. QED
  BY <1>2, <1>3, <1>4, <1>6, <1>7

\* A step of the server that leaves the manager's variables and its
\* connections alone, and counts none.
LEMMA ServerQuietStep ==
  ASSUME ServerInv, UNCHANGED <<managerVars, conn>>, ServerTypes', AwaitInv',
         Registered' = Registered,
         serve = "add" => serve' = "add",
         counter' = counter \/ "hammer" \in closed,
         serve' \in {"finish", "unregister", "returned"} =>
            serve \in {"finish", "unregister", "returned"} \/ counter = 0
  PROVE  ServerInv'
<1> USE DEF ServerInv, managerVars
<1>1. Types' /\ AcceptInv' /\ Inside' = Inside /\ Open' = Open
  BY DEF Types, AcceptInv, Inside, Open
<1>2. CounterExact'
  BY <1>1 DEF CounterExact
<1>3. counter = 0 => Open = {} \/ "hammer" \in closed
  BY OpenFinite, FS_EmptySet DEF CounterExact
<1>4. ConnsAreServed'
  BY <1>1, <1>3 DEF ConnsAreServed
<1>5. QED
  BY <1>1, <1>2, <1>4

\* Serve registers and unregisters.
LEMMA ServeRegistersStep ==
  ASSUME ServerInv, ServeRegister \/ ServeReturn
  PROVE  ServerInv'
<1> USE DEF ServerInv, ServeRegister, ServeReturn, RegisterServer, ServerDone, Registers
<1>1. /\ Types' /\ ServerTypes' /\ AwaitInv' /\ AcceptInv'
      /\ Inside' = Inside /\ Open' = Open
  BY DEF Types, ServerTypes, AwaitInv, AcceptInv, Inside, Open
<1>2. CounterExact' /\ ConnsAreServed'
  BY <1>1 DEF CounterExact, ConnsAreServed
<1>3. running' = Cardinality(Inside') + Registered'
  BY <1>1, InsideFinite DEF Registered
<1>4. QED
  BY <1>1, <1>2, <1>3

\* A connection is accepted, counted or closed.
LEMMA ConnStep ==
  ASSUME ServerInv, NEW c \in Conns, Accept(c) \/ AddConn(c) \/ CloseConn(c)
  PROVE  ServerInv'
<1> USE DEF ServerInv
<1>1. UNCHANGED <<managerVars, srv, await, listening>>
  BY DEF Accept, AddConn, CloseConn
<1>2. /\ Types' /\ AwaitInv' /\ Inside' = Inside
      /\ UNCHANGED <<running, closed, late>>
  BY <1>1 DEF managerVars, Types, AwaitInv, Inside
<1>3. CASE Accept(c)
  <2>1. ServerTypes' /\ AcceptInv' /\ Registered' = Registered /\ Open' = Open
    BY <1>3 DEF Accept, ServerTypes, AcceptInv, Registered, Open
  <2>2. CounterExact' /\ ConnsAreServed'
    BY <1>2, <1>3, <2>1 DEF Accept, CounterExact, ConnsAreServed
  <2>3. QED
    BY <1>2, <2>1, <2>2
<1>4. CASE AddConn(c)
  <2>1. serve = "add"
    BY <1>4 DEF AddConn, AcceptInv
  <2>2. ServerTypes' /\ AcceptInv' /\ Registered' = Registered
    BY <1>1, <1>4, <2>1 DEF AddConn, ServerTypes, AcceptInv, Registered
  <2>3. c \notin Open /\ Open' = Open \cup {c}
    BY <1>4 DEF AddConn, ServerTypes, Open
  <2>4. Cardinality(Open') = Cardinality(Open) + 1
    BY <2>3, OpenFinite, FS_AddElement
  <2>5. CounterExact' /\ ConnsAreServed'
    BY <1>2, <1>4, <2>4 DEF AddConn, CounterExact, ConnsAreServed
  <2>6. QED
    BY <1>2, <2>2, <2>5
<1>5. CASE CloseConn(c)
  <2>1. ServerTypes' /\ AcceptInv' /\ Registered' = Registered
    BY <1>1, <1>5 DEF CloseConn, Done, ServerTypes, AcceptInv, Registered
  <2>2. c \in Open /\ Open' = Open \ {c}
    BY <1>5 DEF CloseConn, ServerTypes, Open
  <2>3. Cardinality(Open') = Cardinality(Open) - 1
    BY <2>2, OpenFinite, FS_RemoveElement
  <2>4. CounterExact' /\ ConnsAreServed'
    BY <1>2, <1>5, <2>2, <2>3 DEF CloseConn, Done, CounterExact, ConnsAreServed
  <2>5. QED
    BY <1>2, <2>1, <2>4
<1>6. QED
  BY <1>3, <1>4, <1>5

\* Every step keeps the invariant.
LEMMA ServerInvStep == ServerInv /\ [Next]_vars => ServerInv'
<1> SUFFICES ASSUME ServerInv, [Next]_vars PROVE ServerInv'
  OBVIOUS
<1> USE DEF ServerInv
<1>1. CASE ManagerNext /\ UNCHANGED serverVars
  BY <1>1, ServerManagerStep
<1>2. CASE UNCHANGED vars
  BY <1>2, ServerManagerStep DEF vars
<1>3. CASE ServeBegin \/ ServeEnds \/ WaitConns \/ WakeUp \/ ServeFinish
  <2>1. /\ UNCHANGED <<managerVars, conn, await, counter>>
        /\ ServerTypes' /\ Registered' = Registered /\ serve # "add"
    BY <1>3 DEF ServeBegin, ServeEnds, WaitConns, WakeUp, ServeFinish, ServerTypes, Registered
  <2>2. AwaitInv'
    BY <2>1 DEF AwaitInv, managerVars
  <2>3. serve' \in {"finish", "unregister", "returned"} =>
            serve \in {"finish", "unregister", "returned"} \/ counter = 0
    BY <1>3 DEF ServeBegin, ServeEnds, WaitConns, WakeUp, ServeFinish
  <2>4. QED
    BY <2>1, <2>2, <2>3, ServerQuietStep
<1>4. CASE AwaitStep
  <2>1. /\ UNCHANGED <<managerVars, conn, serve>>
        /\ ServerTypes' /\ Registered' = Registered
    <3>1. CASE AwaitSelect \/ CheckRunning \/ CloseListener \/ AwaitHammer \/ HammerBegin
      BY <3>1 DEF AwaitSelect, CheckRunning, CloseListener, AwaitHammer, HammerBegin,
                  AfterShutdown, AfterHammer, ServerTypes, Registered
    <3>2. CASE HammerForce
      <4>1. waiting' = waiting \/ waiting' = (waiting /\ counter' # 0)
        BY <3>2 DEF HammerForce, Done
      <4>2. waiting' \in BOOLEAN
        BY <4>1 DEF ServerTypes
      <4>3. counter' = counter \/ counter' = counter - 1
        BY <3>2 DEF HammerForce, Done
      <4>4. QED
        BY <3>2, <4>2, <4>3 DEF HammerForce, AfterHammer, ServerTypes, Registered
    <3>3. QED
      BY <1>4, <3>1, <3>2 DEF AwaitStep
  <2>2. AwaitInv'
    BY <1>4, <2>1 DEF AwaitStep, AwaitSelect, CheckRunning, CloseListener, AwaitHammer,
                      HammerBegin, HammerForce, AfterShutdown, AfterHammer, AwaitInv, managerVars
  <2>3. counter' = counter \/ "hammer" \in closed
    BY <1>4 DEF AwaitStep, AwaitSelect, CheckRunning, CloseListener, AwaitHammer,
                HammerBegin, HammerForce, AwaitInv
  <2>4. QED
    BY <2>1, <2>2, <2>3, ServerQuietStep
<1>5. CASE ServeRegister \/ ServeReturn
  BY <1>5, ServeRegistersStep
<1>6. ASSUME NEW c \in Conns, Accept(c) \/ AddConn(c) \/ CloseConn(c) PROVE ServerInv'
  BY <1>6, ConnStep
<1>7. QED
  BY <1>1, <1>2, <1>3, <1>4, <1>5, <1>6 DEF Next, ServeStep

\* The invariant holds throughout.
LEMMA ServerInvariant == Spec => []ServerInv
  BY ServerInvInit, ServerInvStep, PTL DEF Spec

\* Every variable of the server and of the manager beside it keeps its type.
THEOREM ServerTypeCorrect == Spec => []TypeOK
<1>1. ServerInv => TypeOK
  BY InsideFinite DEF ServerInv, Types, ServerTypes, Registered, ManagerVarsOK, TypeOK
<1>2. QED
  BY <1>1, ServerInvariant, PTL

\* server.go:175-177: for any number of connections, Serve finishes with none
\* open, unless the hammer has come.
THEOREM OpenConnsAreServed == Spec => []ConnsAreServed
<1>1. ServerInv => ConnsAreServed
  BY DEF ServerInv
<1>2. QED
  BY <1>1, ServerInvariant, PTL

\* server.go:256 and 310: until the hammer comes, srv.wg counts exactly the
\* open connections, however many there are.
THEOREM CounterIsExact == Spec => []CounterExact
<1>1. ServerInv => CounterExact
  BY DEF ServerInv
<1>2. QED
  BY <1>1, ServerInvariant, PTL

\* Until the hammer, the wait group neither panics nor lets Serve wait for
\* nobody: it is a waiter exactly as long as a connection is open, and from then
\* on it is released.
ServeGoesOn ==
    "hammer" \notin closed =>
        /\ serve # "panicked"
        /\ serve = "blocked" => waiting = (Open # {})

\* Every step keeps it.
LEMMA ServeGoesOnStep ==
  ASSUME ServerInv, ServerInv', ServeGoesOn, [Next]_vars PROVE ServeGoesOn'
<1> SUFFICES ASSUME "hammer" \notin closed' PROVE ServeGoesOn'
  BY DEF ServeGoesOn
<1>0. "hammer" \notin closed
  <2>1. closed \subseteq closed'
    <3>1. CASE [ManagerNext]_managerVars
      BY <3>1, ClosedGrows
    <3>2. CASE closed' = closed
      BY <3>2
    <3>3. QED
      BY <3>1, <3>2 DEF Next, vars, managerVars, ServeStep, AwaitStep, ServeBegin, ServeRegister,
         ServeEnds, WaitConns, WakeUp, ServeFinish, ServeReturn, AddConn, AwaitSelect, CheckRunning,
         CloseListener, AwaitHammer, HammerBegin, HammerForce, Accept, CloseConn
  <2>2. QED
    BY <2>1
<1>1. /\ serve # "panicked"
      /\ serve = "blocked" => waiting = (Open # {})
  BY <1>0 DEF ServeGoesOn
<1>2. /\ counter = 0 <=> Open = {}
      /\ counter' = 0 <=> Open' = {}
      /\ counter \in Nat
  <2>1. counter = Cardinality(Open) /\ counter' = Cardinality(Open')
    BY <1>0 DEF ServerInv, CounterExact
  <2>2. IsFiniteSet(Open) /\ IsFiniteSet(Open')
    BY GracefulServerAssumption, FS_Subset DEF Open
  <2>3. QED
    BY <2>1, <2>2, FS_EmptySet, FS_CardinalityType
<1>3. ASSUME UNCHANGED <<serve, waiting, conn>> PROVE ServeGoesOn'
  BY <1>1, <1>3 DEF ServeGoesOn, Open
<1>4. CASE ManagerNext /\ UNCHANGED serverVars
  BY <1>3, <1>4 DEF serverVars
<1>5. CASE UNCHANGED vars
  BY <1>3, <1>5 DEF vars, serverVars
<1>6. CASE ServeBegin \/ ServeRegister \/ ServeEnds \/ ServeFinish \/ ServeReturn
  <2>1. serve' \notin {"panicked", "blocked"}
    BY <1>6 DEF ServeBegin, ServeRegister, ServeEnds, ServeFinish, ServeReturn
  <2>2. QED
    BY <2>1 DEF ServeGoesOn
<1>7. CASE WaitConns
  <2>1. Open' = Open /\ serve' # "panicked" /\ (serve' = "blocked" => counter # 0 /\ waiting')
    BY <1>7 DEF WaitConns, Open
  <2>2. serve' = "blocked" => waiting' = TRUE /\ Open' # {}
    <3>1. waiting' \in BOOLEAN
      BY DEF ServerInv, ServerTypes
    <3>2. QED
      BY <1>2, <2>1, <3>1
  <2>3. QED
    BY <2>1, <2>2 DEF ServeGoesOn
<1>8. CASE WakeUp
  <2>1. serve = "blocked" /\ ~waiting
    BY <1>8 DEF WakeUp
  <2>2. Open = {}
    BY <1>1, <2>1
  <2>3. serve' = "finish"
    BY <1>2, <1>8, <2>2 DEF WakeUp
  <2>4. QED
    BY <2>3 DEF ServeGoesOn
<1>9. ASSUME NEW c \in Conns, Accept(c) PROVE ServeGoesOn'
  BY <1>9 DEF Accept, ServeGoesOn
<1>10. ASSUME NEW c \in Conns, AddConn(c) PROVE ServeGoesOn'
  <2>1. serve' = "accept"
    BY <1>2, <1>10 DEF AddConn, Negative
  <2>2. QED
    BY <2>1 DEF ServeGoesOn
<1>11. ASSUME NEW c \in Conns, CloseConn(c) PROVE ServeGoesOn'
  <2>1. serve' = serve /\ c \in Open
    BY <1>11 DEF CloseConn, Open
  <2>2. waiting' = (waiting /\ counter' # 0)
    BY <1>11 DEF CloseConn, Done
  <2>3. serve = "blocked" => waiting' = (Open' # {})
    BY <1>1, <1>2, <2>1, <2>2
  <2>4. QED
    BY <1>1, <2>1, <2>3 DEF ServeGoesOn
<1>12. CASE AwaitStep
  <2>1. ~HammerForce
    BY <1>0 DEF HammerForce, ServerInv, AwaitInv
  <2>2. UNCHANGED <<serve, waiting, conn>>
    BY <1>12, <2>1 DEF AwaitStep, AwaitSelect, CheckRunning, CloseListener, AwaitHammer, HammerBegin
  <2>3. QED
    BY <1>3, <2>2
<1>13. QED
  BY <1>4, <1>5, <1>6, <1>7, <1>8, <1>9, <1>10, <1>11, <1>12 DEF Next, ServeStep

\* server.go:184: unless the process is hammered, srv.wg.Wait waits for an open
\* connection or is about to return, and no Add or Done panics, for any number
\* of connections: the half of IdleServerEnds that does not depend on the scheduler.
THEOREM ServeIsNeverStuck == Spec => []ServeGoesOn
<1>1. Init => ServeGoesOn
  BY DEF Init, ServeGoesOn
<1>2. QED
  BY <1>1, ServeGoesOnStep, ServerInvariant, PTL DEF Spec

-----------------------------------------------------------------------------
(* The manager with a server *)

\* Past the wait for the servers, Serve has returned, or has not registered, or
\* came late.
ServerLastInv ==
    /\ ShutInv /\ LastInv
    /\ waiter \in {"hammer", "terminate", "fns", "end"} => Registered = 0 \/ Server \in late

\* At zero nobody is inside, nor is the server.
LEMMA NobodyRegistered == ASSUME ServerInv, running = 0 PROVE Inside = {} /\ Registered = 0
<1>1. Registered \in {0, 1} /\ Cardinality(Inside) \in Nat
  BY InsideFinite DEF Registered
<1>2. Cardinality(Inside) = 0 /\ Registered = 0
  BY <1>1 DEF ServerInv
<1>3. QED
  BY <1>2, InsideFinite, FS_EmptySet

\* A step of the server leaves the course of the shutdown alone.
LEMMA ServerStepAside ==
  ASSUME ServerInv, [Next]_vars, ~(ManagerNext /\ UNCHANGED serverVars)
  PROVE  /\ UNCHANGED <<state, closed, caller, timer, waiter, runner, shutFn, termFn, forked,
                        child, signals>>
         /\ \/ Registered' = Registered /\ running' = running /\ late' = late
            \/ ServeRegister \/ ServeReturn
<1>1. CASE UNCHANGED vars
  BY <1>1 DEF vars, managerVars, serverVars, Registered
<1>2. CASE ServeRegister \/ ServeReturn
  BY <1>2 DEF ServeRegister, ServeReturn
<1>3. CASE ServeBegin \/ ServeEnds \/ WaitConns \/ WakeUp \/ ServeFinish
  BY <1>3 DEF ServeBegin, ServeEnds, WaitConns, WakeUp, ServeFinish, managerVars, Registered
<1>4. CASE AwaitStep
  BY <1>4 DEF AwaitStep, AwaitSelect, CheckRunning, CloseListener, AwaitHammer, HammerBegin,
              HammerForce, managerVars, Registered
<1>5. ASSUME NEW c \in Conns, Accept(c) \/ AddConn(c) \/ CloseConn(c)
      PROVE  UNCHANGED managerVars /\ Registered' = Registered
  BY <1>5 DEF Accept, AddConn, CloseConn, ServerInv, AcceptInv, Registered
<1>6. QED
  BY <1>1, <1>2, <1>3, <1>4, <1>5 DEF Next, ServeStep, managerVars

\* Every step of the two keeps the invariant.
LEMMA ServerLastStep ==
  ASSUME ServerInv, ServerLastInv, [Next]_vars PROVE ServerLastInv'
<1> USE DEF ServerLastInv
<1>1. running = 0 => Inside = {} /\ Registered = 0
  BY NobodyRegistered
<1>2. CASE ManagerNext /\ UNCHANGED serverVars
  <2>1. ShutInv' /\ LastInv'
    BY <1>1, <1>2, ShutStep, LastInvStep DEF ServerInv
  <2>2. Registered' = Registered /\ late \subseteq late'
    BY <1>2, LateStep DEF serverVars, Registered, ServerInv
  <2>3. waiter' \in {"hammer", "terminate", "fns", "end"} =>
            waiter \in {"hammer", "terminate", "fns", "end"} \/ running = 0
    BY <1>2 DEF ManagerNext, SignalStep, SigTerm, SigUsr2, SigHup, ChildKillsParent, CallerStep,
           DoShutdown, DoShutdownWon, DoImmediateHammer, HammerTime, WaiterStep,
           WaitForServers, MopUp, DoTerminate, WaitForTerminate, RunnerEnter, RunnerRegisters,
           RunnerPanic, RunnerLeave, RunAtTerminate, TerminateFnReturns
  <2>4. QED
    BY <1>1, <2>1, <2>2, <2>3
<1>3. CASE ~(ManagerNext /\ UNCHANGED serverVars)
  <2>1. UNCHANGED <<state, closed, caller, waiter, runner, termFn>>
    BY <1>3, ServerStepAside
  <2>2. ASSUME late \subseteq late' PROVE ShutInv' /\ LastInv'
    BY <2>1, <2>2 DEF ShutInv, LastInv, Inside
  <2>3. CASE Registered' = Registered /\ late' = late
    BY <2>1, <2>2, <2>3
  <2>4. CASE ServeRegister
    <3>1. late' = IF waiter \notin {"off", "servers"} THEN late \cup {Server} ELSE late
      BY <2>4 DEF ServeRegister, Registers, ServersAwaited
    <3>2. QED
      BY <2>1, <2>2, <3>1
  <2>5. CASE ServeReturn
    <3>1. Registered' = 0 /\ late' = late
      BY <2>5 DEF ServeReturn, Registered
    <3>2. QED
      BY <2>1, <2>2, <3>1
  <2>6. QED
    BY <1>3, <2>3, <2>4, <2>5, ServerStepAside
<1>4. QED
  BY <1>2, <1>3

\* It holds throughout.
LEMMA ServerLastInvariant == Spec => [](ServerInv /\ ServerLastInv)
<1>1. Init => ServerLastInv
  BY ManagerInvInit DEF Init, ManagerInit, ManagerInv, ServerLastInv, LastInv
<1>2. ServerInv /\ ServerLastInv /\ [Next]_vars => ServerLastInv'
  BY ServerLastStep
<1>3. QED
  BY <1>1, <1>2, ServerInvariant, PTL DEF Spec

\* The server has not registered yet, has returned, or came too late to be waited for.
ServerStopped == serve \in {"new", "register", "returned"} \/ Server \in late

\* manager.go:275 and server.go:181-186: main returns only when Serve has, if it
\* registered before WaitForServers returned, and with it every runner and every
\* terminating function that registered in time.
THEOREM ServerIsWaitedFor == Spec => [](ManagerLast /\ ("manager" \in closed => ServerStopped))
<1>1. ServerInv /\ ServerLastInv => ManagerLast /\ ("manager" \in closed => ServerStopped)
  <2> SUFFICES ASSUME ServerInv, ServerLastInv, "manager" \in closed
               PROVE  ManagerLast /\ ServerStopped
    BY DEF ManagerLast
  <2>1. waiter = "end"
    BY DEF ServerLastInv, ShutInv
  <2>2. ManagerLast
    BY <2>1 DEF ServerInv, Types, ServerLastInv, LastInv, Inside, ManagerLast
  <2>3. ServerStopped
    BY <2>1 DEF ServerLastInv, Registered, ServerStopped
  <2>4. QED
    BY <2>2, <2>3
<1>2. QED
  BY <1>1, ServerLastInvariant, PTL

\* The terminate context is cancelled only when the server has stopped.
TerminateAfterServe == []["terminate" \in closed' \ closed => ServerStopped]_managerVars

\* manager.go:257: nor is the terminate context cancelled while the server runs,
\* or a runner, that registered before WaitForServers returned.
THEOREM ServerBeforeTermination == Spec => TerminateAfterServers /\ TerminateAfterServe
<1>1. ServerInv /\ ServerLastInv /\ [Next]_vars =>
        /\ ["terminate" \in closed' \ closed =>
               \A r \in Runners : runner[r] \in {"in", "panicking"} => r \in late]_managerVars
        /\ ["terminate" \in closed' \ closed => ServerStopped]_managerVars
  <2> SUFFICES ASSUME ServerInv, ServerLastInv, [Next]_vars, "terminate" \in closed' \ closed
               PROVE  Inside \subseteq late /\ ServerStopped
    BY DEF Inside
  <2>1. ManagerNext
    BY ServerStepAside
  <2>2. DoTerminate
    BY <2>1, TerminatedByDoTerminate
  <2>3. QED
    BY <2>2 DEF DoTerminate, ServerLastInv, LastInv, Registered, ServerStopped
<1>2. QED
  BY <1>1, ServerLastInvariant, PTL DEF Spec, TerminateAfterServers, TerminateAfterServe

-----------------------------------------------------------------------------
(* The manager and its server are a manager with one runner more *)

\* The server's own entry.
LEMMA WithServerOwn ==
  ASSUME NEW f, Server \notin DOMAIN f, NEW v, NEW w
  PROVE  /\ WithServer(f, v)[Server] = v
         /\ WithServer(f, w) = [WithServer(f, v) EXCEPT ![Server] = w]
  BY DEF WithServer

\* A signal is the same for both.
LEMMA ManagerSignals ==
  ASSUME Types, SignalStep, UNCHANGED serverVars PROVE Manager!SignalStep
<1>0. /\ \A place : WithServer([caller EXCEPT ![Sig] = place], "idle")
                       = [WithServer(caller, "idle") EXCEPT ![Sig] = place]
      /\ WithServer(caller, "idle")[Sig] = caller[Sig]
  <2>1. Sig \in DOMAIN caller /\ Server \notin DOMAIN caller
    BY GracefulServerAssumption DEF Callers, Types
  <2>2. QED
    BY <2>1 DEF WithServer
<1>1. UNCHANGED ServerRuns
  BY DEF serverVars, ServerRuns
<1> USE DEF Receive, CallerGoes, Manager!Receive, Manager!CallerGoes
<1>2. CASE SigTerm
  <2>1. Manager!SigTerm
    BY <1>0, <1>1, <1>2 DEF SigTerm, Manager!SigTerm
  <2>2. QED
    BY <2>1 DEF Manager!SignalStep
<1>3. CASE SigUsr2
  <2>1. Manager!SigUsr2
    BY <1>0, <1>1, <1>3 DEF SigUsr2, Manager!SigUsr2
  <2>2. QED
    BY <2>1 DEF Manager!SignalStep
<1>4. CASE SigHup
  <2>1. Manager!SigHup
    BY <1>0, <1>1, <1>4 DEF SigHup, Manager!SigHup
  <2>2. QED
    BY <2>1 DEF Manager!SignalStep
<1>5. CASE ChildKillsParent
  <2>1. Manager!ChildKillsParent
    BY <1>0, <1>1, <1>5 DEF ChildKillsParent, Manager!ChildKillsParent
  <2>2. QED
    BY <2>1 DEF Manager!SignalStep
<1>6. QED
  BY <1>2, <1>3, <1>4, <1>5 DEF SignalStep

\* So is every step of doShutdown; the functions the runners gave to it are
\* launched, the server gives it none.
LEMMA ManagerCallers ==
  ASSUME Types, NEW c \in Callers, CallerStep(c), UNCHANGED serverVars
  PROVE  Manager!CallerStep(c)
<1>0. /\ \A place : WithServer([caller EXCEPT ![c] = place], "idle")
                       = [WithServer(caller, "idle") EXCEPT ![c] = place]
      /\ WithServer(caller, "idle")[c] = caller[c]
  <2>1. c \in DOMAIN caller /\ Server \notin DOMAIN caller
    BY GracefulServerAssumption DEF Types
  <2>2. QED
    BY <2>1 DEF WithServer
<1>1. UNCHANGED ServerRuns
  BY DEF serverVars, ServerRuns
<1> USE DEF CallerGoes, Manager!CallerGoes
<1>2. CASE DoShutdown(c)
  <2>1. Manager!DoShutdown(c)
    BY <1>0, <1>1, <1>2 DEF DoShutdown, Manager!DoShutdown
  <2>2. QED
    BY <2>1 DEF Manager!CallerStep
<1>3. CASE DoShutdownWon(c)
  <2>1. WithServer(shutFn', "unset") =
            [r \in Runners \cup {Server} |->
                IF WithServer(shutFn, "unset")[r] = "set" THEN "launched"
                ELSE WithServer(shutFn, "unset")[r]]
    BY <1>3, GracefulServerAssumption DEF DoShutdownWon, WithServer, Types, Callers
  <2>2. Manager!DoShutdownWon(c)
    BY <1>0, <1>1, <1>3, <2>1 DEF DoShutdownWon, Manager!DoShutdownWon
  <2>3. QED
    BY <2>2 DEF Manager!CallerStep
<1>4. CASE DoImmediateHammer(c)
  <2>1. Manager!DoImmediateHammer(c)
    BY <1>0, <1>1, <1>4 DEF DoImmediateHammer, Manager!DoImmediateHammer
  <2>2. QED
    BY <2>1 DEF Manager!CallerStep
<1>5. QED
  BY <1>2, <1>3, <1>4 DEF CallerStep

\* What the manager's own goroutines do.
LEMMA ManagerWaits ==
  ASSUME HammerTime \/ WaiterStep, UNCHANGED serverVars
  PROVE  Manager!HammerTime \/ Manager!WaiterStep
<1>1. UNCHANGED ServerRuns
  BY DEF serverVars, ServerRuns
<1>2. ASSUME HammerTime PROVE Manager!HammerTime
  BY <1>1, <1>2 DEF HammerTime, Manager!HammerTime
<1>3. ASSUME WaitForServers PROVE Manager!WaitForServers
  BY <1>1, <1>3 DEF WaitForServers, Manager!WaitForServers
<1>4. ASSUME MopUp PROVE Manager!MopUp
  BY <1>1, <1>4 DEF MopUp, Manager!MopUp
<1>5. ASSUME DoTerminate PROVE Manager!DoTerminate
  BY <1>1, <1>5 DEF DoTerminate, Manager!DoTerminate
<1>6. ASSUME WaitForTerminate PROVE Manager!WaitForTerminate
  <2>1. Manager!Terminating = Terminating
    BY DEF Terminating, Manager!Terminating, Cardinality, Manager!Cardinality
  <2>2. QED
    BY <1>1, <1>6, <2>1 DEF WaitForTerminate, Manager!WaitForTerminate
<1>7. QED
  BY <1>2, <1>3, <1>4, <1>5, <1>6 DEF WaiterStep, Manager!WaiterStep

\* What a runner does.
LEMMA ManagerRunners ==
  ASSUME Types, NEW r \in Runners, UNCHANGED serverVars,
         RunnerEnter(r) \/ RunnerRegisters(r) \/ RunnerPanic(r) \/ RunnerLeave(r)
  PROVE  \/ Manager!RunnerEnter(r) \/ Manager!RunnerRegisters(r)
         \/ Manager!RunnerPanic(r) \/ Manager!RunnerLeave(r)
<1>0. r \in Callers /\ Server \notin Callers /\ Server \notin Runners
  BY GracefulServerAssumption DEF Callers
<1>1. UNCHANGED ServerRuns
  BY DEF serverVars, ServerRuns
<1>d. /\ r \in DOMAIN runner /\ Server \notin DOMAIN runner
      /\ r \in DOMAIN shutFn /\ Server \notin DOMAIN shutFn
      /\ r \in DOMAIN caller /\ Server \notin DOMAIN caller
  BY <1>0 DEF Types
<1>2. /\ \A v : WithServer([runner EXCEPT ![r] = v], ServerRuns)
                   = [WithServer(runner, ServerRuns) EXCEPT ![r] = v]
      /\ WithServer(runner, ServerRuns)[r] = runner[r]
  BY <1>d DEF WithServer
<1>3. /\ \A v : WithServer([shutFn EXCEPT ![r] = v], "unset")
                   = [WithServer(shutFn, "unset") EXCEPT ![r] = v]
      /\ WithServer(shutFn, "unset")[r] = shutFn[r]
  BY <1>d DEF WithServer
<1>4. /\ \A v : WithServer([caller EXCEPT ![r] = v], "idle")
                   = [WithServer(caller, "idle") EXCEPT ![r] = v]
      /\ WithServer(caller, "idle")[r] = caller[r]
  BY <1>d DEF WithServer
<1>5. ASSUME RunnerEnter(r) PROVE Manager!RunnerEnter(r)
  BY <1>1, <1>2, <1>5 DEF RunnerEnter, RegisterServer, Registers, ServersAwaited,
     Manager!RunnerEnter, Manager!RegisterServer, Manager!Registers, Manager!ServersAwaited
<1>6. ASSUME RunnerRegisters(r) PROVE Manager!RunnerRegisters(r)
  BY <1>1, <1>2, <1>3, <1>6 DEF RunnerRegisters, Manager!RunnerRegisters
<1>7. ASSUME RunnerPanic(r) PROVE Manager!RunnerPanic(r)
  BY <1>1, <1>2, <1>4, <1>7 DEF RunnerPanic, CallerGoes, Manager!RunnerPanic, Manager!CallerGoes
<1>8. ASSUME RunnerLeave(r) PROVE Manager!RunnerLeave(r)
  BY <1>1, <1>2, <1>4, <1>8 DEF RunnerLeave, ServerDone, Manager!RunnerLeave, Manager!ServerDone
<1>9. QED
  BY <1>5, <1>6, <1>7, <1>8

\* Serve registers as a runner enters and unregisters as one leaves.
LEMMA ManagerServer ==
  ASSUME Types, ServeRegister \/ ServeReturn
  PROVE  Manager!RunnerEnter(Server) \/ Manager!RunnerLeave(Server)
<1>0. Server \notin Callers /\ Server \notin Runners
  BY GracefulServerAssumption DEF Callers
<1>d. DOMAIN runner = Runners /\ DOMAIN caller = Callers
  BY DEF Types
<1>1. /\ WithServer(runner, ServerRuns)[Server] = ServerRuns
      /\ \A v : WithServer(runner, v) = [WithServer(runner, ServerRuns) EXCEPT ![Server] = v]
      /\ WithServer(caller, "idle")[Server] = "idle"
  BY <1>0, <1>d, WithServerOwn
<1>2. CASE ServeRegister
  <2>1. ServerRuns = "out" /\ ServerRuns' = "in"
    BY <1>2 DEF ServeRegister, ServerRuns
  <2>2. Manager!RunnerEnter(Server)
    BY <1>1, <1>2, <2>1 DEF ServeRegister, RegisterServer, Registers, ServersAwaited,
       Manager!RunnerEnter, Manager!RegisterServer, Manager!Registers, Manager!ServersAwaited
  <2>3. QED
    BY <2>2
<1>3. CASE ServeReturn
  <2>1. ServerRuns = "in" /\ ServerRuns' = "left"
    BY <1>3 DEF ServeReturn, ServerRuns
  <2>2. Manager!RunnerLeave(Server)
    BY <1>1, <1>3, <2>1 DEF ServeReturn, ServerDone, Manager!RunnerLeave, Manager!ServerDone
  <2>3. QED
    BY <2>2
<1>4. QED
  BY <1>2, <1>3

\* Every step of the two is one of a manager with the server among its runners.
LEMMA ManagerRefinedStep ==
  ASSUME ServerInv, [Next]_vars
  PROVE  Manager!ManagerNext \/ UNCHANGED Manager!managerVars
<1> USE DEF ServerInv
<1>1. CASE ManagerNext /\ UNCHANGED serverVars
  <2>1. CASE SignalStep
    BY <1>1, <2>1, ManagerSignals DEF Manager!ManagerNext
  <2>2. ASSUME NEW c \in Callers, CallerStep(c) PROVE Manager!ManagerNext
    BY <1>1, <2>2, ManagerCallers DEF Manager!ManagerNext, Manager!Callers, Callers
  <2>3. CASE HammerTime \/ WaiterStep
    BY <1>1, <2>3, ManagerWaits DEF Manager!ManagerNext
  <2>4. ASSUME NEW r \in Runners, RunnerEnter(r) \/ RunnerRegisters(r) \/ RunnerPanic(r)
                                  \/ RunnerLeave(r)
        PROVE  Manager!ManagerNext
    BY <1>1, <2>4, ManagerRunners DEF Manager!ManagerNext
  <2>5. ASSUME NEW f \in TerminateFns, RunAtTerminate(f) \/ TerminateFnReturns(f)
        PROVE  Manager!ManagerNext
    <3>1. UNCHANGED ServerRuns
      BY <1>1 DEF serverVars, ServerRuns
    <3>2. Manager!RunAtTerminate(f) \/ Manager!TerminateFnReturns(f)
      BY <2>5, <3>1 DEF RunAtTerminate, TerminateFnReturns, Registers, TerminateAwaited,
         Manager!RunAtTerminate, Manager!TerminateFnReturns, Manager!Registers,
         Manager!TerminateAwaited
    <3>3. QED
      BY <3>2 DEF Manager!ManagerNext
  <2>6. QED
    BY <1>1, <2>1, <2>2, <2>3, <2>4, <2>5 DEF ManagerNext
<1>2. CASE ServeRegister \/ ServeReturn
  BY <1>2, ManagerServer DEF Manager!ManagerNext
<1>3. CASE UNCHANGED managerVars /\ ServerRuns' = ServerRuns
  BY <1>3 DEF managerVars, Manager!managerVars
<1>4. ASSUME UNCHANGED vars \/ ServeBegin \/ ServeEnds \/ WaitConns \/ WakeUp \/ ServeFinish
                \/ AwaitStep
      PROVE  UNCHANGED managerVars /\ ServerRuns' = ServerRuns
  BY <1>4 DEF vars, serverVars, ServeBegin, ServeEnds, WaitConns, WakeUp, ServeFinish, AwaitStep,
     AwaitSelect, CheckRunning, CloseListener, AwaitHammer, HammerBegin, HammerForce, ServerRuns
<1>5. ASSUME NEW c \in Conns, Accept(c) \/ AddConn(c) \/ CloseConn(c)
      PROVE  UNCHANGED managerVars /\ ServerRuns' = ServerRuns
  BY <1>5 DEF Accept, AddConn, CloseConn, AcceptInv, ServerRuns
<1>6. QED
  BY <1>1, <1>2, <1>3, <1>4, <1>5 DEF Next, ServeStep

\* server.go:181 and 186: whatever the connections and the hammer do to Serve, the
\* manager sees one runner more, that enters once and leaves once.
THEOREM ServerIsARunner == Spec => ImplementsManager
<1>1. ServerInv /\ [Next]_vars => [Manager!ManagerNext]_(Manager!managerVars)
  BY ManagerRefinedStep
<1>2. Init => Manager!ManagerInit
  <2> SUFFICES ASSUME Init PROVE Manager!ManagerInit
    OBVIOUS
  <2>1. /\ WithServer(runner, ServerRuns) = [r \in Runners \cup {Server} |-> "out"]
        /\ WithServer(shutFn, "unset") = [r \in Runners \cup {Server} |-> "unset"]
        /\ WithServer(caller, "idle") = [c \in Manager!Callers |-> "idle"]
    <3>1. ServerRuns = "out" /\ Callers \cup {Server} = Manager!Callers
      BY DEF Init, ServerRuns, Callers, Manager!Callers
    <3>2. QED
      BY <3>1 DEF Init, ManagerInit, WithServer
  <2>2. QED
    BY <2>1 DEF Init, ManagerInit, Manager!ManagerInit
<1>3. QED
  BY <1>1, <1>2, ServerInvariant, PTL DEF Spec, ImplementsManager, Manager!ManagerSpec
=============================================================================
