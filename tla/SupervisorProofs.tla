--------------------------- MODULE SupervisorProofs ---------------------------
(***************************************************************************)
(* Proofs about Supervisor, for every set of workers, every policy and     *)
(* every bound.                                                            *)
(***************************************************************************)
EXTENDS Supervisor, FiniteSetTheorems, TLAPS

(* What SupervisorAssumption says, in the form the arithmetic leaves use.  *)
LEMMA ConstantTypes ==
  /\ Policy \in [Worker -> Policies] /\ MaxRestarts \in Nat
  /\ Window \in Nat /\ 0 < Window /\ Cooldown \in Nat
  /\ GracefulGrace \in Nat /\ ImmediateGrace \in Nat
  /\ 0 < ImmediateGrace /\ ImmediateGrace <= GracefulGrace
  BY SupervisorAssumption

-------------------------------------------------------------------------------
(***************************************************************************)
(* Type correctness, one lemma per group of variables.                     *)
(***************************************************************************)
(* A step keeps the control points, the reasons and the last errors in     *)
(* type.                                                                   *)
LEMMA TypeControlStep == TypeOK /\ [Next]_vars => TypeControl'
<1> SUFFICES ASSUME TypeOK, [Next]_vars PROVE TypeControl'
  OBVIOUS
<1> USE DEF TypeOK, TypeControl, PCs, Reasons, Errors, local, Goto, Because
<1>1. CASE UNCHANGED vars
  BY <1>1, Zenon DEF vars
<1>2. ASSUME NEW w \in Worker, Enter(w) \/ CheckDrain(w) \/ SpawnOk(w) PROVE TypeControl'
  BY <1>2, Zenon DEF Enter, CheckDrain, SpawnOk
<1>3. ASSUME NEW w \in Worker, SpawnFailed(w) PROVE TypeControl'
  BY <1>3, Zenon DEF SpawnFailed
<1>4. ASSUME NEW w \in Worker, ChildExited(w) \/ WaitFailed(w) PROVE TypeControl'
  BY <1>4, Zenon DEF ChildExited, WaitFailed, RestartAfterExit
<1>5. ASSUME NEW w \in Worker,
             SeeDrain(w) \/ SeeDrainSignal(w) \/ SeeRestartSignal(w)
      PROVE  TypeControl'
  BY <1>5, Zenon DEF SeeDrain, SeeDrainSignal, SeeRestartSignal, BeginStop
<1>6. ASSUME NEW w \in Worker,
             CooldownOver(w) \/ GraceElapsed(w) \/ Stopped(w) \/ Return(w)
      PROVE  TypeControl'
  BY <1>6, Zenon DEF CooldownOver, GraceElapsed, Stopped, AfterStop, Return
<1>7. CASE UNCHANGED <<pc, reason, last_error>>
  BY <1>7, Zenon
<1> QED
  BY <1>1, <1>2, <1>3, <1>4, <1>5, <1>6, <1>7, Zenon
     DEF Next, Step, Surroundings, StopReaped, StopWaitFailed, ChildExits,
         KilledDies, NotifyDrain, NotifyRestart, begin_drain, Tick

(* A step keeps the timers and the drain clock natural numbers.            *)
LEMMA TypeTimeStep == TypeOK /\ [Next]_vars => TypeTime'
<1> SUFFICES ASSUME TypeOK, [Next]_vars PROVE TypeTime'
  OBVIOUS
<1> USE ConstantTypes DEF TypeOK, TypeTime
<1>1. CASE UNCHANGED vars
  BY <1>1 DEF vars, history
<1>2. CASE Tick
  BY <1>2 DEF Tick
<1>3. ASSUME NEW w \in Worker, NEW ticks \in Nat, SetTimer(w, ticks),
             UNCHANGED sinceDrain
      PROVE  TypeTime'
  BY <1>3 DEF SetTimer
<1>4. CASE UNCHANGED <<timer, sinceDrain>>
  BY <1>4
<1>5. ASSUME NEW w \in Worker, SpawnFailed(w) \/ ChildExited(w) \/ WaitFailed(w)
      PROVE  TypeTime'
  <2>1. UNCHANGED sinceDrain /\ (UNCHANGED timer \/ SetTimer(w, Cooldown))
    BY <1>5, Zenon DEF SpawnFailed, CountAttempt, ChildExited, WaitFailed,
                       RestartAfterExit, history
  <2> QED
    BY <1>3, <1>4, <2>1
<1>6. ASSUME NEW w \in Worker,
             SeeDrain(w) \/ SeeDrainSignal(w) \/ SeeRestartSignal(w)
      PROVE  TypeTime'
  <2>1. drain_grace_secs(kind) \in Nat
    BY DEF drain_grace_secs
  <2>2. /\ UNCHANGED sinceDrain
        /\ SetTimer(w, drain_grace_secs(kind)) \/ SetTimer(w, GracefulGrace)
    BY <1>6, Zenon DEF SeeDrain, SeeDrainSignal, SeeRestartSignal, BeginStop, history
  <2> QED
    BY <1>3, <2>1, <2>2
<1> QED
  BY <1>1, <1>2, <1>4, <1>5, <1>6, Zenon
     DEF Next, Step, Surroundings, StopReaped, StopWaitFailed, Enter, CheckDrain,
         SpawnOk, CountAttempt, CooldownOver, GraceElapsed, Stopped, Return,
         ChildExits, KilledDies, NotifyDrain, NotifyRestart, begin_drain, history

(* A step keeps the process tables in type: spawn() adds a pid, exits      *)
(* remove one.                                                             *)
LEMMA TypeProcsStep == TypeOK /\ [Next]_vars => TypeProcs'
<1> SUFFICES ASSUME TypeOK, [Next]_vars PROVE TypeProcs'
  OBVIOUS
<1> USE DEF TypeOK, TypeProcs, procs
<1>1. CASE UNCHANGED vars
  BY <1>1 DEF vars
<1>2. ASSUME NEW w \in Worker, SpawnOk(w) PROVE TypeProcs'
  <2>1. attempt[w] + 1 \in Nat
    BY DEF TypeCounts
  <2> QED
    BY <1>2, <2>1 DEF SpawnOk
<1>3. ASSUME NEW w \in Worker, DropChild(w) PROVE TypeProcs'
  BY <1>3 DEF DropChild
<1>4. ASSUME NEW w \in Worker, GraceElapsed(w) PROVE TypeProcs'
  BY <1>4 DEF GraceElapsed
<1>5. ASSUME NEW w \in Worker, NEW ok \in BOOLEAN, ChildExits(w, ok) PROVE TypeProcs'
  BY <1>5 DEF ChildExits
<1>6. ASSUME NEW w \in Worker, NEW p \in doomed[w], KilledDies(w, p) PROVE TypeProcs'
  BY <1>6 DEF KilledDies
<1>7. CASE UNCHANGED procs
  BY <1>7
<1> QED
  BY <1>1, <1>2, <1>3, <1>4, <1>5, <1>6, <1>7, Zenon
     DEF Next, Step, Surroundings, StopReaped, StopWaitFailed, Enter, CheckDrain,
         SpawnFailed, ChildExited, WaitFailed, RestartAfterExit, CooldownOver,
         SeeDrain, SeeDrainSignal, SeeRestartSignal, Stopped, Return,
         NotifyDrain, NotifyRestart, begin_drain, Tick

(* A step keeps restart_count and the spawn counters natural numbers.      *)
LEMMA TypeCountsStep == TypeOK /\ [Next]_vars => TypeCounts'
<1> SUFFICES ASSUME TypeOK, [Next]_vars PROVE TypeCounts'
  OBVIOUS
<1> USE DEF TypeOK, TypeCounts, local, history
<1>1. CASE UNCHANGED vars
  BY <1>1 DEF vars
<1>2. ASSUME NEW w \in Worker, SpawnOk(w) PROVE TypeCounts'
  BY <1>2 DEF SpawnOk, CountAttempt
<1>3. ASSUME NEW w \in Worker, SpawnFailed(w) PROVE TypeCounts'
  <2>1. /\ CountAttempt(w)
        /\ \/ UNCHANGED restart_count
           \/ restart_count' = [restart_count EXCEPT ![w] = @ + 1]
    BY <1>3, Zenon DEF SpawnFailed
  <2> QED
    BY <2>1 DEF CountAttempt
<1>4. ASSUME NEW w \in Worker,
             restart_count' = [restart_count EXCEPT ![w] = @ + 1],
             UNCHANGED <<attempt, late>>
      PROVE  TypeCounts'
  BY <1>4
<1>5. CASE UNCHANGED <<restart_count, attempt, late>>
  BY <1>5
<1>6. ASSUME NEW w \in Worker, Step(w) PROVE TypeCounts'
  BY <1>1, <1>2, <1>3, <1>4, <1>5, <1>6, Zenon
     DEF Step, StopReaped, StopWaitFailed, Enter, CheckDrain, ChildExited, WaitFailed,
         RestartAfterExit, CooldownOver, SeeDrain, SeeDrainSignal, SeeRestartSignal,
         GraceElapsed, Stopped, Return
<1>7. ASSUME NEW w \in Worker, Surroundings(w) PROVE TypeCounts'
  BY <1>4, <1>5, <1>7, Zenon
     DEF Surroundings, ChildExits, KilledDies, WaitFailed, RestartAfterExit, StopWaitFailed, Stopped,
         NotifyDrain, NotifyRestart
<1> QED  BY <1>1, <1>5, <1>6, <1>7, Zenon DEF Next, begin_drain, Tick

(* What the methods of FleetState write is a snapshot.                     *)
LEMMA FleetMethods ==
  ASSUME TypeFleet, NEW w \in Worker, NEW n \in Nat, NEW e \in Errors
  PROVE  /\ Register(w) \in [Worker -> Snapshot]
         /\ Running(w, n) \in [Worker -> Snapshot]
         /\ Restarting(w, n) \in [Worker -> Snapshot]
         /\ Draining(w) \in [Worker -> Snapshot]
         /\ Finish(w, n, e) \in [Worker -> Snapshot]
<1> USE DEF TypeFleet, Snapshot, Phases
<1>1. Register(w) \in [Worker -> Snapshot]
  BY Zenon DEF Register, Errors
<1>2. Running(w, n) \in [Worker -> Snapshot]
  BY Zenon DEF Running
<1>3. Restarting(w, n) \in [Worker -> Snapshot]
  BY Zenon DEF Restarting
<1>4. Draining(w) \in [Worker -> Snapshot]
  BY Zenon DEF Draining
<1>5. Finish(w, n, e) \in [Worker -> Snapshot]
  BY DEF Finish
<1> QED
  BY <1>1, <1>2, <1>3, <1>4, <1>5

(* A step keeps every published WorkerStatus a snapshot.                   *)
LEMMA TypeFleetStep == TypeOK /\ [Next]_vars => TypeFleet'
<1> SUFFICES ASSUME TypeOK, [Next]_vars PROVE TypeFleet'
  OBVIOUS
<1> USE DEF TypeOK
<1>1. CASE UNCHANGED vars
  BY <1>1 DEF vars, TypeFleet
<1>2. ASSUME NEW w \in Worker,
             \/ Enter(w) \/ SpawnOk(w) \/ SpawnFailed(w) \/ RestartAfterExit(w)
             \/ SeeDrain(w) \/ SeeDrainSignal(w) \/ SeeRestartSignal(w) \/ Return(w)
      PROVE  TypeFleet'
  <2>1. attempt[w] + 1 \in Nat /\ restart_count[w] \in Nat /\ restart_count[w] + 1 \in Nat
    BY DEF TypeCounts
  <2>2. last_error[w] \in Errors /\ "spawn failed" \in Errors
    BY Zenon DEF TypeControl, Errors
  <2>3. PICK n \in Nat, e \in Errors :
          \/ fleet' = Register(w) \/ fleet' = Running(w, n)
          \/ fleet' = Restarting(w, n) \/ fleet' = Draining(w)
          \/ fleet' = Finish(w, n, e)
    BY <1>2, <2>1, <2>2, Zenon
       DEF Enter, SpawnOk, SpawnFailed, RestartAfterExit, SeeDrain,
           SeeDrainSignal, SeeRestartSignal, Return
  <2> QED
    BY <2>3, FleetMethods DEF TypeFleet
<1>3. CASE UNCHANGED fleet
  BY <1>3 DEF TypeFleet
<1> QED
  BY <1>1, <1>2, <1>3, Zenon
     DEF Next, Step, Surroundings, StopReaped, StopWaitFailed, CheckDrain,
         ChildExited, WaitFailed, CooldownOver, GraceElapsed, Stopped,
         ChildExits, KilledDies, NotifyDrain, NotifyRestart, begin_drain, Tick

(* A step keeps the restart stamps and their ages in type.                 *)
LEMMA TypeBudgetStep == TypeOK /\ [Next]_vars => TypeBudget'
<1> SUFFICES ASSUME TypeOK, [Next]_vars PROVE TypeBudget'
  OBVIOUS
<1> USE DEF TypeOK, TypeBudget
<1>1. CASE UNCHANGED vars
  BY <1>1 DEF vars, local, history
<1>2. ASSUME NEW w \in Worker, NEW n \in Nat PROVE StampRestart(w, n) \subseteq Stamp
  BY ConstantTypes DEF StampRestart, Stamp
<1>3. ASSUME NEW w \in Worker, CountAttempt(w) PROVE respawned' \in [Worker -> SUBSET Stamp]
  <2>1. [of |-> attempt[w], age |-> 0] \in Stamp
    BY ConstantTypes DEF TypeCounts, Stamp
  <2> QED
    BY <1>3, <2>1 DEF CountAttempt
<1>4. ASSUME NEW w \in Worker, NEW n \in Nat,
             restart_times' = [restart_times EXCEPT ![w] = StampRestart(w, n)]
      PROVE  restart_times' \in [Worker -> SUBSET Stamp]
  BY <1>2, <1>4
<1>5. ASSUME NEW w \in Worker PROVE attempt[w] \in Nat /\ attempt[w] + 1 \in Nat
  BY DEF TypeCounts
<1>6. ASSUME NEW w \in Worker, SpawnOk(w) \/ SpawnFailed(w) PROVE TypeBudget'
  BY <1>3, <1>4, <1>5, <1>6, Zenon DEF SpawnOk, SpawnFailed, local
<1>7. ASSUME NEW w \in Worker, RestartAfterExit(w), UNCHANGED history PROVE TypeBudget'
  BY <1>4, <1>5, <1>7, Zenon DEF RestartAfterExit, history
<1>8. ASSUME NEW w \in Worker, CooldownOver(w) PROVE TypeBudget'
  BY <1>8 DEF CooldownOver, history
<1>9. CASE Tick
  <2>1. ASSUME NEW t \in Stamp PROVE Older(t) \in Stamp
    BY ConstantTypes DEF Older, Stamp
  <2> QED
    BY <1>9, <2>1 DEF Tick
<1>10. CASE UNCHANGED <<restart_times, respawned>>
  BY <1>10
<1> QED
  BY <1>1, <1>6, <1>7, <1>8, <1>9, <1>10, Zenon
     DEF Next, Step, Surroundings, StopReaped, StopWaitFailed, Enter, CheckDrain,
         ChildExited, WaitFailed, SeeDrain, SeeDrainSignal, SeeRestartSignal,
         GraceElapsed, Stopped, Return, ChildExits, KilledDies, NotifyDrain,
         NotifyRestart, begin_drain, local, history

(* A step keeps the drain bit, the kind and the permits in type.           *)
LEMMA TypeDrainStep == TypeOK /\ [Next]_vars => TypeDrain'
<1> SUFFICES ASSUME TypeOK, [Next]_vars PROVE TypeDrain'
  OBVIOUS
<1> USE SupervisorAssumption DEF TypeOK, TypeDrain, drainCtl, signals, ShutdownKinds
<1>1. CASE UNCHANGED vars
  BY <1>1 DEF vars
<1>2. ASSUME NEW w \in Worker,
             SeeDrainSignal(w) \/ SeeRestartSignal(w) \/ NotifyDrain(w) \/ NotifyRestart(w)
      PROVE  TypeDrain'
  BY <1>2, Zenon DEF SeeDrainSignal, SeeRestartSignal, NotifyDrain, NotifyRestart
<1>3. ASSUME NEW k \in Kinds, begin_drain(k) PROVE TypeDrain'
  BY <1>3 DEF begin_drain, causes_drain
<1>4. CASE UNCHANGED <<drainCtl, signals>>
  BY <1>4
<1>5. ASSUME NEW w \in Worker, Step(w) PROVE TypeDrain'
  BY <1>1, <1>2, <1>4, <1>5, Zenon
     DEF Step, StopReaped, StopWaitFailed, Enter, CheckDrain, SpawnOk, SpawnFailed,
         ChildExited, WaitFailed, RestartAfterExit, CooldownOver, SeeDrain,
         GraceElapsed, Stopped, Return
<1>6. ASSUME NEW w \in Worker, Surroundings(w) PROVE TypeDrain'
  BY <1>2, <1>4, <1>6, Zenon
     DEF Surroundings, ChildExits, KilledDies, WaitFailed, StopWaitFailed, Stopped
<1> QED  BY <1>1, <1>3, <1>4, <1>5, <1>6, Zenon DEF Next, Tick

(* Every variable of the supervisor stays in its range.                    *)
THEOREM TypeCorrect == Spec => []TypeOK
<1>1. Init => TypeOK
  <2> SUFFICES ASSUME Init PROVE TypeOK
    OBVIOUS
  <2>1. TypeControl
    BY DEF Init, TypeControl, PCs, Reasons, Errors
  <2>2. TypeTime /\ TypeCounts
    BY DEF Init, TypeTime, TypeCounts
  <2>3. TypeProcs
    BY DEF Init, TypeProcs
  <2>4. TypeFleet
    BY DEF Init, TypeFleet, Snapshot, Phases, Errors
  <2>5. TypeBudget /\ TypeDrain
    BY Zenon DEF Init, TypeBudget, TypeDrain
  <2> QED
    BY <2>1, <2>2, <2>3, <2>4, <2>5 DEF TypeOK
<1>2. TypeOK /\ [Next]_vars => TypeOK'
  BY TypeControlStep, TypeTimeStep, TypeProcsStep, TypeCountsStep, TypeFleetStep,
     TypeBudgetStep, TypeDrainStep DEF TypeOK
<1> QED
  BY <1>1, <1>2, PTL DEF Spec

-------------------------------------------------------------------------------
(***************************************************************************)
(* One live child.  Every process of a worker that has not been sent       *)
(* SIGKILL is the child it holds; it holds none where it may spawn.        *)
(***************************************************************************)
ChildHeld(w) ==
  /\ doomed[w] \subseteq alive[w]
  /\ alive[w] \ doomed[w] \subseteq {child[w]}
  /\ \A p \in alive[w] : 0 < p /\ p <= attempt[w]
  /\ pc[w] \in {"init", "top", "spawn", "finish", "done"} => child[w] = 0

ProcInv == \A w \in Worker : ChildHeld(w)

(* Dropping the handle leaves no process that was not sent SIGKILL.        *)
LEMMA DropKeepsHeld ==
  ASSUME TypeOK, ProcInv, NEW w \in Worker, DropChild(w), UNCHANGED attempt,
         \A v \in Worker : v # w => pc'[v] = pc[v]
  PROVE  ProcInv'
  BY DEF TypeOK, TypeProcs, ProcInv, ChildHeld, DropChild

(* A step keeps ProcInv: every path that loses the Child has sent SIGKILL. *)
LEMMA ProcStep == TypeOK /\ ProcInv /\ [Next]_vars => ProcInv'
<1> SUFFICES ASSUME TypeOK, ProcInv, [Next]_vars PROVE ProcInv'
  OBVIOUS
<1> USE DEF TypeOK, TypeProcs, TypeControl, ProcInv, ChildHeld, procs, history, Goto
<1>1. CASE UNCHANGED vars
  BY <1>1 DEF vars
<1>2. ASSUME NEW w \in Worker, Enter(w) \/ CheckDrain(w) \/ Return(w) PROVE ProcInv'
  BY <1>2 DEF Enter, CheckDrain, Return
<1>3. ASSUME NEW w \in Worker, SpawnOk(w) PROVE ProcInv'
  BY <1>3 DEF SpawnOk, CountAttempt, TypeCounts
<1>4. ASSUME NEW w \in Worker, SpawnFailed(w) PROVE ProcInv'
  <2>1. /\ UNCHANGED procs /\ attempt' = [attempt EXCEPT ![w] = @ + 1]
        /\ child[w] = 0 /\ \A v \in Worker : v # w => pc'[v] = pc[v]
    BY <1>4, Zenon DEF SpawnFailed, CountAttempt
  <2> QED
    BY <2>1 DEF TypeCounts
<1>5. ASSUME NEW w \in Worker, RestartAfterExit(w), UNCHANGED history PROVE ProcInv'
  <2>1. CASE UNCHANGED procs /\ Goto(w, "cooldown")
    BY <1>5, <2>1
  <2>2. CASE DropChild(w) /\ Goto(w, "top")
    BY <1>5, <2>2, DropKeepsHeld, Zenon
  <2> QED
    BY <1>5, <2>1, <2>2 DEF RestartAfterExit
<1>6. ASSUME NEW w \in Worker, DropChild(w), Goto(w, "finish") \/ Goto(w, "top"),
             UNCHANGED history
      PROVE  ProcInv'
  BY <1>6, DropKeepsHeld, Zenon
<1>7. ASSUME NEW w \in Worker,
             SeeDrain(w) \/ SeeDrainSignal(w) \/ SeeRestartSignal(w)
      PROVE  ProcInv'
  BY <1>7 DEF SeeDrain, SeeDrainSignal, SeeRestartSignal, BeginStop
<1>8. ASSUME NEW w \in Worker, GraceElapsed(w) PROVE ProcInv'
  BY <1>8 DEF GraceElapsed
<1>9. ASSUME NEW w \in Worker, NEW ok \in BOOLEAN, ChildExits(w, ok) PROVE ProcInv'
  BY <1>9 DEF ChildExits
<1>10. ASSUME NEW w \in Worker, NEW p \in doomed[w], KilledDies(w, p) PROVE ProcInv'
  BY <1>10 DEF KilledDies
<1>11. CASE UNCHANGED <<pc, child, alive, doomed, attempt>>
  BY <1>11
<1> QED
  BY <1>1, <1>2, <1>3, <1>4, <1>5, <1>6, <1>7, <1>8, <1>9, <1>10, <1>11, Zenon
     DEF Next, Step, Surroundings, StopReaped, StopWaitFailed, ChildExited,
         WaitFailed, CooldownOver, Stopped, AfterStop, NotifyDrain,
         NotifyRestart, begin_drain, Tick

(* A restart, a failed wait, a drain and the end of the loop never leave a *)
(* second process running beside the worker's child.                       *)
THEOREM SingleChild == Spec => []OneLiveChild
<1>1. Init => ProcInv
  BY DEF Init, ProcInv, ChildHeld
<1>2. ProcInv => OneLiveChild
  BY Zenon DEF ProcInv, ChildHeld, OneLiveChild
<1> QED
  BY <1>1, <1>2, TypeCorrect, ProcStep, PTL DEF Spec

-------------------------------------------------------------------------------
(***************************************************************************)
(* The drain deadline.  Once time has passed in a drain, every worker is   *)
(* in, or past, a stop whose remaining grace fits into the deadline.       *)
(***************************************************************************)
InDeadline(w) ==
  /\ sinceDrain > 0 => pc[w] \in {"stopping", "killing", "top", "finish", "done"}
  /\ pc[w] = "stopping" => timer[w] + sinceDrain <= GracefulGrace
  /\ sinceDrain > GracefulGrace => pc[w] = "done"

DeadlineInv ==
  /\ ~draining => sinceDrain = 0
  /\ \A w \in Worker : InDeadline(w)

(* A step keeps DeadlineInv: no timer outlives the graceful grace window.  *)
LEMMA DeadlineStep == TypeOK /\ DeadlineInv /\ [Next]_vars => DeadlineInv'
<1> SUFFICES ASSUME TypeOK, DeadlineInv, [Next]_vars PROVE DeadlineInv'
  OBVIOUS
<1> USE ConstantTypes
    DEF TypeOK, TypeTime, TypeControl, DeadlineInv, InDeadline, history, drainCtl, Goto
<1>1. CASE UNCHANGED vars
  BY <1>1 DEF vars
<1>2. ASSUME NEW w \in Worker, NEW point \in {"top", "spawn", "select", "cooldown", "killing", "finish", "done"},
             Goto(w, point), UNCHANGED <<draining, sinceDrain>>,
             timer' = timer \/ \E n \in Nat : SetTimer(w, n),
             pc[w] # "done",
             sinceDrain > 0 => point \in {"killing", "top", "finish", "done"}
      PROVE  DeadlineInv'
  BY <1>2 DEF SetTimer
<1>3. ASSUME NEW w \in Worker, NEW n \in Nat, Goto(w, "stopping"), SetTimer(w, n),
             pc[w] = "select", n <= GracefulGrace, UNCHANGED <<draining, sinceDrain>>
      PROVE  DeadlineInv'
  BY <1>3 DEF SetTimer
<1>4. CASE Tick
  BY <1>4 DEF Tick, Waiting
<1>5. ASSUME NEW k \in Kinds, begin_drain(k) PROVE DeadlineInv'
  BY <1>5, Zenon DEF begin_drain
<1>6. CASE UNCHANGED <<pc, timer, draining, sinceDrain>>
  BY <1>6
<1>7. ASSUME NEW w \in Worker,
             Enter(w) \/ CheckDrain(w) \/ SpawnOk(w) \/ SpawnFailed(w) \/ CooldownOver(w)
      PROVE  DeadlineInv'
  <2>1. CASE Enter(w) \/ CooldownOver(w)
    BY <1>2, <2>1 DEF Enter, CooldownOver
  <2>2. CASE CheckDrain(w)
    <3>1. CASE draining
      BY <1>2, <2>2, <3>1, Zenon DEF CheckDrain
    <3>2. CASE ~draining
      BY <1>2, <2>2, <3>2 DEF CheckDrain
    <3> QED
      BY <3>1, <3>2
  <2>3. CASE SpawnOk(w)
    BY <1>2, <2>3, Zenon DEF SpawnOk, CountAttempt
  <2>4. CASE SpawnFailed(w)
    BY <1>2, <2>4, Zenon DEF SpawnFailed, CountAttempt
  <2> QED
    BY <1>7, <2>1, <2>2, <2>3, <2>4
<1>8. ASSUME NEW w \in Worker, ChildExited(w) \/ WaitFailed(w) PROVE DeadlineInv'
  BY <1>2, <1>8, Zenon DEF ChildExited, WaitFailed, RestartAfterExit
<1>9. ASSUME NEW w \in Worker, GraceElapsed(w) \/ Stopped(w) \/ Return(w) PROVE DeadlineInv'
  BY <1>2, <1>9, Zenon DEF GraceElapsed, Stopped, AfterStop, Return
<1>10. ASSUME NEW w \in Worker,
              SeeDrain(w) \/ SeeDrainSignal(w) \/ SeeRestartSignal(w)
       PROVE  DeadlineInv'
  BY <1>3, <1>10
     DEF SeeDrain, SeeDrainSignal, SeeRestartSignal, BeginStop, drain_grace_secs
<1> QED
  BY <1>1, <1>4, <1>5, <1>6, <1>7, <1>8, <1>9, <1>10, Zenon
     DEF Next, Step, Surroundings, StopReaped, StopWaitFailed, ChildExits,
         KilledDies, NotifyDrain, NotifyRestart

(* A drain is over one graceful grace window after it began, whatever the  *)
(* workers were doing and however their children react.                    *)
THEOREM DrainMeetsDeadline == Spec => []DrainDeadline
<1>1. Init => DeadlineInv
  BY ConstantTypes DEF Init, DeadlineInv, InDeadline
<1>2. DeadlineInv => DrainDeadline
  BY DEF DeadlineInv, InDeadline, DrainDeadline, Returned
<1> QED
  BY <1>1, <1>2, TypeCorrect, DeadlineStep, PTL DEF Spec

-------------------------------------------------------------------------------
(***************************************************************************)
(* The published snapshot.                                                 *)
(***************************************************************************)
(* PublishedPidIsHeld is inductive: each write of the pid goes with its    *)
(* child.                                                                  *)
LEMMA PublishedStep == TypeOK /\ PublishedPidIsHeld /\ [Next]_vars => PublishedPidIsHeld'
<1> SUFFICES ASSUME TypeOK, PublishedPidIsHeld, [Next]_vars PROVE PublishedPidIsHeld'
  OBVIOUS
<1>1. CASE UNCHANGED vars
  BY <1>1 DEF vars, procs, PublishedPidIsHeld
<1>2. ASSUME NEW w \in Worker, fleet'[w].pid = 0, fleet'[w].phase # "running",
             \A v \in Worker : v # w =>
               /\ fleet'[v] = fleet[v] /\ pc'[v] = pc[v]
               /\ child'[v] = child[v] /\ reason'[v] = reason[v]
      PROVE  PublishedPidIsHeld'
  BY <1>2 DEF PublishedPidIsHeld
<1>3. ASSUME NEW w \in Worker, UNCHANGED fleet,
             \/ fleet[w].phase # "running"
             \/ pc'[w] = "finish" /\ reason'[w] = "refused",
             \A v \in Worker : v # w =>
               pc'[v] = pc[v] /\ child'[v] = child[v] /\ reason'[v] = reason[v]
      PROVE  PublishedPidIsHeld'
  BY <1>3 DEF PublishedPidIsHeld
<1> USE DEF TypeOK, TypeControl, TypeFleet, TypeProcs, Snapshot, PublishedPidIsHeld,
        procs, Goto, Because
<1>4. ASSUME NEW w \in Worker, Enter(w) \/ Return(w) PROVE PublishedPidIsHeld'
  <2>1. /\ fleet'[w].pid = 0 /\ fleet'[w].phase # "running"
        /\ \A v \in Worker : v # w => fleet'[v] = fleet[v] /\ pc'[v] = pc[v]
        /\ UNCHANGED <<child, reason>>
    BY <1>4 DEF Enter, Register, Return, Finish
  <2> QED
    BY <1>2, <2>1, Zenon
<1>5. ASSUME NEW w \in Worker, CheckDrain(w) PROVE PublishedPidIsHeld'
  BY <1>3, <1>5 DEF CheckDrain
<1>6. ASSUME NEW w \in Worker, SpawnOk(w) PROVE PublishedPidIsHeld'
  <2>1. attempt[w] + 1 # 0
    BY DEF TypeCounts
  <2> QED
    BY <1>6, <2>1 DEF SpawnOk, Running
<1>7. ASSUME NEW w \in Worker, SpawnFailed(w) PROVE PublishedPidIsHeld'
  BY <1>2, <1>7, Zenon DEF SpawnFailed, Finish
<1>8. ASSUME NEW w \in Worker, RestartAfterExit(w) PROVE PublishedPidIsHeld'
  BY <1>2, <1>8 DEF RestartAfterExit, Restarting, DropChild
<1>9. ASSUME NEW w \in Worker, ChildExited(w) PROVE PublishedPidIsHeld'
  BY <1>3, <1>8, <1>9, Zenon DEF ChildExited, DropChild
<1>10. ASSUME NEW w \in Worker, CooldownOver(w) \/ Stopped(w) PROVE PublishedPidIsHeld'
  BY <1>3, <1>10 DEF CooldownOver, Stopped, DropChild
<1>11. ASSUME NEW w \in Worker, SeeDrain(w) \/ SeeDrainSignal(w) PROVE PublishedPidIsHeld'
  <2>1. fleet' = Draining(w) /\ Goto(w, "stopping") /\ UNCHANGED child
        /\ \E why : Because(w, why)
    BY <1>11 DEF SeeDrain, SeeDrainSignal, BeginStop
  <2> QED
    BY <1>2, <2>1 DEF Draining
<1>12. ASSUME NEW w \in Worker, SeeRestartSignal(w) PROVE PublishedPidIsHeld'
  BY <1>2, <1>12 DEF SeeRestartSignal, Restarting, BeginStop
<1>13. ASSUME NEW w \in Worker, GraceElapsed(w) PROVE PublishedPidIsHeld'
  BY <1>3, <1>13 DEF GraceElapsed
<1>14. CASE UNCHANGED <<fleet, pc, child, reason>>
  BY <1>14
<1> QED
  BY <1>1, <1>4, <1>5, <1>6, <1>7, <1>8, <1>9, <1>10, <1>11, <1>12, <1>13, <1>14, Zenon
     DEF Next, Step, Surroundings, StopReaped, StopWaitFailed, WaitFailed,
         ChildExits, KilledDies, NotifyDrain, NotifyRestart, begin_drain, Tick

(* A published pid is that of the child the supervisor holds, and the      *)
(* snapshot never claims `running` during a restart, a cooldown or a drain.*)
THEOREM PublishedPid == Spec => []PublishedPidIsHeld
<1>1. Init => PublishedPidIsHeld
  BY DEF Init, PublishedPidIsHeld
<1> QED
  BY <1>1, TypeCorrect, PublishedStep, PTL DEF Spec

-------------------------------------------------------------------------------
(***************************************************************************)
(* The restart count.  Between two children it has already counted the     *)
(* spawn to come; while one runs it lags by the running child.             *)
(***************************************************************************)
CountExact(w) ==
  /\ pc[w] \in {"init", "top", "spawn"} => attempt[w] = restart_count[w]
  /\ pc[w] = "select" => attempt[w] = restart_count[w] + 1
  /\ pc[w] \in {"stopping", "killing"} /\ reason[w] = "operator" =>
       attempt[w] = restart_count[w]

CountInv == \A w \in Worker : CountExact(w)

(* A step keeps CountInv: each respawn is preceded by one increment.       *)
LEMMA CountStep == TypeOK /\ CountInv /\ [Next]_vars => CountInv'
<1> SUFFICES ASSUME TypeOK, CountInv, [Next]_vars PROVE CountInv'
  OBVIOUS
<1> USE DEF TypeOK, TypeControl, TypeCounts, CountInv, CountExact, local, history,
        Goto, Because
<1>1. CASE UNCHANGED vars
  BY <1>1 DEF vars
<1>2. ASSUME NEW w \in Worker, Enter(w) \/ CheckDrain(w) \/ Return(w) PROVE CountInv'
  BY <1>2 DEF Enter, CheckDrain, Return
<1>3. ASSUME NEW w \in Worker, SpawnOk(w) PROVE CountInv'
  BY <1>3 DEF SpawnOk, CountAttempt
<1>4. ASSUME NEW w \in Worker, SpawnFailed(w) PROVE CountInv'
  <2>1. attempt' = [attempt EXCEPT ![w] = @ + 1] /\ pc[w] = "spawn"
    BY <1>4, Zenon DEF SpawnFailed, CountAttempt
  <2>2. \/ UNCHANGED restart_count /\ (Goto(w, "finish") \/ Goto(w, "cooldown"))
        \/ restart_count' = [restart_count EXCEPT ![w] = @ + 1] /\ Goto(w, "top")
    BY <1>4, Zenon DEF SpawnFailed
  <2>3. \E why : Because(w, why)
    BY <1>4, Zenon DEF SpawnFailed
  <2> QED
    BY <2>1, <2>2, <2>3
<1>5. ASSUME NEW w \in Worker, pc[w] = "select", RestartAfterExit(w), UNCHANGED history
      PROVE  CountInv'
  BY <1>5 DEF RestartAfterExit
<1>6. ASSUME NEW w \in Worker, ChildExited(w) PROVE CountInv'
  BY <1>5, <1>6, Zenon DEF ChildExited
<1>7. ASSUME NEW w \in Worker, SeeRestartSignal(w) PROVE CountInv'
  BY <1>7 DEF SeeRestartSignal, BeginStop
<1>8. ASSUME NEW w \in Worker, SeeDrain(w) \/ SeeDrainSignal(w) PROVE CountInv'
  BY <1>8 DEF SeeDrain, SeeDrainSignal, BeginStop
<1>9. ASSUME NEW w \in Worker, CooldownOver(w) \/ GraceElapsed(w) \/ Stopped(w)
      PROVE  CountInv'
  BY <1>9, Zenon DEF CooldownOver, GraceElapsed, Stopped, AfterStop
<1>10. CASE UNCHANGED <<pc, reason, restart_count, attempt>>
  BY <1>10
<1> QED
  BY <1>1, <1>2, <1>3, <1>4, <1>5, <1>6, <1>7, <1>8, <1>9, <1>10, Zenon
     DEF Next, Step, Surroundings, StopReaped, StopWaitFailed, WaitFailed,
         ChildExits, KilledDies, NotifyDrain, NotifyRestart, begin_drain, Tick

(* The restart_count a worker returns is the number of spawns it attempted *)
(* after the first, on every path of the loop.                             *)
THEOREM CountCorrect == Spec => []RestartsCounted
<1>1. Init => CountInv
  BY DEF Init, CountInv, CountExact
<1>2. CountInv => RestartsCounted
  BY Zenon DEF CountInv, CountExact, RestartsCounted
<1> QED
  BY <1>1, <1>2, TypeCorrect, CountStep, PTL DEF Spec

-------------------------------------------------------------------------------
(***************************************************************************)
(* Causes of an end, and spawns in a drain.                                *)
(***************************************************************************)
Justified(w) ==
  /\ pc[w] = "cooldown" => reason[w] = "limit"
  /\ pc[w] \in {"stopping", "killing"} =>
       reason[w] \in {"operator", "signal"} \/ (reason[w] = "drain" /\ draining)
  /\ pc[w] \in {"finish", "done"} =>
       \/ draining
       \/ reason[w] \in {"signal", "limit"}
       \/ reason[w] = "refused" /\ Policy[w] # "permanent"

CauseInv == \A w \in Worker : Justified(w)

(* A step keeps CauseInv: the reason recorded is one that ends the worker. *)
LEMMA CauseStep == TypeOK /\ CauseInv /\ [Next]_vars => CauseInv'
<1> SUFFICES ASSUME TypeOK, CauseInv, [Next]_vars PROVE CauseInv'
  OBVIOUS
<1> USE DEF TypeOK, TypeControl, TypeDrain, CauseInv, Justified, drainCtl, Goto, Because
<1>1. CASE UNCHANGED vars
  BY <1>1 DEF vars
<1>2. ASSUME NEW w \in Worker, Enter(w) \/ CheckDrain(w) \/ Return(w) PROVE CauseInv'
  BY <1>2, Zenon DEF Enter, CheckDrain, Return
<1>3. ASSUME NEW w \in Worker, SpawnOk(w) PROVE CauseInv'
  BY <1>3, Zenon DEF SpawnOk
<1>4. ASSUME NEW w \in Worker, SpawnFailed(w) PROVE CauseInv'
  BY <1>4, ZenonT(60) DEF SpawnFailed, should_restart
<1>5. ASSUME NEW w \in Worker, RestartAfterExit(w), UNCHANGED draining PROVE CauseInv'
  BY <1>5, Zenon DEF RestartAfterExit
<1>6. ASSUME NEW w \in Worker, ChildExited(w) PROVE CauseInv'
  <2>1. CASE ~should_restart(Policy[w], clean[w])
    <3>1. Goto(w, "finish") /\ Because(w, "refused") /\ UNCHANGED draining
      BY <1>6, <2>1, Zenon DEF ChildExited
    <3>2. Policy[w] # "permanent"
      BY <2>1 DEF should_restart
    <3> QED
      BY <3>1, <3>2
  <2>2. CASE RestartAfterExit(w)
    BY <1>5, <1>6, <2>2, Zenon DEF ChildExited
  <2> QED
    BY <1>6, <2>1, <2>2, Zenon DEF ChildExited
<1>7. ASSUME NEW w \in Worker,
             SeeDrain(w) \/ SeeDrainSignal(w) \/ SeeRestartSignal(w)
      PROVE  CauseInv'
  BY <1>7 DEF SeeDrain, SeeDrainSignal, SeeRestartSignal, BeginStop
<1>8. ASSUME NEW w \in Worker, CooldownOver(w) \/ GraceElapsed(w) \/ Stopped(w)
      PROVE  CauseInv'
  BY <1>8, Zenon DEF CooldownOver, GraceElapsed, Stopped, AfterStop
<1>9. ASSUME NEW k \in Kinds, begin_drain(k) PROVE CauseInv'
  BY <1>9 DEF begin_drain
<1>10. CASE UNCHANGED <<pc, reason, draining>>
  BY <1>10
<1> QED
  BY <1>1, <1>2, <1>3, <1>4, <1>5, <1>6, <1>7, <1>8, <1>9, <1>10, Zenon
     DEF Next, Step, Surroundings, StopReaped, StopWaitFailed, WaitFailed,
         ChildExits, KilledDies, NotifyDrain, NotifyRestart, Tick

(* An operator's restart never ends a worker; a permanent worker ends only *)
(* in a drain, on its drain signal or at the rate limit.                   *)
THEOREM EndsOnlyForCause == Spec => []EndsForCause
<1>1. Init => CauseInv
  BY DEF Init, CauseInv, Justified
<1>2. CauseInv => EndsForCause
  BY Zenon DEF CauseInv, Justified, EndsForCause
<1> QED
  BY <1>1, <1>2, TypeCorrect, CauseStep, PTL DEF Spec

(* A worker commits to a spawn only before the drain, hence at most once   *)
(* too late.                                                               *)
LateInv ==
  \A w \in Worker :
    /\ late[w] <= 1
    /\ ~draining \/ pc[w] = "spawn" => late[w] = 0

(* A step keeps LateInv: a second late spawn would pass the drain check.   *)
LEMMA LateStep == TypeOK /\ LateInv /\ [Next]_vars => LateInv'
<1> SUFFICES ASSUME TypeOK, LateInv, [Next]_vars PROVE LateInv'
  OBVIOUS
<1> USE DEF TypeOK, TypeControl, TypeCounts, LateInv, drainCtl, history, Goto
<1>1. CASE UNCHANGED vars
  BY <1>1 DEF vars
<1>2. ASSUME NEW w \in Worker, CheckDrain(w) PROVE LateInv'
  BY <1>2 DEF CheckDrain
<1>3. ASSUME NEW w \in Worker, CountAttempt(w), UNCHANGED draining, pc[w] = "spawn",
             NEW point \in {"select", "finish", "cooldown", "top"}, Goto(w, point)
      PROVE  LateInv'
  BY <1>3 DEF CountAttempt
<1>4. ASSUME NEW w \in Worker, SpawnOk(w) \/ SpawnFailed(w) PROVE LateInv'
  BY <1>3, <1>4, Zenon DEF SpawnOk, SpawnFailed
<1>5. ASSUME NEW w \in Worker, UNCHANGED <<draining, late>>,
             NEW point \in PCs \ {"spawn"}, Goto(w, point)
      PROVE  LateInv'
  BY <1>5
<1>6. ASSUME NEW w \in Worker, Enter(w) \/ Return(w) PROVE LateInv'
  BY <1>5, <1>6 DEF Enter, Return, PCs
<1>7. ASSUME NEW w \in Worker, ChildExited(w) \/ WaitFailed(w) PROVE LateInv'
  BY <1>5, <1>7, Zenon DEF ChildExited, WaitFailed, RestartAfterExit, PCs
<1>8. ASSUME NEW w \in Worker,
             SeeDrain(w) \/ SeeDrainSignal(w) \/ SeeRestartSignal(w)
      PROVE  LateInv'
  BY <1>5, <1>8 DEF SeeDrain, SeeDrainSignal, SeeRestartSignal, BeginStop, PCs
<1>9. ASSUME NEW w \in Worker, CooldownOver(w) \/ GraceElapsed(w) \/ Stopped(w)
      PROVE  LateInv'
  BY <1>5, <1>9, Zenon DEF CooldownOver, GraceElapsed, Stopped, AfterStop, PCs
<1>10. ASSUME NEW k \in Kinds, begin_drain(k) PROVE LateInv'
  BY <1>10, Zenon DEF begin_drain
<1>11. CASE UNCHANGED <<pc, draining, late>>
  BY <1>11
<1> QED
  BY <1>1, <1>2, <1>4, <1>6, <1>7, <1>8, <1>9, <1>10, <1>11, Zenon
     DEF Next, Step, Surroundings, StopReaped, StopWaitFailed,
         ChildExits, KilledDies, NotifyDrain, NotifyRestart, Tick

(* After begin_drain a worker spawns at most one more child.               *)
THEOREM LateSpawnBounded == Spec => []AtMostOneLateSpawn
<1>1. Init => LateInv
  BY DEF Init, LateInv
<1>2. LateInv => AtMostOneLateSpawn
  BY Zenon DEF LateInv, AtMostOneLateSpawn
<1> QED
  BY <1>1, <1>2, TypeCorrect, LateStep, PTL DEF Spec

-------------------------------------------------------------------------------
(***************************************************************************)
(* The crash budget.  The stamps rate_limited still counts are exactly the *)
(* respawns of the last Window, plus the one a worker on its way back to   *)
(* spawn() is about to make.                                               *)
(***************************************************************************)
Recent(w) == {t \in restart_times[w] : t.age < Window}

Ledger(w) ==
  /\ IsFiniteSet(restart_times[w]) /\ IsFiniteSet(respawned[w])
  /\ Cardinality(respawned[w]) <= MaxRestarts
  /\ pc[w] = "init" => reason[w] = "first"
  /\ pc[w] \notin {"cooldown", "finish", "done"} =>
       Cardinality(restart_times[w]) <= MaxRestarts
  /\ \/ pc[w] \in {"init", "select", "stopping", "killing"}
     \/ pc[w] \in {"top", "spawn"} /\ reason[w] # "failure"
     => Recent(w) = respawned[w]
  /\ pc[w] \in {"top", "spawn"} /\ reason[w] = "failure" =>
       Recent(w) = respawned[w] \cup {[of |-> attempt[w], age |-> 0]}

BudgetInv == \A w \in Worker : Ledger(w)

(* Ageing a set of stamps does not make it larger.                         *)
LEMMA OlderCardinality ==
  ASSUME NEW S, IsFiniteSet(S)
  PROVE  LET T == {Older(t) : t \in S}
         IN  IsFiniteSet(T) /\ Cardinality(T) <= Cardinality(S)
<1> DEFINE T == {Older(t) : t \in S}
           f == [t \in S |-> Older(t)]
<1>1. f \in Surjection(S, T)
  BY DEF Surjection
<1> HIDE DEF T, f
<1>2. IsFiniteSet(T) /\ Cardinality(T) <= Cardinality(S)
  BY <1>1, FS_Surjection
<1> QED
  BY <1>2 DEF T

(* The stamps after rate_limited's push: finite, one more at most, and all *)
(* of them recent.                                                         *)
LEMMA PushedStamps ==
  ASSUME TypeOK, NEW w \in Worker, NEW n \in Nat, IsFiniteSet(restart_times[w])
  PROVE  /\ IsFiniteSet(Recent(w))
         /\ Cardinality(Recent(w)) \in Nat
         /\ Cardinality(Recent(w)) <= Cardinality(restart_times[w])
         /\ IsFiniteSet(StampRestart(w, n))
         /\ Cardinality(StampRestart(w, n)) \in Nat
         /\ Cardinality(StampRestart(w, n)) <= Cardinality(Recent(w)) + 1
         /\ {t \in StampRestart(w, n) : t.age < Window} =
               Recent(w) \cup {[of |-> n, age |-> 0]}
<1>1. StampRestart(w, n) = Recent(w) \cup {[of |-> n, age |-> 0]}
  BY DEF StampRestart, Recent
<1>2. Recent(w) \in SUBSET restart_times[w]
  BY DEF Recent
<1>3. IsFiniteSet(Recent(w)) /\ Cardinality(Recent(w)) <= Cardinality(restart_times[w])
  BY <1>2, FS_Subset
<1>4. Cardinality(Recent(w)) \in Nat
  BY <1>3, FS_CardinalityType
<1>5. /\ IsFiniteSet(StampRestart(w, n))
      /\ Cardinality(StampRestart(w, n)) <= Cardinality(Recent(w)) + 1
  <2> DEFINE x == [of |-> n, age |-> 0]
  <2>1. /\ IsFiniteSet(Recent(w) \cup {x})
        /\ Cardinality(Recent(w) \cup {x}) =
             IF x \in Recent(w) THEN Cardinality(Recent(w)) ELSE Cardinality(Recent(w)) + 1
    BY <1>3, FS_AddElement, Zenon
  <2> QED
    BY <1>1, <1>4, <2>1
<1>6. Cardinality(StampRestart(w, n)) \in Nat
  BY <1>5, FS_CardinalityType
<1>7. {t \in StampRestart(w, n) : t.age < Window} = Recent(w) \cup {[of |-> n, age |-> 0]}
  <2>1. [of |-> n, age |-> 0].age < Window
    BY ConstantTypes
  <2>2. \A t \in Recent(w) : t.age < Window
    BY DEF Recent
  <2> QED
    BY <1>1, <2>1, <2>2
<1> QED
  BY <1>3, <1>4, <1>5, <1>6, <1>7

(* A spawn settles the ledger.                                             *)
LEMMA SpawnSettles ==
  ASSUME TypeOK, BudgetInv, NEW w \in Worker, pc[w] = "spawn", CountAttempt(w)
  PROVE  /\ respawned'[w] = Recent(w)
         /\ IsFiniteSet(respawned'[w])
         /\ Cardinality(respawned'[w]) <= MaxRestarts
         /\ \A v \in Worker : v # w =>
              respawned'[v] = respawned[v] /\ attempt'[v] = attempt[v]
         /\ attempt'[w] = attempt[w] + 1
<1>1. respawned'[w] = Recent(w)
  BY DEF CountAttempt, BudgetInv, Ledger, TypeOK, TypeBudget
<1>2. Cardinality(restart_times[w]) <= MaxRestarts /\ IsFiniteSet(restart_times[w])
  BY DEF BudgetInv, Ledger
<1>3. Cardinality(restart_times[w]) \in Nat
  BY <1>2, FS_CardinalityType
<1>4. IsFiniteSet(Recent(w)) /\ Cardinality(Recent(w)) <= MaxRestarts
  <2>1. /\ IsFiniteSet(Recent(w)) /\ Cardinality(Recent(w)) \in Nat
        /\ Cardinality(Recent(w)) <= Cardinality(restart_times[w])
    BY <1>2, PushedStamps, Zenon
  <2>2. MaxRestarts \in Nat
    BY ConstantTypes
  <2> QED  BY <1>2, <1>3, <2>1, <2>2
<1> QED
  BY <1>1, <1>4, Zenon DEF CountAttempt, TypeOK, TypeBudget, TypeCounts

(* A step keeps the ledger between restart_times and the respawned         *)
(* failures.                                                               *)
LEMMA BudgetStep == TypeOK /\ BudgetInv /\ [Next]_vars => BudgetInv'
<1> SUFFICES ASSUME TypeOK, BudgetInv, [Next]_vars PROVE BudgetInv'
  OBVIOUS
<1> USE DEF local, history
<1>1. CASE UNCHANGED vars
  BY <1>1, Zenon DEF vars, BudgetInv, Ledger, Recent
<1>2. ASSUME NEW w \in Worker, Ledger(w)', 
             \A v \in Worker : v # w =>
               /\ pc'[v] = pc[v] /\ reason'[v] = reason[v]
               /\ restart_times'[v] = restart_times[v]
               /\ respawned'[v] = respawned[v] /\ attempt'[v] = attempt[v]
      PROVE  BudgetInv'
  BY <1>2, Zenon DEF BudgetInv, Ledger, Recent
<1>3. ASSUME NEW w \in Worker, SpawnOk(w) PROVE BudgetInv'
  <2>1. /\ UNCHANGED <<restart_times, reason>> /\ Goto(w, "select") /\ CountAttempt(w)
        /\ pc[w] = "spawn"
    BY <1>3, Zenon DEF SpawnOk
  <2>2. Ledger(w)'
    BY <2>1, SpawnSettles, Zenon DEF Goto, BudgetInv, Ledger, Recent, TypeOK, TypeControl
  <2> QED
    BY <1>2, <2>1, <2>2, SpawnSettles, Zenon DEF Goto, TypeOK, TypeControl
<1>4. ASSUME NEW w \in Worker, SpawnFailed(w) PROVE BudgetInv'
  <2> DEFINE times == StampRestart(w, attempt[w] + 1)
  <2>1. CountAttempt(w) /\ pc[w] = "spawn"
    BY <1>4, Zenon DEF SpawnFailed
  <2>2. attempt[w] + 1 \in Nat /\ IsFiniteSet(restart_times[w])
    <3>1. attempt[w] \in Nat
      BY DEF TypeOK, TypeCounts
    <3>2. IsFiniteSet(restart_times[w])
      BY Zenon DEF BudgetInv, Ledger
    <3> QED
      BY <3>1, <3>2
  <2>3. CASE UNCHANGED restart_times /\ Goto(w, "finish") /\ Because(w, "refused")
    <3>1. Ledger(w)'
      BY <2>1, <2>2, <2>3, SpawnSettles, Zenon DEF Goto, Ledger, TypeOK, TypeControl
    <3> QED
      BY <1>2, <2>1, <2>3, <3>1, SpawnSettles, Zenon DEF Goto, Because, TypeOK, TypeControl
  <2>4. CASE /\ restart_times' = [restart_times EXCEPT ![w] = times]
             /\ Goto(w, "cooldown") /\ Because(w, "limit")
    <3>1. restart_times'[w] = times
      BY <2>4 DEF TypeOK, TypeBudget
    <3>2. Ledger(w)'
      BY <2>1, <2>2, <2>4, <3>1, SpawnSettles, PushedStamps, Zenon
         DEF Goto, Ledger, TypeOK, TypeControl
    <3> QED
      BY <1>2, <2>1, <2>4, <3>2, SpawnSettles, Zenon
         DEF Goto, Because, TypeOK, TypeControl, TypeBudget
  <2>5. CASE /\ restart_times' = [restart_times EXCEPT ![w] = times]
             /\ Goto(w, "top") /\ Because(w, "failure") /\ ~LimitTripped(times)
    <3>1. restart_times'[w] = times /\ pc'[w] = "top" /\ reason'[w] = "failure"
      BY <2>5 DEF Goto, Because, TypeOK, TypeControl, TypeBudget
    <3>2. IsFiniteSet(times) /\ Cardinality(times) <= MaxRestarts
      <4>1. IsFiniteSet(times) /\ Cardinality(times) \in Nat
        BY <2>2, PushedStamps, Zenon
      <4>2. MaxRestarts \in Nat /\ ~(Cardinality(times) > MaxRestarts)
        BY <2>5, ConstantTypes DEF LimitTripped
      <4> QED  BY <4>1, <4>2
    <3>3. Recent(w)' = respawned'[w] \cup {[of |-> attempt'[w], age |-> 0]}
      BY <2>1, <2>2, <3>1, SpawnSettles, PushedStamps, Zenon DEF Recent
    <3>4. Ledger(w)'
      BY <2>1, <3>1, <3>2, <3>3, SpawnSettles, Zenon DEF Ledger
    <3> QED
      BY <1>2, <2>1, <2>5, <3>4, SpawnSettles, Zenon
         DEF Goto, Because, TypeOK, TypeControl, TypeBudget
  <2> QED
    BY <1>4, <2>3, <2>4, <2>5, Zenon DEF SpawnFailed
<1>5. ASSUME NEW w \in Worker, pc[w] = "select", RestartAfterExit(w), UNCHANGED history
      PROVE  BudgetInv'
  <2> DEFINE times == StampRestart(w, attempt[w])
  <2>1. /\ attempt[w] \in Nat /\ IsFiniteSet(restart_times[w])
        /\ Recent(w) = respawned[w] /\ IsFiniteSet(respawned[w])
        /\ Cardinality(respawned[w]) <= MaxRestarts
    BY <1>5, Zenon DEF TypeOK, TypeCounts, BudgetInv, Ledger
  <2>2. restart_times' = [restart_times EXCEPT ![w] = times] /\ restart_times'[w] = times
    BY <1>5, Zenon DEF RestartAfterExit, TypeOK, TypeBudget
  <2>3. CASE Goto(w, "cooldown") /\ Because(w, "limit")
    <3>1. Ledger(w)'
      BY <1>5, <2>1, <2>2, <2>3, PushedStamps, Zenon DEF Goto, Ledger, TypeOK, TypeControl
    <3> QED
      BY <1>2, <1>5, <2>2, <2>3, <3>1 DEF Goto, Because, TypeOK, TypeControl, TypeBudget
  <2>4. CASE Goto(w, "top") /\ Because(w, "failure") /\ ~LimitTripped(times)
    <3>1. pc'[w] = "top" /\ reason'[w] = "failure"
      BY <2>4 DEF Goto, Because, TypeOK, TypeControl
    <3>2. IsFiniteSet(times) /\ Cardinality(times) <= MaxRestarts
      <4>1. IsFiniteSet(times) /\ Cardinality(times) \in Nat
        BY <2>1, PushedStamps
      <4> QED
        BY <2>4, <4>1, ConstantTypes DEF LimitTripped
    <3>3. Recent(w)' = respawned'[w] \cup {[of |-> attempt'[w], age |-> 0]}
      BY <1>5, <2>1, <2>2, PushedStamps, Zenon DEF Recent
    <3>4. Ledger(w)'
      BY <1>5, <2>1, <2>2, <3>1, <3>2, <3>3, Zenon DEF Ledger
    <3> QED
      BY <1>2, <1>5, <2>2, <2>4, <3>4 DEF Goto, Because, TypeOK, TypeControl, TypeBudget
  <2> QED
    BY <1>5, <2>3, <2>4, Zenon DEF RestartAfterExit
<1>6. ASSUME NEW w \in Worker, CooldownOver(w) PROVE BudgetInv'
  <2>1. Ledger(w)'
    BY <1>6, FS_EmptySet, Zenon
       DEF CooldownOver, Goto, BudgetInv, Ledger, TypeOK, TypeControl, TypeBudget
  <2> QED
    BY <1>2, <1>6, <2>1, Zenon DEF CooldownOver, Goto, TypeOK, TypeControl, TypeBudget
<1>7. CASE Tick
  <2> SUFFICES ASSUME NEW w \in Worker PROVE Ledger(w)'
    BY DEF BudgetInv
  <2> DEFINE aged == {Older(t) : t \in restart_times[w]}
             agedRespawns == {Older(t) : t \in respawned[w]}
  <2>1. /\ restart_times'[w] = aged
        /\ respawned'[w] = {t \in agedRespawns : t.age < Window}
        /\ UNCHANGED <<pc, reason, attempt>>
        /\ pc[w] \in {"done", "select", "cooldown", "stopping"}
    BY <1>7, Zenon DEF Tick, Waiting
  <2>2. Ledger(w)
    BY DEF BudgetInv
  <2>3. /\ IsFiniteSet(aged) /\ Cardinality(aged) <= Cardinality(restart_times[w])
        /\ IsFiniteSet(agedRespawns)
        /\ Cardinality(agedRespawns) <= Cardinality(respawned[w])
    BY <2>2, OlderCardinality, Zenon DEF Ledger
  <2>4. respawned'[w] \in SUBSET agedRespawns
    BY <2>1, Zenon
  <2>5. IsFiniteSet(respawned'[w]) /\ Cardinality(respawned'[w]) <= Cardinality(agedRespawns)
    BY <2>3, <2>4, FS_Subset, Zenon
  <2>6. /\ Cardinality(aged) \in Nat /\ Cardinality(restart_times[w]) \in Nat
        /\ Cardinality(agedRespawns) \in Nat /\ Cardinality(respawned[w]) \in Nat
        /\ Cardinality(respawned'[w]) \in Nat
    BY <2>2, <2>3, <2>5, FS_CardinalityType, Zenon DEF Ledger
  <2>7. /\ Cardinality(respawned'[w]) <= MaxRestarts
        /\ pc[w] \notin {"cooldown", "finish", "done"} => Cardinality(aged) <= MaxRestarts
    <3>1. /\ Cardinality(respawned[w]) <= MaxRestarts
          /\ pc[w] \notin {"cooldown", "finish", "done"} =>
               Cardinality(restart_times[w]) <= MaxRestarts
      BY <2>2, Zenon DEF Ledger
    <3> DEFINE a == Cardinality(aged)
               b == Cardinality(restart_times[w])
               c == Cardinality(agedRespawns)
               d == Cardinality(respawned[w])
               e == Cardinality(respawned'[w])
    <3>2. /\ a \in Nat /\ b \in Nat /\ c \in Nat /\ d \in Nat /\ e \in Nat
          /\ a <= b /\ c <= d /\ e <= c /\ d <= MaxRestarts /\ MaxRestarts \in Nat
      BY <2>3, <2>5, <2>6, <3>1, ConstantTypes, Zenon
    <3> HIDE DEF a, b, c, d, e
    <3>3. e <= MaxRestarts /\ (b <= MaxRestarts => a <= MaxRestarts)
      BY <3>2
    <3> QED  BY <3>1, <3>3, Zenon DEF a, b, e
  <2>8. ASSUME Recent(w) = respawned[w] PROVE Recent(w)' = respawned'[w]
    <3>1. ASSUME NEW t \in restart_times[w], Older(t).age < Window
          PROVE  t \in respawned[w]
      BY <2>8, <3>1, ConstantTypes DEF Recent, Older, TypeOK, TypeBudget, Stamp
    <3>2. respawned[w] \subseteq restart_times[w]
      BY <2>8 DEF Recent
    <3> QED
      BY <2>1, <3>1, <3>2, Zenon DEF Recent
  <2> QED
    BY <2>1, <2>2, <2>3, <2>5, <2>7, <2>8, Zenon DEF Ledger
<1>8. ASSUME NEW w \in Worker, Enter(w) \/ CheckDrain(w) \/ Return(w) PROVE BudgetInv'
  BY <1>8, Zenon DEF Enter, CheckDrain, Return, Goto, BudgetInv, Ledger, Recent, TypeOK, TypeControl
<1>9. ASSUME NEW w \in Worker,
             SeeDrain(w) \/ SeeDrainSignal(w) \/ SeeRestartSignal(w)
      PROVE  BudgetInv'
  <2>1. /\ pc[w] = "select" /\ pc' = [pc EXCEPT ![w] = "stopping"]
        /\ \E r \in {"drain", "signal", "operator"} : reason' = [reason EXCEPT ![w] = r]
        /\ UNCHANGED <<restart_times, respawned, attempt>>
    BY <1>9, Zenon DEF SeeDrain, SeeDrainSignal, SeeRestartSignal, BeginStop, Goto, Because,
                local, history
  <2> QED
    BY <2>1, Zenon DEF BudgetInv, Ledger, Recent, TypeOK, TypeControl
<1>10. ASSUME NEW w \in Worker, GraceElapsed(w) \/ Stopped(w) PROVE BudgetInv'
  BY <1>10, Zenon DEF GraceElapsed, Stopped, AfterStop, Goto, BudgetInv, Ledger, Recent,
               TypeOK, TypeControl
<1>11. ASSUME NEW w \in Worker, ChildExited(w) PROVE BudgetInv'
  <2>1. CASE Goto(w, "finish") /\ Because(w, "refused") /\ UNCHANGED restart_times
    BY <1>11, <2>1, Zenon DEF ChildExited, Goto, Because, BudgetInv, Ledger, Recent,
                       TypeOK, TypeControl
  <2> QED
    BY <1>5, <1>11, <2>1, Zenon DEF ChildExited
<1>12. CASE UNCHANGED <<pc, reason, restart_times, respawned, attempt>>
  BY <1>12, Zenon DEF BudgetInv, Ledger, Recent
<1> QED
  BY <1>1, <1>3, <1>4, <1>5, <1>6, <1>7, <1>8, <1>9, <1>10, <1>11, <1>12, Zenon
     DEF Next, Step, Surroundings, StopReaped, StopWaitFailed, WaitFailed,
         ChildExits, KilledDies, NotifyDrain, NotifyRestart, begin_drain

(* The ledger is an invariant of the supervisor.                           *)
LEMMA BudgetInvariant == Spec => [](TypeOK /\ BudgetInv)
<1>1. Init => BudgetInv
  <2> SUFFICES ASSUME Init, NEW w \in Worker PROVE Ledger(w)
    BY DEF BudgetInv
  <2>1. restart_times[w] = {} /\ respawned[w] = {} /\ pc[w] = "init" /\ reason[w] = "first"
    BY DEF Init
  <2> QED
    BY <2>1, FS_EmptySet, ConstantTypes, SMTT(30) DEF Ledger, Recent
<1> QED
  BY <1>1, TypeCorrect, BudgetStep, PTL DEF Spec

(* In any Window at most MaxRestarts failures are respawned.               *)
THEOREM CrashStormsBounded == Spec => []RespawnRateBounded
<1>1. BudgetInv => RespawnRateBounded
  BY Zenon DEF BudgetInv, Ledger, RespawnRateBounded
<1> QED
  BY <1>1, BudgetInvariant, PTL

(* The limiter trips only after MaxRestarts respawns within one Window:    *)
(* operator restarts and old failures never count towards it.              *)
THEOREM StormsOnly == Spec => TripsOnlyInStorm
<1> DEFINE Trips(w) == (pc'[w] = "cooldown" /\ pc[w] # "cooldown") =>
                         Cardinality(respawned'[w]) >= MaxRestarts
<1>1. TypeOK /\ BudgetInv /\ [Next]_vars => [\A w \in Worker : Trips(w)]_vars
  <2> SUFFICES ASSUME TypeOK, BudgetInv, [Next]_vars, NEW w \in Worker,
                      pc'[w] = "cooldown", pc[w] # "cooldown"
               PROVE  Cardinality(respawned'[w]) >= MaxRestarts
    OBVIOUS
  <2>1. IsFiniteSet(restart_times[w]) /\ attempt[w] \in Nat /\ attempt[w] + 1 \in Nat
    BY SMTT(30) DEF BudgetInv, Ledger, TypeOK, TypeCounts
  <2>2. ASSUME NEW n \in Nat, LimitTripped(StampRestart(w, n))
        PROVE  Cardinality(Recent(w)) >= MaxRestarts
    BY <2>1, <2>2, PushedStamps, ConstantTypes DEF LimitTripped
  <2>3. CASE SpawnFailed(w)
    <3>1. CountAttempt(w) /\ pc[w] = "spawn"
      BY <2>3, Zenon DEF SpawnFailed
    <3>2. LimitTripped(StampRestart(w, attempt[w] + 1))
      BY <2>3, Zenon DEF SpawnFailed, Goto, TypeOK, TypeControl
    <3> QED
      BY <2>1, <2>2, <3>1, <3>2, SpawnSettles
  <2>4. CASE ChildExited(w) \/ WaitFailed(w)
    <3>1. pc[w] = "select" /\ UNCHANGED respawned
      BY <2>4, Zenon DEF ChildExited, WaitFailed, history
    <3>2. LimitTripped(StampRestart(w, attempt[w]))
      BY <2>4, Zenon DEF ChildExited, WaitFailed, RestartAfterExit, Goto, TypeOK, TypeControl
    <3>3. Recent(w) = respawned[w]
      BY <3>1, Zenon DEF BudgetInv, Ledger
    <3> QED
      BY <2>1, <2>2, <3>1, <3>2, <3>3
  <2>5. SpawnFailed(w) \/ ChildExited(w) \/ WaitFailed(w)
    <3> USE DEF Goto, TypeOK, TypeControl
    <3>1. ASSUME NEW v \in Worker, Step(v) \/ Surroundings(v) PROVE v = w
      BY <3>1, Zenon DEF Step, Surroundings, StopReaped, StopWaitFailed, Enter, CheckDrain,
             SpawnOk, SpawnFailed, ChildExited, WaitFailed, RestartAfterExit,
             CooldownOver, SeeDrain, SeeDrainSignal, SeeRestartSignal, BeginStop,
             GraceElapsed, Stopped, Return, ChildExits, KilledDies, NotifyDrain,
             NotifyRestart
    <3>2. Step(w) \/ Surroundings(w)
      BY <3>1, Zenon DEF Next, begin_drain, Tick, vars
    <3> QED
      BY <3>2, Zenon DEF Step, Surroundings, StopReaped, StopWaitFailed, Enter, CheckDrain,
             SpawnOk, CooldownOver, SeeDrain, SeeDrainSignal, SeeRestartSignal,
             BeginStop, GraceElapsed, Stopped, AfterStop, Return, ChildExits,
             KilledDies, NotifyDrain, NotifyRestart
  <2> QED
    BY <2>3, <2>4, <2>5
<1> QED
  BY <1>1, BudgetInvariant, PTL DEF Spec, TripsOnlyInStorm

-------------------------------------------------------------------------------
(***************************************************************************)
(* A returned worker.                                                      *)
(***************************************************************************)
(* A step keeps ReturnedWorkerIsGone: a returned worker takes no further   *)
(* step.                                                                   *)
LEMMA ReturnedStep ==
  TypeOK /\ ProcInv /\ ReturnedWorkerIsGone /\ [Next]_vars => ReturnedWorkerIsGone'
<1> SUFFICES ASSUME TypeOK, ProcInv, ReturnedWorkerIsGone, [Next]_vars,
                    NEW w \in Worker, Returned(w)'
             PROVE  /\ fleet'[w] = [phase |-> "stopped", pid |-> 0,
                                   last_error |-> last_error'[w],
                                   restart_count |-> restart_count'[w]]
                    /\ alive'[w] \subseteq doomed'[w]
  BY DEF ReturnedWorkerIsGone
<1>0. ChildHeld(w) /\ 0 \notin alive[w]
  BY DEF ProcInv, ChildHeld
<1>1. CASE Return(w)
  <2>1. fleet' = Finish(w, restart_count[w], last_error[w])
        /\ UNCHANGED <<last_error, restart_count, alive, doomed>> /\ pc[w] = "finish"
    BY <1>1, Zenon DEF Return, local, procs
  <2>2. child[w] = 0 /\ alive[w] \subseteq doomed[w]
    BY <1>0, <2>1 DEF ChildHeld
  <2> QED
    BY <2>1, <2>2, Zenon DEF Finish, TypeOK, TypeFleet
<1> USE DEF Returned, local, procs, Goto, TypeOK, TypeControl
<1>2. CASE UNCHANGED <<pc, fleet, last_error, restart_count, alive, doomed>>
  BY <1>2, Zenon DEF ReturnedWorkerIsGone
<1>3. ASSUME NEW v \in Worker, v # w,
             fleet'[w] = fleet[w], last_error'[w] = last_error[w],
             restart_count'[w] = restart_count[w], pc'[w] = pc[w],
             alive'[w] = alive[w], doomed'[w] = doomed[w]
      PROVE  /\ fleet'[w] = [phase |-> "stopped", pid |-> 0,
                             last_error |-> last_error'[w],
                             restart_count |-> restart_count'[w]]
             /\ alive'[w] \subseteq doomed'[w]
  BY <1>3, Zenon DEF ReturnedWorkerIsGone
<1>4. CASE pc[w] = "done" /\ \E p \in doomed[w] : KilledDies(w, p)
  <2>1. PICK p \in doomed[w] : KilledDies(w, p)
    BY <1>4
  <2>2. /\ UNCHANGED <<fleet, last_error, restart_count>>
        /\ alive'[w] = alive[w] \ {p} /\ doomed'[w] = doomed[w] \ {p}
    BY <2>1 DEF KilledDies, TypeProcs
  <2> QED
    BY <1>4, <2>2, Zenon DEF ReturnedWorkerIsGone
<1>5. ASSUME NEW v \in Worker, Step(v) \/ Surroundings(v), v # w
      PROVE  /\ fleet'[w] = fleet[w] /\ last_error'[w] = last_error[w]
             /\ restart_count'[w] = restart_count[w] /\ pc'[w] = pc[w]
             /\ alive'[w] = alive[w] /\ doomed'[w] = doomed[w]
  <2> USE DEF TypeFleet, TypeProcs, TypeCounts
  <2>1. CASE Enter(v) \/ CheckDrain(v) \/ SpawnOk(v) \/ Return(v)
    BY <1>5, <2>1 DEF Enter, CheckDrain, SpawnOk, Return, Register, Running, Finish
  <2>2. CASE SpawnFailed(v)
    BY <1>5, <2>2, Zenon DEF SpawnFailed, Finish
  <2>3. CASE ChildExited(v) \/ WaitFailed(v)
    BY <1>5, <2>3, Zenon DEF ChildExited, WaitFailed, RestartAfterExit, Restarting, DropChild
  <2>4. CASE CooldownOver(v) \/ GraceElapsed(v) \/ Stopped(v)
    BY <1>5, <2>4, Zenon DEF CooldownOver, GraceElapsed, Stopped, DropChild
  <2>5. CASE SeeDrain(v) \/ SeeDrainSignal(v) \/ SeeRestartSignal(v)
    BY <1>5, <2>5 DEF SeeDrain, SeeDrainSignal, SeeRestartSignal, BeginStop, Draining,
                      Restarting
  <2>6. CASE \/ \E ok \in BOOLEAN : ChildExits(v, ok)
             \/ \E p \in doomed[v] : KilledDies(v, p)
             \/ NotifyDrain(v) \/ NotifyRestart(v)
    BY <1>5, <2>6, Zenon DEF ChildExits, KilledDies, NotifyDrain, NotifyRestart
  <2> QED
    BY <1>5, <2>1, <2>2, <2>3, <2>4, <2>5, <2>6, Zenon
       DEF Step, Surroundings, StopReaped, StopWaitFailed
<1>6. CASE Step(w) \/ Surroundings(w)
  <2>1. CASE pc[w] # "done"
    <3>1. Return(w)
      BY <1>6, <2>1, Zenon DEF Step, Surroundings, StopReaped, StopWaitFailed, Enter,
             CheckDrain, SpawnOk, SpawnFailed, ChildExited, WaitFailed,
             RestartAfterExit, CooldownOver, SeeDrain, SeeDrainSignal,
             SeeRestartSignal, BeginStop, GraceElapsed, Stopped, AfterStop,
             ChildExits, KilledDies, NotifyDrain, NotifyRestart
    <3> QED
      BY <1>1, <3>1, Zenon
  <2>2. CASE pc[w] = "done"
    <3>1. child[w] \notin alive[w]
      BY <1>0, <2>2, Zenon DEF ChildHeld
    <3>2. \/ \E p \in doomed[w] : KilledDies(w, p)
          \/ NotifyDrain(w) \/ NotifyRestart(w)
      BY <1>6, <2>2, <3>1, Zenon DEF Step, Surroundings, StopReaped, StopWaitFailed, Enter,
             CheckDrain, SpawnOk, SpawnFailed, ChildExited, WaitFailed,
             CooldownOver, SeeDrain, SeeDrainSignal, SeeRestartSignal,
             GraceElapsed, Stopped, Return, ChildExits
    <3> QED
      BY <1>2, <1>4, <2>2, <3>2, Zenon DEF NotifyDrain, NotifyRestart
  <2> QED
    BY <2>1, <2>2, Zenon
<1> QED
  BY <1>2, <1>3, <1>5, <1>6, Zenon DEF Next, begin_drain, Tick, vars

(* When supervise_one has returned, its snapshot is final and no process   *)
(* of the worker is left that was not sent SIGKILL.                        *)
THEOREM ReturnedIsGone == Spec => []ReturnedWorkerIsGone
<1>1. Init => ProcInv /\ ReturnedWorkerIsGone
  BY Zenon DEF Init, ProcInv, ChildHeld, ReturnedWorkerIsGone, Returned
<1> QED
  BY <1>1, TypeCorrect, ProcStep, ReturnedStep, PTL DEF Spec

-------------------------------------------------------------------------------
(***************************************************************************)
(* The contract of Supervisor::run (its safety part).                      *)
(***************************************************************************)
(* A step of one worker moves only its own stage.                          *)
LEMMA StageMoves ==
  ASSUME NEW w \in Worker,
         \A v \in Worker : v # w => pc'[v] = pc[v] /\ child'[v] = child[v]
  PROVE  [v \in Worker |-> Stage(v)]' =
           [[v \in Worker |-> Stage(v)] EXCEPT ![w] = Stage(w)']
<1>1. ASSUME NEW v \in Worker, v # w PROVE Stage(v)' = Stage(v)
  BY <1>1, Zenon DEF Stage
<1> QED
  BY <1>1, Zenon

(* Every step of the supervisor is a step or a stutter of SupervisedRun.   *)
LEMMA RefinementStep == TypeOK /\ [Next]_vars => [Run!Next]_(Run!vars)
<1> SUFFICES ASSUME TypeOK, [Next]_vars PROVE Run!Next \/ UNCHANGED Run!vars
  OBVIOUS
<1> DEFINE stages == [v \in Worker |-> Stage(v)]
<1> USE DEF TypeOK, TypeControl, TypeProcs, procs, drainCtl, Goto
<1>1. ASSUME NEW w \in Worker, NEW to, UNCHANGED draining, Stage(w)' = to,
             \A v \in Worker : v # w => pc'[v] = pc[v] /\ child'[v] = child[v]
      PROVE  Run!Move(w, to)
  BY <1>1, StageMoves, Zenon DEF Run!Move
<1>2. ASSUME UNCHANGED <<pc, child, draining>> PROVE UNCHANGED Run!vars
  BY <1>2 DEF Run!vars, Stage
<1>3. ASSUME NEW w \in Worker, UNCHANGED draining, Stage(w)' = Stage(w),
             \A v \in Worker : v # w => pc'[v] = pc[v] /\ child'[v] = child[v]
      PROVE  UNCHANGED Run!vars
  <2>1. \A v \in Worker : Stage(v)' = Stage(v)
    BY <1>3, Zenon DEF Stage
  <2> QED
    BY <1>3, <2>1, Zenon DEF Run!vars
<1>4. ASSUME NEW w \in Worker, CheckDrain(w) PROVE Run!WorkerStep(w)
  <2>1. CASE draining
    BY <1>1, <1>4, <2>1 DEF CheckDrain, Stage, Run!WorkerStep, Run!End
  <2>2. CASE ~draining
    BY <1>1, <1>4, <2>2 DEF CheckDrain, Stage, Run!WorkerStep, Run!Commit
  <2> QED
    BY <2>1, <2>2
<1>5. ASSUME NEW w \in Worker, SpawnOk(w) PROVE Run!WorkerStep(w)
  BY <1>1, <1>5 DEF SpawnOk, Stage, Run!WorkerStep, Run!Launch
<1>6. ASSUME NEW w \in Worker, SpawnFailed(w) PROVE Run!WorkerStep(w)
  <2>1. /\ UNCHANGED <<child, draining>> /\ pc[w] = "spawn"
        /\ Goto(w, "finish") \/ Goto(w, "cooldown") \/ Goto(w, "top")
    BY <1>6, Zenon DEF SpawnFailed
  <2>2. Stage(w) = "committed" /\ Stage(w)' \in {"idle", "up", "ended"}
    BY <2>1 DEF Stage
  <2> QED
    BY <1>1, <2>1, <2>2, Zenon DEF Run!WorkerStep, Run!Launch, Run!Lose
<1>7. ASSUME NEW w \in Worker, ChildExited(w) \/ WaitFailed(w)
      PROVE  Run!WorkerStep(w) \/ UNCHANGED Run!vars
  <2>1. /\ UNCHANGED draining /\ pc[w] = "select"
        /\ Goto(w, "finish") \/ Goto(w, "cooldown") \/ Goto(w, "top")
        /\ \A v \in Worker : v # w => child'[v] = child[v]
    BY <1>7, Zenon DEF ChildExited, WaitFailed, RestartAfterExit, DropChild
  <2>2. Stage(w) = "up" /\ Stage(w)' \in {"idle", "up", "ended"}
    BY <2>1 DEF Stage
  <2> QED
    BY <1>1, <1>3, <2>1, <2>2, Zenon DEF Run!WorkerStep, Run!Lose
<1>8. ASSUME NEW w \in Worker, CooldownOver(w) \/ Stopped(w) PROVE Run!WorkerStep(w)
  <2>1. /\ UNCHANGED draining
        /\ \/ pc[w] = "cooldown" /\ Goto(w, "finish")
           \/ pc[w] \in {"stopping", "killing"} /\ (Goto(w, "finish") \/ Goto(w, "top"))
        /\ \A v \in Worker : v # w => child'[v] = child[v]
    BY <1>8, Zenon DEF CooldownOver, Stopped, AfterStop, DropChild
  <2>2. \/ Stage(w) \in {"idle", "up"} /\ Stage(w)' = "ended"
        \/ Stage(w) = "up" /\ Stage(w)' = "idle"
    BY <2>1 DEF Stage
  <2> QED
    BY <1>1, <2>1, <2>2, Zenon DEF Run!WorkerStep, Run!Lose, Run!End
<1>9. ASSUME NEW w \in Worker,
             \/ Enter(w) \/ Return(w) \/ GraceElapsed(w)
             \/ SeeDrain(w) \/ SeeDrainSignal(w) \/ SeeRestartSignal(w)
      PROVE  UNCHANGED Run!vars
  BY <1>3, <1>9 DEF Enter, Return, GraceElapsed, SeeDrain, SeeDrainSignal,
                    SeeRestartSignal, BeginStop, Stage
<1>10. ASSUME NEW k \in Kinds, begin_drain(k) PROVE Run!BeginDrain \/ UNCHANGED Run!vars
  <2>1. UNCHANGED stages
    BY <1>10 DEF begin_drain, Stage
  <2>2. draining' = TRUE \/ UNCHANGED draining
    BY <1>10, Zenon DEF begin_drain, TypeDrain
  <2> QED
    BY <2>1, <2>2 DEF Run!BeginDrain, Run!vars
<1> QED
  BY <1>2, <1>4, <1>5, <1>6, <1>7, <1>8, <1>9, <1>10, Zenon
     DEF Next, Step, Surroundings, StopReaped, StopWaitFailed, ChildExits,
         KilledDies, NotifyDrain, NotifyRestart, Tick, vars, Run!Next

(* The supervisor implements the safety part of SupervisedRun: it commits  *)
(* to no spawn once a drain has begun, and an ended worker stays ended.    *)
THEOREM Refinement == Spec => Run!Spec
<1>1. Init => Run!Init
  BY DEF Init, Run!Init, Stage
<1> QED
  BY <1>1, TypeCorrect, RefinementStep, PTL DEF Spec, Run!Spec
===============================================================================
