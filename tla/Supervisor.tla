------------------------------ MODULE Supervisor ------------------------------
(***************************************************************************)
(* The worker supervisor of src/worker.rs: one supervise_one loop per      *)
(* worker, the FleetState snapshot it publishes, the crash budget of       *)
(* rate_limited, the escalation chain of stop_draining, and the two drain  *)
(* inputs: the shared DrainController and the per-worker Notify handles.   *)
(*                                                                         *)
(* A worker's control point pc[w] names the place in supervise_one where   *)
(* it can be observed or interrupted.  Everything between two awaits that  *)
(* touches no shared state is one step; the drain check at the head of the *)
(* loop and the spawn that follows it are two, since another thread can    *)
(* begin a drain in between.                                               *)
(*                                                                         *)
(* Time is counted in ticks and passes only while every worker waits: the  *)
(* code between two awaits takes no time and a SIGKILL is obeyed at once.  *)
(* Instants are kept as ages, which saturate at Window, so that time never *)
(* has to be bounded.                                                      *)
(***************************************************************************)
EXTENDS Integers, FiniteSets

CONSTANTS
  Worker,          \* the ids of the WorkerSpecs
  Policy,          \* restart_policy of each worker
  MaxRestarts,     \* max_restarts of Supervisor::rate_limit
  Window,          \* its window, in ticks
  Cooldown,        \* the cooldown slept when the limit trips
  GracefulGrace,   \* stop_draining's window of a graceful stop (30 s)
  ImmediateGrace,  \* and of an immediate one (1 s)
  Kinds,           \* the ShutdownKinds that begin_drain is called with
  MaxAttempts      \* bound: children fail and are restarted only below it

Policies == {"permanent", "transient", "temporary"}
ShutdownKinds == {"graceful", "immediate", "reload"}
Phases == {"absent", "starting", "running", "restarting", "draining", "stopped"}
Errors == {"none", "spawn failed", "wait failed"}
PCs == {"init", "top", "spawn", "select", "cooldown", "stopping", "killing",
        "finish", "done"}
Reasons == {"first", "failure", "operator", "drain", "signal", "refused", "limit"}

ASSUME SupervisorAssumption ==
  /\ IsFiniteSet(Worker)
  /\ Policy \in [Worker -> Policies]
  /\ MaxRestarts \in Nat /\ MaxAttempts \in Nat
  /\ Window \in Nat \ {0} /\ Cooldown \in Nat
  /\ GracefulGrace \in Nat \ {0} /\ ImmediateGrace \in 1..GracefulGrace
  /\ Kinds \subseteq ShutdownKinds

VARIABLES
  pc,              \* where supervise_one of a worker is
  reason,          \* why it left its last child: where stop_draining returns to
  restart_count,   \* the locals of supervise_one
  restart_times,
  last_error,
  timer,           \* ticks left of the sleep or timeout it waits on
  child,           \* the Child it holds, 0 for none
  alive,           \* the operating system's processes of a worker, by pid
  doomed,          \* those that have been sent SIGKILL
  clean,           \* ExitStatus::success of the child that ended
  fleet,           \* FleetState::entries
  draining, kind,  \* the DrainController
  drain_signal,    \* stored permits of the per-worker Notify handles
  restart_signal,
  attempt,         \* history: spawns attempted; the pid of a child is its number
  respawned,       \* history: the failures of the last Window that were respawned
  late,            \* history: spawns attempted after the drain began
  sinceDrain       \* history: ticks since the drain began

local == <<restart_count, restart_times, last_error>>
procs == <<child, alive, doomed, clean>>
drainCtl == <<draining, kind>>
signals == <<drain_signal, restart_signal>>
history == <<attempt, respawned, late, sinceDrain>>
vars == <<pc, reason, local, timer, procs, fleet, drainCtl, signals, history>>

Stamp == [of : Nat, age : 0..Window]

-------------------------------------------------------------------------------
(***************************************************************************)
(* Pure helpers.                                                           *)
(***************************************************************************)
causes_drain(k) == k \in {"graceful", "immediate"}

drain_grace_secs(k) == IF k = "immediate" THEN ImmediateGrace ELSE GracefulGrace

should_restart(policy, clean_exit) ==
  \/ policy = "permanent"
  \/ policy = "transient" /\ ~clean_exit

(* The restart_times that rate_limited leaves after its retain and push.   *)
StampRestart(w, n) ==
  {t \in restart_times[w] : t.age < Window} \cup {[of |-> n, age |-> 0]}

(* Bug: the limit is compared one too high.                                *)
LimitTrippedLate(times) == Cardinality(times) > MaxRestarts + 1

LimitTripped(times) == Cardinality(times) > MaxRestarts

-------------------------------------------------------------------------------
(***************************************************************************)
(* FleetState: each operator is the map one of its methods leaves.         *)
(***************************************************************************)
Register(w) ==
  [fleet EXCEPT ![w] = [phase |-> "starting", pid |-> 0, restart_count |-> 0,
                        last_error |-> "none"]]

Running(w, pid) ==
  [fleet EXCEPT ![w] = [@ EXCEPT !.phase = "running", !.pid = pid]]

(* Bug: the pid of the child that ended is left in the snapshot.           *)
RestartingKeepsPid(w, count) ==
  [fleet EXCEPT ![w] = [@ EXCEPT !.phase = "restarting", !.restart_count = count]]

Restarting(w, count) ==
  [fleet EXCEPT ![w] = [@ EXCEPT !.phase = "restarting", !.pid = 0,
                                 !.restart_count = count]]

Draining(w) ==
  [fleet EXCEPT ![w] = [@ EXCEPT !.phase = "draining", !.pid = 0]]

Finish(w, count, error) ==
  [fleet EXCEPT ![w] = [phase |-> "stopped", pid |-> 0, restart_count |-> count,
                        last_error |-> error]]

-------------------------------------------------------------------------------
Init ==
  /\ pc = [w \in Worker |-> "init"]
  /\ reason = [w \in Worker |-> "first"]
  /\ restart_count = [w \in Worker |-> 0]
  /\ restart_times = [w \in Worker |-> {}]
  /\ last_error = [w \in Worker |-> "none"]
  /\ timer = [w \in Worker |-> 0]
  /\ child = [w \in Worker |-> 0]
  /\ alive = [w \in Worker |-> {}]
  /\ doomed = [w \in Worker |-> {}]
  /\ clean = [w \in Worker |-> FALSE]
  /\ fleet = [w \in Worker |-> [phase |-> "absent", pid |-> 0,
                                restart_count |-> 0, last_error |-> "none"]]
  /\ draining = FALSE /\ kind = "none"
  /\ drain_signal = [w \in Worker |-> FALSE]
  /\ restart_signal = [w \in Worker |-> FALSE]
  /\ attempt = [w \in Worker |-> 0]
  /\ respawned = [w \in Worker |-> {}]
  /\ late = [w \in Worker |-> 0]
  /\ sinceDrain = 0

Goto(w, point) == pc' = [pc EXCEPT ![w] = point]
Because(w, why) == reason' = [reason EXCEPT ![w] = why]
SetTimer(w, ticks) == timer' = [timer EXCEPT ![w] = ticks]

(* Bug: kill_on_drop is not set.                                           *)
DropChildLeaks(w) ==
  /\ child' = [child EXCEPT ![w] = 0]
  /\ UNCHANGED <<alive, doomed, clean>>

(* Leaving the loop body drops the Child; kill_on_drop sends SIGKILL to a  *)
(* process that still runs.                                                *)
DropChild(w) ==
  /\ child' = [child EXCEPT ![w] = 0]
  /\ doomed' = [doomed EXCEPT ![w] = @ \cup ({child[w]} \cap alive[w])]
  /\ UNCHANGED <<alive, clean>>

-------------------------------------------------------------------------------
(***************************************************************************)
(* supervise_one, step by step.                                            *)
(***************************************************************************)
Enter(w) ==
  /\ pc[w] = "init"
  /\ fleet' = Register(w)
  /\ Goto(w, "top")
  /\ UNCHANGED <<reason, local, timer, procs, drainCtl, signals, history>>

(* Bug: the head of the loop does not look at the drain.                   *)
CheckDrainSkipped(w) ==
  /\ pc[w] = "top"
  /\ Goto(w, "spawn")
  /\ UNCHANGED <<reason, local, timer, procs, fleet, drainCtl, signals, history>>

CheckDrain(w) ==
  /\ pc[w] = "top"
  /\ Goto(w, IF draining THEN "finish" ELSE "spawn")
  /\ UNCHANGED <<reason, local, timer, procs, fleet, drainCtl, signals, history>>

(* History kept by every spawn: its number, whether it makes up for a      *)
(* failure, and whether the drain had begun.                               *)
CountAttempt(w) ==
  /\ attempt' = [attempt EXCEPT ![w] = @ + 1]
  /\ respawned' = IF reason[w] = "failure"
                    THEN [respawned EXCEPT ![w] =
                            @ \cup {[of |-> attempt[w], age |-> 0]}]
                    ELSE respawned
  /\ late' = IF draining THEN [late EXCEPT ![w] = @ + 1] ELSE late
  /\ UNCHANGED sinceDrain

SpawnOk(w) ==
  /\ pc[w] = "spawn"
  /\ CountAttempt(w)
  /\ child' = [child EXCEPT ![w] = attempt[w] + 1]
  /\ alive' = [alive EXCEPT ![w] = @ \cup {attempt[w] + 1}]
  /\ clean' = [clean EXCEPT ![w] = FALSE]
  /\ fleet' = Running(w, attempt[w] + 1)
  /\ Goto(w, "select")
  /\ UNCHANGED <<reason, local, timer, doomed, drainCtl, signals>>

(* spawn() returned an error: publish Stopped, ask the policy, then the    *)
(* rate limiter; only a retry counts as a restart.                         *)
SpawnFailed(w) ==
  LET times == StampRestart(w, attempt[w] + 1)
  IN  /\ pc[w] = "spawn"
      /\ attempt[w] < MaxAttempts
      /\ CountAttempt(w)
      /\ last_error' = [last_error EXCEPT ![w] = "spawn failed"]
      /\ fleet' = Finish(w, restart_count[w], "spawn failed")
      /\ \/ /\ ~should_restart(Policy[w], FALSE)
            /\ Because(w, "refused") /\ Goto(w, "finish")
            /\ UNCHANGED <<restart_count, restart_times, timer>>
         \/ /\ should_restart(Policy[w], FALSE)
            /\ restart_times' = [restart_times EXCEPT ![w] = times]
            /\ \/ /\ LimitTripped(times)
                  /\ Because(w, "limit") /\ Goto(w, "cooldown")
                  /\ SetTimer(w, Cooldown)
                  /\ UNCHANGED restart_count
               \/ /\ ~LimitTripped(times)
                  /\ Because(w, "failure") /\ Goto(w, "top")
                  /\ restart_count' = [restart_count EXCEPT ![w] = @ + 1]
                  /\ UNCHANGED timer
      /\ UNCHANGED <<procs, drainCtl, signals>>

(* The restart tail of the child.wait() branch: count, publish the gap,    *)
(* then the rate limiter.  During its cooldown the Child is still held.    *)
RestartAfterExit(w) ==
  LET times == StampRestart(w, attempt[w])
  IN  /\ restart_count' = [restart_count EXCEPT ![w] = @ + 1]
      /\ fleet' = Restarting(w, restart_count[w] + 1)
      /\ restart_times' = [restart_times EXCEPT ![w] = times]
      /\ \/ /\ LimitTripped(times)
            /\ Because(w, "limit") /\ Goto(w, "cooldown") /\ SetTimer(w, Cooldown)
            /\ UNCHANGED procs
         \/ /\ ~LimitTripped(times)
            /\ Because(w, "failure") /\ Goto(w, "top") /\ UNCHANGED timer
            /\ DropChild(w)

(* select!: child.wait() returned an exit status.                          *)
ChildExited(w) ==
  /\ pc[w] = "select" /\ child[w] \notin alive[w]
  /\ \/ /\ ~should_restart(Policy[w], clean[w])
        /\ Because(w, "refused") /\ Goto(w, "finish")
        /\ DropChild(w)
        /\ UNCHANGED <<restart_count, restart_times, timer, fleet>>
     \/ /\ should_restart(Policy[w], clean[w])
        /\ RestartAfterExit(w)
  /\ UNCHANGED <<last_error, drainCtl, signals, history>>

(* select!: child.wait() itself failed; no policy is consulted and the     *)
(* process may still run.                                                  *)
WaitFailed(w) ==
  /\ pc[w] = "select"
  /\ attempt[w] < MaxAttempts
  /\ last_error' = [last_error EXCEPT ![w] = "wait failed"]
  /\ RestartAfterExit(w)
  /\ UNCHANGED <<drainCtl, signals, history>>

CooldownOver(w) ==
  /\ pc[w] = "cooldown"
  /\ timer[w] = 0 \/ draining
  /\ restart_times' = [restart_times EXCEPT ![w] = {}]
  /\ DropChild(w)
  /\ Goto(w, "finish")
  /\ UNCHANGED <<reason, restart_count, last_error, timer, fleet, drainCtl,
                 signals, history>>

(* stop_draining begins: SIGTERM and a timeout.                            *)
BeginStop(w, why, ticks) ==
  /\ Because(w, why)
  /\ SetTimer(w, ticks)
  /\ Goto(w, "stopping")

(* select!: drain.wait_for_drain() resolved; the kind is read afterwards.  *)
SeeDrain(w) ==
  /\ pc[w] = "select" /\ draining
  /\ fleet' = Draining(w)
  /\ BeginStop(w, "drain", drain_grace_secs(kind))
  /\ UNCHANGED <<local, procs, drainCtl, signals, history>>

(* select!: the per-worker drain signal, which ends the worker.            *)
SeeDrainSignal(w) ==
  /\ pc[w] = "select" /\ drain_signal[w]
  /\ drain_signal' = [drain_signal EXCEPT ![w] = FALSE]
  /\ fleet' = Draining(w)
  /\ BeginStop(w, "signal", GracefulGrace)
  /\ UNCHANGED <<local, procs, drainCtl, restart_signal, history>>

(* Bug: the restart is refused when the crash budget is spent.             *)
SeeRestartLimited(w) ==
  /\ pc[w] = "select" /\ restart_signal[w] /\ restart_count[w] < MaxRestarts
  /\ restart_signal' = [restart_signal EXCEPT ![w] = FALSE]
  /\ restart_count' = [restart_count EXCEPT ![w] = @ + 1]
  /\ fleet' = Restarting(w, restart_count[w] + 1)
  /\ BeginStop(w, "operator", GracefulGrace)
  /\ UNCHANGED <<restart_times, last_error, procs, drainCtl, drain_signal, history>>

(* select!: the per-worker restart signal, which respawns it.              *)
SeeRestartSignal(w) ==
  /\ pc[w] = "select" /\ restart_signal[w]
  /\ restart_signal' = [restart_signal EXCEPT ![w] = FALSE]
  /\ restart_count' = [restart_count EXCEPT ![w] = @ + 1]
  /\ fleet' = Restarting(w, restart_count[w] + 1)
  /\ BeginStop(w, "operator", GracefulGrace)
  /\ UNCHANGED <<restart_times, last_error, procs, drainCtl, drain_signal, history>>

(* Bug: the escalation waits without sending SIGKILL.                      *)
GraceElapsedNoKill(w) ==
  /\ pc[w] = "stopping" /\ child[w] \in alive[w] /\ timer[w] = 0
  /\ Goto(w, "killing")
  /\ UNCHANGED <<reason, local, timer, procs, fleet, drainCtl, signals, history>>

(* stop_draining: the grace window elapsed, escalate to SIGKILL.           *)
GraceElapsed(w) ==
  /\ pc[w] = "stopping" /\ child[w] \in alive[w] /\ timer[w] = 0
  /\ doomed' = [doomed EXCEPT ![w] = @ \cup {child[w]}]
  /\ Goto(w, "killing")
  /\ UNCHANGED <<reason, local, timer, child, alive, clean, fleet, drainCtl,
                 signals, history>>

AfterStop(w) == IF reason[w] = "operator" THEN "top" ELSE "finish"

(* stop_draining returns: its wait() saw the child end, or failed, which   *)
(* it ignores.                                                             *)
Stopped(w) ==
  /\ pc[w] \in {"stopping", "killing"}
  /\ DropChild(w)
  /\ Goto(w, AfterStop(w))
  /\ UNCHANGED <<reason, local, timer, fleet, drainCtl, signals, history>>

StopReaped(w) == child[w] \notin alive[w] /\ Stopped(w)

StopWaitFailed(w) == child[w] \in alive[w] /\ Stopped(w)

(* The loop is left: publish the final state and return the WorkerInfo.    *)
Return(w) ==
  /\ pc[w] = "finish"
  /\ fleet' = Finish(w, restart_count[w], last_error[w])
  /\ Goto(w, "done")
  /\ UNCHANGED <<reason, local, timer, procs, drainCtl, signals, history>>

-------------------------------------------------------------------------------
(***************************************************************************)
(* The surroundings: child processes, callers of the handles, the clock.   *)
(***************************************************************************)

(* A child ends, by itself or on SIGTERM.                                  *)
ChildExits(w, ok) ==
  /\ child[w] \in alive[w] \ doomed[w]
  /\ pc[w] = "select" => attempt[w] < MaxAttempts
  /\ alive' = [alive EXCEPT ![w] = @ \ {child[w]}]
  /\ clean' = [clean EXCEPT ![w] = ok]
  /\ UNCHANGED <<pc, reason, local, timer, child, doomed, fleet, drainCtl,
                 signals, history>>

KilledDies(w, p) ==
  /\ p \in doomed[w]
  /\ alive' = [alive EXCEPT ![w] = @ \ {p}]
  /\ doomed' = [doomed EXCEPT ![w] = @ \ {p}]
  /\ UNCHANGED <<pc, reason, local, timer, child, clean, fleet, drainCtl,
                 signals, history>>

(* DrainController::begin_drain; module DrainController has its steps.     *)
begin_drain(k) ==
  /\ kind' = k
  /\ draining' = (draining \/ causes_drain(k))
  /\ UNCHANGED <<pc, reason, local, timer, procs, fleet, signals, history>>

(* notify_one on the handles: at most one permit is stored.                *)
NotifyDrain(w) ==
  /\ ~drain_signal[w]
  /\ drain_signal' = [drain_signal EXCEPT ![w] = TRUE]
  /\ UNCHANGED <<pc, reason, local, timer, procs, fleet, drainCtl,
                 restart_signal, history>>

NotifyRestart(w) ==
  /\ ~restart_signal[w] /\ attempt[w] < MaxAttempts
  /\ restart_signal' = [restart_signal EXCEPT ![w] = TRUE]
  /\ UNCHANGED <<pc, reason, local, timer, procs, fleet, drainCtl,
                 drain_signal, history>>

(* No process is dying and the worker has nothing to do but wait.          *)
Waiting(w) ==
  /\ doomed[w] = {}
  /\ \/ pc[w] = "done"
     \/ /\ pc[w] = "select" /\ child[w] \in alive[w]
        /\ ~draining /\ ~drain_signal[w] /\ ~restart_signal[w]
     \/ pc[w] = "cooldown" /\ timer[w] > 0 /\ ~draining
     \/ pc[w] = "stopping" /\ timer[w] > 0 /\ child[w] \in alive[w]

Older(t) == [of |-> t.of, age |-> IF t.age < Window THEN t.age + 1 ELSE Window]

Tick ==
  /\ \A w \in Worker : Waiting(w)
  /\ timer' = [w \in Worker |-> IF timer[w] > 0 THEN timer[w] - 1 ELSE 0]
  /\ restart_times' = [w \in Worker |-> {Older(t) : t \in restart_times[w]}]
  /\ respawned' = [w \in Worker |->
                     {t \in {Older(u) : u \in respawned[w]} : t.age < Window}]
  /\ sinceDrain' = IF draining /\ sinceDrain <= GracefulGrace
                     THEN sinceDrain + 1 ELSE sinceDrain
  /\ UNCHANGED <<pc, reason, restart_count, last_error, procs, fleet, drainCtl,
                 signals, attempt, late>>

-------------------------------------------------------------------------------
Step(w) ==
  \/ Enter(w) \/ CheckDrain(w) \/ SpawnOk(w) \/ SpawnFailed(w)
  \/ ChildExited(w) \/ CooldownOver(w)
  \/ SeeDrain(w) \/ SeeDrainSignal(w) \/ SeeRestartSignal(w)
  \/ GraceElapsed(w) \/ StopReaped(w) \/ Return(w)

Surroundings(w) ==
  \/ \E ok \in BOOLEAN : ChildExits(w, ok)
  \/ \E p \in doomed[w] : KilledDies(w, p)
  \/ WaitFailed(w) \/ StopWaitFailed(w)
  \/ NotifyDrain(w) \/ NotifyRestart(w)

Next ==
  \/ \E w \in Worker : Step(w) \/ Surroundings(w)
  \/ \E k \in Kinds : begin_drain(k)
  \/ Tick

Spec == Init /\ [][Next]_vars

(* The runtime polls every ready worker, time passes, and the operating    *)
(* system carries out a SIGKILL.  No child has to exit, nobody has to      *)
(* drain.                                                                  *)
Fairness ==
  /\ \A w \in Worker : WF_vars(Step(w))
  /\ \A w \in Worker : WF_vars(\E p \in doomed[w] : KilledDies(w, p))
  /\ WF_vars(Tick)

FairSpec == Spec /\ Fairness

-------------------------------------------------------------------------------
(***************************************************************************)
(* Properties.                                                             *)
(***************************************************************************)
Returned(w) == pc[w] = "done"

Snapshot ==
  [phase : Phases, pid : Nat, restart_count : Nat, last_error : Errors]

TypeControl ==
  /\ pc \in [Worker -> PCs] /\ reason \in [Worker -> Reasons]
  /\ last_error \in [Worker -> Errors]

TypeTime == timer \in [Worker -> Nat] /\ sinceDrain \in Nat

TypeProcs ==
  /\ child \in [Worker -> Nat] /\ clean \in [Worker -> BOOLEAN]
  /\ alive \in [Worker -> SUBSET Nat] /\ doomed \in [Worker -> SUBSET Nat]

TypeFleet == fleet \in [Worker -> Snapshot]

TypeCounts ==
  /\ restart_count \in [Worker -> Nat]
  /\ attempt \in [Worker -> Nat] /\ late \in [Worker -> Nat]

TypeBudget ==
  /\ restart_times \in [Worker -> SUBSET Stamp]
  /\ respawned \in [Worker -> SUBSET Stamp]

TypeDrain ==
  /\ draining \in BOOLEAN /\ kind \in ShutdownKinds \cup {"none"}
  /\ drain_signal \in [Worker -> BOOLEAN] /\ restart_signal \in [Worker -> BOOLEAN]

(* Type invariant: every local, snapshot and history variable stays in its *)
(* range; a published pid is null (0) or a spawned one.                    *)
TypeOK ==
  /\ TypeControl /\ TypeTime /\ TypeProcs /\ TypeFleet /\ TypeCounts
  /\ TypeBudget /\ TypeDrain

(* A worker never has two processes that may go on running: a restart, a   *)
(* failed wait and the end of the loop all stop the old child, or have     *)
(* sent it SIGKILL, before spawn() makes the next one.                     *)
OneLiveChild ==
  \A w \in Worker : \A p, q \in alive[w] \ doomed[w] : p = q

(* The snapshot shows a pid exactly while it shows `running`, and then it  *)
(* is the pid of the child supervise_one holds and has not waited for: in  *)
(* every restart, its cooldown and a drain the pid is null.  Only a worker *)
(* whose policy refuses a restart shows it until the return, a moment      *)
(* later, publishes Stopped.                                               *)
PublishedPidIsHeld ==
  \A w \in Worker :
    /\ fleet[w].pid # 0 <=> fleet[w].phase = "running"
    /\ fleet[w].phase = "running" =>
         \/ pc[w] = "select" /\ child[w] = fleet[w].pid
         \/ pc[w] = "finish" /\ reason[w] = "refused"

(* Once supervise_one has returned, whatever the path, the snapshot says   *)
(* Stopped with the returned counters and every process of the worker is   *)
(* gone or has been sent SIGKILL.                                          *)
ReturnedWorkerIsGone ==
  \A w \in Worker : Returned(w) =>
    /\ fleet[w] = [phase |-> "stopped", pid |-> 0, last_error |-> last_error[w],
                   restart_count |-> restart_count[w]]
    /\ alive[w] \subseteq doomed[w]

(* restart_count is exact: when a child runs, every earlier spawn attempt  *)
(* of the worker, failed or not, has been counted once, whether a crash,   *)
(* a failed spawn, a failed wait or an operator caused the next one.       *)
RestartsCounted ==
  \A w \in Worker : pc[w] = "select" => attempt[w] = restart_count[w] + 1

(* Crash storms are bounded: in any Window at most MaxRestarts spawns make *)
(* up for an exit, a failed spawn or a failed wait.                        *)
RespawnRateBounded ==
  \A w \in Worker : Cardinality(respawned[w]) <= MaxRestarts

(* The budget is spent by storms only: the limiter trips only when         *)
(* MaxRestarts failures of the last Window have been respawned, however    *)
(* many restarts operators asked for and however long the worker has run.  *)
TripsOnlyInStorm ==
  [][\A w \in Worker : (pc'[w] = "cooldown" /\ pc[w] # "cooldown") =>
       Cardinality(respawned'[w]) >= MaxRestarts]_vars

(* A worker that raced past the drain check spawns at most one child after *)
(* the drain began.                                                        *)
AtMostOneLateSpawn == \A w \in Worker : late[w] <= 1

(* However its children react, and whatever each worker was doing (cooling *)
(* down, restarting, spawning) when the drain began, Supervisor::run is    *)
(* over one graceful grace window later.                                   *)
DrainDeadline ==
  sinceDrain > GracefulGrace => \A w \in Worker : Returned(w)

(* A worker ends for a cause: the drain, its drain signal, its policy, or  *)
(* the rate limit.  A restart asked for by an operator never ends it.      *)
EndsForCause ==
  \A w \in Worker : pc[w] \in {"finish", "done"} =>
    \/ draining
    \/ reason[w] \in {"signal", "limit"}
    \/ reason[w] = "refused" /\ Policy[w] # "permanent"

(* A drain always completes: every worker returns and no process is left,  *)
(* though children may ignore SIGTERM.                                     *)
DrainCompletes ==
  draining ~> \A w \in Worker : Returned(w) /\ alive[w] = {}

(* A stored restart permit is used: the worker restarts, or it returns.    *)
RestartIsServed ==
  \A w \in Worker : restart_signal[w] ~> (~restart_signal[w] \/ Returned(w))

(* No worker is left between children: after an exit, a failure or a stop  *)
(* there is a new child or the worker returns.                             *)
NeverBetweenChildren ==
  \A w \in Worker : (pc[w] # "select") ~> (pc[w] = "select" \/ Returned(w))

(* The contract of Supervisor::run as its callers see it.                  *)
Stage(w) ==
  CASE pc[w] \in {"init", "top"} -> "idle"
    [] pc[w] = "spawn" -> "committed"
    [] pc[w] = "cooldown" -> IF child[w] = 0 THEN "idle" ELSE "up"
    [] pc[w] \in {"select", "stopping", "killing"} -> "up"
    [] pc[w] \in {"finish", "done"} -> "ended"

Run == INSTANCE SupervisedRun WITH stage <- [w \in Worker |-> Stage(w)]

(* The supervisor implements SupervisedRun: no worker commits to a spawn   *)
(* once the drain has begun, none comes back after it ended, and a drain   *)
(* ends all of them.                                                       *)
ImplementsSupervisedRun == Run!FairSpec
===============================================================================
