------------------------------ MODULE ControlArm ------------------------------
(***************************************************************************)
(* The control arm of src/mcp.rs over one supervision run: concurrent      *)
(* malkuth_restart and malkuth_drain calls, the RestartBook they share,    *)
(* the approvals they spend (ApprovalGate, which module DrainAuth          *)
(* implements), and the run they act on: its workers as the FleetState     *)
(* shows them, and the malkuth_supervise call, which may time out.         *)
(*                                                                         *)
(* A call is one step per lock it takes, since other calls and the workers *)
(* run between them.  A worker is what module Supervisor makes of it, seen *)
(* through its published phase and count.                                  *)
(***************************************************************************)
EXTENDS Integers, FiniteSets

CONSTANTS
  Caller,         \* tool calls in flight
  RunProposal, RunWorker, \* the ids a call may name
  MaxGrants,      \* bound: approvals of a pair
  RestartMax,     \* EXPLICIT_RESTART_MAX (5)
  RestartWindow,  \* EXPLICIT_RESTART_WINDOW (60 s), in ticks
  Kinds,          \* the kinds parse_drain_kind accepts
  MaxFailures     \* bound: exits and failed spawns of a worker

ASSUME ControlArmAssumption ==
  /\ RestartMax \in Nat \ {0} /\ RestartWindow \in Nat \ {0}
  /\ MaxGrants \in Nat /\ MaxFailures \in Nat

VARIABLES
  unspent, granted, spent,  \* the approval gate
  life,      \* where supervise_one is: spawning, up, stopping or ended
  count,     \* its restart_count
  fleet,     \* the published phase and restart_count
  permit,    \* the stored permit of its restart_signal
  draining, kind,   \* the run's DrainController
  call,      \* malkuth_supervise: running, stop_all, mark or finished
  pending,   \* RestartBook::pending
  stamps,    \* RestartBook::stamps, as ages: the nth of a worker in its tick
  pc, req,   \* where a tool call is, and its arguments
  snap,      \* the fleet it has read
  recent,    \* history: restarts accepted in the last window
  served,    \* history: restart signals a worker acted on
  drained,   \* history: drains a call began on an approval of the worker
  failures   \* history: exits and failed spawns

RunPair == RunProposal \X RunWorker

Approvals == INSTANCE ApprovalGate WITH
  Pair <- RunPair, approvals <- granted, acts <- spent

gate == <<unspent, granted, spent>>
workers == <<life, count, fleet, permit, served, failures>>
run == <<draining, kind, call>>
book == <<pending, stamps, recent>>
calls == <<pc, req, snap, drained>>
armvars == <<gate, workers, run, book, calls>>

NoReq == [pair |-> <<>>, kind |-> "none", already |-> FALSE]
Blank == [w \in RunWorker |-> [phase |-> "absent", count |-> 0]]

ArmInit ==
  /\ Approvals!Init
  /\ life = [w \in RunWorker |-> "init"] /\ count = [w \in RunWorker |-> 0]
  /\ fleet = Blank
  /\ permit = [w \in RunWorker |-> FALSE]
  /\ draining = FALSE /\ kind = "none" /\ call = "running"
  /\ pending = {} /\ stamps = {} /\ recent = {}
  /\ pc = [c \in Caller |-> "idle"] /\ req = [c \in Caller |-> NoReq]
  /\ snap = [c \in Caller |-> Blank]
  /\ served = [w \in RunWorker |-> 0] /\ drained = [w \in RunWorker |-> 0]
  /\ failures = [w \in RunWorker |-> 0]

finished == call = "finished"
Goto(c, point) == pc' = [pc EXCEPT ![c] = point]
Reply(c) == Goto(c, "idle") /\ req' = [req EXCEPT ![c] = NoReq]
Publish(w, phase) == fleet' = [fleet EXCEPT ![w].phase = phase]
PublishCount(w, phase, n) == fleet' = [fleet EXCEPT ![w] = [phase |-> phase, count |-> n]]
Live(w, stage) == life' = [life EXCEPT ![w] = stage]

-------------------------------------------------------------------------------
(***************************************************************************)
(* malkuth_restart.                                                        *)
(***************************************************************************)

(* The run is not finished and the approval is live, but not yet spent.    *)
RestartCheck(c, p, w) ==
  /\ pc[c] = "idle" /\ ~finished
  /\ <<p, w>> \in unspent
  /\ req' = [req EXCEPT ![c] = [NoReq EXCEPT !.pair = <<p, w>>]]
  /\ Goto(c, "snapshot")
  /\ UNCHANGED <<gate, workers, run, book, snap, drained>>

(* accept_restart reads the fleet before it takes the book's lock.         *)
TakeSnapshot(c) ==
  /\ pc[c] = "snapshot"
  /\ snap' = [snap EXCEPT ![c] = fleet]
  /\ Goto(c, "book")
  /\ UNCHANGED <<gate, workers, run, book, req, drained>>

(* Whether a pending entry is settled, by the snapshot of this call.       *)
Settled(e, seen) ==
  seen[e.worker].phase \in {"absent", "stopped"} \/ seen[e.worker].count # e.count

restart_blocker(phase, pending_same) ==
  pending_same \/ phase \in {"absent", "stopped", "draining", "restarting"}

StampsOf(S, w) == {s \in S : s.worker = w}
InWindow(S) == {s \in S : s.age < RestartWindow}

(* Instant::now, told apart from the worker's other stamps of this tick.   *)
NewStamp(S, w) ==
  [worker |-> w, age |-> 0, nth |-> Cardinality({s \in StampsOf(S, w) : s.age = 0}) + 1]

(* Bug: the budget admits one restart too many.                            *)
InBudgetLate(live, w) == Cardinality(StampsOf(live, w)) <= RestartMax

InBudget(live, w) == Cardinality(StampsOf(live, w)) < RestartMax

(* The critical section: settle, expire, decide and record.                *)
accept_restart(c) ==
  LET w == req[c].pair[2]
      seen == snap[c]
      kept == {e \in pending : ~Settled(e, seen)}
      live == InWindow(stamps)
      now == NewStamp(live, w)
      accepted == /\ ~restart_blocker(seen[w].phase, \E e \in kept : e.worker = w)
                  /\ InBudget(live, w)
  IN  /\ pc[c] = "book"
      /\ \/ /\ accepted
            /\ pending' = kept \cup {[worker |-> w, count |-> seen[w].count]}
            /\ stamps' = live \cup {now} /\ recent' = recent \cup {now}
            /\ Goto(c, "spend") /\ UNCHANGED req
         \/ /\ ~accepted
            /\ pending' = kept /\ stamps' = live /\ UNCHANGED recent
            /\ Reply(c)
      /\ snap' = [snap EXCEPT ![c] = Blank]
      /\ UNCHANGED <<gate, workers, run, drained>>

(* Bug: a refused consume does not stop the signal.                        *)
SpendIgnored(c) ==
  /\ pc[c] = "spend"
  /\ Approvals!Act(req[c].pair) \/ UNCHANGED gate
  /\ permit' = [permit EXCEPT ![req[c].pair[2]] = TRUE]
  /\ Reply(c)
  /\ UNCHANGED <<life, count, fleet, served, failures, run, book, snap, drained>>

(* The approval is spent, then the worker is signalled.  A refusal returns *)
(* and leaves the entry and the stamp in the book.                         *)
SpendAndSignal(c) ==
  /\ pc[c] = "spend"
  /\ \/ /\ Approvals!Act(req[c].pair)
        /\ permit' = [permit EXCEPT ![req[c].pair[2]] = TRUE]
     \/ UNCHANGED <<gate, permit>>
  /\ Reply(c)
  /\ UNCHANGED <<life, count, fleet, served, failures, run, book, snap, drained>>

-------------------------------------------------------------------------------
(***************************************************************************)
(* malkuth_drain.                                                          *)
(***************************************************************************)

(* A run that already drains is signalled again without an approval.       *)
DrainCheck(c, p, w, k) ==
  /\ pc[c] = "idle"
  /\ req' = [req EXCEPT ![c] = [pair |-> <<p, w>>, kind |-> k, already |-> draining]]
  /\ Goto(c, IF draining THEN "signal" ELSE "validate")
  /\ UNCHANGED <<gate, workers, run, book, snap, drained>>

DrainValidate(c) ==
  /\ pc[c] = "validate"
  /\ \/ Approvals!Act(req[c].pair) /\ Goto(c, "signal") /\ UNCHANGED req
     \/ UNCHANGED gate /\ Reply(c)
  /\ UNCHANGED <<workers, run, book, snap, drained>>

(* begin_drain; the wait for the run to finish, and the answer, only read. *)
DrainSignal(c) ==
  /\ pc[c] = "signal"
  /\ draining' = TRUE /\ kind' = req[c].kind
  /\ drained' = IF req[c].already THEN drained
                  ELSE [drained EXCEPT ![req[c].pair[2]] = @ + 1]
  /\ Reply(c)
  /\ UNCHANGED <<gate, workers, call, book, snap>>

-------------------------------------------------------------------------------
(***************************************************************************)
(* The workers, as supervise_one publishes them.                           *)
(***************************************************************************)
Supervised == call = "running"

WorkerFrame == UNCHANGED <<gate, run, book, calls>>

Register(w) ==
  /\ Supervised /\ life[w] = "init"
  /\ Live(w, "spawning") /\ Publish(w, "starting")
  /\ UNCHANGED <<count, permit, served, failures>> /\ WorkerFrame

SpawnOk(w) ==
  /\ Supervised /\ life[w] = "spawning"
  /\ Live(w, "up") /\ Publish(w, "running")
  /\ UNCHANGED <<count, permit, served, failures>> /\ WorkerFrame

Fail(w) ==
  /\ Supervised /\ failures[w] < MaxFailures
  /\ failures' = [failures EXCEPT ![w] = @ + 1]
  /\ count' = [count EXCEPT ![w] = @ + 1]
  /\ Live(w, "spawning")
  /\ UNCHANGED <<permit, served>> /\ WorkerFrame

(* A failed spawn shows the worker as stopped although it is retried, and  *)
(* its count only at the next publication.                                 *)
SpawnFailed(w) == life[w] = "spawning" /\ Fail(w) /\ PublishCount(w, "stopped", count[w])

ChildExited(w) == life[w] = "up" /\ Fail(w) /\ PublishCount(w, "restarting", count[w] + 1)

ServeRestart(w) ==
  /\ Supervised /\ life[w] = "up" /\ permit[w]
  /\ permit' = [permit EXCEPT ![w] = FALSE]
  /\ served' = [served EXCEPT ![w] = @ + 1]
  /\ count' = [count EXCEPT ![w] = @ + 1]
  /\ PublishCount(w, "restarting", count[w] + 1)
  /\ Live(w, "spawning")
  /\ UNCHANGED failures /\ WorkerFrame

SeeDrain(w) ==
  /\ Supervised /\ life[w] = "up" /\ draining
  /\ Live(w, "stopping") /\ Publish(w, "draining")
  /\ UNCHANGED <<count, permit, served, failures>> /\ WorkerFrame

(* The loop ends: the child was stopped, the drain was seen at its head,   *)
(* or the policy or the rate limit refused a restart.                      *)
Finish(w) ==
  /\ Supervised /\ life[w] \in {"spawning", "up", "stopping"}
  /\ life[w] = "spawning" => draining \/ failures[w] > 0
  /\ Live(w, "ended") /\ PublishCount(w, "stopped", count[w])
  /\ UNCHANGED <<count, permit, served, failures>> /\ WorkerFrame

-------------------------------------------------------------------------------
(***************************************************************************)
(* malkuth_supervise: all workers ended, or the timeout drops their        *)
(* futures, begins a drain and stops the fleet for them.                   *)
(***************************************************************************)
RunOver ==
  /\ call = "running" /\ \A w \in RunWorker : life[w] = "ended"
  /\ call' = "mark"
  /\ UNCHANGED <<gate, workers, draining, kind, book, calls>>

(* Bug: the fleet is not stopped.                                          *)
SuperviseTimeoutOnly ==
  /\ call = "running"
  /\ draining' = TRUE /\ kind' = "graceful" /\ call' = "mark"
  /\ UNCHANGED <<gate, workers, book, calls>>

SuperviseTimeout ==
  /\ call = "running"
  /\ draining' = TRUE /\ kind' = "graceful" /\ call' = "stop_all"
  /\ UNCHANGED <<gate, workers, book, calls>>

StopAll ==
  /\ call = "stop_all" /\ call' = "mark"
  /\ fleet' = [w \in RunWorker |-> IF fleet[w].phase = "absent" THEN fleet[w]
                                  ELSE [fleet[w] EXCEPT !.phase = "stopped"]]
  /\ UNCHANGED <<gate, life, count, permit, served, failures, draining, kind,
                 book, calls>>

MarkFinished ==
  /\ call = "mark" /\ call' = "finished"
  /\ UNCHANGED <<gate, workers, draining, kind, book, calls>>

-------------------------------------------------------------------------------
(* malkuth_approve, and approvals that lapse.                              *)
Approve ==
  /\ Approvals!Lapse \/ \E p \in RunPair : granted[p] < MaxGrants /\ Approvals!Grant(p)
  /\ UNCHANGED <<workers, run, book, calls>>

Older(s) == [s EXCEPT !.age = IF @ < RestartWindow THEN @ + 1 ELSE @]

BookTick ==
  /\ stamps' = {Older(s) : s \in stamps}
  /\ recent' = InWindow({Older(s) : s \in recent})
  /\ UNCHANGED <<gate, workers, run, pending, calls>>

CallStep(c) ==
  \/ TakeSnapshot(c) \/ accept_restart(c) \/ SpendAndSignal(c)
  \/ DrainValidate(c) \/ DrainSignal(c)

WorkerStep(w) ==
  \/ Register(w) \/ SpawnOk(w) \/ SpawnFailed(w) \/ ChildExited(w)
  \/ ServeRestart(w) \/ SeeDrain(w) \/ Finish(w)

ArmNext ==
  \/ \E c \in Caller : \/ CallStep(c)
                       \/ \E p \in RunProposal, w \in RunWorker :
                            \/ RestartCheck(c, p, w)
                            \/ \E k \in Kinds : DrainCheck(c, p, w, k)
  \/ \E w \in RunWorker : WorkerStep(w)
  \/ RunOver \/ SuperviseTimeout \/ StopAll \/ MarkFinished
  \/ Approve \/ BookTick

ArmSpec == ArmInit /\ [][ArmNext]_armvars

-------------------------------------------------------------------------------
(* The approvals of the worker that a count by pair says, one by one.      *)
Spendings(f, w) == UNION {{p} \X (1 .. f[<<p, w>>]) : p \in RunProposal}

(* Every operator action is paid for: the restarts a worker carried out or *)
(* has in its Notify, and the drains begun in its name, are at most the    *)
(* approvals spent for it, however calls for the same proposal overlap.    *)
ActionsArePaid ==
  \A w \in RunWorker :
    served[w] + drained[w] + (IF permit[w] THEN 1 ELSE 0) <= Cardinality(Spendings(spent, w))

(* The operator's budget: in any window at most EXPLICIT_RESTART_MAX       *)
(* restarts of a worker are accepted, though calls race for the book.      *)
RestartBudget ==
  \A w \in RunWorker : Cardinality(StampsOf(recent, w)) <= RestartMax

(* A finished run, timed out or not, shows every registered worker as      *)
(* stopped, and nothing shows it otherwise later.                          *)
FinishedIsStopped ==
  finished => \A w \in RunWorker : fleet[w].phase \in {"absent", "stopped"}
===============================================================================
