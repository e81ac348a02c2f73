---------------------------- MODULE DrainController ----------------------------
(***************************************************************************)
(* The DrainController of src/lifecycle.rs, one step per atomic access:    *)
(* callers of begin_drain and clear_drain, and tasks in wait_for_drain and *)
(* wait_for_signal.  The stores are Release and the loads Acquire, and     *)
(* each thread's accesses are seen in program order.                       *)
(*                                                                         *)
(* A tokio Notified future receives every notify_waiters() call made after *)
(* it was created, polled or not; notify_waiters() stores no permit for    *)
(* futures created later.                                                  *)
(***************************************************************************)
EXTENDS Integers

CONSTANTS
  Caller,        \* threads that call begin_drain or clear_drain
  DrainWaiter,   \* tasks that call wait_for_drain
  SignalWaiter,  \* tasks that call wait_for_signal
  Kinds,         \* the kinds begin_drain is called with
  MayClear,      \* whether clear_drain is called
  MaxCalls       \* bound: calls made by one caller

ShutdownKinds == {"graceful", "immediate", "reload"}
Waiter == DrainWaiter \cup SignalWaiter
CallerPCs == {"idle", "notify_kind", "set", "notify_drain", "reset_kind"}
WaiterPCs == {"check", "listen", "recheck", "await", "read_kind", "done"}

ASSUME DrainAssumption ==
  /\ Kinds \subseteq ShutdownKinds
  /\ DrainWaiter \cap SignalWaiter = {}
  /\ MayClear \in BOOLEAN /\ MaxCalls \in Nat

VARIABLES
  draining, kind,  \* the two atomics of Inner
  cpc, arg,        \* where a caller is, and its kind argument
  wpc, result,     \* where a waiter is, and what it returned
  notified,        \* its Notified future has been notified
  calls, begun     \* history: calls made, and the kinds begun so far

atomics == <<draining, kind>>
callers == <<cpc, arg, calls, begun>>
waiters == <<wpc, result, notified>>
vars == <<atomics, callers, waiters>>

causes_drain(k) == k \in {"graceful", "immediate"}

Init ==
  /\ draining = FALSE /\ kind = "none"
  /\ cpc = [c \in Caller |-> "idle"] /\ arg = [c \in Caller |-> "none"]
  /\ wpc = [w \in Waiter |-> "check"] /\ result = [w \in Waiter |-> "none"]
  /\ notified = [w \in Waiter |-> FALSE]
  /\ calls = [c \in Caller |-> 0] /\ begun = {}

-------------------------------------------------------------------------------
(***************************************************************************)
(* begin_drain: store the kind, wake the signal waiters and, unless it is  *)
(* a reload, store the drain bit and wake the drain waiters.               *)
(***************************************************************************)
CallerGoto(c, point) == cpc' = [cpc EXCEPT ![c] = point]

(* notify_waiters() of the Notify that the waiters in W listen on.         *)
NotifyWaiters(W) ==
  notified' = [w \in Waiter |-> notified[w] \/ (w \in W /\ wpc[w] \in {"recheck", "await"})]

BeginDrain(c, k) ==
  /\ cpc[c] = "idle" /\ calls[c] < MaxCalls
  /\ kind' = k
  /\ arg' = [arg EXCEPT ![c] = k]
  /\ calls' = [calls EXCEPT ![c] = @ + 1]
  /\ begun' = begun \cup {k}
  /\ CallerGoto(c, "notify_kind")
  /\ UNCHANGED <<draining, waiters>>

NotifyKind(c) ==
  /\ cpc[c] = "notify_kind"
  /\ NotifyWaiters(SignalWaiter)
  /\ CallerGoto(c, IF causes_drain(arg[c]) THEN "set" ELSE "idle")
  /\ UNCHANGED <<atomics, arg, calls, begun, wpc, result>>

(* Bug: the drain waiters are not woken.                                   *)
SetDrainingSilently(c) ==
  /\ cpc[c] = "set"
  /\ draining' = TRUE
  /\ CallerGoto(c, "idle")
  /\ UNCHANGED <<kind, arg, calls, begun, waiters>>

SetDraining(c) ==
  /\ cpc[c] = "set"
  /\ draining' = TRUE
  /\ CallerGoto(c, "notify_drain")
  /\ UNCHANGED <<kind, arg, calls, begun, waiters>>

NotifyDrain(c) ==
  /\ cpc[c] = "notify_drain"
  /\ NotifyWaiters(DrainWaiter)
  /\ CallerGoto(c, "idle")
  /\ UNCHANGED <<atomics, arg, calls, begun, wpc, result>>

(* clear_drain: reset the drain bit, then the kind; nobody is notified.    *)
ClearDrain(c) ==
  /\ MayClear /\ cpc[c] = "idle" /\ calls[c] < MaxCalls
  /\ draining' = FALSE
  /\ calls' = [calls EXCEPT ![c] = @ + 1]
  /\ CallerGoto(c, "reset_kind")
  /\ UNCHANGED <<kind, arg, begun, waiters>>

ResetKind(c) ==
  /\ cpc[c] = "reset_kind"
  /\ kind' = "none"
  /\ CallerGoto(c, "idle")
  /\ UNCHANGED <<draining, arg, calls, begun, waiters>>

-------------------------------------------------------------------------------
(***************************************************************************)
(* wait_for_drain and wait_for_signal: check, create the Notified future,  *)
(* check again, and only then wait.                                        *)
(***************************************************************************)
WaiterGoto(w, point) == wpc' = [wpc EXCEPT ![w] = point]

(* A signal waiter's check reads the kind it returns; a drain waiter reads *)
(* the drain bit, and the kind afterwards.                                 *)
Fired(w) == IF w \in SignalWaiter THEN kind # "none" ELSE draining

ReturnOr(w, point) ==
  \/ /\ Fired(w) /\ w \in SignalWaiter
     /\ result' = [result EXCEPT ![w] = kind]
     /\ WaiterGoto(w, "done")
  \/ /\ Fired(w) /\ w \in DrainWaiter
     /\ WaiterGoto(w, "read_kind") /\ UNCHANGED result
  \/ /\ ~Fired(w)
     /\ WaiterGoto(w, point) /\ UNCHANGED result

Check(w) ==
  /\ wpc[w] = "check"
  /\ ReturnOr(w, "listen")
  /\ UNCHANGED <<atomics, callers, notified>>

(* Bug: there is no second check.                                          *)
CreateNotifiedThenAwait(w) ==
  /\ wpc[w] = "listen"
  /\ notified' = [notified EXCEPT ![w] = FALSE]
  /\ WaiterGoto(w, "await")
  /\ UNCHANGED <<atomics, callers, result>>

CreateNotified(w) ==
  /\ wpc[w] = "listen"
  /\ notified' = [notified EXCEPT ![w] = FALSE]
  /\ WaiterGoto(w, "recheck")
  /\ UNCHANGED <<atomics, callers, result>>

Recheck(w) ==
  /\ wpc[w] = "recheck"
  /\ ReturnOr(w, "await")
  /\ UNCHANGED <<atomics, callers, notified>>

Wake(w) ==
  /\ wpc[w] = "await" /\ notified[w]
  /\ WaiterGoto(w, "check")
  /\ UNCHANGED <<atomics, callers, result, notified>>

(* Bug: no default for a kind that has been cleared.                       *)
ReadKindNoDefault(w) ==
  /\ wpc[w] = "read_kind"
  /\ result' = [result EXCEPT ![w] = kind]
  /\ WaiterGoto(w, "done")
  /\ UNCHANGED <<atomics, callers, notified>>

ReadKind(w) ==
  /\ wpc[w] = "read_kind"
  /\ result' = [result EXCEPT ![w] = IF kind = "none" THEN "graceful" ELSE kind]
  /\ WaiterGoto(w, "done")
  /\ UNCHANGED <<atomics, callers, notified>>

-------------------------------------------------------------------------------
(* The rest of a call once it is made, and a waiter's steps.               *)
Continue(c) == NotifyKind(c) \/ SetDraining(c) \/ NotifyDrain(c) \/ ResetKind(c)

WaiterStep(w) ==
  Check(w) \/ CreateNotified(w) \/ Recheck(w) \/ Wake(w) \/ ReadKind(w)

Next ==
  \/ \E c \in Caller : \/ \E k \in Kinds : BeginDrain(c, k)
                       \/ ClearDrain(c) \/ Continue(c)
  \/ \E w \in Waiter : WaiterStep(w)

Spec == Init /\ [][Next]_vars

(* Threads that are in a call finish it and ready tasks are polled; nobody *)
(* has to call.                                                            *)
FairSpec ==
  /\ Spec
  /\ \A c \in Caller : WF_vars(Continue(c))
  /\ \A w \in Waiter : WF_vars(WaiterStep(w))

-------------------------------------------------------------------------------
(* Type invariant of the controller, its callers and its waiters; a waiter *)
(* returns a ShutdownKind, whatever clear_drain did in the meantime.       *)
TypeOK ==
  /\ draining \in BOOLEAN /\ kind \in ShutdownKinds \cup {"none"}
  /\ cpc \in [Caller -> CallerPCs] /\ arg \in [Caller -> ShutdownKinds \cup {"none"}]
  /\ wpc \in [Waiter -> WaiterPCs] /\ result \in [Waiter -> ShutdownKinds \cup {"none"}]
  /\ notified \in [Waiter -> BOOLEAN]
  /\ calls \in [Caller -> 0..MaxCalls] /\ begun \subseteq Kinds
  /\ \A w \in Waiter : wpc[w] = "done" => result[w] \in ShutdownKinds

(* No wakeup is lost: a task that sleeps in wait_for_drain (or, for the    *)
(* kind, wait_for_signal) although the drain bit (the kind) is set has a   *)
(* notification waiting, or one that some begin_drain is about to send.    *)
NoLostWakeup ==
  /\ \A w \in DrainWaiter :
       wpc[w] = "await" /\ draining /\ ~notified[w] =>
         \E c \in Caller : cpc[c] = "notify_drain"
  /\ \A w \in SignalWaiter :
       wpc[w] = "await" /\ kind # "none" /\ ~notified[w] =>
         \E c \in Caller : cpc[c] = "notify_kind"

(* A drain that is not cleared again is seen by every task that waits for  *)
(* it, whenever it started waiting.                                        *)
DrainIsSeen ==
  \A w \in DrainWaiter : <>[]draining => <>(wpc[w] = "done")

(* A waiter returns a kind somebody asked for: the kind is stored before   *)
(* the drain bit, so an immediate shutdown is taken for the default, a     *)
(* graceful one, only by a wait_for_drain that a clear_drain may have      *)
(* overtaken between the bit and the kind.                                 *)
ReturnsRequestedKind ==
  \A w \in Waiter :
    wpc[w] = "done" =>
      \/ result[w] \in begun
      \/ MayClear /\ w \in DrainWaiter /\ result[w] = "graceful"
===============================================================================
