-------------------------------- MODULE Service -------------------------------
(***************************************************************************)
(* A supervised RPC service (service.rs): the server raced against the     *)
(* exit source, then the drain hooks in order.  The exit source is the     *)
(* signals' (signals.rs); a client may call Lifecycle.Drain, Reload and    *)
(* Status (jsonrpc.rs), answered from the controller or from a probe       *)
(* (probes.rs) whose drain state the application sets.                     *)
(***************************************************************************)
EXTENDS Naturals

CONSTANTS
  Hooks,       \* number of drain hooks
  HasExit      \* an exit source is configured

ASSUME ServiceAssumption == Hooks \in Nat

Signal == {"INT", "TERM", "QUIT", "HUP"}

VARIABLES
  service,     \* "starting", "serving", "draining" (the hooks), "done"
  ran,         \* hooks that have run
  arrived,     \* signals delivered and not yet received
  drain_kind,  \* the controller's kind; "none" while the controller is active
  conns,       \* a connection opened before the exit is still served
  probe        \* ProbeState's drain state is Active

svcvars == <<service, ran, arrived, drain_kind, conns, probe>>

ServiceInit ==
  /\ service = IF HasExit THEN "starting" ELSE "serving"
  /\ ran = 0 /\ arrived = {} /\ drain_kind = "none" /\ conns = FALSE /\ probe = TRUE

(* signal() for each kind; one failure and the exit source is over.        *)
Install(ok) ==
  /\ service = "starting"
  /\ service' = IF ok THEN "serving" ELSE "draining"
  /\ UNCHANGED <<ran, arrived, drain_kind, conns, probe>>

Deliver(s) ==
  /\ service = "serving" /\ HasExit
  /\ arrived' = arrived \cup {s}
  /\ UNCHANGED <<service, ran, drain_kind, conns, probe>>

KindOf(s) ==
  CASE s = "QUIT" -> "Immediate" [] s = "HUP" -> "Reload" [] OTHER -> "Graceful"

(* The select! of SignalExitSource::wait.  With a bug, a reload empties    *)
(* the other signals' streams.                                             *)
LeftAfterAll(s) == IF s = "HUP" THEN {} ELSE arrived \ {s}
LeftAfter(s) == arrived \ {s}

Receive(s) ==
  /\ service = "serving" /\ s \in arrived
  /\ drain_kind' = KindOf(s) /\ arrived' = LeftAfter(s)
  /\ service' = IF s = "HUP" THEN service ELSE "draining"
  /\ UNCHANGED <<ran, conns, probe>>

(* serve_listener returns when accept fails.                               *)
ServerEnds ==
  /\ service = "serving" /\ service' = "draining"
  /\ UNCHANGED <<ran, arrived, drain_kind, conns, probe>>

(* A connection's task is its own: it outlives the listener.               *)
Accept ==
  /\ service = "serving" /\ conns' = TRUE
  /\ UNCHANGED <<service, ran, arrived, drain_kind, probe>>

(* Lifecycle.Drain and Lifecycle.Reload only mark the controller.          *)
Lifecycle(k) ==
  /\ conns /\ drain_kind' = k
  /\ UNCHANGED <<service, ran, arrived, conns, probe>>

set_drain_state ==
  /\ probe' = ~probe
  /\ UNCHANGED <<service, ran, arrived, drain_kind, conns>>

RunHook ==
  /\ service = "draining" /\ ran < Hooks /\ ran' = ran + 1
  /\ UNCHANGED <<service, arrived, drain_kind, conns, probe>>

Return ==
  /\ service = "draining" /\ ran = Hooks /\ service' = "done"
  /\ UNCHANGED <<ran, arrived, drain_kind, conns, probe>>

ServiceNext ==
  \/ \E ok \in BOOLEAN : Install(ok)
  \/ \E s \in Signal : Deliver(s) \/ Receive(s)
  \/ ServerEnds \/ Accept \/ set_drain_state \/ RunHook \/ Return
  \/ \E k \in {"Graceful", "Reload"} : Lifecycle(k)

ServiceSpec == ServiceInit /\ [][ServiceNext]_svcvars

(* The exit source's task runs, select! is fair to its branches, and hooks *)
(* return.                                                                 *)
ServiceFairness ==
  /\ \A s \in Signal : WF_svcvars(Receive(s))
  /\ WF_svcvars(RunHook) /\ WF_svcvars(Return)

-------------------------------------------------------------------------------
(* A terminating signal ends the service, after every hook has run,        *)
(* whatever reloads and drain requests come in between.                    *)
SignalEndsService ==
  (\E s \in Signal \ {"HUP"} : s \in arrived) ~> (service = "done" /\ ran = Hooks)
===============================================================================
