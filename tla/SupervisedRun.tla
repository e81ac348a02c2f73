---------------------------- MODULE SupervisedRun -----------------------------
(***************************************************************************)
(* What Supervisor::run promises its callers, the daemon loop and the MCP  *)
(* server: a worker starts children only until the drain begins, except    *)
(* for one it is already committed to; a worker that has ended stays       *)
(* ended; and a drain ends them all.                                       *)
(***************************************************************************)
CONSTANT Worker

VARIABLES stage, draining

vars == <<stage, draining>>

Stages == {"idle", "committed", "up", "ended"}

Init == stage = [w \in Worker |-> "idle"] /\ draining = FALSE

Move(w, to) ==
  /\ stage' = [stage EXCEPT ![w] = to]
  /\ UNCHANGED draining

Commit(w) == stage[w] = "idle" /\ ~draining /\ Move(w, "committed")

Launch(w) == stage[w] = "committed" /\ Move(w, "up")

(* A spawn failed, or a child is gone: try again later, or end.            *)
Lose(w) ==
  /\ stage[w] \in {"committed", "up"}
  /\ Move(w, "idle") \/ Move(w, "ended")

End(w) == stage[w] = "idle" /\ Move(w, "ended")

BeginDrain == draining' = TRUE /\ UNCHANGED stage

WorkerStep(w) == Commit(w) \/ Launch(w) \/ Lose(w) \/ End(w)

Next == BeginDrain \/ \E w \in Worker : WorkerStep(w)

Spec == Init /\ [][Next]_vars

(* Only a drain obliges a worker to move on.                               *)
FairSpec == Spec /\ \A w \in Worker : WF_vars(draining /\ WorkerStep(w))
===============================================================================
