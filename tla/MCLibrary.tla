------------------------------- MODULE MCLibrary ------------------------------
(***************************************************************************)
(* Parts of the malkuth library that share no state, checked in one run: a *)
(* behaviour chooses a part and takes its steps only.  The drain           *)
(* controller is the part whose Init and Next have no prefix.              *)
(***************************************************************************)
EXTENDS DrainController, Rpc, Service, LogTail, RunRegistry, Locks

VARIABLE part  \* chosen

(* One connection in the pool; tasks 1 and 2 share a database session.     *)
MCConn == <<"pool">>
MCSession == <<1, 1, 2>>

allvars == <<part, vars, rpcvars, svcvars, logvars, regvars, lockvars>>

(* A part that was not chosen stays in its initial state.                  *)
PartInit ==
  /\ part \in {"drain", "rpc", "service", "logs", "registry", "locks"}
  /\ Init /\ RpcInit /\ ServiceInit /\ LogInit /\ RegistryInit /\ LocksInit

Chosen(p) ==
  /\ part = p /\ UNCHANGED part
  /\ IF p = "drain" THEN TRUE ELSE UNCHANGED vars
  /\ IF p = "rpc" THEN TRUE ELSE UNCHANGED rpcvars
  /\ IF p = "service" THEN TRUE ELSE UNCHANGED svcvars
  /\ IF p = "logs" THEN TRUE ELSE UNCHANGED logvars
  /\ IF p = "registry" THEN TRUE ELSE UNCHANGED regvars
  /\ IF p = "locks" THEN TRUE ELSE UNCHANGED lockvars

PartNext ==
  \/ Chosen("drain") /\ Next
  \/ Chosen("rpc") /\ RpcNext
  \/ Chosen("service") /\ ServiceNext
  \/ Chosen("logs") /\ LogNext
  \/ Chosen("registry") /\ RegistryNext
  \/ Chosen("locks") /\ LocksNext

(* The fairness of DrainController's FairSpec, of Rpc's and of Service's.  *)
PartSpec ==
  /\ PartInit /\ [][PartNext]_allvars
  /\ \A c \in Caller : WF_vars(part = "drain" /\ Continue(c))
  /\ \A w \in Waiter : WF_vars(part = "drain" /\ WaiterStep(w))
  /\ \A k \in Link : /\ WF_rpcvars(part = "rpc" /\ ClientStep(k))
                     /\ WF_rpcvars(part = "rpc" /\ ServerStep(k))
  /\ \A s \in Signal : WF_svcvars(part = "service" /\ Receive(s))
  /\ WF_svcvars(part = "service" /\ RunHook)
  /\ WF_svcvars(part = "service" /\ Return)
===============================================================================
