----------------------------- MODULE MCControlPlane ---------------------------
(***************************************************************************)
(* The approval registry and the control arm for TLC, in one run: a        *)
(* behaviour chooses a part and takes its steps only.  The control arm     *)
(* rests on ApprovalGate, which the registry is shown to implement.  Ids   *)
(* and calls are model values that are compared only with each other and   *)
(* with the empty string, so they may be permuted; both parts draw them    *)
(* from the same sets.                                                     *)
(***************************************************************************)
EXTENDS DrainAuth, ControlArm, TLC

VARIABLE part  \* chosen

allvars == <<part, vars, armvars>>

IdSymmetry ==
  Permutations(Proposal) \cup Permutations(Worker) \cup Permutations(Caller)

PartInit == part \in {"registry", "arm"} /\ Init /\ ArmInit

PartNext ==
  /\ UNCHANGED part
  /\ \/ part = "registry" /\ Next /\ UNCHANGED armvars
     \/ part = "arm" /\ ArmNext /\ UNCHANGED vars

PartSpec == PartInit /\ [][PartNext]_allvars
===============================================================================
