----------------------------- MODULE MCSupervisor -----------------------------
(***************************************************************************)
(* Instances of Supervisor for TLC: the policies of one or two workers.    *)
(***************************************************************************)
EXTENDS Supervisor, TLC

CONSTANTS w1, w2

OneTransient == w1 :> "transient"
PermanentAndTemporary == w1 :> "permanent" @@ w2 :> "temporary"
===============================================================================
