------------------------------ MODULE MCPodPool -------------------------------
(***************************************************************************)
(* Two pods with two virtual nodes each on a ring of eight hashes.         *)
(***************************************************************************)
EXTENDS PodPool, TLC

CONSTANTS p1, p2, k1

MCPoints == (p1 :> {1, 4}) @@ (p2 :> {2, 6})
MCKeyHash == k1 :> 5
===============================================================================
