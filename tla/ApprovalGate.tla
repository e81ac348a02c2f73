----------------------------- MODULE ApprovalGate ------------------------------
(***************************************************************************)
(* What the approval registry promises the tools that act on workers:      *)
(* every action is authorised by an approval of exactly its pair, and      *)
(* uses it up.  An approval may lapse at any time, for lack of room or     *)
(* because it was withdrawn; one that is too old is refused, and may be    *)
(* good again when the clock is set back; only a new approval replaces a   *)
(* spent one.                                                              *)
(***************************************************************************)
EXTENDS Naturals

CONSTANT Pair

VARIABLES
  unspent,    \* the pairs that hold an approval nobody has used
  approvals,  \* approvals ever given to a pair
  acts        \* actions ever authorised for a pair

vars == <<unspent, approvals, acts>>

Init ==
  /\ unspent = {}
  /\ approvals = [p \in Pair |-> 0]
  /\ acts = [p \in Pair |-> 0]

Grant(p) ==
  /\ approvals' = [approvals EXCEPT ![p] = @ + 1]
  /\ unspent' \in SUBSET (unspent \cup {p})
  /\ UNCHANGED acts

Lapse ==
  /\ unspent' \in SUBSET unspent
  /\ UNCHANGED <<approvals, acts>>

Act(p) ==
  /\ p \in unspent
  /\ unspent' = unspent \ {p}
  /\ acts' = [acts EXCEPT ![p] = @ + 1]
  /\ UNCHANGED approvals

Next == Lapse \/ \E p \in Pair : Grant(p) \/ Act(p)

Spec == Init /\ [][Next]_vars
===============================================================================
