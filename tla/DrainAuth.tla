------------------------------- MODULE DrainAuth -------------------------------
(***************************************************************************)
(* The approval registry of src/drain_auth.rs, shared by every MCP tool.   *)
(* Each method holds the RwLock throughout, so each is one step.           *)
(*                                                                         *)
(* The Vec of entries is a set of entries numbered in the order they were  *)
(* pushed: remove(0) takes the lowest number, a reverse scan meets the     *)
(* highest first.  An approved_at is kept as the age SystemTime::now()     *)
(* gives it; the wall clock may be set back.                               *)
(***************************************************************************)
EXTENDS Integers, FiniteSets

CONSTANTS
  Proposal, Worker,  \* the ids a request may name
  MaxEntries,        \* max_entries of the registry (100)
  TTL,               \* its ttl, in ticks
  MaxApprovals,      \* bound: approvals registered
  MaxBack            \* bound: ticks the wall clock is ever set back

NoBudget == -1
Pair == Proposal \X Worker
GateDecision == {"allow", "review", "block"}

ASSUME DrainAuthAssumption ==
  /\ MaxEntries \in Nat \ {0} /\ TTL \in Nat \ {0}
  /\ MaxApprovals \in Nat /\ MaxBack \in Nat

ASSUME IdsAssumption == "" \notin Proposal /\ "" \notin Worker

VARIABLES
  entries,    \* ApprovalRegistry::entries
  back,       \* ticks the wall clock has been set back
  pushed,     \* history: approvals registered; the number of the last entry
  approvals,  \* history: the allowing ones, by pair
  acts,       \* history: actions authorised, by pair
  last,       \* history: the last decision or use of a pair
  since       \* history: real ticks since the pair was last approved

history == <<pushed, approvals, acts, last, since>>
vars == <<entries, back, history>>

Entry == [n : Nat, pair : Pair, decision : GateDecision, age : Int, consumed : BOOLEAN]

Init ==
  /\ entries = {} /\ back = 0
  /\ pushed = 0
  /\ approvals = [p \in Pair |-> 0] /\ acts = [p \in Pair |-> 0]
  /\ last = [p \in Pair |-> "none"] /\ since = [p \in Pair |-> 0]

-------------------------------------------------------------------------------
(* Bug: an approval of exactly the ttl's age still counts.                 *)
is_valid_inclusive(e) == 0 <= e.age /\ e.age <= TTL

(* now.duration_since(approved_at) is an error when approved_at lies ahead.*)
is_valid(e) == 0 <= e.age /\ e.age < TTL

Matches(e, p) == e.pair = p

(* The entry a reverse scan for the pair stops at.                         *)
Found(p) == {e \in entries : Matches(e, p) /\
               \A f \in entries : Matches(f, p) => f.n <= e.n}

(* Bug: room is made at the wrong end.                                     *)
Newest(S) == {e \in S : \A f \in S : f.n <= e.n}

Oldest(S) == {e \in S : \A f \in S : e.n <= f.n}

-------------------------------------------------------------------------------
(* approve: evict the expired, make room, replace the pair's own entry.    *)
approve(p, decision) ==
  LET valid == {e \in entries : is_valid(e)}
      room == IF Cardinality(valid) >= MaxEntries THEN valid \ Oldest(valid) ELSE valid
  IN  /\ pushed < MaxApprovals
      /\ entries' = {e \in room : e.pair # p} \cup
                      {[n |-> pushed + 1, pair |-> p, decision |-> decision,
                        age |-> 0, consumed |-> FALSE]}
      /\ pushed' = pushed + 1
      /\ approvals' = IF decision = "block" THEN approvals
                        ELSE [approvals EXCEPT ![p] = @ + 1]
      /\ last' = [last EXCEPT ![p] = decision]
      /\ since' = [since EXCEPT ![p] = 0]
      /\ UNCHANGED <<back, acts>>

(* The answer of consume, and that of status, for a registered pair.       *)
Judge(e) ==
  CASE e.decision = "block" -> "blocked"
    [] e.decision # "block" /\ e.consumed -> "consumed"
    [] e.decision # "block" /\ ~e.consumed /\ ~is_valid(e) -> "expired"
    [] e.decision # "block" /\ ~e.consumed /\ is_valid(e) -> "ok"

status(p) ==
  IF Found(p) = {} THEN "required" ELSE Judge(CHOOSE e \in Found(p) : TRUE)

(* Bug: the entry is not marked.                                           *)
SpendNothing(e) == e

Spend(e) == [e EXCEPT !.consumed = TRUE]

(* A refusal changes nothing.                                              *)
consume(p) ==
  /\ status(p) = "ok"
  /\ entries' = {IF e \in Found(p) THEN Spend(e) ELSE e : e \in entries}
  /\ acts' = [acts EXCEPT ![p] = @ + 1]
  /\ last' = [last EXCEPT ![p] = "spent"]
  /\ UNCHANGED <<back, pushed, approvals, since>>

(* The registry is asked only if the request is well formed and its drain  *)
(* budget, where it has one, is in range.                                  *)
validate_drain_request(proposal, worker, budget) ==
  /\ proposal # "" /\ worker # ""
  /\ budget = NoBudget \/ budget \in 1..300
  /\ consume(<<proposal, worker>>)

purge ==
  /\ entries' = {e \in entries : is_valid(e)}
  /\ UNCHANGED <<back, history>>
-------------------------------------------------------------------------------
(* Time passes; ages that can no longer become valid are not told apart.   *)
Horizon == TTL + MaxBack

Tick ==
  /\ entries' = {[e EXCEPT !.age = IF @ < Horizon THEN @ + 1 ELSE @] : e \in entries}
  /\ since' = [p \in Pair |-> IF since[p] < TTL THEN since[p] + 1 ELSE TTL]
  /\ UNCHANGED <<back, pushed, approvals, acts, last>>

ClockSetBack ==
  /\ back < MaxBack
  /\ back' = back + 1
  /\ entries' = {[e EXCEPT !.age = @ - 1] : e \in entries}
  /\ UNCHANGED history

Next ==
  \/ \E p \in Pair, d \in GateDecision : approve(p, d)
  \/ \E proposal \in Proposal \cup {""}, worker \in Worker \cup {""},
        budget \in {NoBudget, 0, 1, 300, 301} :
       validate_drain_request(proposal, worker, budget)
  \/ purge \/ Tick \/ ClockSetBack

Spec == Init /\ [][Next]_vars

-------------------------------------------------------------------------------
(* Type invariant of the registry and its history.                         *)
TypeOK ==
  /\ entries \subseteq Entry /\ back \in 0..MaxBack
  /\ pushed \in 0..MaxApprovals
  /\ approvals \in [Pair -> Nat] /\ acts \in [Pair -> Nat]
  /\ last \in [Pair -> GateDecision \cup {"none", "spent"}]
  /\ since \in [Pair -> 0..TTL]

(* A pair has one entry at most, however often it is approved, spent and   *)
(* approved again, so no spent or blocked entry shadows another.           *)
OnePerPair == \A e, f \in entries : e.pair = f.pair => e = f

(* The registry never outgrows max_entries, expired entries included.      *)
WithinCapacity == Cardinality(entries) <= MaxEntries

(* One approval authorises at most one action.                             *)
OneActionPerApproval == \A p \in Pair : acts[p] <= approvals[p]

(* consume() succeeds only for a pair whose last event was an approval,    *)
(* neither spent nor blocked since.                                        *)
ActsAreAuthorised ==
  [][\A p \in Pair : acts'[p] # acts[p] => last[p] \in {"allow", "review"}]_vars

(* While the wall clock is not set back, it succeeds only within the TTL.  *)
ActsInTime ==
  [][back = 0 => \A p \in Pair : acts'[p] # acts[p] => since[p] < TTL]_vars

(* A live unspent approval is dropped only to be replaced, or for the room *)
(* of a newer one when every entry is valid and, unless the wall clock has *)
(* been set back, none is older.                                           *)
LiveApprovalsKept ==
  [][\A e \in entries :
       (is_valid(e) /\ ~e.consumed /\ pushed' > pushed) =>
         \/ \E f \in entries' : f.n = e.n \/ (f.n > e.n /\ f.pair = e.pair)
         \/ /\ Cardinality({f \in entries : is_valid(f)}) = MaxEntries
            /\ \A f \in entries : is_valid(f) => f.age <= e.age \/ back > 0]_vars

Open(e) == e.decision # "block" /\ ~e.consumed

Gate == INSTANCE ApprovalGate
          WITH unspent <- {p \in Pair : \E e \in entries : e.pair = p /\ Open(e)}

(* The registry implements ApprovalGate, whatever the wall clock does.     *)
ImplementsApprovalGate == Gate!Spec
===============================================================================
