---------------------------- MODULE DrainAuthProofs ----------------------------
(***************************************************************************)
(* Proofs about the approval registry for any ids, capacity and TTL.  Only *)
(* the timing theorems, which need it, assume that the wall clock is not   *)
(* set back.                                                               *)
(***************************************************************************)
EXTENDS DrainAuth, FiniteSetTheorems, FunctionTheorems, WellFoundedInduction, TLAPS

(* An entry that consume() accepts.                                        *)
Live(e) == e.decision # "block" /\ ~e.consumed /\ is_valid(e)

Aged(e) == [e EXCEPT !.age = IF @ < Horizon THEN @ + 1 ELSE @]
SetBack(e) == [e EXCEPT !.age = @ - 1]

(* With one entry to a pair, the reverse scan of status() and consume()    *)
(* finds exactly the pair's entry.                                         *)
LEMMA ScanFindsEntry ==
  ASSUME TypeOK, OnePerPair, NEW p \in Pair
  PROVE  Found(p) = {e \in entries : e.pair = p}
  BY DEF TypeOK, Entry, OnePerPair, Found, Matches

(* status() answers Approved for the pairs that have a live entry.         *)
StatusIsExact ==
  \A p \in Pair : status(p) = "ok" <=> \E e \in entries : e.pair = p /\ Live(e)

(* It does, as long as a pair has one entry.                               *)
LEMMA StatusOfPair == TypeOK /\ OnePerPair => StatusIsExact
<1> SUFFICES ASSUME TypeOK, OnePerPair, NEW p \in Pair
             PROVE  status(p) = "ok" <=> \E e \in entries : e.pair = p /\ Live(e)
  BY DEF StatusIsExact
<1>1. CASE Found(p) = {}
  BY <1>1, ScanFindsEntry DEF status
<1>2. CASE Found(p) # {}
  <2>1. PICK e \in entries : e.pair = p
    BY <1>2, ScanFindsEntry
  <2>2. Found(p) = {e}
    BY <2>1, ScanFindsEntry DEF OnePerPair
  <2>3. status(p) = Judge(e)
    BY <2>2 DEF status
  <2>4. Judge(e) = "ok" <=> Live(e)
    BY <2>1 DEF Judge, Live, TypeOK, Entry
  <2>5. \A f \in entries : f.pair = p => f = e
    BY <2>1 DEF OnePerPair
  <2> QED
    BY <2>1, <2>3, <2>4, <2>5
<1> QED
  BY <1>1, <1>2

(* A request that consume() accepts marks one live entry of its pair.      *)
LEMMA ConsumeMarksOne ==
  ASSUME TypeOK, OnePerPair, NEW p \in Pair, consume(p)
  PROVE  \E e \in entries : /\ e.pair = p /\ Live(e)
                            /\ entries' = (entries \ {e}) \cup {Spend(e)}
<1>1. PICK e \in entries : e.pair = p /\ Live(e)
  BY StatusOfPair DEF consume, StatusIsExact
<1>2. Found(p) = {e}
  BY <1>1, ScanFindsEntry DEF OnePerPair
<1>3. entries' = {IF x = e THEN Spend(x) ELSE x : x \in entries}
  BY <1>2 DEF consume
<1> QED
  BY <1>1, <1>3

(* What approve() leaves of the old entries: valid ones of other pairs.    *)
Room(p) ==
  LET valid == {e \in entries : is_valid(e)}
      room == IF Cardinality(valid) >= MaxEntries THEN valid \ Oldest(valid) ELSE valid
  IN  {e \in room : e.pair # p}

NewEntry(p, decision) ==
  [n |-> pushed + 1, pair |-> p, decision |-> decision, age |-> 0, consumed |-> FALSE]

(* approve() adds one fresh entry to what it leaves.                       *)
LEMMA ApproveAdds ==
  ASSUME NEW p, NEW d, approve(p, d)
  PROVE  /\ entries' = Room(p) \cup {NewEntry(p, d)}
         /\ Room(p) \subseteq {e \in entries : is_valid(e) /\ e.pair # p}
  BY DEF approve, Room, NewEntry

-------------------------------------------------------------------------------
Quiet == purge \/ Tick \/ ClockSetBack \/ UNCHANGED vars

(* The three kinds of step.                                                *)
LEMMA StepKinds ==
  ASSUME [Next]_vars
  PROVE  \/ \E p \in Pair, d \in GateDecision : approve(p, d)
         \/ \E p \in Pair : consume(p)
         \/ Quiet
  BY Zenon DEF Next, validate_drain_request, Pair, Quiet

(* Every method keeps the registry and its history in type.                *)
LEMMA TypeStep == TypeOK /\ OnePerPair /\ [Next]_vars => TypeOK'
<1> SUFFICES ASSUME TypeOK, OnePerPair, [Next]_vars PROVE TypeOK'
  OBVIOUS
<1> USE DrainAuthAssumption DEF GateDecision
<1>1. ASSUME NEW p \in Pair, NEW d \in GateDecision, approve(p, d) PROVE TypeOK'
  <2>1. NewEntry(p, d) \in Entry
    BY DEF NewEntry, Entry, TypeOK
  <2>2. entries' \subseteq Entry
    BY <1>1, <2>1, ApproveAdds DEF TypeOK
  <2>3. pushed' \in 0..MaxApprovals /\ since' \in [Pair -> 0..TTL]
    BY <1>1 DEF approve, TypeOK
  <2>4. approvals' \in [Pair -> Nat]
    BY <1>1 DEF approve, TypeOK
  <2>5. last' \in [Pair -> GateDecision \cup {"none", "spent"}] /\ UNCHANGED <<back, acts>>
    BY <1>1 DEF approve, TypeOK
  <2> QED
    BY <2>2, <2>3, <2>4, <2>5 DEF TypeOK
<1>2. ASSUME NEW p \in Pair, consume(p) PROVE TypeOK'
  <2>1. PICK e \in entries : entries' = (entries \ {e}) \cup {Spend(e)}
    BY <1>2, ConsumeMarksOne
  <2>2. Spend(e) \in Entry
    BY Zenon DEF Spend, Entry, TypeOK
  <2>3. acts' \in [Pair -> Nat] /\ UNCHANGED <<back, pushed, approvals, since>>
    BY <1>2 DEF consume, TypeOK
  <2>4. last' \in [Pair -> GateDecision \cup {"none", "spent"}]
    BY <1>2 DEF consume, TypeOK
  <2> QED
    BY <2>1, <2>2, <2>3, <2>4 DEF TypeOK
<1>3. CASE purge
  BY <1>3 DEF purge, history, TypeOK
<1>4. CASE Tick
  <2>1. \A e \in Entry : Aged(e) \in Entry
    BY DEF Aged, Entry, Horizon
  <2>2. entries' \subseteq Entry
    BY <1>4, <2>1 DEF Tick, Aged, TypeOK
  <2>3. since' \in [Pair -> 0..TTL]
    BY <1>4 DEF Tick, TypeOK
  <2> QED
    BY <1>4, <2>2, <2>3 DEF Tick, TypeOK
<1>5. CASE ClockSetBack
  <2>1. \A e \in Entry : SetBack(e) \in Entry
    BY DEF SetBack, Entry
  <2>2. entries' \subseteq Entry
    BY <1>5, <2>1 DEF ClockSetBack, SetBack, TypeOK
  <2> QED
    BY <1>5, <2>2 DEF ClockSetBack, history, TypeOK
<1>6. CASE UNCHANGED vars
  BY <1>6 DEF vars, history, TypeOK
<1> QED
  BY <1>1, <1>2, <1>3, <1>4, <1>5, <1>6, StepKinds, Zenon DEF Quiet

(* No method leaves a pair with two entries.                               *)
LEMMA OnePerPairStep == TypeOK /\ OnePerPair /\ [Next]_vars => OnePerPair'
<1> SUFFICES ASSUME TypeOK, OnePerPair, [Next]_vars PROVE OnePerPair'
  OBVIOUS
<1>1. ASSUME NEW p \in Pair, NEW d \in GateDecision, approve(p, d) PROVE OnePerPair'
  <2>1. NewEntry(p, d).pair = p
    BY DEF NewEntry
  <2>2. /\ entries' = Room(p) \cup {NewEntry(p, d)}
        /\ \A e \in Room(p) : e \in entries /\ e.pair # p
    BY <1>1, ApproveAdds
  <2> QED
    BY <2>1, <2>2, Zenon DEF OnePerPair
<1>2. ASSUME NEW p \in Pair, consume(p) PROVE OnePerPair'
  <2>1. PICK e \in entries : e.pair = p /\ entries' = (entries \ {e}) \cup {Spend(e)}
    BY <1>2, ConsumeMarksOne
  <2>2. Spend(e).pair = p
    BY <2>1 DEF Spend, Entry, TypeOK
  <2> QED
    BY <2>1, <2>2 DEF OnePerPair
<1>3. CASE purge
  BY <1>3 DEF purge, OnePerPair
<1>4. CASE Tick
  <2>1. \A e \in entries : Aged(e).pair = e.pair
    BY DEF Aged, Entry, TypeOK
  <2>2. entries' = {Aged(e) : e \in entries}
    BY <1>4 DEF Tick, Aged
  <2> QED
    BY <2>1, <2>2 DEF OnePerPair
<1>5. CASE ClockSetBack
  <2>1. \A e \in entries : SetBack(e).pair = e.pair
    BY DEF SetBack, Entry, TypeOK
  <2>2. entries' = {SetBack(e) : e \in entries}
    BY <1>5 DEF ClockSetBack, SetBack
  <2> QED
    BY <2>1, <2>2 DEF OnePerPair
<1>6. CASE UNCHANGED vars
  BY <1>6 DEF vars, OnePerPair
<1> QED
  BY <1>1, <1>2, <1>3, <1>4, <1>5, <1>6, StepKinds, Zenon DEF Quiet

(* The registry stays in type and holds one entry to a pair.               *)
THEOREM OneEntry == Spec => [](TypeOK /\ OnePerPair)
<1>1. Init => TypeOK /\ OnePerPair
  <2> SUFFICES ASSUME Init PROVE TypeOK /\ OnePerPair
    OBVIOUS
  <2>1. back \in 0..MaxBack /\ pushed \in 0..MaxApprovals /\ since \in [Pair -> 0..TTL]
    BY DrainAuthAssumption DEF Init
  <2> QED
    BY <2>1 DEF Init, TypeOK, OnePerPair
<1> QED
  BY <1>1, TypeStep, OnePerPairStep, PTL DEF Spec

-------------------------------------------------------------------------------
(* Among numbered entries there is an oldest one.                          *)
LEMMA OldestExists ==
  ASSUME NEW S, S \subseteq Entry, S # {}
  PROVE  Oldest(S) # {}
<1> DEFINE N == {e.n : e \in S}
           R == OpToRel(<, Nat)
<1>1. N \subseteq Nat /\ N # {}
  BY DEF Entry
<1>2. IsWellFoundedOn(R, Nat)
  BY NatLessThanWellFounded, Zenon
<1>3. \A k, m \in Nat : <<k, m>> \in R <=> k < m
  BY DEF OpToRel
<1> HIDE DEF N, R
<1>4. PICK m \in N : \A k \in N : ~(<<k, m>> \in R)
  BY <1>1, <1>2, WFMin, Zenon
<1>5. ASSUME NEW k \in N PROVE m <= k
  <2>1. k \in Nat /\ m \in Nat
    BY <1>1
  <2>2. ~(k < m)
    BY <1>3, <1>4, <2>1, Zenon
  <2> QED
    BY <2>1, <2>2
<1>6. PICK e \in S : e.n = m
  BY <1>4 DEF N
<1> QED
  BY <1>5, <1>6 DEF N, Oldest

(* What approve() leaves has room for one more entry.                      *)
LEMMA RoomForOne ==
  ASSUME TypeOK, IsFiniteSet(entries), WithinCapacity, NEW p
  PROVE  IsFiniteSet(Room(p)) /\ Cardinality(Room(p)) < MaxEntries
<1> USE DrainAuthAssumption
<1> DEFINE valid == {e \in entries : is_valid(e)}
<1>1. /\ IsFiniteSet(valid) /\ Cardinality(valid) \in Nat
      /\ Cardinality(entries) \in Nat /\ Cardinality(valid) <= Cardinality(entries)
  BY FS_Subset, FS_CardinalityType
<1>2. valid \subseteq Entry
  BY DEF TypeOK
<1>3. CASE Cardinality(valid) >= MaxEntries
  <2>1. Room(p) = {e \in valid \ Oldest(valid) : e.pair # p}
    BY <1>3 DEF Room
  <2>2. valid # {}
    BY <1>1, <1>3, FS_EmptySet
  <2> HIDE DEF valid
  <2>3. PICK o : o \in Oldest(valid)
    BY <1>2, <2>2, OldestExists
  <2>4. o \in valid
    BY <2>3 DEF Oldest
  <2>5. IsFiniteSet(valid \ {o}) /\ Cardinality(valid \ {o}) = Cardinality(valid) - 1
    BY <1>1, <2>4, FS_RemoveElement
  <2>6. Room(p) \in SUBSET (valid \ {o})
    BY <2>1, <2>3
  <2>7. /\ IsFiniteSet(Room(p)) /\ Cardinality(Room(p)) \in Nat
        /\ Cardinality(Room(p)) <= Cardinality(valid \ {o})
    BY <2>5, <2>6, FS_Subset, FS_CardinalityType
  <2> QED
    BY <1>1, <2>5, <2>7 DEF WithinCapacity
<1>4. CASE ~(Cardinality(valid) >= MaxEntries)
  <2>1. Room(p) \in SUBSET valid
    BY <1>4 DEF Room
  <2> HIDE DEF valid
  <2>2. /\ IsFiniteSet(Room(p)) /\ Cardinality(Room(p)) \in Nat
        /\ Cardinality(Room(p)) <= Cardinality(valid)
    BY <1>1, <2>1, FS_Subset, FS_CardinalityType
  <2> QED
    BY <1>1, <1>4, <2>2
<1> QED
  BY <1>3, <1>4

Bounded == IsFiniteSet(entries) /\ WithinCapacity

(* Neither ageing nor a clock change adds entries.                         *)
LEMMA AgedCardinality ==
  ASSUME IsFiniteSet(entries)
  PROVE  /\ IsFiniteSet({Aged(e) : e \in entries})
         /\ Cardinality({Aged(e) : e \in entries}) <= Cardinality(entries)
         /\ IsFiniteSet({SetBack(e) : e \in entries})
         /\ Cardinality({SetBack(e) : e \in entries}) <= Cardinality(entries)
<1> DEFINE A == {Aged(e) : e \in entries}
           B == {SetBack(e) : e \in entries}
           f == [e \in entries |-> Aged(e)]
           g == [e \in entries |-> SetBack(e)]
<1>1. f \in Surjection(entries, A) /\ g \in Surjection(entries, B)
  BY DEF Surjection
<1> HIDE DEF A, B, f, g
<1>2. IsFiniteSet(A) /\ Cardinality(A) <= Cardinality(entries)
  BY <1>1, FS_Surjection
<1>3. IsFiniteSet(B) /\ Cardinality(B) <= Cardinality(entries)
  BY <1>1, FS_Surjection
<1> QED
  BY <1>2, <1>3 DEF A, B

(* No method takes the registry past max_entries.                          *)
LEMMA BoundedStep ==
  TypeOK /\ OnePerPair /\ Bounded /\ [Next]_vars => Bounded'
<1> SUFFICES ASSUME TypeOK, OnePerPair, Bounded, [Next]_vars PROVE Bounded'
  OBVIOUS
<1> USE DrainAuthAssumption DEF Bounded, WithinCapacity
<1>0. Cardinality(entries) \in Nat
  BY FS_CardinalityType
<1>1. ASSUME NEW p \in Pair, NEW d \in GateDecision, approve(p, d) PROVE Bounded'
  <2>1. entries' = Room(p) \cup {NewEntry(p, d)}
    BY <1>1, ApproveAdds
  <2>2. /\ IsFiniteSet(Room(p)) /\ Cardinality(Room(p)) < MaxEntries
        /\ Cardinality(Room(p)) \in Nat
    BY RoomForOne, FS_CardinalityType
  <2>3. /\ IsFiniteSet(entries')
        /\ Cardinality(entries') = IF NewEntry(p, d) \in Room(p)
                                     THEN Cardinality(Room(p)) ELSE Cardinality(Room(p)) + 1
    BY <2>1, <2>2, FS_AddElement, Zenon
  <2> QED
    BY <2>2, <2>3
<1>2. ASSUME NEW p \in Pair, consume(p) PROVE Bounded'
  <2>1. PICK e \in entries : entries' = (entries \ {e}) \cup {Spend(e)}
    BY <1>2, ConsumeMarksOne
  <2> DEFINE rest == entries \ {e}
  <2>2. IsFiniteSet(rest) /\ Cardinality(rest) = Cardinality(entries) - 1
    BY FS_RemoveElement
  <2>3. entries' = rest \cup {Spend(e)}
    BY <2>1
  <2> HIDE DEF rest
  <2>4. /\ IsFiniteSet(entries')
        /\ Cardinality(entries') = IF Spend(e) \in rest
                                     THEN Cardinality(rest) ELSE Cardinality(rest) + 1
    BY <2>2, <2>3, FS_AddElement, Zenon
  <2> QED
    BY <1>0, <2>2, <2>4
<1>3. CASE purge
  <2>1. entries' \in SUBSET entries
    BY <1>3 DEF purge
  <2>2. /\ IsFiniteSet(entries') /\ Cardinality(entries') \in Nat
        /\ Cardinality(entries') <= Cardinality(entries)
    BY <2>1, FS_Subset, FS_CardinalityType
  <2> QED
    BY <1>0, <2>2
<1>4. CASE Tick \/ ClockSetBack
  <2>1. entries' = {Aged(e) : e \in entries} \/ entries' = {SetBack(e) : e \in entries}
    BY <1>4 DEF Tick, ClockSetBack, Aged, SetBack
  <2>2. IsFiniteSet(entries') /\ Cardinality(entries') <= Cardinality(entries)
    BY <2>1, AgedCardinality, Zenon
  <2>3. Cardinality(entries') \in Nat
    BY <2>2, FS_CardinalityType
  <2> QED
    BY <1>0, <2>2, <2>3
<1>5. CASE UNCHANGED vars
  BY <1>5 DEF vars
<1> QED
  BY <1>1, <1>2, <1>3, <1>4, <1>5, StepKinds, Zenon DEF Quiet

(* The registry never outgrows max_entries.                                *)
THEOREM CapacityHolds == Spec => []WithinCapacity
<1>1. Init => Bounded
  BY FS_EmptySet, DrainAuthAssumption DEF Init, Bounded, WithinCapacity
<1>2. Bounded => WithinCapacity
  BY DEF Bounded
<1> QED
  BY <1>1, <1>2, OneEntry, BoundedStep, PTL DEF Spec

-------------------------------------------------------------------------------
(* The other steps add no entry and change nothing of one but its age.     *)
LEMMA QuietKeeps ==
  ASSUME TypeOK, Quiet
  PROVE  /\ \A e \in entries' : \E f \in entries :
              e.pair = f.pair /\ e.decision = f.decision /\ e.consumed = f.consumed
         /\ UNCHANGED <<approvals, acts, last>>
<1>1. CASE purge \/ UNCHANGED vars
  BY <1>1 DEF purge, vars, history
<1>2. CASE Tick
  BY <1>2 DEF Tick, TypeOK, Entry
<1>3. CASE ClockSetBack
  BY <1>3 DEF ClockSetBack, history, TypeOK, Entry
<1> QED
  BY <1>1, <1>2, <1>3 DEF Quiet

(* An entry records the last event of its pair, and a live one has not yet *)
(* paid for an action.                                                     *)
LedgerInv ==
  /\ \A p \in Pair : acts[p] <= approvals[p]
  /\ \A e \in entries :
       /\ last[e.pair] = IF e.consumed THEN "spent" ELSE e.decision
       /\ e.decision # "block" /\ ~e.consumed => acts[e.pair] < approvals[e.pair]

(* A step keeps that ledger.                                               *)
LEMMA LedgerStep == TypeOK /\ OnePerPair /\ LedgerInv /\ [Next]_vars => LedgerInv'
<1> SUFFICES ASSUME TypeOK, OnePerPair, LedgerInv, [Next]_vars PROVE LedgerInv'
  OBVIOUS
<1>0. entries \subseteq Entry /\ approvals \in [Pair -> Nat] /\ acts \in [Pair -> Nat]
  BY DEF TypeOK
<1>1. ASSUME NEW p \in Pair, NEW d \in GateDecision, approve(p, d) PROVE LedgerInv'
  <2>1. /\ UNCHANGED acts
        /\ approvals'[p] = IF d = "block" THEN approvals[p] ELSE approvals[p] + 1
        /\ \A q \in Pair : q # p => approvals'[q] = approvals[q]
    BY <1>0, <1>1 DEF approve
  <2>2. last'[p] = d /\ \A q \in Pair : q # p => last'[q] = last[q]
    BY <1>1 DEF approve, TypeOK
  <2>3. \A q \in Pair : acts'[q] <= approvals'[q]
    BY <1>0, <2>1 DEF LedgerInv
  <2>4. ASSUME NEW e \in entries'
        PROVE  /\ last'[e.pair] = IF e.consumed THEN "spent" ELSE e.decision
               /\ e.decision # "block" /\ ~e.consumed => acts'[e.pair] < approvals'[e.pair]
    <3>1. CASE e \in Room(p)
      <4>1. e \in entries /\ e.pair # p /\ e.pair \in Pair
        BY <1>0, <1>1, <3>1, ApproveAdds DEF Entry
      <4> QED
        BY <2>1, <2>2, <4>1 DEF LedgerInv
    <3>2. CASE e = NewEntry(p, d)
      <4>1. e.pair = p /\ e.decision = d /\ e.consumed = FALSE
        BY <3>2 DEF NewEntry
      <4>2. acts[p] <= approvals[p] /\ acts[p] \in Nat /\ approvals[p] \in Nat
        BY <1>0 DEF LedgerInv
      <4>3. d # "block" => acts'[p] < approvals'[p]
        BY <2>1, <4>2
      <4> QED
        BY <2>2, <4>1, <4>3
    <3> QED
      BY <1>1, <3>1, <3>2, ApproveAdds
  <2> QED
    BY <2>3, <2>4 DEF LedgerInv
<1>2. ASSUME NEW p \in Pair, consume(p) PROVE LedgerInv'
  <2>1. PICK x \in entries : /\ x.pair = p /\ Live(x)
                             /\ entries' = (entries \ {x}) \cup {Spend(x)}
    BY <1>2, ConsumeMarksOne
  <2>2. /\ UNCHANGED approvals /\ acts'[p] = acts[p] + 1
        /\ \A q \in Pair : q # p => acts'[q] = acts[q]
    BY <1>0, <1>2 DEF consume
  <2>3. last'[p] = "spent" /\ \A q \in Pair : q # p => last'[q] = last[q]
    BY <1>2 DEF consume, TypeOK
  <2>4. acts[p] < approvals[p]
    BY <2>1 DEF LedgerInv, Live
  <2>5. \A q \in Pair : acts'[q] <= approvals'[q]
    BY <1>0, <2>2, <2>4 DEF LedgerInv
  <2>6. Spend(x).pair = p /\ Spend(x).consumed = TRUE
    BY <1>0, <2>1 DEF Spend, Entry
  <2>7. ASSUME NEW e \in entries'
        PROVE  /\ last'[e.pair] = IF e.consumed THEN "spent" ELSE e.decision
               /\ e.decision # "block" /\ ~e.consumed => acts'[e.pair] < approvals'[e.pair]
    <3>1. CASE e = Spend(x)
      BY <2>3, <2>6, <3>1
    <3>2. CASE e \in entries \ {x}
      <4>1. e.pair # p /\ e.pair \in Pair
        BY <1>0, <2>1, <3>2 DEF OnePerPair, Entry
      <4> QED
        BY <2>2, <2>3, <3>2, <4>1 DEF LedgerInv
    <3> QED
      BY <2>1, <3>1, <3>2
  <2> QED
    BY <2>5, <2>7 DEF LedgerInv
<1>3. CASE Quiet
  BY <1>3, QuietKeeps DEF LedgerInv
<1> QED
  BY <1>1, <1>2, <1>3, StepKinds

(* The ledger holds in every state.                                        *)
LEMMA LedgerHolds == Spec => []LedgerInv
<1>1. Init => LedgerInv
  BY DEF Init, LedgerInv
<1> QED
  BY <1>1, OneEntry, LedgerStep, PTL DEF Spec

(* One approval pays for at most one action.                               *)
THEOREM ApprovalsAreSpentOnce == Spec => []OneActionPerApproval
<1>1. LedgerInv => OneActionPerApproval
  BY DEF LedgerInv, OneActionPerApproval
<1> QED
  BY <1>1, LedgerHolds, PTL

(* An action follows an approval of its pair that nothing has revoked.     *)
THEOREM ActionsAreAuthorised == Spec => ActsAreAuthorised
<1> DEFINE A == \A p \in Pair : acts'[p] # acts[p] => last[p] \in {"allow", "review"}
<1>1. TypeOK /\ OnePerPair /\ LedgerInv /\ [Next]_vars => [A]_vars
  <2> SUFFICES ASSUME TypeOK, OnePerPair, LedgerInv, [Next]_vars,
                      NEW p \in Pair, acts'[p] # acts[p]
               PROVE  last[p] \in {"allow", "review"}
    OBVIOUS
  <2>1. ASSUME NEW q \in Pair, NEW d \in GateDecision, approve(q, d) PROVE FALSE
    BY <2>1 DEF approve
  <2>2. ASSUME NEW q \in Pair, consume(q) PROVE last[p] \in {"allow", "review"}
    <3>1. p = q
      BY <2>2 DEF consume, TypeOK
    <3>2. PICK e \in entries : e.pair = p /\ Live(e)
      BY <2>2, <3>1, ConsumeMarksOne
    <3> QED
      BY <3>2 DEF LedgerInv, Live, TypeOK, Entry, GateDecision
  <2>3. CASE Quiet
    BY <2>3, QuietKeeps
  <2> QED
    BY <2>1, <2>2, <2>3, StepKinds
<1> QED
  BY <1>1, OneEntry, LedgerHolds, PTL DEF Spec, ActsAreAuthorised

-------------------------------------------------------------------------------
Capped(age) == IF age < TTL THEN age ELSE TTL

(* Entries are numbered in order; while the wall clock is not set back, an *)
(* entry is as old as its pair's last approval and the lowest is oldest.   *)
AgesRight ==
  \A e \in entries :
    /\ e.age >= 0 /\ since[e.pair] = Capped(e.age)
    /\ \A f \in entries : e.n <= f.n => f.age <= e.age

TimeInv == (\A e \in entries : e.n <= pushed) /\ (back = 0 => AgesRight)

(* A step keeps the ages right.                                            *)
LEMMA TimeStep == TypeOK /\ OnePerPair /\ TimeInv /\ [Next]_vars => TimeInv'
<1> SUFFICES ASSUME TypeOK, OnePerPair, TimeInv, [Next]_vars PROVE TimeInv'
  OBVIOUS
<1> USE DrainAuthAssumption
<1>0. /\ entries \subseteq Entry /\ pushed \in Nat
      /\ since \in [Pair -> 0..TTL] /\ back \in Nat
  BY DEF TypeOK
<1>1. ASSUME NEW p \in Pair, NEW d \in GateDecision, approve(p, d) PROVE TimeInv'
  <2>1. pushed' = pushed + 1 /\ since'[p] = 0 /\ back' = back
        /\ \A q \in Pair : q # p => since'[q] = since[q]
    BY <1>0, <1>1 DEF approve
  <2> DEFINE new == NewEntry(p, d)
  <2>2. new.n = pushed + 1 /\ new.pair = p /\ new.age = 0
    BY DEF NewEntry
  <2> HIDE DEF new
  <2>3. entries' = Room(p) \cup {new}
    BY <1>1, ApproveAdds DEF new
  <2>4. \A e \in Room(p) : /\ e \in entries /\ e.pair # p /\ e.pair \in Pair
                           /\ e.n \in Nat /\ e.n <= pushed /\ e.age \in Int
    BY <1>0, <1>1, ApproveAdds DEF TimeInv, Entry
  <2>5. \A e \in entries' : e.n <= pushed'
    BY <1>0, <2>1, <2>2, <2>3, <2>4
  <2>6. ASSUME back = 0 PROVE AgesRight'
    <3>1. \A e \in Room(p) : e.age >= 0 /\ since[e.pair] = Capped(e.age)
      BY <2>4, <2>6 DEF TimeInv, AgesRight
    <3>2. \A e \in entries' : e.age >= 0 /\ since'[e.pair] = Capped(e.age)
      BY <2>1, <2>2, <2>3, <2>4, <3>1 DEF Capped
    <3>3. ASSUME NEW e \in entries', NEW f \in entries', e.n <= f.n PROVE f.age <= e.age
      <4>1. CASE f = new
        BY <2>2, <3>2, <4>1, <2>3, <2>4
      <4>2. CASE e = new /\ f \in Room(p)
        BY <1>0, <2>2, <2>4, <3>3, <4>2
      <4>3. CASE e \in Room(p) /\ f \in Room(p)
        BY <2>4, <2>6, <3>3, <4>3 DEF TimeInv, AgesRight
      <4> QED
        BY <2>3, <4>1, <4>2, <4>3
    <3> QED
      BY <3>2, <3>3 DEF AgesRight, Capped
  <2> QED
    BY <2>1, <2>5, <2>6 DEF TimeInv
<1>2. ASSUME NEW p \in Pair, consume(p) PROVE TimeInv'
  <2>1. PICK x \in entries : entries' = (entries \ {x}) \cup {Spend(x)}
    BY <1>2, ConsumeMarksOne
  <2>2. Spend(x).n = x.n /\ Spend(x).pair = x.pair /\ Spend(x).age = x.age
    BY <1>0 DEF Spend, Entry
  <2>3. UNCHANGED <<pushed, since, back>>
    BY <1>2 DEF consume
  <2>4. \A e \in entries' : \E f \in entries : e.n = f.n /\ e.pair = f.pair /\ e.age = f.age
    BY <2>1, <2>2
  <2> QED
    BY <2>3, <2>4 DEF TimeInv, AgesRight, Capped
<1>3. CASE purge \/ UNCHANGED vars
  BY <1>3 DEF purge, vars, history, TimeInv, AgesRight, Capped
<1>4. CASE Tick
  <2> DEFINE Older(a) == IF a < Horizon THEN a + 1 ELSE a
  <2>0. Horizon \in Nat /\ Horizon >= TTL
    BY DEF Horizon
  <2>1. UNCHANGED <<pushed, back>>
        /\ \A q \in Pair : since'[q] = IF since[q] < TTL THEN since[q] + 1 ELSE TTL
    BY <1>0, <1>4 DEF Tick
  <2>2. \A e \in entries : Aged(e).n = e.n /\ Aged(e).pair = e.pair
                           /\ Aged(e).age = Older(e.age)
    BY <1>0 DEF Aged, Entry
  <2>3. entries' = {Aged(e) : e \in entries}
    BY <1>4 DEF Tick, Aged
  <2>4. \A e \in entries : e.pair \in Pair /\ e.age \in Int /\ e.n \in Nat
    BY <1>0 DEF Entry
  <2>5. \A a, b \in Int : a <= b => Older(a) <= Older(b)
    BY <2>0
  <2>6. \A a \in Int : a >= 0 => /\ Older(a) >= 0
                                 /\ Capped(Older(a)) = IF Capped(a) < TTL
                                                         THEN Capped(a) + 1 ELSE TTL
    BY <2>0 DEF Capped
  <2> HIDE DEF Older
  <2>7. \A e \in entries' : e.n <= pushed'
    BY <2>1, <2>2, <2>3 DEF TimeInv
  <2>8. ASSUME back = 0 PROVE AgesRight'
    <3>1. ASSUME NEW e \in entries PROVE /\ Aged(e).age >= 0
                                         /\ since'[Aged(e).pair] = Capped(Aged(e).age)
      <4>1. e.age >= 0 /\ since[e.pair] = Capped(e.age)
        BY <2>8 DEF TimeInv, AgesRight
      <4> QED
        BY <2>1, <2>2, <2>4, <2>6, <4>1
    <3>2. ASSUME NEW e \in entries, NEW f \in entries, Aged(e).n <= Aged(f).n
          PROVE  Aged(f).age <= Aged(e).age
      <4>1. f.age <= e.age
        BY <2>2, <2>8, <3>2 DEF TimeInv, AgesRight
      <4> QED
        BY <2>2, <2>4, <2>5, <4>1
    <3> QED
      BY <2>3, <3>1, <3>2 DEF AgesRight, Capped
  <2> QED
    BY <2>1, <2>7, <2>8 DEF TimeInv
<1>5. CASE ClockSetBack
  <2>1. back' # 0 /\ UNCHANGED pushed
    BY <1>0, <1>5 DEF ClockSetBack, history
  <2>2. \A e \in entries' : \E f \in entries : e.n = f.n
    BY <1>0, <1>5 DEF ClockSetBack, Entry
  <2> QED
    BY <2>1, <2>2 DEF TimeInv
<1> QED
  BY <1>1, <1>2, <1>3, <1>4, <1>5, StepKinds DEF Quiet

(* Ages stay right.                                                        *)
LEMMA TimeHolds == Spec => []TimeInv
<1>1. Init => TimeInv
  BY DEF Init, TimeInv, AgesRight
<1> QED
  BY <1>1, TimeStep, OneEntry, PTL DEF Spec

(* An action comes within the TTL of its approval, unless the wall clock   *)
(* was set back.                                                           *)
THEOREM ActionsAreInTime == Spec => ActsInTime
<1> DEFINE A == back = 0 => \A p \in Pair : acts'[p] # acts[p] => since[p] < TTL
<1>1. TypeOK /\ OnePerPair /\ TimeInv /\ [Next]_vars => [A]_vars
  <2> SUFFICES ASSUME TypeOK, OnePerPair, TimeInv, [Next]_vars, back = 0,
                      NEW p \in Pair, acts'[p] # acts[p]
               PROVE  since[p] < TTL
    OBVIOUS
  <2>1. ASSUME NEW q \in Pair, NEW d \in GateDecision, approve(q, d) PROVE FALSE
    BY <2>1 DEF approve
  <2>2. ASSUME NEW q \in Pair, consume(q) PROVE since[p] < TTL
    <3>1. p = q
      BY <2>2 DEF consume, TypeOK
    <3>2. PICK e \in entries : e.pair = p /\ Live(e)
      BY <2>2, <3>1, ConsumeMarksOne
    <3> QED
      BY <3>2 DEF TimeInv, AgesRight, Capped, Live, is_valid
  <2>3. CASE Quiet
    BY <2>3, QuietKeeps
  <2> QED
    BY <2>1, <2>2, <2>3, StepKinds
<1> QED
  BY <1>1, OneEntry, TimeHolds, PTL DEF Spec, ActsInTime

(* A live approval gives way only to a newer one of its pair, or, in a     *)
(* full registry, as the oldest one.                                       *)
THEOREM LiveApprovalsSurvive == Spec => LiveApprovalsKept
<1> DEFINE valid == {f \in entries : is_valid(f)}
           Kept(e) == \/ \E f \in entries' : f.n = e.n \/ (f.n > e.n /\ f.pair = e.pair)
                      \/ /\ Cardinality({f \in entries : is_valid(f)}) = MaxEntries
                         /\ \A f \in entries : is_valid(f) => f.age <= e.age \/ back > 0
           A == \A e \in entries : (is_valid(e) /\ ~e.consumed /\ pushed' > pushed) => Kept(e)
<1>1. TypeOK /\ OnePerPair /\ Bounded /\ TimeInv /\ [Next]_vars => [A]_vars
  <2> SUFFICES ASSUME TypeOK, OnePerPair, Bounded, TimeInv, [Next]_vars,
                      NEW e \in entries, is_valid(e), pushed' > pushed
               PROVE  Kept(e)
    OBVIOUS
  <2>1. ASSUME NEW p \in Pair, NEW d \in GateDecision, approve(p, d) PROVE Kept(e)
    <3>1. entries' = Room(p) \cup {NewEntry(p, d)}
      BY <2>1, ApproveAdds
    <3>2. CASE e.pair = p
      <4>1. NewEntry(p, d).n > e.n /\ NewEntry(p, d).pair = e.pair
        BY <3>2 DEF NewEntry, TimeInv, TypeOK, Entry
      <4> QED
        BY <3>1, <4>1
    <3>3. CASE e \in Room(p)
      BY <3>1, <3>3
    <3>4. CASE e.pair # p /\ e \notin Room(p)
      <4>1. Cardinality(valid) >= MaxEntries /\ e \in Oldest(valid)
        BY <3>4 DEF Room
      <4>2. /\ Cardinality(valid) \in Nat /\ Cardinality(entries) \in Nat
            /\ Cardinality(valid) <= Cardinality(entries)
        BY FS_Subset, FS_CardinalityType DEF Bounded
      <4>3. Cardinality(valid) = MaxEntries
        BY <4>1, <4>2, DrainAuthAssumption DEF Bounded, WithinCapacity
      <4>4. \A f \in entries : is_valid(f) => f.age <= e.age \/ back > 0
        <5>1. CASE back = 0
          BY <4>1, <5>1 DEF Oldest, TimeInv, AgesRight
        <5>2. CASE back # 0
          BY <5>2 DEF TypeOK
        <5> QED
          BY <5>1, <5>2
      <4> QED
        BY <4>3, <4>4
    <3> QED
      BY <3>2, <3>3, <3>4
  <2>2. ASSUME NEW p \in Pair, consume(p) PROVE FALSE
    BY <2>2 DEF consume, TypeOK
  <2>3. CASE Quiet
    BY <2>3 DEF Quiet, purge, Tick, ClockSetBack, history, vars, TypeOK
  <2> QED
    BY <2>1, <2>2, <2>3, StepKinds
<1>2. Init => Bounded
  BY FS_EmptySet, DrainAuthAssumption DEF Init, Bounded, WithinCapacity
<1> QED
  BY <1>1, <1>2, BoundedStep, OneEntry, TimeHolds, PTL DEF Spec, LiveApprovalsKept

-------------------------------------------------------------------------------
Unspent == {p \in Pair : \E e \in entries : e.pair = p /\ Open(e)}

(* The registry implements ApprovalGate whatever the clock does: approve() *)
(* grants (a block withdraws), consume() acts, and the passage of time and *)
(* purge() only let approvals lapse.                                       *)
THEOREM Refinement == Spec => ImplementsApprovalGate
<1>1. Init => Gate!Init
  BY DEF Init, Gate!Init
<1>2. ASSUME TypeOK, OnePerPair, [Next]_vars
      PROVE  [Gate!Next]_(Gate!vars)
  <2> DEFINE U == {p \in Pair : \E e \in entries : e.pair = p /\ Open(e)}
  <2>1. U = Unspent /\ U' = Unspent'
    BY DEF Unspent
  <2>2. ASSUME NEW p \in Pair, NEW d \in GateDecision, approve(p, d)
        PROVE  Gate!Lapse \/ Gate!Grant(p)
    <3>1. Unspent' \subseteq IF d = "block" THEN Unspent ELSE Unspent \cup {p}
      <4> SUFFICES ASSUME NEW q \in Unspent', q # p \/ d = "block" PROVE q \in Unspent
        OBVIOUS
      <4>1. PICK e \in entries' : q \in Pair /\ e.pair = q /\ Open(e)
        BY DEF Unspent, Open
      <4>2. e # NewEntry(p, d)
        BY <4>1 DEF NewEntry, Open
      <4>3. e \in entries
        BY <2>2, <4>2, ApproveAdds
      <4> QED
        BY <4>1, <4>3 DEF Unspent
    <3>2. CASE d = "block"
      <4>1. Unspent' \subseteq Unspent /\ UNCHANGED <<approvals, acts>>
        BY <2>2, <3>1, <3>2 DEF approve
      <4> QED
        BY <2>1, <4>1 DEF Gate!Lapse
    <3>3. CASE d # "block"
      <4>1. /\ Unspent' \subseteq Unspent \cup {p} /\ UNCHANGED acts
            /\ approvals' = [approvals EXCEPT ![p] = @ + 1]
        BY <2>2, <3>1, <3>3 DEF approve
      <4> QED
        BY <2>1, <4>1 DEF Gate!Grant
    <3> QED
      BY <3>2, <3>3
  <2>3. ASSUME NEW p \in Pair, consume(p) PROVE Gate!Act(p)
    <3>1. PICK x \in entries : /\ x.pair = p /\ Live(x)
                               /\ entries' = (entries \ {x}) \cup {Spend(x)}
      BY <1>2, <2>3, ConsumeMarksOne
    <3>2. Spend(x).consumed = TRUE /\ Open(x)
      BY <1>2, <3>1 DEF Spend, TypeOK, Entry, Live, Open
    <3>3. \A e \in entries : e.pair = p => e = x
      BY <1>2, <3>1 DEF OnePerPair
    <3>4. p \in Unspent
      BY <3>1, <3>2 DEF Unspent
    <3>5. Unspent' = Unspent \ {p}
      <4>1. Unspent' = {q \in Pair : \E e \in entries' : e.pair = q /\ Open(e)}
        BY DEF Unspent, Open
      <4>2. \A e : e \in entries' /\ Open(e) <=> e \in entries /\ Open(e) /\ e # x
        BY <3>1, <3>2 DEF Open
      <4> QED
        BY <3>1, <3>3, <4>1, <4>2 DEF Unspent
    <3>6. acts' = [acts EXCEPT ![p] = @ + 1] /\ UNCHANGED approvals
      BY <2>3 DEF consume
    <3> QED
      BY <2>1, <3>4, <3>5, <3>6 DEF Gate!Act
  <2>4. CASE Quiet
    <3>1. /\ \A e \in entries' : \E f \in entries :
               e.pair = f.pair /\ e.decision = f.decision /\ e.consumed = f.consumed
          /\ UNCHANGED <<approvals, acts>>
      BY <1>2, <2>4, QuietKeeps
    <3>2. Unspent' \subseteq Unspent
      BY <3>1 DEF Unspent, Open
    <3> QED
      BY <2>1, <3>1, <3>2 DEF Gate!Lapse, Gate!Next
  <2> QED
    BY <1>2, <2>2, <2>3, <2>4, StepKinds DEF Gate!Next
<1>3. TypeOK /\ OnePerPair /\ [Next]_vars => [Gate!Next]_(Gate!vars)
  BY <1>2
<1> QED
  BY <1>1, <1>3, OneEntry, PTL DEF Spec, ImplementsApprovalGate, Gate!Spec
===============================================================================
