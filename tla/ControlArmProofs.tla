---------------------------- MODULE ControlArmProofs --------------------------
(***************************************************************************)
(* Proofs about the control arm of src/mcp.rs, for any number of tool      *)
(* calls in flight, any proposals, workers and budget.                     *)
(***************************************************************************)
EXTENDS ControlArm, FiniteSetTheorems, TLAPS

PCs == {"idle", "snapshot", "book", "spend", "validate", "signal"}
Reqs == [pair : RunPair \cup {<<>>}, kind : Kinds \cup {"none"}, already : BOOLEAN]

(* A call that is under way names a proposal and a worker.                 *)
CallsTyped ==
  /\ pc \in [Caller -> PCs] /\ req \in [Caller -> Reqs] /\ draining \in BOOLEAN
  /\ \A c \in Caller : pc[c] # "idle" => req[c].pair \in RunPair

(* The counters and Notify permits of the workers.                         *)
PaymentsTyped ==
  /\ spent \in [RunPair -> Nat]
  /\ permit \in [RunWorker -> BOOLEAN]
  /\ served \in [RunWorker -> Nat] /\ drained \in [RunWorker -> Nat]

(* Every tool call keeps its place and its arguments in type.              *)
LEMMA CallsStep ==
  ASSUME CallsTyped, [ArmNext]_armvars PROVE CallsTyped'
<1> USE DEF CallsTyped, PCs
<1>0. NoReq \in Reqs
  BY DEF NoReq, Reqs
<1>r. ASSUME NEW c \in Caller, Reply(c), draining' \in BOOLEAN
      PROVE CallsTyped'
  BY <1>0, <1>r DEF Reply, Goto
<1>g. ASSUME NEW c \in Caller, NEW l \in PCs, Goto(c, l), UNCHANGED <<req, draining>>,
             pc[c] # "idle"
      PROVE CallsTyped'
  BY <1>g DEF Goto
<1>1. ASSUME NEW c \in Caller, CallStep(c) PROVE CallsTyped'
  <2>1. CASE TakeSnapshot(c)
    BY <1>g, <2>1 DEF TakeSnapshot, run
  <2>2. CASE accept_restart(c)
    BY <1>g, <1>r, <2>2, Zenon DEF accept_restart, run
  <2>3. CASE SpendAndSignal(c)
    BY <1>r, <2>3 DEF SpendAndSignal, run
  <2>4. CASE DrainValidate(c)
    BY <1>g, <1>r, <2>4 DEF DrainValidate, run
  <2>5. CASE DrainSignal(c)
    BY <1>r, <2>5 DEF DrainSignal
  <2> QED  BY <1>1, <2>1, <2>2, <2>3, <2>4, <2>5 DEF CallStep
<1>2. ASSUME NEW c \in Caller, NEW p \in RunProposal, NEW w \in RunWorker,
             NEW r \in Reqs, NEW l \in PCs, r.pair = <<p, w>>,
             req' = [req EXCEPT ![c] = r], Goto(c, l), UNCHANGED draining
      PROVE CallsTyped'
  BY <1>2 DEF Goto, RunPair
<1>3. ASSUME NEW c \in Caller, NEW p \in RunProposal, NEW w \in RunWorker, RestartCheck(c, p, w)
      PROVE CallsTyped'
  <2> DEFINE r == [NoReq EXCEPT !.pair = <<p, w>>]
  <2>1. r \in Reqs /\ r.pair = <<p, w>>
    BY Zenon DEF NoReq, Reqs, RunPair
  <2>2. req' = [req EXCEPT ![c] = r] /\ Goto(c, "snapshot") /\ UNCHANGED draining
    BY <1>3 DEF RestartCheck, run
  <2> HIDE DEF r
  <2> QED  BY <1>2, <2>1, <2>2, Zenon
<1>4. ASSUME NEW c \in Caller, NEW p \in RunProposal, NEW w \in RunWorker, NEW k \in Kinds,
             DrainCheck(c, p, w, k)
      PROVE CallsTyped'
  <2> DEFINE r == [pair |-> <<p, w>>, kind |-> k, already |-> draining]
  <2>1. r \in Reqs /\ r.pair = <<p, w>>
    BY <1>4 DEF Reqs, RunPair
  <2>2. req' = [req EXCEPT ![c] = r] /\ Goto(c, IF draining THEN "signal" ELSE "validate")
        /\ UNCHANGED draining
    BY <1>4 DEF DrainCheck, run
  <2> HIDE DEF r
  <2> QED  BY <1>2, <2>1, <2>2, Zenon
<1>5. ASSUME UNCHANGED <<pc, req>>, draining' \in BOOLEAN PROVE CallsTyped'
  BY <1>5
<1>6. ASSUME NEW w \in RunWorker, WorkerStep(w) PROVE UNCHANGED <<pc, req, draining>>
  BY <1>6 DEF WorkerStep, Register, SpawnOk, SpawnFailed, ChildExited, Fail, ServeRestart,
              SeeDrain, Finish, WorkerFrame, calls, run
<1>7. CASE RunOver \/ SuperviseTimeout \/ StopAll \/ MarkFinished \/ Approve \/ BookTick
  BY <1>5, <1>7, Zenon DEF RunOver, SuperviseTimeout, StopAll, MarkFinished, Approve, BookTick, calls, run
<1>8. CASE UNCHANGED armvars
  BY <1>5, <1>8 DEF armvars, calls, run
<1> QED  BY <1>1, <1>3, <1>4, <1>5, <1>6, <1>7, <1>8 DEF ArmNext

-------------------------------------------------------------------------------
(***************************************************************************)
(* Every operator action is paid for.                                      *)
(***************************************************************************)

(* Drains whose approval is spent and that are not begun yet.              *)
Begun(w) == {c \in Caller : pc[c] = "signal" /\ ~req[c].already /\ req[c].pair[2] = w}

Permits(w) == IF permit[w] THEN 1 ELSE 0

(* What a worker was granted and has not been acted on counts already.     *)
Paid ==
  \A w \in RunWorker :
    /\ IsFiniteSet(Begun(w)) /\ IsFiniteSet(Spendings(spent, w))
    /\ served[w] + drained[w] + Permits(w) + Cardinality(Begun(w)) <= Cardinality(Spendings(spent, w))

IsSpending(f, w, x) == \E p \in RunProposal : \E i \in 1 .. f[<<p, w>>] : x = <<p, i>>

(* The members of Spendings.                                               *)
LEMMA SpendingsAre ==
  \A f, w, x : x \in Spendings(f, w) <=> IsSpending(f, w, x)
<1> SUFFICES ASSUME NEW f, NEW w, NEW x PROVE  x \in Spendings(f, w) <=> IsSpending(f, w, x)
  OBVIOUS
<1>1. ASSUME NEW p \in RunProposal, NEW i \in 1 .. f[<<p, w>>]
      PROVE <<p, i>> \in Spendings(f, w)
  BY DEF Spendings
<1>2. ASSUME x \in Spendings(f, w)
      PROVE IsSpending(f, w, x)
  <2>1. PICK p \in RunProposal : x \in {p} \X (1 .. f[<<p, w>>])
    BY <1>2, Zenon DEF Spendings
  <2> QED  BY <2>1 DEF IsSpending
<1> QED  BY <1>1, <1>2, Zenon DEF IsSpending

(* An approval that is spent is one more of its worker and of no other.    *)
LEMMA ActSpends ==
  ASSUME spent \in [RunPair -> Nat], NEW q \in RunPair, Approvals!Act(q),
         NEW w \in RunWorker, IsFiniteSet(Spendings(spent, w))
  PROVE  /\ spent' \in [RunPair -> Nat] /\ IsFiniteSet(Spendings(spent', w))
         /\ q[2] = w => Cardinality(Spendings(spent', w)) = Cardinality(Spendings(spent, w)) + 1
         /\ q[2] # w => Spendings(spent', w) = Spendings(spent, w)
<1>1. spent' = [spent EXCEPT ![q] = @ + 1]
  BY DEF Approvals!Act
<1>2. spent' \in [RunPair -> Nat]
  BY <1>1
<1>3. PICK p \in RunProposal, v \in RunWorker : q = <<p, v>>
  BY DEF RunPair
<1>4. \A r \in RunProposal : <<r, w>> \in RunPair
  BY DEF RunPair
<1>5. CASE v = w
  <2> DEFINE n == spent[q] + 1
  <2>1. n \in Nat /\ spent[q] \in Nat
    OBVIOUS
  <2>2. \A r \in RunProposal : spent'[<<r, w>>] = IF r = p THEN n ELSE spent[<<r, w>>]
    BY <1>1, <1>3, <1>4, <1>5
  <2>3. spent[<<p, w>>] = spent[q]
    BY <1>3, <1>5
  <2>4. 1 .. n = (1 .. spent[q]) \cup {n} /\ n \notin 1 .. spent[q]
    BY <2>1
  <2> HIDE DEF n
  <2>5. \A x : x \in Spendings(spent', w) <=> x \in Spendings(spent, w) \cup {<<p, n>>}
    <3>1. ASSUME NEW x \in Spendings(spent, w) PROVE x \in Spendings(spent', w)
      <4>0. IsSpending(spent, w, x)
        BY SpendingsAre
      <4>1. PICK r \in RunProposal : \E i \in 1 .. spent[<<r, w>>] : x = <<r, i>>
        BY <4>0 DEF IsSpending
      <4>2. PICK i \in 1 .. spent[<<r, w>>] : x = <<r, i>>
        BY <4>1
      <4>3. i \in 1 .. spent'[<<r, w>>]
        BY <2>2, <2>3, <2>4
      <4> QED  BY <4>2, <4>3, SpendingsAre DEF IsSpending
    <3>2. <<p, n>> \in Spendings(spent', w)
      BY <2>1, <2>2, <2>4, SpendingsAre DEF IsSpending
    <3>3. ASSUME NEW x \in Spendings(spent', w) PROVE x \in Spendings(spent, w) \cup {<<p, n>>}
      <4>0. IsSpending(spent', w, x)
        BY SpendingsAre
      <4>1. PICK r \in RunProposal : \E i \in 1 .. spent'[<<r, w>>] : x = <<r, i>>
        BY <4>0 DEF IsSpending
      <4>2. PICK i \in 1 .. spent'[<<r, w>>] : x = <<r, i>>
        BY <4>1
      <4>3. i \in 1 .. spent[<<r, w>>] \/ <<r, i>> = <<p, n>>
        BY <2>2, <2>3, <2>4
      <4> QED  BY <4>2, <4>3, SpendingsAre DEF IsSpending
    <3> QED  BY <3>1, <3>2, <3>3
  <2>6. <<p, n>> \notin Spendings(spent, w)
    <3>1. ASSUME <<p, n>> \in Spendings(spent, w) PROVE FALSE
      <4>0. IsSpending(spent, w, <<p, n>>)
        BY <3>1, SpendingsAre
      <4>1. PICK r \in RunProposal : \E i \in 1 .. spent[<<r, w>>] : <<p, n>> = <<r, i>>
        BY <4>0 DEF IsSpending
      <4> QED  BY <2>3, <2>4, <4>1
    <3> QED  BY <3>1
  <2>7. Spendings(spent', w) = Spendings(spent, w) \cup {<<p, n>>}
    BY <2>5
  <2> QED  BY <1>2, <1>3, <1>5, <2>6, <2>7, FS_AddElement, Zenon
<1>6. CASE v # w
  <2>1. \A r \in RunProposal : spent'[<<r, w>>] = spent[<<r, w>>]
    BY <1>1, <1>3, <1>4, <1>6
  <2>2. Spendings(spent', w) = Spendings(spent, w)
    <3>1. ASSUME NEW r \in RunProposal
          PROVE {r} \X (1 .. spent'[<<r, w>>]) = {r} \X (1 .. spent[<<r, w>>])
      BY <2>1
    <3> QED  BY <3>1, Zenon DEF Spendings
  <2> QED  BY <1>2, <1>3, <1>6, <2>2
<1> QED  BY <1>5, <1>6

(* A step of one call that neither enters nor leaves a paid drain.         *)
LEMMA BegunSame ==
  ASSUME NEW c \in Caller, NEW w,
         \A d \in Caller : d # c => pc'[d] = pc[d] /\ req'[d] = req[d],
         pc[c] # "signal" \/ req[c].already, pc'[c] # "signal" \/ req'[c].already
  PROVE  Begun(w)' = Begun(w)
<1>1. \A d \in Caller : d \in Begun(w)' <=> d \in Begun(w)
  BY DEF Begun
<1> QED  BY <1>1 DEF Begun

(* A step that spends nothing and acts on nothing keeps the balance.       *)
LEMMA PaidFrame ==
  ASSUME PaymentsTyped, Paid, UNCHANGED <<spent, permit, served, drained>>,
         \A w \in RunWorker : Begun(w)' = Begun(w)
  PROVE  PaymentsTyped' /\ Paid'
<1>1. PaymentsTyped'
  BY DEF PaymentsTyped
<1>2. \A w \in RunWorker : Permits(w)' = Permits(w)
  BY DEF Permits
<1>3. Paid'
  BY <1>2 DEF Paid
<1> QED  BY <1>1, <1>3

(* The calls keep the balance: a permit and a begun drain are paid first.  *)
LEMMA PaidCall ==
  ASSUME CallsTyped, PaymentsTyped, Paid, NEW c \in Caller, CallStep(c)
  PROVE  PaymentsTyped' /\ Paid'
<1>r. ASSUME Reply(c) PROVE /\ \A d \in Caller : d # c => pc'[d] = pc[d] /\ req'[d] = req[d]
                            /\ pc'[c] = "idle"
  BY <1>r DEF Reply, Goto, CallsTyped
<1>g. ASSUME NEW l, Goto(c, l), UNCHANGED req
      PROVE /\ \A d \in Caller : d # c => pc'[d] = pc[d] /\ req'[d] = req[d]
            /\ pc'[c] = l
  BY <1>g DEF Goto, CallsTyped
<1>1. CASE TakeSnapshot(c) \/ accept_restart(c)
  <2>1. UNCHANGED <<spent, permit, served, drained>>
    BY <1>1, Zenon DEF TakeSnapshot, accept_restart, gate, workers
  <2>2. pc[c] \in {"snapshot", "book"}
    BY <1>1, Zenon DEF TakeSnapshot, accept_restart
  <2>3. \/ Goto(c, "book") /\ UNCHANGED req
        \/ Goto(c, "spend") /\ UNCHANGED req
        \/ Reply(c)
    BY <1>1, Zenon DEF TakeSnapshot, accept_restart
  <2>4. /\ \A d \in Caller : d # c => pc'[d] = pc[d] /\ req'[d] = req[d]
        /\ pc'[c] \in {"book", "spend", "idle"}
    BY <2>3, <1>g, <1>r
  <2>5. \A w \in RunWorker : Begun(w)' = Begun(w)
    BY <2>2, <2>4, BegunSame
  <2> QED  BY <2>1, <2>5, PaidFrame
<1>2. CASE SpendAndSignal(c)
  <2> DEFINE q == req[c].pair
             v == q[2]
  <2>1. pc[c] = "spend" /\ q \in RunPair /\ v \in RunWorker
    BY <1>2 DEF SpendAndSignal, CallsTyped, RunPair
  <2>2. Reply(c) /\ UNCHANGED <<served, drained>>
    BY <1>2 DEF SpendAndSignal
  <2>3. \A w \in RunWorker : Begun(w)' = Begun(w)
    BY <2>1, <2>2, <1>r, BegunSame
  <2>4. CASE UNCHANGED <<gate, permit>>
    BY <2>2, <2>3, <2>4, PaidFrame DEF gate
  <2>5. CASE Approvals!Act(q) /\ permit' = [permit EXCEPT ![v] = TRUE]
    <3> HIDE DEF q, v
    <3>1. \A w \in RunWorker : /\ spent' \in [RunPair -> Nat] /\ IsFiniteSet(Spendings(spent', w))
                               /\ v = w => Cardinality(Spendings(spent', w)) = Cardinality(Spendings(spent, w)) + 1
                               /\ v # w => Spendings(spent', w) = Spendings(spent, w)
      BY <2>1, <2>5, ActSpends DEF PaymentsTyped, Paid, v
    <3>2. PaymentsTyped'
      BY <2>1, <2>2, <2>5, <3>1 DEF PaymentsTyped
    <3>3. ASSUME NEW w \in RunWorker
          PROVE  served'[w] + drained'[w] + Permits(w)' + Cardinality(Begun(w)')
                   <= Cardinality(Spendings(spent', w))
      <4>1. /\ served[w] \in Nat /\ drained[w] \in Nat /\ Permits(w) \in {0, 1}
            /\ Cardinality(Begun(w)) \in Nat /\ Cardinality(Spendings(spent, w)) \in Nat
        BY FS_CardinalityType DEF PaymentsTyped, Paid, Permits
      <4>2. Permits(w)' = IF w = v THEN 1 ELSE Permits(w)
        BY <2>1, <2>5 DEF PaymentsTyped, Permits
      <4>3. served[w] + drained[w] + Permits(w) + Cardinality(Begun(w)) <= Cardinality(Spendings(spent, w))
        BY DEF Paid
      <4>4. /\ served'[w] = served[w] /\ drained'[w] = drained[w]
            /\ Cardinality(Begun(w)') = Cardinality(Begun(w))
        BY <2>2, <2>3
      <4>5. Cardinality(Spendings(spent', w)) = IF w = v THEN Cardinality(Spendings(spent, w)) + 1
                                                ELSE Cardinality(Spendings(spent, w))
        BY <3>1
      <4> QED  BY <4>1, <4>2, <4>3, <4>4, <4>5
    <3> QED  BY <2>3, <3>1, <3>2, <3>3 DEF Paid
  <2> QED  BY <1>2, <2>4, <2>5 DEF SpendAndSignal
<1>3. CASE DrainValidate(c)
  <2> DEFINE q == req[c].pair
             v == q[2]
  <2>1. pc[c] = "validate" /\ q \in RunPair /\ v \in RunWorker
    BY <1>3 DEF DrainValidate, CallsTyped, RunPair
  <2>2. UNCHANGED <<permit, served, drained>>
    BY <1>3 DEF DrainValidate, workers
  <2>3. CASE UNCHANGED gate /\ Reply(c)
    <3>1. \A w \in RunWorker : Begun(w)' = Begun(w)
      BY <2>1, <2>3, <1>r, BegunSame
    <3> QED  BY <2>2, <2>3, <3>1, PaidFrame DEF gate
  <2>4. CASE Approvals!Act(q) /\ Goto(c, "signal") /\ UNCHANGED req
    <3>1. \A w \in RunWorker : /\ spent' \in [RunPair -> Nat] /\ IsFiniteSet(Spendings(spent', w))
                               /\ v = w => Cardinality(Spendings(spent', w)) = Cardinality(Spendings(spent, w)) + 1
                               /\ v # w => Spendings(spent', w) = Spendings(spent, w)
      BY <2>1, <2>4, ActSpends DEF PaymentsTyped, Paid
    <3>2. PaymentsTyped'
      BY <2>1, <2>2, <3>1 DEF PaymentsTyped
    <3>3. ASSUME NEW w \in RunWorker
          PROVE  /\ Begun(w)' \subseteq Begun(w) \cup {c} /\ c \notin Begun(w)
                 /\ w # v => Begun(w)' = Begun(w)
      <4>1. /\ \A d \in Caller : d # c => pc'[d] = pc[d]
            /\ pc'[c] = "signal" /\ req' = req
        BY <2>4, <1>g
      <4>2. \A d \in Caller : /\ d # c => (d \in Begun(w)' <=> d \in Begun(w))
                              /\ w # v => c \notin Begun(w)'
        BY <4>1 DEF Begun
      <4>3. c \notin Begun(w) /\ Begun(w) \subseteq Caller /\ Begun(w)' \subseteq Caller
        BY <2>1 DEF Begun
      <4> QED  BY <4>2, <4>3
    <3> HIDE DEF q, v
    <3>4. ASSUME NEW w \in RunWorker
          PROVE  /\ IsFiniteSet(Begun(w)')
                 /\ Cardinality(Begun(w)') <= Cardinality(Begun(w)) + IF w = v THEN 1 ELSE 0
      <4>1. IsFiniteSet(Begun(w)) /\ Cardinality(Begun(w)) \in Nat
        BY FS_CardinalityType DEF Paid
      <4>2. /\ IsFiniteSet(Begun(w) \cup {c})
            /\ Cardinality(Begun(w) \cup {c}) = Cardinality(Begun(w)) + 1
        BY <3>3, <4>1, FS_AddElement
      <4>3. /\ IsFiniteSet(Begun(w)')
            /\ Cardinality(Begun(w)') <= Cardinality(Begun(w) \cup {c})
        BY <3>3, <4>2, FS_Subset
      <4> QED  BY <3>3, <4>1, <4>2, <4>3
    <3>5. ASSUME NEW w \in RunWorker
          PROVE  served'[w] + drained'[w] + Permits(w)' + Cardinality(Begun(w)')
                   <= Cardinality(Spendings(spent', w))
      <4>1. /\ served[w] \in Nat /\ drained[w] \in Nat /\ Permits(w) \in {0, 1}
            /\ Cardinality(Begun(w)) \in Nat /\ Cardinality(Spendings(spent, w)) \in Nat
            /\ Cardinality(Begun(w)') \in Nat
        BY <3>4, FS_CardinalityType DEF PaymentsTyped, Paid, Permits
      <4>2. Permits(w)' = Permits(w)
        BY <2>2 DEF Permits
      <4>3. served[w] + drained[w] + Permits(w) + Cardinality(Begun(w)) <= Cardinality(Spendings(spent, w))
        BY DEF Paid
      <4> QED  BY <2>2, <3>1, <3>4, <4>1, <4>2, <4>3
    <3> QED  BY <3>1, <3>2, <3>4, <3>5 DEF Paid
  <2> QED  BY <1>3, <2>3, <2>4 DEF DrainValidate
<1>4. CASE DrainSignal(c)
  <2> DEFINE v == req[c].pair[2]
  <2>1. pc[c] = "signal" /\ v \in RunWorker
    BY <1>4 DEF DrainSignal, CallsTyped, RunPair
  <2>2. UNCHANGED <<spent, permit, served>> /\ Reply(c)
    BY <1>4 DEF DrainSignal, gate, workers
  <2>3. CASE req[c].already
    <3>1. \A w \in RunWorker : Begun(w)' = Begun(w)
      BY <2>2, <2>3, <1>r, BegunSame
    <3> QED  BY <1>4, <2>2, <2>3, <3>1, PaidFrame DEF DrainSignal
  <2>4. CASE ~req[c].already
    <3>1. drained' = [drained EXCEPT ![v] = @ + 1]
      BY <1>4, <2>4 DEF DrainSignal
    <3>2. PaymentsTyped'
      BY <2>1, <2>2, <3>1 DEF PaymentsTyped
    <3>3. ASSUME NEW w \in RunWorker
          PROVE  Begun(w)' = Begun(w) \ {c} /\ (c \in Begun(w) <=> w = v)
      <4>1. \A d \in Caller : /\ d # c => (d \in Begun(w)' <=> d \in Begun(w))
                              /\ c \notin Begun(w)'
        BY <2>2, <1>r DEF Begun
      <4>2. Begun(w) \subseteq Caller /\ Begun(w)' \subseteq Caller
        BY DEF Begun
      <4>3. c \in Begun(w) <=> w = v
        BY <2>1, <2>4 DEF Begun
      <4> QED  BY <4>1, <4>2, <4>3
    <3> HIDE DEF v
    <3>4. ASSUME NEW w \in RunWorker
          PROVE  /\ IsFiniteSet(Begun(w)')
                 /\ served'[w] + drained'[w] + Permits(w)' + Cardinality(Begun(w)')
                      <= Cardinality(Spendings(spent', w))
      <4>1. /\ served[w] \in Nat /\ drained[w] \in Nat /\ Permits(w) \in {0, 1}
            /\ Cardinality(Begun(w)) \in Nat /\ Cardinality(Spendings(spent, w)) \in Nat
            /\ IsFiniteSet(Begun(w))
        BY FS_CardinalityType DEF PaymentsTyped, Paid, Permits
      <4>2. Permits(w)' = Permits(w)
        BY <2>2 DEF Permits
      <4>3. served[w] + drained[w] + Permits(w) + Cardinality(Begun(w)) <= Cardinality(Spendings(spent, w))
        BY DEF Paid
      <4>4. /\ IsFiniteSet(Begun(w)')
            /\ Cardinality(Begun(w)') = IF w = v THEN Cardinality(Begun(w)) - 1
                                        ELSE Cardinality(Begun(w))
        <5>1. CASE w = v
          <6>1. c \in Begun(w) /\ Begun(w)' = Begun(w) \ {c}
            BY <3>3, <5>1
          <6> QED  BY <4>1, <5>1, <6>1, FS_RemoveElement
        <5>2. CASE w # v
          <6>1. Begun(w)' = Begun(w)
            BY <3>3, <5>2
          <6> QED  BY <4>1, <5>2, <6>1
        <5> QED  BY <5>1, <5>2
      <4>5. drained'[w] = IF w = v THEN drained[w] + 1 ELSE drained[w]
        BY <3>1, <2>1 DEF PaymentsTyped
      <4> QED  BY <2>2, <4>1, <4>2, <4>3, <4>4, <4>5
    <3>5. \A w \in RunWorker : IsFiniteSet(Spendings(spent', w))
      BY <2>2 DEF Paid
    <3> QED  BY <3>2, <3>4, <3>5 DEF Paid
  <2> QED  BY <2>3, <2>4
<1> QED  BY <1>1, <1>2, <1>3, <1>4 DEF CallStep

(* The workers keep it: serving a restart uses up the permit.              *)
LEMMA PaidWorker ==
  ASSUME CallsTyped, PaymentsTyped, Paid, NEW v \in RunWorker, WorkerStep(v)
  PROVE  PaymentsTyped' /\ Paid'
<1>1. UNCHANGED <<pc, req, spent, drained>>
  BY DEF WorkerStep, Register, SpawnOk, SpawnFailed, ChildExited, Fail, ServeRestart,
         SeeDrain, Finish, WorkerFrame, calls, gate
<1>2. \A w \in RunWorker : Begun(w)' = Begun(w)
  BY <1>1 DEF Begun
<1>3. CASE ServeRestart(v)
  <2>1. /\ permit[v] /\ permit' = [permit EXCEPT ![v] = FALSE]
        /\ served' = [served EXCEPT ![v] = @ + 1]
    BY <1>3 DEF ServeRestart
  <2>2. PaymentsTyped'
    BY <1>1, <2>1 DEF PaymentsTyped
  <2>3. ASSUME NEW w \in RunWorker
        PROVE  served'[w] + drained'[w] + Permits(w)' + Cardinality(Begun(w)')
                 <= Cardinality(Spendings(spent', w))
    <3>1. /\ served[w] \in Nat /\ drained[w] \in Nat /\ Permits(w) \in {0, 1}
          /\ Cardinality(Begun(w)) \in Nat /\ Cardinality(Spendings(spent, w)) \in Nat
      BY FS_CardinalityType DEF PaymentsTyped, Paid, Permits
    <3>2. /\ Permits(w)' = IF w = v THEN 0 ELSE Permits(w)
          /\ w = v => Permits(w) = 1
      BY <2>1 DEF PaymentsTyped, Permits
    <3>3. served'[w] = IF w = v THEN served[w] + 1 ELSE served[w]
      BY <2>1 DEF PaymentsTyped
    <3>4. served[w] + drained[w] + Permits(w) + Cardinality(Begun(w)) <= Cardinality(Spendings(spent, w))
      BY DEF Paid
    <3> QED  BY <1>1, <1>2, <3>1, <3>2, <3>3, <3>4
  <2> QED  BY <1>1, <1>2, <2>2, <2>3, Zenon DEF Paid
<1>4. CASE ~ServeRestart(v)
  <2>1. UNCHANGED <<permit, served>>
    BY <1>4 DEF WorkerStep, Register, SpawnOk, SpawnFailed, ChildExited, Fail, SeeDrain, Finish
  <2> QED  BY <1>1, <1>2, <2>1, PaidFrame
<1> QED  BY <1>3, <1>4

(* So does everything else.                                                *)
LEMMA PaidStep ==
  ASSUME CallsTyped, PaymentsTyped, Paid, [ArmNext]_armvars
  PROVE  PaymentsTyped' /\ Paid'
<1>1. ASSUME NEW c \in Caller, NEW p \in RunProposal, NEW w \in RunWorker,
             RestartCheck(c, p, w) \/ \E k \in Kinds : DrainCheck(c, p, w, k)
      PROVE PaymentsTyped' /\ Paid'
  <2>1. UNCHANGED <<spent, permit, served, drained>>
    BY <1>1 DEF RestartCheck, DrainCheck, gate, workers
  <2>2. pc[c] = "idle" /\ \A d \in Caller : d # c => pc'[d] = pc[d] /\ req'[d] = req[d]
    BY <1>1 DEF RestartCheck, DrainCheck, Goto, CallsTyped
  <2>3. pc'[c] # "signal" \/ req'[c].already
    <3>1. CASE RestartCheck(c, p, w)
      BY <3>1 DEF RestartCheck, Goto, CallsTyped
    <3>2. ASSUME NEW k \in Kinds, DrainCheck(c, p, w, k)
          PROVE  pc'[c] # "signal" \/ req'[c].already
      <4>1. req'[c].already = draining /\ pc'[c] = IF draining THEN "signal" ELSE "validate"
        BY <3>2 DEF DrainCheck, Goto, CallsTyped
      <4> QED  BY <4>1
    <3> QED  BY <1>1, <3>1, <3>2
  <2>4. \A v \in RunWorker : Begun(v)' = Begun(v)
    BY <2>2, <2>3, BegunSame
  <2> QED  BY <2>1, <2>4, PaidFrame
<1>2. CASE RunOver \/ SuperviseTimeout \/ StopAll \/ MarkFinished \/ Approve \/ BookTick
  <2>1. UNCHANGED <<spent, permit, served, drained, pc, req>>
    BY <1>2 DEF RunOver, SuperviseTimeout, StopAll, MarkFinished, Approve, BookTick,
                gate, workers, calls, Approvals!Lapse, Approvals!Grant
  <2> QED  BY <2>1, PaidFrame DEF Begun
<1>3. CASE UNCHANGED armvars
  <2>1. UNCHANGED <<spent, permit, served, drained, pc, req>>
    BY <1>3 DEF armvars, gate, workers, calls
  <2> QED  BY <2>1, PaidFrame DEF Begun
<1> QED  BY <1>1, <1>2, <1>3, PaidCall, PaidWorker DEF ArmNext

(* Nothing is under way and nothing is spent at first.                     *)
LEMMA PaidInit == ArmInit => CallsTyped /\ PaymentsTyped /\ Paid
<1> SUFFICES ASSUME ArmInit PROVE CallsTyped /\ PaymentsTyped /\ Paid
  OBVIOUS
<1>1. CallsTyped
  BY Zenon DEF ArmInit, CallsTyped, PCs, Reqs, NoReq
<1>2. PaymentsTyped
  BY DEF ArmInit, PaymentsTyped, Approvals!Init
<1>3. ASSUME NEW w \in RunWorker PROVE Begun(w) = {}
  BY DEF Begun, ArmInit
<1>4. ASSUME NEW w \in RunWorker PROVE Spendings(spent, w) = {}
  <2>1. \A p \in RunProposal : spent[<<p, w>>] = 0
    BY DEF ArmInit, Approvals!Init, RunPair
  <2>2. ASSUME NEW x \in Spendings(spent, w) PROVE FALSE
    <3>1. IsSpending(spent, w, x)
      BY SpendingsAre
    <3> QED  BY <2>1, <3>1 DEF IsSpending
  <2> QED  BY <2>2
<1>5. ASSUME NEW w \in RunWorker PROVE served[w] = 0 /\ drained[w] = 0 /\ Permits(w) = 0
  BY DEF ArmInit, Permits
<1>6. Paid
  <2>1. ASSUME NEW w \in RunWorker
        PROVE  /\ IsFiniteSet(Begun(w)) /\ IsFiniteSet(Spendings(spent, w))
               /\ Cardinality(Begun(w)) = 0 /\ Cardinality(Spendings(spent, w)) = 0
    BY <1>3, <1>4, FS_EmptySet
  <2>2. ASSUME NEW w \in RunWorker
        PROVE  served[w] + drained[w] + Permits(w) + Cardinality(Begun(w)) <= Cardinality(Spendings(spent, w))
    <3>1. Cardinality(Begun(w)) = 0 /\ Cardinality(Spendings(spent, w)) = 0
      BY <2>1
    <3> QED  BY <1>5, <3>1
  <2> QED  BY <2>1, <2>2 DEF Paid
<1> QED  BY <1>1, <1>2, <1>6

(* For any calls in flight: restarts carried out or signalled and drains   *)
(* begun never outnumber the approvals spent (restart_payload and          *)
(* drain_payload consume before they act).                                 *)
THEOREM NoFreeActions == ArmSpec => []ActionsArePaid
<1>1. CallsTyped /\ PaymentsTyped /\ Paid /\ [ArmNext]_armvars
        => (CallsTyped /\ PaymentsTyped /\ Paid)'
  BY CallsStep, PaidStep
<1>2. PaymentsTyped /\ Paid => ActionsArePaid
  <2> SUFFICES ASSUME PaymentsTyped, Paid, NEW w \in RunWorker
               PROVE  served[w] + drained[w] + Permits(w) <= Cardinality(Spendings(spent, w))
    BY DEF ActionsArePaid, Permits
  <2>1. /\ served[w] \in Nat /\ drained[w] \in Nat /\ Permits(w) \in {0, 1}
        /\ Cardinality(Begun(w)) \in Nat /\ Cardinality(Spendings(spent, w)) \in Nat
    BY FS_CardinalityType DEF PaymentsTyped, Paid, Permits
  <2>2. served[w] + drained[w] + Permits(w) + Cardinality(Begun(w)) <= Cardinality(Spendings(spent, w))
    BY DEF Paid
  <2> QED  BY <2>1, <2>2
<1> QED  BY <1>1, <1>2, PaidInit, PTL DEF ArmSpec

-------------------------------------------------------------------------------
(***************************************************************************)
(* The operator's restart budget.                                          *)
(***************************************************************************)
Stamp == [worker : RunWorker, age : Nat, nth : Nat]
ThisTick(S, w) == {s \in StampsOf(S, w) : s.age = 0}
Numbered(S) == \A s \in S : s.age = 0 => s.nth <= Cardinality(ThisTick(S, s.worker))

(* The book holds what was accepted in the last window, and the stamps of  *)
(* a worker in the current tick are numbered.                              *)
BookKept ==
  /\ stamps \subseteq Stamp /\ IsFiniteSet(stamps)
  /\ recent = InWindow(stamps)
  /\ \A w \in RunWorker : Cardinality(StampsOf(recent, w)) <= RestartMax
  /\ Numbered(stamps)

(* The stamp of an accepted restart is told apart from all in the book, so *)
(* counting stamps is counting restarts.                                   *)
LEMMA StampIsNew ==
  ASSUME NEW S, S \subseteq Stamp, IsFiniteSet(S), NEW w \in RunWorker,
         Numbered(S)
  PROVE  /\ NewStamp(S, w) \in Stamp /\ NewStamp(S, w) \notin S
         /\ NewStamp(S, w).worker = w /\ NewStamp(S, w).age = 0
         /\ NewStamp(S, w).nth = Cardinality(ThisTick(S, w)) + 1
<1> DEFINE n == Cardinality(ThisTick(S, w))
<1>1. ThisTick(S, w) \subseteq S
  BY DEF ThisTick, StampsOf
<1>2. n \in Nat
  BY <1>1, FS_Subset, FS_CardinalityType
<1>3. NewStamp(S, w) = [worker |-> w, age |-> 0, nth |-> n + 1]
  BY DEF NewStamp, ThisTick
<1> HIDE DEF n
<1>4. NewStamp(S, w) \in Stamp
  BY <1>2, <1>3 DEF Stamp
<1>5. /\ NewStamp(S, w).worker = w /\ NewStamp(S, w).age = 0 /\ NewStamp(S, w).nth = n + 1
  BY <1>3
<1>6. ASSUME NewStamp(S, w) \in S PROVE FALSE
  <2>1. n + 1 <= Cardinality(ThisTick(S, w))
    BY <1>5, <1>6 DEF Numbered
  <2> QED  BY <1>2, <2>1 DEF n
<1> QED  BY <1>4, <1>5, <1>6 DEF n

(* Ageing tells stamps apart as before, or makes them leave the window.    *)
LEMMA AgeingShrinks ==
  ASSUME NEW S, IsFiniteSet(S)
  PROVE  IsFiniteSet({Older(s) : s \in S}) /\ Cardinality({Older(s) : s \in S}) <= Cardinality(S)
<1> DEFINE T == {Older(s) : s \in S}
           f == [s \in S |-> Older(s)]
<1>1. f \in Surjection(S, T)
  BY DEF Surjection
<1> HIDE DEF f, T
<1>2. IsFiniteSet(T) /\ Cardinality(T) <= Cardinality(S)
  BY <1>1, FS_Surjection
<1> QED  BY <1>2 DEF T

(* accept_restart keeps the book: it expires, counts and pushes under one  *)
(* lock.                                                                   *)
LEMMA BookAccept ==
  ASSUME CallsTyped, BookKept, NEW c \in Caller, accept_restart(c)
  PROVE  BookKept'
<1> DEFINE w == req[c].pair[2]
           live == InWindow(stamps)
           new == NewStamp(live, w)
<1>1. w \in RunWorker
  BY Zenon DEF CallsTyped, accept_restart, RunPair
<1>2. /\ live \subseteq stamps /\ live \subseteq Stamp /\ IsFiniteSet(live) /\ recent = live
      /\ InWindow(live) = live
  BY FS_Subset DEF BookKept, InWindow
<1>3. \A s \in stamps : s.age = 0 => s \in live
  BY ControlArmAssumption DEF InWindow
<1>4. \A v : ThisTick(stamps, v) = ThisTick(live, v)
  BY <1>2, <1>3 DEF ThisTick, StampsOf
<1>5. Numbered(live)
  BY <1>2, <1>4 DEF BookKept, Numbered
<1>6. CASE stamps' = live /\ recent' = recent
  BY <1>2, <1>5, <1>6 DEF BookKept
<1>7. CASE InBudget(live, w) /\ stamps' = live \cup {new} /\ recent' = recent \cup {new}
  <2>1. /\ new \in Stamp /\ new \notin live /\ new.worker = w /\ new.age = 0
        /\ new.nth = Cardinality(ThisTick(live, w)) + 1
    <3> HIDE DEF live, w
    <3>1. live \subseteq Stamp /\ IsFiniteSet(live)
      BY <1>2
    <3> QED  BY <1>1, <1>5, <3>1, StampIsNew
  <2>2. Cardinality(StampsOf(live, w)) < RestartMax
    BY <1>7 DEF InBudget
  <2> HIDE DEF new, w
  <2>3. InWindow(stamps') = live \cup {new}
    BY <1>2, <1>7, <2>1, ControlArmAssumption DEF InWindow
  <2> HIDE DEF live
  <2>4. stamps' \subseteq Stamp /\ IsFiniteSet(stamps') /\ recent' = InWindow(stamps')
    BY <1>2, <1>7, <2>1, <2>3, FS_AddElement, Zenon
  <2>5. ASSUME NEW v \in RunWorker PROVE Cardinality(StampsOf(recent', v)) <= RestartMax
    <3>1. /\ StampsOf(live, v) \subseteq live /\ IsFiniteSet(StampsOf(live, v))
          /\ Cardinality(StampsOf(live, v)) \in Nat
      BY <1>2, FS_Subset, FS_CardinalityType DEF StampsOf
    <3>2. CASE v = w
      <4>1. StampsOf(recent', v) = StampsOf(live, v) \cup {new} /\ new \notin StampsOf(live, v)
        BY <1>2, <1>7, <2>1, <3>2 DEF StampsOf
      <4>2. Cardinality(StampsOf(recent', v)) = Cardinality(StampsOf(live, v)) + 1
        BY <3>1, <4>1, FS_AddElement
      <4> QED  BY <2>2, <3>1, <3>2, <4>2, ControlArmAssumption
    <3>3. CASE v # w
      <4>1. StampsOf(recent', v) = StampsOf(recent, v)
        BY <1>2, <1>7, <2>1, <3>3 DEF StampsOf
      <4> QED  BY <4>1 DEF BookKept
    <3> QED  BY <3>2, <3>3
  <2>6. ASSUME NEW s \in stamps', s.age = 0
        PROVE  s.nth <= Cardinality(ThisTick(stamps', s.worker))
    <3>1. /\ IsFiniteSet(ThisTick(live, s.worker)) /\ Cardinality(ThisTick(live, s.worker)) \in Nat
          /\ ThisTick(live, s.worker) \subseteq live
      BY <1>2, FS_Subset, FS_CardinalityType DEF ThisTick, StampsOf
    <3>2. CASE s.worker = w
      <4>1. /\ ThisTick(stamps', s.worker) = ThisTick(live, s.worker) \cup {new}
            /\ new \notin ThisTick(live, s.worker)
        BY <1>7, <2>1, <3>2 DEF ThisTick, StampsOf
      <4>2. Cardinality(ThisTick(stamps', s.worker)) = Cardinality(ThisTick(live, s.worker)) + 1
        BY <3>1, <4>1, FS_AddElement, Zenon
      <4>3. s.nth \in Nat
        BY <2>4 DEF Stamp
      <4>4. s # new => s.nth <= Cardinality(ThisTick(live, s.worker))
        BY <1>5, <1>7, <2>6 DEF Numbered
      <4> QED  BY <2>1, <3>1, <3>2, <4>2, <4>3, <4>4
    <3>3. CASE s.worker # w
      <4>1. ThisTick(stamps', s.worker) = ThisTick(live, s.worker) /\ s \in live
        BY <1>7, <2>1, <3>3 DEF ThisTick, StampsOf
      <4> QED  BY <1>5, <2>6, <4>1 DEF Numbered
    <3> QED  BY <3>2, <3>3
  <2> QED  BY <2>4, <2>5, <2>6 DEF BookKept, Numbered
<1> QED  BY <1>6, <1>7, Zenon DEF accept_restart

(* Time passes: a stamp leaves the book's window and the history together. *)
LEMMA BookAges ==
  ASSUME BookKept, BookTick PROVE BookKept'
<1> USE ControlArmAssumption
<1>1. /\ stamps' = {Older(s) : s \in stamps}
      /\ recent' = InWindow({Older(s) : s \in recent})
  BY DEF BookTick
<1>2. ASSUME NEW s \in Stamp
      PROVE  /\ Older(s) \in Stamp /\ Older(s).worker = s.worker /\ Older(s).nth = s.nth
             /\ Older(s).age = IF s.age < RestartWindow THEN s.age + 1 ELSE s.age
             /\ Older(s).age # 0
  <2>1. Older(s) = [worker |-> s.worker, nth |-> s.nth,
                    age |-> IF s.age < RestartWindow THEN s.age + 1 ELSE s.age]
    BY DEF Older, Stamp
  <2>2. s.worker \in RunWorker /\ s.nth \in Nat /\ s.age \in Nat
    BY DEF Stamp
  <2>3. (IF s.age < RestartWindow THEN s.age + 1 ELSE s.age) \in Nat \ {0}
    BY <2>2
  <2> DEFINE a == IF s.age < RestartWindow THEN s.age + 1 ELSE s.age
  <2>4. a \in Nat \ {0} /\ Older(s) = [worker |-> s.worker, nth |-> s.nth, age |-> a]
    BY <2>1, <2>3
  <2> HIDE DEF a
  <2>5. Older(s) \in Stamp /\ Older(s).worker = s.worker /\ Older(s).nth = s.nth /\ Older(s).age = a /\ a # 0
    BY <2>2, <2>4 DEF Stamp
  <2> QED  BY <2>5 DEF a
<1>3. stamps' \subseteq Stamp /\ IsFiniteSet(stamps') /\ \A s \in stamps' : s.age # 0
  <2>1. IsFiniteSet(stamps')
    BY <1>1, AgeingShrinks, Zenon DEF BookKept
  <2>2. ASSUME NEW t \in stamps' PROVE t \in Stamp /\ t.age # 0
    <3>1. PICK s \in stamps : t = Older(s)
      BY <1>1
    <3> QED  BY <1>2, <3>1 DEF BookKept
  <2> QED  BY <2>1, <2>2
<1>4. recent \subseteq stamps /\ IsFiniteSet(recent)
  BY FS_Subset DEF BookKept, InWindow
<1>5. recent' = InWindow(stamps')
  <2>1. ASSUME NEW s \in stamps, Older(s).age < RestartWindow PROVE s \in recent
    <3>1. s \in Stamp /\ s.age \in Nat
      BY DEF BookKept, Stamp
    <3>2. s.age < RestartWindow
      BY <1>2, <2>1, <3>1
    <3> QED  BY <3>2 DEF BookKept, InWindow
  <2>2. recent' \subseteq InWindow(stamps')
    BY <1>1, <1>4 DEF InWindow
  <2>3. ASSUME NEW t \in InWindow(stamps') PROVE t \in recent'
    <3>1. PICK s \in stamps : t = Older(s)
      BY <1>1 DEF InWindow
    <3>2. t.age < RestartWindow
      BY DEF InWindow
    <3> QED  BY <1>1, <2>1, <3>1, <3>2 DEF InWindow
  <2> QED  BY <2>2, <2>3
<1>6. ASSUME NEW w \in RunWorker PROVE Cardinality(StampsOf(recent', w)) <= RestartMax
  <2> DEFINE S == StampsOf(recent, w)
             T == {Older(s) : s \in S}
  <2>1. S \subseteq recent /\ IsFiniteSet(S)
    BY <1>4, FS_Subset DEF StampsOf
  <2>2. Cardinality(S) <= RestartMax
    BY DEF BookKept
  <2>3. StampsOf(recent', w) \subseteq T
    <3>1. ASSUME NEW t \in StampsOf(recent', w) PROVE t \in T
      <4>1. t.worker = w /\ t \in {Older(s) : s \in recent}
        BY <1>1 DEF StampsOf, InWindow
      <4>2. PICK s \in recent : t = Older(s)
        BY <4>1
      <4>3. s.worker = w
        BY <1>2, <1>4, <4>1, <4>2 DEF BookKept
      <4> QED  BY <4>2, <4>3 DEF StampsOf
    <3> QED  BY <3>1
  <2> HIDE DEF S
  <2>4. IsFiniteSet(T) /\ Cardinality(T) <= Cardinality(S)
    BY <2>1, AgeingShrinks
  <2> HIDE DEF T
  <2>5. Cardinality(StampsOf(recent', w)) <= Cardinality(T) /\ IsFiniteSet(StampsOf(recent', w))
    BY <2>3, <2>4, FS_Subset
  <2> QED  BY <2>1, <2>2, <2>4, <2>5, FS_CardinalityType
<1> QED  BY <1>3, <1>5, <1>6 DEF BookKept, Numbered

(* Every step keeps the book.                                              *)
LEMMA BookStep ==
  ASSUME CallsTyped, BookKept, [ArmNext]_armvars PROVE BookKept'
<1>1. ASSUME UNCHANGED <<stamps, recent>> PROVE BookKept'
  BY <1>1 DEF BookKept
<1>2. ASSUME NEW c \in Caller, CallStep(c), ~accept_restart(c) PROVE UNCHANGED <<stamps, recent>>
  BY <1>2, Zenon DEF CallStep, TakeSnapshot, SpendAndSignal, DrainValidate, DrainSignal, book
<1>3. ASSUME NEW c \in Caller, NEW p \in RunProposal, NEW w \in RunWorker,
             RestartCheck(c, p, w) \/ \E k \in Kinds : DrainCheck(c, p, w, k)
      PROVE UNCHANGED <<stamps, recent>>
  BY <1>3 DEF RestartCheck, DrainCheck, book
<1>4. ASSUME NEW w \in RunWorker, WorkerStep(w) PROVE UNCHANGED <<stamps, recent>>
  BY <1>4 DEF WorkerStep, Register, SpawnOk, SpawnFailed, ChildExited, Fail, ServeRestart,
              SeeDrain, Finish, WorkerFrame, book
<1>5. CASE RunOver \/ SuperviseTimeout \/ StopAll \/ MarkFinished \/ Approve
  BY <1>1, <1>5 DEF RunOver, SuperviseTimeout, StopAll, MarkFinished, Approve, book
<1>6. CASE UNCHANGED armvars
  BY <1>1, <1>6 DEF armvars, book
<1> QED  BY <1>1, <1>2, <1>3, <1>4, <1>5, <1>6, BookAccept, BookAges DEF ArmNext

(* For any calls in flight, at most EXPLICIT_RESTART_MAX restarts of a     *)
(* worker are accepted in any window (accept_restart).                     *)
THEOREM BudgetHolds == ArmSpec => []RestartBudget
<1>1. ArmInit => CallsTyped /\ BookKept
  <2> SUFFICES ASSUME ArmInit PROVE BookKept
    BY PaidInit
  <2>1. stamps = {} /\ recent = {} /\ InWindow(stamps) = {}
    BY DEF ArmInit, InWindow
  <2>2. \A w \in RunWorker : StampsOf(recent, w) = {}
    BY <2>1 DEF StampsOf
  <2> QED  BY <2>1, <2>2, FS_EmptySet, ControlArmAssumption DEF BookKept, Numbered
<1>2. CallsTyped /\ BookKept /\ [ArmNext]_armvars => (CallsTyped /\ BookKept)'
  BY CallsStep, BookStep
<1>3. BookKept => RestartBudget
  BY DEF BookKept, RestartBudget
<1> QED  BY <1>1, <1>2, <1>3, PTL DEF ArmSpec

-------------------------------------------------------------------------------
(***************************************************************************)
(* A finished run.                                                         *)
(***************************************************************************)
Stages == {"init", "spawning", "up", "stopping", "ended"}
Phases == {"absent", "starting", "running", "restarting", "draining", "stopped"}
Shown == [phase : Phases, count : Nat]
Over(w) == fleet[w].phase \in {"absent", "stopped"}

(* A worker whose loop has ended is published as stopped, and past the end *)
(* of the run or its stop_all no worker is published again.                *)
RunShown ==
  /\ life \in [RunWorker -> Stages] /\ count \in [RunWorker -> Nat]
  /\ fleet \in [RunWorker -> Shown]
  /\ call \in {"running", "stop_all", "mark", "finished"}
  /\ \A w \in RunWorker : life[w] = "ended" => fleet[w].phase = "stopped"
  /\ call \in {"mark", "finished"} => \A w \in RunWorker : Over(w)

(* Every step keeps that.                                                  *)
LEMMA ShownStep ==
  ASSUME RunShown, [ArmNext]_armvars PROVE RunShown'
<1>1. ASSUME UNCHANGED <<life, count, fleet, call>> PROVE RunShown'
  BY <1>1 DEF RunShown, Over
<1>2. ASSUME NEW w \in RunWorker, WorkerStep(w) PROVE RunShown'
  <2>1. call = "running" /\ call' = call
    BY <1>2 DEF WorkerStep, Register, SpawnOk, SpawnFailed, ChildExited, Fail, ServeRestart,
                SeeDrain, Finish, WorkerFrame, Supervised, run
  <2>2. PICK l \in Stages, n \in Nat, s \in Shown :
          /\ life' = [life EXCEPT ![w] = l] /\ count' = [count EXCEPT ![w] = n]
          /\ fleet' = [fleet EXCEPT ![w] = s]
          /\ l = "ended" => s.phase = "stopped"
    <3>0. fleet[w] \in Shown /\ count[w] \in Nat /\ count[w] + 1 \in Nat
      BY DEF RunShown
    <3>1. ASSUME NEW l \in Stages, NEW n \in Nat, NEW ph \in Phases, NEW m \in Nat,
                 Live(w, l), count' = [count EXCEPT ![w] = n], PublishCount(w, ph, m),
                 l = "ended" => ph = "stopped"
          PROVE  \E k \in Stages, i \in Nat, s \in Shown :
                   /\ life' = [life EXCEPT ![w] = k] /\ count' = [count EXCEPT ![w] = i]
                   /\ fleet' = [fleet EXCEPT ![w] = s]
                   /\ k = "ended" => s.phase = "stopped"
      <4> DEFINE s == [phase |-> ph, count |-> m]
      <4>1. s \in Shown /\ s.phase = ph
        BY DEF Shown
      <4>2. fleet' = [fleet EXCEPT ![w] = s] /\ life' = [life EXCEPT ![w] = l]
        BY <3>1 DEF PublishCount, Live
      <4> HIDE DEF s
      <4> QED  BY <3>1, <4>1, <4>2, Zenon
    <3>2. ASSUME NEW l \in Stages, NEW ph \in Phases, Live(w, l), UNCHANGED count,
                 Publish(w, ph), l # "ended"
          PROVE  \E k \in Stages, i \in Nat, s \in Shown :
                   /\ life' = [life EXCEPT ![w] = k] /\ count' = [count EXCEPT ![w] = i]
                   /\ fleet' = [fleet EXCEPT ![w] = s]
                   /\ k = "ended" => s.phase = "stopped"
      <4> DEFINE s == [fleet[w] EXCEPT !.phase = ph]
      <4>1. s \in Shown
        BY <3>0 DEF Shown
      <4>2. fleet' = [fleet EXCEPT ![w] = s] /\ life' = [life EXCEPT ![w] = l]
        BY <3>2 DEF Publish, Live
      <4>3. count' = [count EXCEPT ![w] = count[w]]
        BY <3>2 DEF RunShown
      <4> HIDE DEF s
      <4> QED  BY <3>0, <3>2, <4>1, <4>2, <4>3, Zenon
    <3>3. CASE Register(w)
      BY <3>2, <3>3, Zenon DEF Register, Stages, Phases
    <3>4. CASE SpawnOk(w)
      BY <3>2, <3>4, Zenon DEF SpawnOk, Stages, Phases
    <3>5. CASE SpawnFailed(w)
      BY <3>0, <3>1, <3>5, Zenon DEF SpawnFailed, Fail, Stages, Phases
    <3>6. CASE ChildExited(w)
      BY <3>0, <3>1, <3>6, Zenon DEF ChildExited, Fail, Stages, Phases
    <3>7. CASE ServeRestart(w)
      BY <3>0, <3>1, <3>7, Zenon DEF ServeRestart, Stages, Phases
    <3>8. CASE SeeDrain(w)
      BY <3>2, <3>8, Zenon DEF SeeDrain, Stages, Phases
    <3>9. CASE Finish(w)
      <4>1. count' = [count EXCEPT ![w] = count[w]]
        BY <3>9 DEF Finish, RunShown
      <4> QED  BY <3>0, <3>1, <3>9, <4>1, Zenon DEF Finish, Stages, Phases
    <3> QED  BY <1>2, <3>3, <3>4, <3>5, <3>6, <3>7, <3>8, <3>9, Zenon DEF WorkerStep
  <2> QED  BY <2>1, <2>2 DEF RunShown
<1>3. ASSUME NEW c \in Caller, CallStep(c) PROVE UNCHANGED <<life, count, fleet, call>>
  BY <1>3, Zenon DEF CallStep, TakeSnapshot, accept_restart, SpendAndSignal, DrainValidate, DrainSignal,
              workers, run
<1>4. ASSUME NEW c \in Caller, NEW p \in RunProposal, NEW w \in RunWorker,
             RestartCheck(c, p, w) \/ \E k \in Kinds : DrainCheck(c, p, w, k)
      PROVE UNCHANGED <<life, count, fleet, call>>
  BY <1>4 DEF RestartCheck, DrainCheck, workers, run
<1>5. CASE RunOver
  BY <1>5 DEF RunOver, workers, RunShown, Over
<1>6. CASE SuperviseTimeout
  BY <1>6 DEF SuperviseTimeout, workers, RunShown, Over
<1>7. CASE StopAll
  <2>1. UNCHANGED <<life, count>> /\ call' = "mark"
    BY <1>7 DEF StopAll
  <2>2. ASSUME NEW w \in RunWorker
        PROVE  /\ fleet'[w] \in Shown /\ fleet'[w].phase \in {"absent", "stopped"}
               /\ fleet[w].phase = "stopped" => fleet'[w].phase = "stopped"
    BY <1>7 DEF StopAll, RunShown, Shown, Phases
  <2>3. fleet' \in [RunWorker -> Shown]
    BY <1>7, <2>2 DEF StopAll
  <2> QED  BY <2>1, <2>2, <2>3 DEF RunShown, Over
<1>8. CASE MarkFinished
  BY <1>8 DEF MarkFinished, workers, RunShown, Over
<1>9. CASE Approve \/ BookTick
  BY <1>1, <1>9 DEF Approve, BookTick, workers, run
<1>10. CASE UNCHANGED armvars
  BY <1>1, <1>10 DEF armvars, workers, run
<1> QED  BY <1>1, <1>2, <1>3, <1>4, <1>5, <1>6, <1>7, <1>8, <1>9, <1>10 DEF ArmNext

(* A run that is marked finished, by its end or by the timeout, shows      *)
(* every registered worker as stopped from then on, for any workers        *)
(* (malkuth_supervise).                                                    *)
THEOREM FinishedStaysStopped == ArmSpec => []FinishedIsStopped
<1>1. ArmInit => RunShown
  <2> SUFFICES ASSUME ArmInit PROVE RunShown
    OBVIOUS
  <2>1. [phase |-> "absent", count |-> 0] \in Shown
    BY DEF Shown, Phases
  <2>2. fleet \in [RunWorker -> Shown]
    BY <2>1 DEF ArmInit, Blank
  <2>3. life \in [RunWorker -> Stages] /\ \A w \in RunWorker : life[w] # "ended"
    BY DEF ArmInit, Stages
  <2>4. count \in [RunWorker -> Nat] /\ call = "running"
    BY DEF ArmInit
  <2> QED  BY <2>2, <2>3, <2>4 DEF RunShown
<1>2. RunShown /\ [ArmNext]_armvars => RunShown'
  BY ShownStep
<1>3. RunShown => FinishedIsStopped
  BY DEF RunShown, FinishedIsStopped, finished, Over
<1> QED  BY <1>1, <1>2, <1>3, PTL DEF ArmSpec
===============================================================================
