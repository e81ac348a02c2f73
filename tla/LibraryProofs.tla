---------------------------- MODULE LibraryProofs -----------------------------
(***************************************************************************)
(* Proofs about parts of the malkuth library that share no state, for      *)
(* every value of their constants.                                         *)
(***************************************************************************)
EXTENDS DrainController, Rpc, Service, LogTail, SequenceTheorems, NaturalsInduction,
        WellFoundedInduction, TLAPS

-------------------------------------------------------------------------------
(***************************************************************************)
(* The drain controller, for any number of callers and waiters.            *)
(***************************************************************************)
(* One step keeps the controller, its callers and its waiters in type.     *)
LEMMA TypeStep == TypeOK /\ [Next]_vars => TypeOK'
<1> SUFFICES ASSUME TypeOK, [Next]_vars PROVE TypeOK'
  OBVIOUS
<1> USE DrainAssumption DEF TypeOK, CallerGoto, WaiterGoto, ShutdownKinds,
                            CallerPCs, WaiterPCs, atomics, callers, waiters
<1>1. ASSUME NEW c \in Caller, NEW k \in Kinds, BeginDrain(c, k) PROVE TypeOK'
  BY <1>1 DEF BeginDrain
<1>2. ASSUME NEW c \in Caller, ClearDrain(c) PROVE TypeOK'
  <2>1. draining' \in BOOLEAN /\ cpc' \in [Caller -> CallerPCs]
    BY <1>2, Zenon DEF ClearDrain
  <2>2. calls' \in [Caller -> 0..MaxCalls]
    BY <1>2 DEF ClearDrain
  <2>3. UNCHANGED <<kind, arg, begun, waiters>>
    BY <1>2 DEF ClearDrain
  <2> QED  BY <2>1, <2>2, <2>3
<1>3. ASSUME NEW c \in Caller, Continue(c) PROVE TypeOK'
  <2>1. CASE NotifyKind(c)  BY <2>1 DEF NotifyKind, NotifyWaiters
  <2>2. CASE SetDraining(c)  BY <2>2 DEF SetDraining
  <2>3. CASE NotifyDrain(c)  BY <2>3 DEF NotifyDrain, NotifyWaiters
  <2>4. CASE ResetKind(c)  BY <2>4 DEF ResetKind
  <2> QED  BY <1>3, <2>1, <2>2, <2>3, <2>4 DEF Continue
<1>4. ASSUME NEW w \in Waiter, WaiterStep(w) PROVE TypeOK'
  <2>1. CASE Check(w)  BY <2>1 DEF Check, ReturnOr, Fired
  <2>2. CASE CreateNotified(w)  BY <2>2 DEF CreateNotified
  <2>3. CASE Recheck(w)  BY <2>3 DEF Recheck, ReturnOr, Fired
  <2>4. CASE Wake(w)  BY <2>4 DEF Wake
  <2>5. CASE ReadKind(w)  BY <2>5 DEF ReadKind
  <2> QED  BY <1>4, <2>1, <2>2, <2>3, <2>4, <2>5 DEF WaiterStep
<1>5. CASE UNCHANGED vars
  BY <1>5 DEF vars
<1> QED  BY <1>1, <1>2, <1>3, <1>4, <1>5 DEF Next

(* The controller keeps its type invariant.                                *)
THEOREM TypeCorrect == Spec => []TypeOK
<1>1. Init => TypeOK
  <2> SUFFICES ASSUME Init PROVE TypeOK
    OBVIOUS
  <2>1. draining \in BOOLEAN /\ notified \in [Waiter -> BOOLEAN]
    BY Zenon DEF Init
  <2>2. calls \in [Caller -> 0..MaxCalls]
    BY DrainAssumption DEF Init
  <2> QED  BY <2>1, <2>2 DEF Init, TypeOK, ShutdownKinds, CallerPCs, WaiterPCs
<1> QED  BY <1>1, TypeStep, PTL DEF Spec

(* NoLostWakeup is inductive: the last check before a task sleeps saw the  *)
(* bit clear with its future already created, so the store that sets the   *)
(* bit comes later, and the notification after that store reaches it.      *)
LEMMA WakeupStep == TypeOK /\ NoLostWakeup /\ [Next]_vars => NoLostWakeup'
<1> SUFFICES ASSUME TypeOK, NoLostWakeup, [Next]_vars PROVE NoLostWakeup'
  OBVIOUS
<1> USE DrainAssumption DEF TypeOK, NoLostWakeup, Waiter, CallerGoto, WaiterGoto,
                            atomics, callers, waiters
<1>1. ASSUME NEW c \in Caller, NEW k \in Kinds, BeginDrain(c, k) PROVE NoLostWakeup'
  BY <1>1 DEF BeginDrain
<1>2. ASSUME NEW c \in Caller, ClearDrain(c) PROVE NoLostWakeup'
  BY <1>2 DEF ClearDrain
<1>3. ASSUME NEW c \in Caller, Continue(c) PROVE NoLostWakeup'
  <2>1. CASE NotifyKind(c)  BY <2>1, Zenon DEF NotifyKind, NotifyWaiters
  <2>2. CASE SetDraining(c)  BY <2>2 DEF SetDraining
  <2>3. CASE NotifyDrain(c)  BY <2>3 DEF NotifyDrain, NotifyWaiters
  <2>4. CASE ResetKind(c)  BY <2>4 DEF ResetKind
  <2> QED  BY <1>3, <2>1, <2>2, <2>3, <2>4 DEF Continue
<1>4. ASSUME NEW w \in Waiter, WaiterStep(w) PROVE NoLostWakeup'
  <2>1. CASE Check(w)  BY <2>1 DEF Check, ReturnOr, Fired
  <2>2. CASE CreateNotified(w)  BY <2>2 DEF CreateNotified
  <2>3. CASE Recheck(w)  BY <2>3 DEF Recheck, ReturnOr, Fired
  <2>4. CASE Wake(w)  BY <2>4 DEF Wake
  <2>5. CASE ReadKind(w)  BY <2>5 DEF ReadKind
  <2> QED  BY <1>4, <2>1, <2>2, <2>3, <2>4, <2>5 DEF WaiterStep
<1>5. CASE UNCHANGED vars
  BY <1>5 DEF vars
<1> QED  BY <1>1, <1>2, <1>3, <1>4, <1>5 DEF Next

(* No task sleeps through a drain or a kind that has been published.       *)
THEOREM WakeupsAreNotLost == Spec => []NoLostWakeup
<1>1. Init => NoLostWakeup
  BY DEF Init, NoLostWakeup, Waiter
<1> QED  BY <1>1, TypeStep, TypeCorrect, WakeupStep, PTL DEF Spec

(* A stored kind has been begun, and only wait_for_drain reads it in a     *)
(* step of its own.  Where nobody calls clear_drain it is stored for good  *)
(* before the drain bit: a caller about to set the bit, and the bit        *)
(* itself, imply a kind.                                                   *)
KindBeforeBit ==
  /\ kind = "none" \/ kind \in begun
  /\ \A w \in SignalWaiter : wpc[w] # "read_kind"
  /\ ~MayClear =>
       /\ \A c \in Caller : cpc[c] # "reset_kind" /\ (cpc[c] # "idle" => kind # "none")
       /\ draining => kind # "none"
       /\ \A w \in Waiter : wpc[w] = "read_kind" => kind # "none"

(* One step keeps KindBeforeBit and what the waiters return.               *)
LEMMA KindStep ==
  ASSUME TypeOK, KindBeforeBit, ReturnsRequestedKind, [Next]_vars
  PROVE  KindBeforeBit' /\ ReturnsRequestedKind'
<1> DEFINE Kept == KindBeforeBit' /\ ReturnsRequestedKind'
<1> SUFFICES Kept
  OBVIOUS
<1> USE DrainAssumption DEF TypeOK, KindBeforeBit, ReturnsRequestedKind, Waiter,
                            CallerGoto, WaiterGoto, atomics, callers, waiters
<1>1. ASSUME NEW c \in Caller, NEW k \in Kinds, BeginDrain(c, k) PROVE Kept
  BY <1>1 DEF BeginDrain, ShutdownKinds
<1>2. ASSUME NEW c \in Caller, ClearDrain(c) PROVE Kept
  BY <1>2 DEF ClearDrain
<1>3. ASSUME NEW c \in Caller, Continue(c) PROVE Kept
  <2>1. CASE NotifyKind(c)  BY <2>1 DEF NotifyKind
  <2>2. CASE SetDraining(c)  BY <2>2 DEF SetDraining
  <2>3. CASE NotifyDrain(c)  BY <2>3 DEF NotifyDrain
  <2>4. CASE ResetKind(c)  BY <2>4 DEF ResetKind
  <2> QED  BY <1>3, <2>1, <2>2, <2>3, <2>4, Zenon DEF Continue
<1>4. ASSUME NEW w \in Waiter, WaiterStep(w) PROVE Kept
  <2>1. CASE Check(w)  BY <2>1 DEF Check, ReturnOr, Fired
  <2>2. CASE CreateNotified(w)  BY <2>2 DEF CreateNotified
  <2>3. CASE Recheck(w)  BY <2>3 DEF Recheck, ReturnOr, Fired
  <2>4. CASE Wake(w)  BY <2>4 DEF Wake
  <2>5. CASE ReadKind(w)  BY <2>5 DEF ReadKind
  <2> QED  BY <1>4, <2>1, <2>2, <2>3, <2>4, <2>5, Zenon DEF WaiterStep
<1>5. CASE UNCHANGED vars
  BY <1>5 DEF vars
<1> QED  BY <1>1, <1>2, <1>3, <1>4, <1>5, Zenon DEF Next

(* A waiter returns a kind that was begun, or, in wait_for_drain and where *)
(* clear_drain is called, the default.                                     *)
THEOREM KindsAreRequested == Spec => []ReturnsRequestedKind
<1>1. Init => KindBeforeBit /\ ReturnsRequestedKind
  BY DEF Init, KindBeforeBit, ReturnsRequestedKind, Waiter
<1>2. TypeOK /\ KindBeforeBit /\ ReturnsRequestedKind /\ [Next]_vars =>
        KindBeforeBit' /\ ReturnsRequestedKind'
  BY KindStep
<1> QED  BY <1>1, <1>2, TypeCorrect, PTL DEF Spec

-------------------------------------------------------------------------------
(***************************************************************************)
(* JSON-RPC, for any calls, any pool and any capacity of its channels.     *)
(***************************************************************************)
InSeq(s, x) == \E i \in 1 .. Len(s) : s[i] = x

(* Head is an element of a sequence, and Tail adds none.                   *)
LEMMA TailElements ==
  ASSUME NEW T, NEW s \in Seq(T), s # <<>>
  PROVE  /\ Head(s) \in T /\ InSeq(s, Head(s)) /\ Tail(s) \in Seq(T)
         /\ \A x : InSeq(Tail(s), x) => InSeq(s, x)
<1>1. Len(s) \in Nat /\ Len(s) >= 1
  BY EmptySeq, LenProperties
<1>2. /\ Head(s) \in T /\ Tail(s) \in Seq(T) /\ Len(Tail(s)) = Len(s) - 1
      /\ \A i \in 1 .. Len(Tail(s)) : Tail(s)[i] = s[i + 1]
  BY HeadTailProperties
<1>3. InSeq(s, Head(s))
  BY <1>1 DEF InSeq
<1>4. ASSUME NEW x, InSeq(Tail(s), x) PROVE InSeq(s, x)
  <2>1. PICK i \in 1 .. Len(Tail(s)) : Tail(s)[i] = x
    BY <1>4 DEF InSeq
  <2>2. i + 1 \in 1 .. Len(s) /\ s[i + 1] = x
    BY <1>1, <1>2, <2>1
  <2> QED  BY <2>2 DEF InSeq
<1> QED  BY <1>2, <1>3, <1>4

(* Append adds the element it is given and no other.                       *)
LEMMA AppendElements ==
  ASSUME NEW T, NEW s \in Seq(T), NEW e \in T
  PROVE  /\ Append(s, e) \in Seq(T)
         /\ \A x : InSeq(Append(s, e), x) => InSeq(s, x) \/ x = e
<1>1. /\ Append(s, e) \in Seq(T) /\ Len(Append(s, e)) = Len(s) + 1 /\ Len(s) \in Nat
      /\ \A i \in 1 .. Len(s) : Append(s, e)[i] = s[i]
      /\ Append(s, e)[Len(s) + 1] = e
  BY AppendProperties, LenProperties
<1>2. ASSUME NEW x, InSeq(Append(s, e), x) PROVE InSeq(s, x) \/ x = e
  <2>1. PICK i \in 1 .. (Len(s) + 1) : Append(s, e)[i] = x
    BY <1>1, <1>2 DEF InSeq
  <2>2. i \in 1 .. Len(s) \/ i = Len(s) + 1
    BY <1>1
  <2> QED  BY <1>1, <2>1, <2>2 DEF InSeq
<1> QED  BY <1>1, <1>2

Req == [id : Nat, call : Call]
Serving == [at : {"read", "closed"}, req : {NoReq}] \cup [at : {"handle", "half"}, req : Req]

(* The empty sequence has no element.                                      *)
LEMMA EmptyHasNone == <<>> \in Seq(Req) /\ \A x : ~InSeq(<<>>, x)
BY DEF InSeq

RpcTypeOK ==
  /\ chan \in [Link -> Seq(Call)] /\ ids \in [Link -> Nat]
  /\ open \in [Link -> SUBSET Req] /\ out \in [Link -> Seq(Req)]
  /\ back \in [Link -> Seq(Req)] /\ serving \in [Link -> Serving]

(* A request or its answer is somewhere between the ends of a connection.  *)
On(k, x) ==
  \/ x \in open[k] \/ InSeq(out[k], x) \/ InSeq(back[k], x)
  \/ serving[k].at \in {"handle", "half"} /\ serving[k].req = x

(* The ids on a connection are below its next one, and an id stands for    *)
(* one call.                                                               *)
IdsApart ==
  \A k \in Link :
    /\ \A x : On(k, x) => x.id \in Nat /\ x.id < ids[k]
    /\ \A x, y : On(k, x) /\ On(k, y) /\ x.id = y.id => x.call = y.call

(* What a step may put on a connection: its next id, with one call.        *)
Fresh(k, c) == [id |-> ids[k], call |-> c]
OneNew(k) ==
  \/ ids'[k] = ids[k] /\ \A x : On(k, x)' => On(k, x)
  \/ /\ ids'[k] = ids[k] + 1
     /\ \E c \in Call : \A x : On(k, x)' => On(k, x) \/ x = Fresh(k, c)

(* Writing a request puts it on its connection, under the next id.         *)
LEMMA WriteStep ==
  ASSUME RpcTypeOK, NEW k \in Link, NEW c \in Call, Written(k, c), NextId(k)
  PROVE  /\ open' \in [Link -> SUBSET Req] /\ out' \in [Link -> Seq(Req)]
         /\ ids' \in [Link -> Nat] /\ UNCHANGED <<serving, back>>
         /\ \A j \in Link : OneNew(j)
<1> DEFINE x0 == Fresh(k, c)
<1>1. x0 \in Req
  BY DEF RpcTypeOK, Req, Fresh
<1>2. \A j \in Link : open'[j] = IF j = k THEN open[k] \cup {x0} ELSE open[j]
  BY DEF Written, RpcTypeOK, Fresh
<1>3. open' \in [Link -> SUBSET Req]
  BY <1>1 DEF Written, RpcTypeOK, Fresh
<1>4. ids' \in [Link -> Nat] /\ \A j \in Link : ids'[j] = IF j = k THEN ids[k] + 1 ELSE ids[j]
  BY DEF NextId, RpcTypeOK
<1>5. UNCHANGED <<serving, back>>
  BY DEF Written
<1>6. out[k] \in Seq(Req)
  BY DEF RpcTypeOK
<1>7. out' = out \/ out' = [out EXCEPT ![k] = Append(out[k], x0)]
  BY DEF Written, Fresh
<1> HIDE DEF x0
<1>8. Append(out[k], x0) \in Seq(Req) /\ \A x : InSeq(Append(out[k], x0), x) => InSeq(out[k], x) \/ x = x0
  BY <1>1, <1>6, AppendElements
<1>9. out' \in [Link -> Seq(Req)]
  BY <1>7, <1>8, Zenon DEF RpcTypeOK
<1>10. /\ \A j \in Link : j # k => out'[j] = out[j]
       /\ out'[k] = out[k] \/ out'[k] = Append(out[k], x0)
  BY <1>7 DEF RpcTypeOK
<1>11. ASSUME NEW j \in Link, j # k PROVE OneNew(j)
  BY <1>2, <1>4, <1>5, <1>10, <1>11, Zenon DEF OneNew, On
<1>12. \A x : On(k, x)' => On(k, x) \/ x = x0
  BY <1>2, <1>5, <1>8, <1>10, Zenon DEF On
<1>13. OneNew(k)
  BY <1>4, <1>12 DEF OneNew, x0
<1> QED  BY <1>3, <1>4, <1>5, <1>9, <1>11, <1>13

(* The end of a task takes requests off its connection.                    *)
LEMMA EndStep ==
  ASSUME RpcTypeOK, NEW k \in Link, NEW cs, Ended(k, cs), UNCHANGED <<ids, wire>>
  PROVE  RpcTypeOK' /\ \A j \in Link : OneNew(j)
<1>1. UNCHANGED <<ids, out, back, serving>>
  BY DEF wire
<1>2. /\ chan' = [chan EXCEPT ![k] = <<>>] /\ open' = [open EXCEPT ![k] = {}]
  BY DEF Ended
<1>3. chan' \in [Link -> Seq(Call)] /\ open' \in [Link -> SUBSET Req]
  BY <1>2 DEF RpcTypeOK
<1>4. \A j \in Link : open'[j] \subseteq open[j]
  BY <1>2 DEF RpcTypeOK
<1> QED  BY <1>1, <1>3, <1>4 DEF RpcTypeOK, OneNew, On

(* The steps of a connection's client end.                                 *)
LEMMA ClientWire ==
  ASSUME RpcTypeOK, NEW k \in Link, ClientStep(k)
  PROVE  RpcTypeOK' /\ \A j \in Link : OneNew(j)
<1>1. CASE TaskSend(k)
  <2>1. CASE /\ Written(k, Head(chan[k])) /\ NextId(k)
             /\ chan' = [chan EXCEPT ![k] = Tail(@)]
    <3>1. chan[k] \in Seq(Call) /\ chan[k] # <<>>
      BY <1>1 DEF TaskSend, RpcTypeOK
    <3>2. Head(chan[k]) \in Call /\ Tail(chan[k]) \in Seq(Call)
      BY <3>1, TailElements
    <3>3. chan' \in [Link -> Seq(Call)]
      BY <2>1, <3>2 DEF RpcTypeOK
    <3>4. /\ open' \in [Link -> SUBSET Req] /\ out' \in [Link -> Seq(Req)]
          /\ ids' \in [Link -> Nat] /\ UNCHANGED <<serving, back>>
          /\ \A j \in Link : OneNew(j)
      BY <2>1, <3>2, WriteStep
    <3> QED  BY <3>3, <3>4 DEF RpcTypeOK
  <2>2. CASE Ended(k, Calls(k)) /\ UNCHANGED <<ids, wire>>
    BY <2>2, EndStep
  <2> QED  BY <1>1, <2>1, <2>2 DEF TaskSend
<1>2. CASE TaskRead(k)
  <2>1. back[k] \in Seq(Req) /\ back[k] # <<>> /\ back' = [back EXCEPT ![k] = Tail(back[k])]
    BY <1>2 DEF TaskRead, read_msg, RpcTypeOK
  <2>2. Tail(back[k]) \in Seq(Req) /\ \A x : InSeq(Tail(back[k]), x) => InSeq(back[k], x)
    BY <2>1, TailElements
  <2>3. back' \in [Link -> Seq(Req)]
    BY <2>1, <2>2 DEF RpcTypeOK
  <2>4. \A j \in Link : back'[j] = IF j = k THEN Tail(back[k]) ELSE back[j]
    BY <2>1 DEF RpcTypeOK
  <2>5. open' \in [Link -> SUBSET Req] /\ \A j \in Link : open'[j] \subseteq open[j]
    BY <1>2, Zenon DEF TaskRead, RpcTypeOK
  <2>6. UNCHANGED <<chan, ids, out, serving>>
    BY <1>2, Zenon DEF TaskRead
  <2>7. ASSUME NEW j \in Link PROVE OneNew(j)
    BY <2>2, <2>4, <2>5, <2>6, Zenon DEF OneNew, On
  <2> QED  BY <2>3, <2>5, <2>6, <2>7 DEF RpcTypeOK
<1>3. CASE TaskClosed(k)
  BY <1>3, EndStep, Zenon DEF TaskClosed
<1> QED  BY <1>1, <1>2, <1>3 DEF ClientStep

(* The steps of a connection's server end.                                 *)
LEMMA ServerWire ==
  ASSUME RpcTypeOK, NEW k \in Link, ServerStep(k) \/ ServeCloses(k)
  PROVE  RpcTypeOK' /\ \A j \in Link : OneNew(j)
<1>0. out[k] \in Seq(Req) /\ back[k] \in Seq(Req) /\ serving[k] \in Serving
  BY DEF RpcTypeOK
<1>1. CASE ServeRead(k)
  <2> DEFINE r == [at |-> "handle", req |-> Head(out[k])]
  <2>1. /\ out[k] # <<>> /\ serving' = [serving EXCEPT ![k] = r]
        /\ out' = [out EXCEPT ![k] = Tail(out[k])] /\ UNCHANGED <<chan, ids, open, back>>
    BY <1>1, Zenon DEF ServeRead
  <2>2. /\ Head(out[k]) \in Req /\ InSeq(out[k], Head(out[k])) /\ Tail(out[k]) \in Seq(Req)
        /\ \A x : InSeq(Tail(out[k]), x) => InSeq(out[k], x)
    BY <1>0, <2>1, TailElements
  <2>3. r \in Serving /\ r.req = Head(out[k])
    BY <2>2 DEF Serving
  <2> HIDE DEF r
  <2>4. out' \in [Link -> Seq(Req)] /\ serving' \in [Link -> Serving]
    BY <2>1, <2>2, <2>3 DEF RpcTypeOK
  <2>5. /\ \A j \in Link : out'[j] = IF j = k THEN Tail(out[k]) ELSE out[j]
        /\ \A j \in Link : serving'[j] = IF j = k THEN r ELSE serving[j]
    BY <2>1 DEF RpcTypeOK
  <2>6. ASSUME NEW j \in Link PROVE OneNew(j)
    BY <2>1, <2>2, <2>3, <2>5, Zenon DEF OneNew, On
  <2> QED  BY <2>1, <2>4, <2>6 DEF RpcTypeOK
<1>2. CASE ServeWrite(k)
  <2> DEFINE x0 == serving[k].req
             r == IF serving[k].at = "handle" THEN [serving[k] EXCEPT !.at = "half"] ELSE Reading
  <2>1. /\ serving[k].at \in {"handle", "half"} /\ serving' = [serving EXCEPT ![k] = r]
        /\ back' = [back EXCEPT ![k] = Append(back[k], x0)] /\ UNCHANGED <<chan, ids, open, out>>
    BY <1>2 DEF ServeWrite, RpcTypeOK
  <2>2. x0 \in Req
    BY <1>0, <2>1 DEF Serving
  <2>3. r \in Serving /\ (r.at \in {"handle", "half"} => r.req = x0)
    BY <1>0, <2>1, <2>2 DEF Serving, Reading
  <2> HIDE DEF r
  <2>4. /\ Append(back[k], x0) \in Seq(Req)
        /\ \A x : InSeq(Append(back[k], x0), x) => InSeq(back[k], x) \/ x = x0
    BY <1>0, <2>2, AppendElements
  <2>5. back' \in [Link -> Seq(Req)] /\ serving' \in [Link -> Serving]
    BY <2>1, <2>3, <2>4 DEF RpcTypeOK
  <2>6. /\ \A j \in Link : back'[j] = IF j = k THEN Append(back[k], x0) ELSE back[j]
        /\ \A j \in Link : serving'[j] = IF j = k THEN r ELSE serving[j]
    BY <2>1 DEF RpcTypeOK
  <2>7. On(k, x0)
    BY <2>1 DEF On
  <2>8. \A x : On(k, x)' => On(k, x)
    BY <2>1, <2>3, <2>4, <2>6, <2>7, Zenon DEF On
  <2>9. ASSUME NEW j \in Link, j # k PROVE \A x : On(j, x)' => On(j, x)
    BY <2>1, <2>6, <2>9, Zenon DEF On
  <2> QED  BY <2>1, <2>5, <2>8, <2>9, Zenon DEF RpcTypeOK, OneNew
<1>3. CASE ServeCloses(k)
  <2> DEFINE r == [at |-> "closed", req |-> NoReq]
  <2>1. /\ serving' = [serving EXCEPT ![k] = r] /\ out' = [out EXCEPT ![k] = <<>>]
        /\ UNCHANGED <<chan, ids, open, back>>
    BY <1>3 DEF ServeCloses
  <2>2. r \in Serving /\ r.at = "closed"
    BY DEF Serving
  <2> HIDE DEF r
  <2>3. out' \in [Link -> Seq(Req)] /\ serving' \in [Link -> Serving]
    BY <2>1, <2>2, EmptyHasNone DEF RpcTypeOK
  <2>4. /\ \A j \in Link : out'[j] = IF j = k THEN <<>> ELSE out[j]
        /\ \A j \in Link : serving'[j] = IF j = k THEN r ELSE serving[j]
    BY <2>1 DEF RpcTypeOK
  <2>5. ASSUME NEW j \in Link PROVE OneNew(j)
    BY <2>1, <2>2, <2>4, EmptyHasNone, Zenon DEF OneNew, On
  <2> QED  BY <2>1, <2>3, <2>5 DEF RpcTypeOK
<1> QED  BY <1>1, <1>2, <1>3 DEF ServerStep

(* The steps of the callers.                                               *)
LEMMA CallerWire ==
  ASSUME RpcTypeOK, NEW c \in Call, PoolCall(c) \/ SoloCall(c) \/ Drop(c)
  PROVE  RpcTypeOK' /\ \A j \in Link : OneNew(j)
<1>1. CASE PoolCall(c)
  <2>1. UNCHANGED <<ids, open, out, back, serving>>
    BY <1>1, Zenon DEF PoolCall, wire
  <2>2. chan' = chan \/ \E k : chan' = [chan EXCEPT ![k] = Append(chan[k], c)]
    BY <1>1, Zenon DEF PoolCall
  <2>3. chan' \in [Link -> Seq(Call)]
    <3>1. ASSUME NEW k, chan' = [chan EXCEPT ![k] = Append(chan[k], c)] PROVE chan' \in [Link -> Seq(Call)]
      <4>1. k \in Link => Append(chan[k], c) \in Seq(Call)
        BY AppendElements DEF RpcTypeOK
      <4> QED  BY <3>1, <4>1, Zenon DEF RpcTypeOK
    <3> QED  BY <2>2, <3>1, Zenon DEF RpcTypeOK
  <2> QED  BY <2>1, <2>3 DEF RpcTypeOK, OneNew, On
<1>2. CASE SoloCall(c)
  <2>1. Solo \in Link
    BY DEF Link
  <2>2. Written(Solo, c) /\ NextId(Solo) /\ UNCHANGED chan
    BY <1>2 DEF SoloCall
  <2> QED  BY <2>1, <2>2, WriteStep DEF RpcTypeOK
<1>3. CASE Drop(c)
  <2>1. UNCHANGED <<chan, ids, out, back, serving>>
    BY <1>3 DEF Drop, wire
  <2>2. open' \in [Link -> SUBSET Req] /\ \A j \in Link : open'[j] \subseteq open[j]
    BY <1>3, Zenon DEF Drop, RpcTypeOK
  <2> QED  BY <2>1, <2>2 DEF RpcTypeOK, OneNew, On
<1> QED  BY <1>1, <1>2, <1>3

(* Every step puts at most one new request on a connection.                *)
LEMMA WireStep ==
  ASSUME RpcTypeOK, [RpcNext]_rpcvars
  PROVE  RpcTypeOK' /\ \A j \in Link : OneNew(j)
<1>1. CASE UNCHANGED rpcvars
  BY <1>1 DEF rpcvars, RpcTypeOK, OneNew, On
<1> QED  BY <1>1, CallerWire, ClientWire, ServerWire DEF RpcNext

(* So ids stay apart.                                                      *)
LEMMA IdsStep ==
  ASSUME RpcTypeOK, IdsApart, [RpcNext]_rpcvars
  PROVE  IdsApart'
<1> SUFFICES ASSUME NEW k \in Link
             PROVE  /\ \A x : On(k, x)' => x.id \in Nat /\ x.id < ids'[k]
                    /\ \A x, y : On(k, x)' /\ On(k, y)' /\ x.id = y.id => x.call = y.call
  BY Zenon DEF IdsApart
<1>1. ids[k] \in Nat /\ OneNew(k)
  BY WireStep DEF RpcTypeOK
<1>2. /\ \A x : On(k, x) => x.id \in Nat /\ x.id < ids[k]
      /\ \A x, y : On(k, x) /\ On(k, y) /\ x.id = y.id => x.call = y.call
  BY DEF IdsApart
<1>3. CASE ids'[k] = ids[k] /\ \A x : On(k, x)' => On(k, x)
  BY <1>2, <1>3
<1>4. ASSUME NEW c \in Call, ids'[k] = ids[k] + 1, \A x : On(k, x)' => On(k, x) \/ x = Fresh(k, c)
      PROVE  /\ \A x : On(k, x)' => x.id \in Nat /\ x.id < ids'[k]
             /\ \A x, y : On(k, x)' /\ On(k, y)' /\ x.id = y.id => x.call = y.call
  <2>1. Fresh(k, c).id = ids[k]
    BY DEF Fresh
  <2>2. ASSUME NEW x, On(k, x)' PROVE x.id \in Nat /\ x.id < ids'[k]
    <3>1. CASE On(k, x)
      <4>1. x.id \in Nat /\ x.id < ids[k]
        BY <1>2, <3>1, Zenon
      <4> QED  BY <1>1, <1>4, <4>1
    <3>2. CASE x = Fresh(k, c)
      <4>1. x.id = ids[k]
        BY <2>1, <3>2
      <4> QED  BY <1>1, <1>4, <4>1
    <3> QED  BY <1>4, <2>2, <3>1, <3>2, Zenon
  <2>3. ASSUME NEW x, NEW y, On(k, x)', On(k, y)', x.id = y.id PROVE x.call = y.call
    <3>1. CASE On(k, x) /\ On(k, y)  BY <1>2, <2>3, <3>1
    <3>2. CASE x = Fresh(k, c) /\ y = Fresh(k, c)  BY <3>2
    <3>3. ~(On(k, x) /\ y = Fresh(k, c)) /\ ~(On(k, y) /\ x = Fresh(k, c))
      BY <1>1, <1>2, <2>1, <2>3
    <3> QED  BY <1>4, <2>3, <3>1, <3>2, <3>3, Zenon
  <2> QED  BY <2>2, <2>3
<1> QED  BY <1>1, <1>3, <1>4, Zenon DEF OneNew

CallOK == call \in [Call -> Call \cup {"new", "waiting", "error", "dropped"}]

(* A step changes a call's state to no answer, or to the call itself.      *)
LEMMA AnswerStep ==
  ASSUME RpcTypeOK, IdsApart, CallOK, [RpcNext]_rpcvars
  PROVE  /\ CallOK'
         /\ \A c \in Call : call'[c] \in {call[c], c, "waiting", "error", "dropped"}
<1> DEFINE Good(v, c) == v \in {call[c], c, "waiting", "error", "dropped"}
<1>1. ASSUME NEW k \in Link, NEW cs, Ended(k, cs)
      PROVE  CallOK' /\ \A c \in Call : Good(call'[c], c)
  BY <1>1 DEF Ended, Answer, CallOK
<1>2. ASSUME NEW a \in Call, NEW v \in {"waiting", "error", "dropped"}, call' = [call EXCEPT ![a] = v]
      PROVE  CallOK' /\ \A c \in Call : Good(call'[c], c)
  BY <1>2 DEF CallOK
<1>3. ASSUME call' = call PROVE CallOK' /\ \A c \in Call : Good(call'[c], c)
  BY <1>3 DEF CallOK
<1>4. ASSUME NEW k \in Link, TaskRead(k)
      PROVE  CallOK' /\ \A c \in Call : Good(call'[c], c)
  <2> DEFINE h == Head(back[k])
             rs == {r \in open[k] : r.id = h.id}
  <2>1. back[k] \in Seq(Req) /\ back[k] # <<>> /\ open[k] \in SUBSET Req
    BY <1>4, Zenon DEF TaskRead, read_msg, RpcTypeOK
  <2>2. h \in Req /\ On(k, h)
    BY <2>1, TailElements DEF On
  <2>3. call' = call \/ Answer({r.call : r \in rs}, h.call)
    BY <1>4, Zenon DEF TaskRead
  <2>4. ASSUME NEW r \in rs PROVE r.call = h.call
    <3>1. On(k, r) /\ r.id = h.id
      BY DEF On
    <3> QED  BY <2>2, <3>1, Zenon DEF IdsApart
  <2>5. h.call \in Call
    BY <2>2 DEF Req
  <2> HIDE DEF h, rs
  <2>6. \A c \in {r.call : r \in rs} : c = h.call
    BY <2>4
  <2>7. CASE Answer({r.call : r \in rs}, h.call)
    <3>1. call' \in [Call -> Call \cup {"new", "waiting", "error", "dropped"}]
      BY <2>5, <2>7 DEF Answer, CallOK
    <3>2. ASSUME NEW c \in Call PROVE call'[c] = call[c] \/ call'[c] = c
      BY <2>6, <2>7 DEF Answer
    <3> QED  BY <3>1, <3>2 DEF CallOK
  <2> QED  BY <1>3, <2>3, <2>7
<1>5. ASSUME NEW a \in Call, PoolCall(a) \/ SoloCall(a) \/ Drop(a)
      PROVE  CallOK' /\ \A c \in Call : Good(call'[c], c)
  <2>1. PICK v \in {"waiting", "error", "dropped"} : call' = [call EXCEPT ![a] = v]
    BY <1>5, Zenon DEF PoolCall, SoloCall, Drop
  <2> QED  BY <1>2, <2>1, Zenon
<1>6. ASSUME NEW k \in Link, TaskSend(k) \/ TaskClosed(k)
      PROVE  CallOK' /\ \A c \in Call : Good(call'[c], c)
  <2>1. call' = call \/ Ended(k, Calls(k))
    BY <1>6, Zenon DEF TaskSend, TaskClosed
  <2> QED  BY <1>1, <1>3, <2>1
<1>7. ASSUME NEW k \in Link, ServerStep(k) \/ ServeCloses(k)
      PROVE  CallOK' /\ \A c \in Call : Good(call'[c], c)
  <2>1. call' = call
    BY <1>7 DEF ServerStep, ServeRead, ServeWrite, ServeCloses
  <2> QED  BY <1>3, <2>1
<1>8. CASE UNCHANGED rpcvars
  BY <1>3, <1>8 DEF rpcvars
<1> QED
  BY <1>4, <1>5, <1>6, <1>7, <1>8 DEF RpcNext, ClientStep

(* Nothing is on a connection, and nobody waits, at the start.             *)
LEMMA RpcStart == RpcInit => RpcTypeOK /\ IdsApart /\ CallOK /\ AnswersMatch
<1> SUFFICES ASSUME RpcInit PROVE RpcTypeOK /\ IdsApart /\ CallOK /\ AnswersMatch
  OBVIOUS
<1>1. Reading \in Serving /\ Reading.at = "read"
  BY DEF Reading, Serving
<1>2. RpcTypeOK
  BY <1>1, EmptyHasNone DEF RpcInit, RpcTypeOK
<1>3. \A k \in Link : \A x : ~On(k, x)
  BY <1>1, EmptyHasNone DEF RpcInit, On
<1>4. IdsApart
  BY <1>3 DEF IdsApart
<1>5. CallOK /\ AnswersMatch
  BY RpcAssumption DEF RpcInit, CallOK, AnswersMatch
<1> QED  BY <1>2, <1>4, <1>5

(* A caller gets the answer to its own request, whatever calls overlap,    *)
(* are dropped, or are left behind by a connection that ends.              *)
THEOREM AnswersAreTheCallers == RpcSpec => []AnswersMatch
<1> DEFINE RpcInv == RpcTypeOK /\ IdsApart /\ CallOK /\ AnswersMatch
<1>1. RpcInit => RpcInv
  BY RpcStart
<1>2. RpcInv /\ [RpcNext]_rpcvars => RpcInv'
  <2> SUFFICES ASSUME RpcInv, [RpcNext]_rpcvars PROVE RpcInv'
    OBVIOUS
  <2>1. RpcTypeOK' /\ IdsApart' /\ CallOK'
    BY WireStep, IdsStep, AnswerStep
  <2>2. \A c \in Call : call'[c] \in {call[c], c, "waiting", "error", "dropped"}
    BY AnswerStep
  <2>3. AnswersMatch'
    BY <2>2, RpcAssumption DEF AnswersMatch
  <2> QED  BY <2>1, <2>3
<1> QED  BY <1>1, <1>2, PTL DEF RpcSpec

-------------------------------------------------------------------------------
(***************************************************************************)
(* No caller waits for an answer that cannot come.                         *)
(***************************************************************************)
(* A response is two chunks.  The i-th chunk of b is the first of its      *)
(* response, when rd says whether a first one has been read already.       *)
First(i, rd) == IF rd THEN i % 2 = 0 ELSE i % 2 = 1

(* The chunks b on their way, with the server's end in state sv: the two   *)
(* of a response follow each other, and the last is alone exactly when the *)
(* server has written half of its response.                                *)
Frames(b, sv, rd) ==
  /\ \A i \in 1 .. Len(b) - 1 : First(i, rd) => b[i + 1] = b[i]
  /\ sv.at \in {"read", "handle"} => ~First(Len(b), rd)
  /\ sv.at = "half" => First(Len(b), rd) /\ (b # <<>> => b[Len(b)] = sv.req)

(* First chunks and second ones alternate.                                 *)
LEMMA FirstAlternates ==
  ASSUME NEW i \in Nat, NEW rd \in BOOLEAN
  PROVE  (First(i + 1, rd) <=> ~First(i, rd)) /\ (First(i, ~rd) <=> First(i + 1, rd))
<1>1. (i + 1) % 2 = 1 <=> i % 2 = 0
  OBVIOUS
<1>2. (i + 1) % 2 = 0 <=> i % 2 = 1
  OBVIOUS
<1>3. i % 2 = 1 <=> ~(i % 2 = 0)
  OBVIOUS
<1>4. CASE rd = TRUE
  BY <1>1, <1>2, <1>3, <1>4, Zenon DEF First
<1>5. CASE rd = FALSE
  BY <1>1, <1>2, <1>3, <1>5, Zenon DEF First
<1> QED  BY <1>4, <1>5, Zenon

(* The server writes a chunk.                                              *)
LEMMA FramesWrite ==
  ASSUME NEW T, NEW b \in Seq(T), NEW sv, NEW sw, NEW rd \in BOOLEAN, Frames(b, sv, rd),
         sv.req \in T,
         \/ sv.at = "handle" /\ sw.at = "half" /\ sw.req = sv.req
         \/ sv.at = "half" /\ sw.at = "read"
  PROVE  Frames(Append(b, sv.req), sw, rd)
<1> DEFINE l == Len(b)
           a == Append(b, sv.req)
<1>1. /\ l \in Nat /\ Len(a) = l + 1 /\ a \in Seq(T) /\ a # <<>>
      /\ \A i \in 1 .. l : a[i] = b[i]
      /\ a[l + 1] = sv.req
  BY LenProperties, AppendProperties
<1>2. First(l + 1, rd) <=> ~First(l, rd)
  BY <1>1, FirstAlternates
<1>3. b # <<>> <=> l # 0
  BY EmptySeq
<1> HIDE DEF a, l
<1>4. /\ \A i \in 1 .. l - 1 : First(i, rd) => b[i + 1] = b[i]
      /\ sv.at \in {"read", "handle"} => ~First(l, rd)
      /\ sv.at = "half" => First(l, rd) /\ (l # 0 => b[l] = sv.req)
  BY <1>3, Zenon DEF Frames, l
<1>5. ASSUME NEW i \in 1 .. l, First(i, rd) PROVE a[i + 1] = a[i]
  <2>1. CASE i = l
    <3>1. sv.at = "half" /\ b[l] = sv.req
      BY <1>1, <1>4, <1>5, <2>1
    <3> QED  BY <1>1, <2>1, <3>1
  <2>2. CASE i # l
    <3>1. i \in 1 .. l - 1 /\ i + 1 \in 1 .. l
      BY <1>1, <2>2
    <3> QED  BY <1>1, <1>4, <1>5, <3>1
  <2> QED  BY <2>1, <2>2
<1>6. (l + 1) - 1 = l
  BY <1>1
<1>7. sw.at \in {"read", "handle"} => ~First(l + 1, rd)
  BY <1>2, <1>4
<1>8. sw.at = "half" => First(l + 1, rd) /\ a[l + 1] = sw.req
  BY <1>1, <1>2, <1>4
<1> QED  BY <1>1, <1>5, <1>6, <1>7, <1>8 DEF Frames, a

(* The client reads a chunk.                                               *)
LEMMA FramesRead ==
  ASSUME NEW T, NEW b \in Seq(T), b # <<>>, NEW sv, NEW rd \in BOOLEAN, Frames(b, sv, rd)
  PROVE  Frames(Tail(b), sv, ~rd)
<1> DEFINE l == Len(b)
           t == Tail(b)
           m == l - 1
<1>1. /\ l \in Nat /\ l >= 1 /\ Len(t) = m /\ t \in Seq(T)
      /\ \A i \in 1 .. m : t[i] = b[i + 1]
  BY LenProperties, EmptySeq, HeadTailProperties
<1>2. m \in Nat /\ m + 1 = l
  BY <1>1
<1>3. /\ \A i \in 1 .. m : First(i, rd) => b[i + 1] = b[i]
      /\ sv.at \in {"read", "handle"} => ~First(l, rd)
      /\ sv.at = "half" => First(l, rd) /\ b[l] = sv.req
  BY Zenon DEF Frames
<1>4. t # <<>> <=> m # 0
  BY <1>1, EmptySeq, Zenon
<1> HIDE DEF l, t, m
<1>5. First(m, ~rd) <=> First(l, rd)
  BY <1>2, FirstAlternates
<1>6. ASSUME NEW i \in 1 .. m - 1, First(i, ~rd) PROVE t[i + 1] = t[i]
  <2>1. i \in Nat /\ i \in 1 .. m /\ i + 1 \in 1 .. m
    BY <1>2
  <2>2. First(i + 1, rd)
    BY <1>6, <2>1, FirstAlternates
  <2> QED  BY <1>1, <1>3, <2>1, <2>2
<1>7. sv.at = "half" /\ t # <<>> => t[m] = sv.req
  <2>1. m # 0 => m \in 1 .. m
    BY <1>2
  <2> QED  BY <1>1, <1>2, <1>3, <1>4, <2>1
<1> QED  BY <1>1, <1>3, <1>5, <1>6, <1>7 DEF Frames, t, m

(* After the first chunk of a response the second is still to come.        *)
LEMMA SecondChunk ==
  ASSUME NEW T, NEW b \in Seq(T), b # <<>>, NEW sv, Frames(b, sv, FALSE),
         sv.at \in {"read", "handle", "half"}
  PROVE  InSeq(Tail(b), Head(b)) \/ (sv.at = "half" /\ sv.req = Head(b))
<1> DEFINE l == Len(b)
<1>1. /\ l \in Nat /\ l >= 1 /\ Head(b) = b[1] /\ Len(Tail(b)) = l - 1
      /\ \A i \in 1 .. l - 1 : Tail(b)[i] = b[i + 1]
  BY LenProperties, EmptySeq, HeadTailProperties
<1>2. First(1, FALSE)
  BY DEF First
<1>3. /\ \A i \in 1 .. l - 1 : First(i, FALSE) => b[i + 1] = b[i]
      /\ sv.at \in {"read", "handle"} => ~First(l, FALSE)
      /\ sv.at = "half" => b[l] = sv.req
  BY Zenon DEF Frames
<1> HIDE DEF l
<1>4. CASE l = 1
  BY <1>1, <1>2, <1>3, <1>4, Zenon
<1>5. CASE l # 1
  <2>1. 1 \in 1 .. l - 1
    BY <1>1, <1>5
  <2>2. Tail(b)[1] = Head(b)
    BY <1>1, <1>2, <1>3, <2>1, Zenon
  <2> QED  BY <1>1, <2>1, <2>2 DEF InSeq
<1> QED  BY <1>4, <1>5

(* The request r, or its answer, is still between the two ends, or the     *)
(* peer is gone, which the client's task will see.                         *)
Coming(k, r) ==
  \/ Closed(k) \/ InSeq(out[k], r) \/ InSeq(back[k], r)
  \/ serving[k].at \in {"handle", "half"} /\ serving[k].req = r

(* The task of a connection with calls runs, and has an answer coming for  *)
(* each it wrote.                                                          *)
ServedOn(k) ==
  /\ chan[k] # <<>> \/ open[k] # {} => task[k]
  /\ \A r \in open[k] : Coming(k, r)
FramedOn(k) == Frames(back[k], serving[k], rd_buf[k])
HeldBy(k, c) == InSeq(chan[k], c) \/ \E r \in open[k] : r.call = c
CallsHeld == \A c \in Call : call[c] = "waiting" => \E k \in Link : HeldBy(k, c)

RpcFlags ==
  /\ task \in [Link -> BOOLEAN] /\ rd_buf \in [Link -> BOOLEAN]
  /\ turn \in 0 .. Len(Conn) - 1

(* The safety of CallEnds: a caller that waits is held by the task of some *)
(* connection, and either its request is still to be written, or the       *)
(* answer is on its way, or the connection is closing.                     *)
NoCallStranded ==
  \A c \in Call : call[c] = "waiting" =>
    \E k \in Link : /\ task[k]
                    /\ \/ InSeq(chan[k], c)
                       \/ \E r \in open[k] : r.call = c /\ Coming(k, r)

(* A step of one connection leaves the others as they are.                 *)
SameLink(j) ==
  /\ chan'[j] = chan[j] /\ open'[j] = open[j] /\ task'[j] = task[j] /\ out'[j] = out[j]
  /\ serving'[j] = serving[j] /\ back'[j] = back[j] /\ rd_buf'[j] = rd_buf[j]

(* What holds of a connection still holds after a step of another.         *)
LEMMA LinkFrame ==
  ASSUME NEW j, SameLink(j)
  PROVE  /\ ServedOn(j) => ServedOn(j)'
         /\ FramedOn(j) => FramedOn(j)'
         /\ \A c : HeldBy(j, c) => HeldBy(j, c)'
<1>1. ServedOn(j) => ServedOn(j)'
  BY Zenon DEF SameLink, ServedOn, Coming, Closed
<1>2. FramedOn(j) => FramedOn(j)'
  BY Zenon DEF SameLink, FramedOn
<1>3. \A c : HeldBy(j, c) => HeldBy(j, c)'
  BY Zenon DEF SameLink, HeldBy
<1> QED  BY <1>1, <1>2, <1>3

(* What is in a queue is in it still when another comes behind it.         *)
LEMMA AppendKeeps ==
  ASSUME NEW T, NEW s \in Seq(T), NEW e \in T
  PROVE  /\ Append(s, e) # <<>> /\ InSeq(Append(s, e), e)
         /\ \A x : InSeq(s, x) => InSeq(Append(s, e), x)
<1>1. /\ Append(s, e) # <<>> /\ Len(Append(s, e)) = Len(s) + 1 /\ Len(s) \in Nat
      /\ \A i \in 1 .. Len(s) : Append(s, e)[i] = s[i]
      /\ Append(s, e)[Len(s) + 1] = e
  BY AppendProperties, LenProperties
<1>2. Len(s) + 1 \in 1 .. Len(s) + 1 /\ \A i \in 1 .. Len(s) : i \in 1 .. Len(s) + 1
  BY <1>1
<1> QED  BY <1>1, <1>2, Zenon DEF InSeq

(* What is in a queue is in it still once another has been taken.          *)
LEMMA TailKeeps ==
  ASSUME NEW T, NEW s \in Seq(T), s # <<>>
  PROVE  \A x : InSeq(s, x) => x = Head(s) \/ InSeq(Tail(s), x)
<1>1. /\ Len(s) \in Nat /\ Len(s) >= 1 /\ Head(s) = s[1] /\ Len(Tail(s)) = Len(s) - 1
      /\ \A i \in 1 .. Len(s) - 1 : Tail(s)[i] = s[i + 1]
  BY LenProperties, EmptySeq, HeadTailProperties
<1>2. ASSUME NEW x, NEW i \in 1 .. Len(s), s[i] = x PROVE x = Head(s) \/ InSeq(Tail(s), x)
  <2>1. CASE i = 1
    BY <1>1, <1>2, <2>1
  <2>2. CASE i # 1
    <3> DEFINE j == i - 1
    <3>1. j \in 1 .. Len(s) - 1 /\ j + 1 = i
      BY <1>1, <2>2
    <3> HIDE DEF j
    <3>2. Tail(s)[j] = x
      BY <1>1, <1>2, <3>1
    <3> QED  BY <1>1, <3>1, <3>2 DEF InSeq
  <2> QED  BY <2>1, <2>2
<1> QED  BY <1>2, Zenon DEF InSeq

(* The flags stay in type.                                                 *)
LEMMA FlagsStep ==
  ASSUME RpcFlags, [RpcNext]_rpcvars
  PROVE  RpcFlags'
<1>1. task' = task \/ \E k \in Link : task' = [task EXCEPT ![k] = FALSE]
  BY Zenon DEF RpcNext, PoolCall, SoloCall, Drop, ClientStep, TaskSend, TaskRead, TaskClosed, Ended,
               ServerStep, ServeRead, ServeWrite, ServeCloses, rpcvars
<1>2. rd_buf' = rd_buf \/ \E k \in Link : rd_buf' = [rd_buf EXCEPT ![k] = ~rd_buf[k]]
  BY Zenon DEF RpcNext, PoolCall, SoloCall, Drop, ClientStep, TaskSend, TaskRead, TaskClosed, Written,
               read_msg, ServerStep, ServeRead, ServeWrite, ServeCloses, rpcvars, wire
<1>3. turn' = turn \/ turn' = (turn + 1) % Len(Conn)
  BY Zenon DEF RpcNext, PoolCall, SoloCall, Drop, ClientStep, TaskSend, TaskRead, TaskClosed,
               ServerStep, ServeRead, ServeWrite, ServeCloses, rpcvars
<1>4. task' \in [Link -> BOOLEAN]
  BY <1>1, Zenon DEF RpcFlags
<1>5. rd_buf' \in [Link -> BOOLEAN]
  BY <1>2, Zenon DEF RpcFlags
<1>6. turn' \in 0 .. Len(Conn) - 1
  <2>1. Len(Conn) \in Nat /\ Len(Conn) >= 1
    BY RpcAssumption, EmptySeq, LenProperties
  <2>2. turn \in Nat
    BY DEF RpcFlags
  <2>3. (turn + 1) % Len(Conn) \in 0 .. Len(Conn) - 1
    BY <2>1, <2>2
  <2> QED  BY <1>3, <2>3 DEF RpcFlags
<1> QED  BY <1>4, <1>5, <1>6 DEF RpcFlags

LinksKept == \A k \in Link : FramedOn(k) /\ ServedOn(k)

(* A step of connection k keeps the links and the waiting calls if it does *)
(* so for k, and for the calls k holds.                                    *)
LEMMA OneLink ==
  ASSUME NEW k \in Link, LinksKept, CallsHeld, \A j \in Link : j # k => SameLink(j),
         FramedOn(k)', ServedOn(k)',
         \A c \in Call : call'[c] = "waiting" =>
                           call[c] = "waiting" /\ (HeldBy(k, c) => HeldBy(k, c)')
  PROVE  LinksKept' /\ CallsHeld'
<1>1. ASSUME NEW j \in Link PROVE FramedOn(j)' /\ ServedOn(j)'
  <2>1. CASE j = k  BY <2>1, Zenon
  <2>2. CASE j # k
    <3>1. SameLink(j)
      BY <2>2, Zenon
    <3> QED  BY <3>1, LinkFrame, Zenon DEF LinksKept
  <2> QED  BY <2>1, <2>2, Zenon
<1>2. ASSUME NEW c \in Call, call'[c] = "waiting" PROVE \E j \in Link : HeldBy(j, c)'
  <2>1. PICK j \in Link : HeldBy(j, c)
    BY <1>2, Zenon DEF CallsHeld
  <2>2. CASE j = k  BY <1>2, <2>1, <2>2, Zenon
  <2>3. CASE j # k
    <3>1. SameLink(j)
      BY <2>3, Zenon
    <3> QED  BY <2>1, <3>1, LinkFrame, Zenon
  <2> QED  BY <2>2, <2>3, Zenon
<1>3. LinksKept'
  BY <1>1, Zenon DEF LinksKept
<1>4. CallsHeld'
  BY <1>2, Zenon DEF CallsHeld
<1> QED  BY <1>3, <1>4

(* A request that is written is on the wire, or its peer is gone.          *)
LEMMA WrittenKeeps ==
  ASSUME RpcTypeOK, NEW k \in Link, FramedOn(k), ServedOn(k), task[k],
         NEW c \in Call, Written(k, c), UNCHANGED task
  PROVE  /\ FramedOn(k)' /\ ServedOn(k)'
         /\ Fresh(k, c) \in open'[k] /\ open[k] \subseteq open'[k] /\ Fresh(k, c).call = c
         /\ \A j \in Link : j # k => /\ open'[j] = open[j] /\ out'[j] = out[j]
         /\ UNCHANGED <<serving, back, rd_buf>>
<1> DEFINE x0 == Fresh(k, c)
<1>1. x0 \in Req /\ x0.call = c
  BY DEF RpcTypeOK, Req, Fresh
<1>2. \A j \in Link : open'[j] = IF j = k THEN open[k] \cup {x0} ELSE open[j]
  BY DEF Written, RpcTypeOK, Fresh
<1>3. UNCHANGED <<serving, back, rd_buf, task>>
  BY Zenon DEF Written
<1>4. out' = IF Closed(k) THEN out ELSE [out EXCEPT ![k] = Append(out[k], x0)]
  BY Zenon DEF Written, Fresh
<1>5. out[k] \in Seq(Req)
  BY DEF RpcTypeOK
<1> HIDE DEF x0
<1>6. InSeq(Append(out[k], x0), x0) /\ \A x : InSeq(out[k], x) => InSeq(Append(out[k], x0), x)
  BY <1>1, <1>5, AppendKeeps, Zenon
<1>7. /\ \A j \in Link : j # k => out'[j] = out[j]
      /\ out'[k] = IF Closed(k) THEN out[k] ELSE Append(out[k], x0)
  BY <1>4, Zenon DEF RpcTypeOK
<1>8. FramedOn(k)'
  BY <1>3, Zenon DEF FramedOn
<1>9. ASSUME NEW r \in open'[k] PROVE Coming(k, r)'
  <2>1. Closed(k)' <=> Closed(k)
    BY <1>3, Zenon DEF Closed
  <2>2. CASE Closed(k)
    BY <2>1, <2>2, Zenon DEF Coming
  <2>3. CASE ~Closed(k) /\ r = x0
    BY <1>6, <1>7, <2>3, Zenon DEF Coming
  <2>4. CASE ~Closed(k) /\ r \in open[k]
    <3>1. Coming(k, r)
      BY <2>4, Zenon DEF ServedOn
    <3> QED  BY <1>3, <1>6, <1>7, <2>4, <3>1, Zenon DEF Coming
  <2>5. r \in open[k] \/ r = x0
    BY <1>2, Zenon
  <2> QED  BY <2>2, <2>3, <2>4, <2>5, Zenon
<1>10. ServedOn(k)'
  BY <1>3, <1>9, Zenon DEF ServedOn
<1>11. x0 \in open'[k] /\ open[k] \subseteq open'[k]
  BY <1>2
<1> QED  BY <1>1, <1>2, <1>3, <1>7, <1>8, <1>10, <1>11, Zenon DEF x0

(* The task of k ends and drops the senders it holds.                      *)
LEMMA EndKeepsCalls ==
  ASSUME RpcTypeOK, RpcFlags, NEW k \in Link, LinksKept, CallsHeld, CallOK,
         Ended(k, Calls(k)), UNCHANGED wire
  PROVE  LinksKept' /\ CallsHeld'
<1>1. /\ chan' = [chan EXCEPT ![k] = <<>>] /\ open' = [open EXCEPT ![k] = {}]
      /\ task' = [task EXCEPT ![k] = FALSE] /\ Answer(Calls(k), "error")
  BY DEF Ended
<1>2. UNCHANGED <<out, serving, back, rd_buf>>
  BY DEF wire
<1>3. /\ \A j \in Link : j # k => chan'[j] = chan[j] /\ open'[j] = open[j] /\ task'[j] = task[j]
      /\ chan'[k] = <<>> /\ open'[k] = {}
  BY <1>1, Zenon DEF RpcTypeOK, RpcFlags
<1>4. \A j \in Link : j # k => SameLink(j)
  BY <1>2, <1>3, Zenon DEF SameLink
<1>5. FramedOn(k)'
  BY <1>2, Zenon DEF FramedOn, LinksKept
<1>6. ServedOn(k)'
  BY <1>3, Zenon DEF ServedOn
<1>7. ASSUME NEW c \in Call, call'[c] = "waiting" PROVE call[c] = "waiting" /\ ~HeldBy(k, c)
  <2>1. call'[c] = IF c \in Calls(k) /\ call[c] = "waiting" THEN "error" ELSE call[c]
    BY <1>1, Zenon DEF Answer
  <2>2. call[c] = "waiting" /\ c \notin Calls(k)
    BY <1>7, <2>1
  <2>3. DOMAIN chan[k] = 1 .. Len(chan[k])
    BY LenProperties DEF RpcTypeOK
  <2> QED  BY <2>2, <2>3, Zenon DEF Calls, HeldBy, InSeq
<1> QED  BY <1>4, <1>5, <1>6, <1>7, OneLink, Zenon

(* The client's end of a connection takes a call, reads or ends.           *)
LEMMA ClientKeeps ==
  ASSUME RpcTypeOK, RpcFlags, CallOK, LinksKept, CallsHeld, NEW k \in Link, ClientStep(k)
  PROVE  LinksKept' /\ CallsHeld'
<1>0. FramedOn(k) /\ ServedOn(k)
  BY Zenon DEF LinksKept
<1>1. CASE /\ task[k] /\ chan[k] # <<>> /\ Written(k, Head(chan[k]))
           /\ chan' = [chan EXCEPT ![k] = Tail(chan[k])] /\ UNCHANGED <<call, task>>
  <2> DEFINE c0 == Head(chan[k])
  <2>1. chan[k] \in Seq(Call) /\ chan[k] # <<>>
    BY <1>1 DEF RpcTypeOK
  <2>2. c0 \in Call /\ \A x : InSeq(chan[k], x) => x = c0 \/ InSeq(Tail(chan[k]), x)
    BY <2>1, TailElements, TailKeeps
  <2>3. task[k] /\ Written(k, c0) /\ UNCHANGED task
    BY <1>1, Zenon
  <2> HIDE DEF c0
  <2>4. /\ FramedOn(k)' /\ ServedOn(k)'
        /\ Fresh(k, c0) \in open'[k] /\ open[k] \subseteq open'[k] /\ Fresh(k, c0).call = c0
        /\ \A j \in Link : j # k => /\ open'[j] = open[j] /\ out'[j] = out[j]
        /\ UNCHANGED <<serving, back, rd_buf>>
    BY <1>0, <2>2, <2>3, WrittenKeeps, Zenon
  <2>5. chan'[k] = Tail(chan[k]) /\ \A j \in Link : j # k => chan'[j] = chan[j]
    BY <1>1, Zenon DEF RpcTypeOK
  <2>6. \A j \in Link : j # k => SameLink(j)
    BY <1>1, <2>4, <2>5, Zenon DEF SameLink
  <2>7. ASSUME NEW c \in Call, HeldBy(k, c) PROVE HeldBy(k, c)'
    <3>1. CASE c = c0
      BY <2>4, <3>1, Zenon DEF HeldBy
    <3>2. CASE InSeq(Tail(chan[k]), c)
      BY <2>5, <3>2, Zenon DEF HeldBy
    <3>3. CASE \E r \in open[k] : r.call = c
      BY <2>4, <3>3, Zenon DEF HeldBy
    <3> QED  BY <2>2, <2>7, <3>1, <3>2, <3>3, Zenon DEF HeldBy
  <2>8. \A c \in Call : call'[c] = "waiting" =>
                          call[c] = "waiting" /\ (HeldBy(k, c) => HeldBy(k, c)')
    BY <1>1, <2>7, Zenon
  <2> QED  BY <2>4, <2>6, <2>8, OneLink, Zenon
<1>2. CASE Ended(k, Calls(k)) /\ UNCHANGED wire
  BY <1>2, EndKeepsCalls, Zenon
<1>3. CASE TaskRead(k)
  <2> DEFINE h == Head(back[k])
             rs == {r \in open[k] : r.id = h.id}
  <2>1. /\ task[k] /\ back[k] # <<>> /\ back' = [back EXCEPT ![k] = Tail(back[k])]
        /\ rd_buf' = [rd_buf EXCEPT ![k] = ~rd_buf[k]]
        /\ UNCHANGED <<chan, task, out, serving>>
    BY <1>3, Zenon DEF TaskRead, read_msg
  <2>2. back[k] \in Seq(Req) /\ rd_buf[k] \in BOOLEAN
    BY Zenon DEF RpcTypeOK, RpcFlags
  <2>3. /\ back'[k] = Tail(back[k]) /\ rd_buf'[k] = ~rd_buf[k]
        /\ \A j \in Link : j # k => back'[j] = back[j] /\ rd_buf'[j] = rd_buf[j]
    BY <2>1, Zenon DEF RpcTypeOK, RpcFlags
  <2>4. Frames(back[k], serving[k], rd_buf[k])
    BY <1>0, Zenon DEF FramedOn
  <2>5. FramedOn(k)'
    <3>1. Frames(Tail(back[k]), serving[k], ~rd_buf[k])
      BY <2>1, <2>2, <2>4, FramesRead, Zenon
    <3>2. serving'[k] = serving[k]
      BY <2>1, Zenon
    <3> QED  BY <2>3, <3>1, <3>2, Zenon DEF FramedOn
  <2>6. \A x : InSeq(back[k], x) => x = h \/ InSeq(back'[k], x)
    BY <2>1, <2>2, <2>3, TailKeeps, Zenon
  <2>7. CASE rd_buf[k] = FALSE
    <3>1. UNCHANGED <<call, open>>
      BY <1>3, <2>7, Zenon DEF TaskRead
    <3>2. Closed(k) \/ InSeq(back'[k], h) \/ (serving[k].at = "half" /\ serving[k].req = h)
      <4>1. serving[k].at \in {"read", "closed", "handle", "half"}
        BY DEF RpcTypeOK, Serving
      <4>2. CASE serving[k].at = "closed"  BY <4>2, Zenon DEF Closed
      <4>3. CASE serving[k].at \in {"read", "handle", "half"}
        <5>1. Frames(back[k], serving[k], FALSE)
          BY <2>4, <2>7, Zenon
        <5> QED  BY <2>1, <2>2, <2>3, <4>3, <5>1, SecondChunk, Zenon
      <4> QED  BY <4>1, <4>2, <4>3, Zenon
    <3> HIDE DEF h
    <3>3. ASSUME NEW r \in open[k] PROVE Coming(k, r)'
      <4>1. Coming(k, r)
        BY <1>0, Zenon DEF ServedOn
      <4>2. serving'[k] = serving[k] /\ out'[k] = out[k]
        BY <2>1, Zenon
      <4>3. CASE Closed(k) \/ InSeq(out[k], r)
        BY <4>2, <4>3, Zenon DEF Coming, Closed
      <4>4. CASE serving[k].at \in {"handle", "half"} /\ serving[k].req = r
        BY <4>2, <4>4, Zenon DEF Coming
      <4>5. CASE InSeq(back'[k], r)
        BY <4>5, Zenon DEF Coming
      <4>6. CASE r = h
        <5>1. CASE serving[k].at = "half" /\ serving[k].req = h
          BY <4>4, <4>6, <5>1
        <5> QED  BY <3>2, <4>3, <4>5, <4>6, <5>1, Zenon
      <4> QED  BY <2>6, <4>1, <4>3, <4>4, <4>5, <4>6, Zenon DEF Coming
    <3>4. ServedOn(k)'
      BY <2>1, <3>1, <3>3, Zenon DEF ServedOn
    <3>5. \A j \in Link : j # k => SameLink(j)
      BY <2>1, <2>3, <3>1, Zenon DEF SameLink
    <3>6. \A c \in Call : call'[c] = "waiting" =>
                            call[c] = "waiting" /\ (HeldBy(k, c) => HeldBy(k, c)')
      BY <2>1, <3>1, Zenon DEF HeldBy
    <3> QED  BY <2>5, <3>4, <3>5, <3>6, OneLink, Zenon
  <2>8. CASE rd_buf[k] = TRUE
    <3>1. open' = [open EXCEPT ![k] = open[k] \ rs] /\ Answer({r.call : r \in rs}, h.call)
      BY <1>3, <2>8, Zenon DEF TaskRead
    <3>2. open'[k] = open[k] \ rs /\ \A j \in Link : j # k => open'[j] = open[j]
      BY <3>1, Zenon DEF RpcTypeOK
    <3>3. h \in Req /\ h.call # "waiting"
      <4>1. h \in Req
        BY <2>1, <2>2, TailElements, Zenon
      <4> QED  BY <4>1, RpcAssumption DEF Req
    <3> HIDE DEF h
    <3>4. ASSUME NEW r \in open'[k] PROVE r \in open[k] /\ Coming(k, r)'
      <4>1. r \in open[k] /\ r # h
        BY <3>2
      <4>2. Coming(k, r)
        BY <1>0, <4>1, Zenon DEF ServedOn
      <4> QED  BY <2>1, <2>6, <4>1, <4>2, Zenon DEF Coming, Closed
    <3>5. ServedOn(k)'
      BY <2>1, <3>4, Zenon DEF ServedOn
    <3>6. \A j \in Link : j # k => SameLink(j)
      BY <2>1, <2>3, <3>2, Zenon DEF SameLink
    <3>7. ASSUME NEW c \in Call, call'[c] = "waiting"
          PROVE  call[c] = "waiting" /\ (HeldBy(k, c) => HeldBy(k, c)')
      <4>1. call'[c] = IF c \in {r.call : r \in rs} /\ call[c] = "waiting" THEN h.call ELSE call[c]
        BY <3>1, Zenon DEF Answer
      <4>2. call[c] = "waiting" /\ c \notin {r.call : r \in rs}
        BY <3>3, <3>7, <4>1
      <4>3. \A r \in open[k] : r.call = c => r \in open'[k]
        BY <3>2, <4>2
      <4> QED  BY <2>1, <4>2, <4>3, Zenon DEF HeldBy
    <3> QED  BY <2>5, <3>5, <3>6, <3>7, OneLink, Zenon
  <2> QED  BY <2>2, <2>7, <2>8, Zenon
<1> QED  BY <1>1, <1>2, <1>3, Zenon DEF ClientStep, TaskSend, TaskClosed, wire

(* The server's end reads, writes a chunk or closes.                       *)
LEMMA ServerKeeps ==
  ASSUME RpcTypeOK, RpcFlags, LinksKept, CallsHeld, NEW k \in Link, ServerStep(k) \/ ServeCloses(k)
  PROVE  LinksKept' /\ CallsHeld'
<1>0. FramedOn(k) /\ ServedOn(k)
  BY Zenon DEF LinksKept
<1>1. /\ UNCHANGED <<call, chan, open, task, rd_buf>>
      /\ \A j \in Link : j # k => out'[j] = out[j] /\ serving'[j] = serving[j] /\ back'[j] = back[j]
  BY Zenon DEF ServerStep, ServeRead, ServeWrite, ServeCloses, RpcTypeOK
<1>2. \A j \in Link : j # k => SameLink(j)
  BY <1>1, Zenon DEF SameLink
<1>3. \A c \in Call : call'[c] = "waiting" =>
                        call[c] = "waiting" /\ (HeldBy(k, c) => HeldBy(k, c)')
  BY <1>1, Zenon DEF HeldBy
<1>4. /\ out[k] \in Seq(Req) /\ back[k] \in Seq(Req) /\ rd_buf[k] \in BOOLEAN
      /\ Frames(back[k], serving[k], rd_buf[k])
  BY <1>0, Zenon DEF RpcTypeOK, RpcFlags, FramedOn
<1>5. SUFFICES FramedOn(k)' /\ \A r : Coming(k, r) => Coming(k, r)'
  <2>1. ASSUME \A r : Coming(k, r) => Coming(k, r)' PROVE ServedOn(k)'
    BY <1>0, <1>1, <2>1, Zenon DEF ServedOn
  <2> QED  BY <1>2, <1>3, <2>1, OneLink, Zenon
<1>6. CASE ServeRead(k)
  <2> DEFINE h == Head(out[k])
  <2>1. /\ out[k] # <<>> /\ serving[k].at = "read"
        /\ serving'[k] = [at |-> "handle", req |-> h]
        /\ out'[k] = Tail(out[k]) /\ back'[k] = back[k] /\ rd_buf'[k] = rd_buf[k]
    BY <1>6, Zenon DEF ServeRead, RpcTypeOK
  <2> HIDE DEF h
  <2>2. serving'[k].at = "handle" /\ serving'[k].req = h
    BY <2>1
  <2>3. Frames(back[k], serving'[k], rd_buf[k])
    BY <1>4, <2>1, <2>2, Zenon DEF Frames
  <2>4. FramedOn(k)'
    BY <2>1, <2>3, Zenon DEF FramedOn
  <2>5. \A x : InSeq(out[k], x) => x = h \/ InSeq(out'[k], x)
    BY <1>4, <2>1, TailKeeps, Zenon DEF h
  <2>6. ASSUME NEW r, Coming(k, r) PROVE Coming(k, r)'
    <3>1. CASE InSeq(out[k], r)
      BY <2>2, <2>5, <3>1, Zenon DEF Coming
    <3>2. CASE InSeq(back[k], r)
      BY <2>1, <3>2, Zenon DEF Coming
    <3> QED  BY <2>1, <2>6, <3>1, <3>2, Zenon DEF Coming, Closed
  <2> QED  BY <2>4, <2>6
<1>7. CASE ServeWrite(k)
  <2> DEFINE x0 == serving[k].req
  <2>1. /\ serving[k].at \in {"handle", "half"} /\ back'[k] = Append(back[k], x0)
        /\ serving'[k] = IF serving[k].at = "handle" THEN [serving[k] EXCEPT !.at = "half"] ELSE Reading
        /\ out'[k] = out[k] /\ rd_buf'[k] = rd_buf[k]
    BY <1>7, Zenon DEF ServeWrite, RpcTypeOK
  <2>2. x0 \in Req /\ serving[k] \in [at : {"handle", "half"}, req : Req]
    BY <2>1, Zenon DEF RpcTypeOK, Serving
  <2>3. \/ serving[k].at = "handle" /\ serving'[k].at = "half" /\ serving'[k].req = x0
        \/ serving[k].at = "half" /\ serving'[k].at = "read"
    BY <2>1, <2>2 DEF Reading
  <2>4. Frames(Append(back[k], x0), serving'[k], rd_buf[k])
    <3> DEFINE b == back[k]
               sv == serving[k]
               sw == serving'[k]
               rd == rd_buf[k]
    <3>1. /\ b \in Seq(Req) /\ rd \in BOOLEAN /\ Frames(b, sv, rd) /\ sv.req \in Req
          /\ \/ sv.at = "handle" /\ sw.at = "half" /\ sw.req = sv.req
             \/ sv.at = "half" /\ sw.at = "read"
      BY <1>4, <2>2, <2>3, Zenon
    <3> HIDE DEF b, sv, sw, rd
    <3>2. Frames(Append(b, sv.req), sw, rd)
      BY <3>1, FramesWrite
    <3> QED  BY <3>2, Zenon DEF b, sv, sw, rd
  <2>5. FramedOn(k)'
    BY <2>1, <2>4, Zenon DEF FramedOn
  <2>6. InSeq(back'[k], x0) /\ \A x : InSeq(back[k], x) => InSeq(back'[k], x)
    BY <1>4, <2>1, <2>2, AppendKeeps
  <2>7. ASSUME NEW r, Coming(k, r) PROVE Coming(k, r)'
    <3>1. ~Closed(k)
      BY <2>1 DEF Closed
    <3> QED  BY <2>1, <2>6, <2>7, <3>1, Zenon DEF Coming
  <2> QED  BY <2>5, <2>7
<1>8. CASE ServeCloses(k)
  <2>1. serving'[k] = [at |-> "closed", req |-> NoReq] /\ back'[k] = back[k] /\ rd_buf'[k] = rd_buf[k]
    BY <1>8, Zenon DEF ServeCloses, RpcTypeOK
  <2>2. serving'[k].at = "closed"
    BY <2>1
  <2>3. Frames(back[k], serving'[k], rd_buf[k])
    BY <1>4, <2>2 DEF Frames
  <2> QED  BY <2>1, <2>2, <2>3, Zenon DEF FramedOn, Coming, Closed
<1> QED  BY <1>6, <1>7, <1>8 DEF ServerStep

(* A caller calls, or is dropped.                                          *)
LEMMA CallerKeeps ==
  ASSUME RpcTypeOK, RpcFlags, CallOK, LinksKept, CallsHeld,
         NEW c0 \in Call, PoolCall(c0) \/ SoloCall(c0) \/ Drop(c0)
  PROVE  LinksKept' /\ CallsHeld'
<1>1. CASE PoolCall(c0)
  <2> DEFINE k == Conn[turn + 1]
  <2>1. k \in Link
    <3>1. Len(Conn) \in Nat /\ DOMAIN Conn = 1 .. Len(Conn)
      BY RpcAssumption, LenProperties
    <3>2. turn + 1 \in 1 .. Len(Conn)
      BY <3>1 DEF RpcFlags
    <3> QED  BY <3>1, <3>2 DEF Link
  <2>2. /\ IF task[k]
           THEN chan' = [chan EXCEPT ![k] = Append(@, c0)] /\ call' = [call EXCEPT ![c0] = "waiting"]
           ELSE call' = [call EXCEPT ![c0] = "error"] /\ UNCHANGED chan
        /\ UNCHANGED <<open, task, out, serving, back, rd_buf>>
    BY <1>1, Zenon DEF PoolCall, wire
  <2> HIDE DEF k
  <2>3. CASE task[k]
    <3>1. /\ chan'[k] = Append(chan[k], c0) /\ \A j \in Link : j # k => chan'[j] = chan[j]
          /\ \A c \in Call : c # c0 => call'[c] = call[c]
      BY <2>1, <2>2, <2>3, Zenon DEF RpcTypeOK, CallOK
    <3>2. /\ InSeq(chan'[k], c0) /\ \A x : InSeq(chan[k], x) => InSeq(chan'[k], x)
      BY <2>1, <3>1, AppendKeeps, Zenon DEF RpcTypeOK
    <3>3. ASSUME NEW j \in Link PROVE FramedOn(j)' /\ ServedOn(j)'
      <4>1. FramedOn(j)'
        BY <2>2, Zenon DEF FramedOn, LinksKept
      <4>2. \A r \in open'[j] : Coming(j, r)'
        BY <2>2, Zenon DEF LinksKept, ServedOn, Coming, Closed
      <4>3. chan'[j] # <<>> \/ open'[j] # {} => task'[j]
        BY <2>2, <2>3, <3>1, Zenon DEF LinksKept, ServedOn
      <4> QED  BY <4>1, <4>2, <4>3, Zenon DEF ServedOn
    <3>4. ASSUME NEW c \in Call, call'[c] = "waiting" PROVE \E j \in Link : HeldBy(j, c)'
      <4>1. CASE c = c0
        BY <2>1, <3>2, <4>1, Zenon DEF HeldBy
      <4>2. CASE c # c0
        <5>1. PICK j \in Link : HeldBy(j, c)
          BY <3>1, <3>4, <4>2, Zenon DEF CallsHeld
        <5>2. HeldBy(j, c)'
          BY <2>2, <3>1, <3>2, <5>1, Zenon DEF HeldBy
        <5> QED  BY <5>2
      <4> QED  BY <4>1, <4>2
    <3> QED  BY <3>3, <3>4, Zenon DEF LinksKept, CallsHeld
  <2>4. CASE ~task[k]
    <3>1. UNCHANGED chan /\ \A c \in Call : call'[c] = "waiting" => call[c] = "waiting"
      BY <2>2, <2>4 DEF CallOK
    <3>2. \A j \in Link : SameLink(j)
      BY <2>2, <3>1, Zenon DEF SameLink
    <3> QED  BY <2>1, <3>1, <3>2, LinkFrame, OneLink, Zenon DEF LinksKept
  <2> QED  BY <2>3, <2>4, Zenon
<1>2. CASE SoloCall(c0)
  <2>1. /\ Solo \in Link /\ task[Solo] /\ Written(Solo, c0) /\ UNCHANGED <<chan, task>>
        /\ call' = [call EXCEPT ![c0] = "waiting"]
    BY <1>2, Zenon DEF SoloCall, Link
  <2>2. /\ FramedOn(Solo)' /\ ServedOn(Solo)'
        /\ Fresh(Solo, c0) \in open'[Solo] /\ open[Solo] \subseteq open'[Solo]
        /\ Fresh(Solo, c0).call = c0
        /\ \A j \in Link : j # Solo => /\ open'[j] = open[j] /\ out'[j] = out[j]
        /\ UNCHANGED <<serving, back, rd_buf>>
    BY <2>1, WrittenKeeps, Zenon DEF LinksKept
  <2>3. \A j \in Link : j # Solo => SameLink(j)
    BY <2>1, <2>2, Zenon DEF SameLink
  <2>4. \A c \in Call : c # c0 => call'[c] = call[c]
    BY <2>1, Zenon DEF CallOK
  <2>5. ASSUME NEW j \in Link PROVE FramedOn(j)' /\ ServedOn(j)'
    BY <2>2, <2>3, LinkFrame, Zenon DEF LinksKept
  <2>6. ASSUME NEW c \in Call, call'[c] = "waiting" PROVE \E j \in Link : HeldBy(j, c)'
    <3>1. CASE c = c0
      BY <2>1, <2>2, <3>1, Zenon DEF HeldBy
    <3>2. CASE c # c0
      <4>1. PICK j \in Link : HeldBy(j, c)
        BY <2>4, <2>6, <3>2, Zenon DEF CallsHeld
      <4>2. CASE j = Solo
        BY <2>1, <2>2, <4>1, <4>2, Zenon DEF HeldBy
      <4>3. CASE j # Solo
        BY <2>3, <4>1, <4>3, LinkFrame, Zenon
      <4> QED  BY <4>2, <4>3, Zenon
    <3> QED  BY <3>1, <3>2, Zenon
  <2> QED  BY <2>5, <2>6, Zenon DEF LinksKept, CallsHeld
<1>3. CASE Drop(c0)
  <2>1. /\ Solo \in Link /\ call' = [call EXCEPT ![c0] = "dropped"]
        /\ open' = [open EXCEPT ![Solo] = {r \in @ : r.call # c0}]
        /\ UNCHANGED <<chan, task, out, serving, back, rd_buf>>
    BY <1>3, Zenon DEF Drop, Link, wire
  <2>2. /\ open'[Solo] = {r \in open[Solo] : r.call # c0}
        /\ \A j \in Link : j # Solo => open'[j] = open[j]
    BY <2>1, Zenon DEF RpcTypeOK
  <2>3. \A j \in Link : j # Solo => SameLink(j)
    BY <2>1, <2>2, Zenon DEF SameLink
  <2>4. FramedOn(Solo)'
    BY <2>1, Zenon DEF FramedOn, LinksKept
  <2>5. open'[Solo] \subseteq open[Solo]
    BY <2>2, Zenon
  <2>6. ServedOn(Solo)'
    <3>1. \A r \in open'[Solo] : Coming(Solo, r)'
      BY <2>1, <2>5, Zenon DEF LinksKept, ServedOn, Coming, Closed
    <3>2. chan'[Solo] # <<>> \/ open'[Solo] # {} => task'[Solo]
      BY <2>1, <2>5, Zenon DEF LinksKept, ServedOn
    <3> QED  BY <3>1, <3>2, Zenon DEF ServedOn
  <2>7. ASSUME NEW c \in Call, call'[c] = "waiting"
        PROVE  call[c] = "waiting" /\ (HeldBy(Solo, c) => HeldBy(Solo, c)')
    <3>1. c # c0 /\ call[c] = "waiting"
      BY <2>1, <2>7 DEF CallOK
    <3>2. \A r \in open[Solo] : r.call = c => r \in open'[Solo]
      BY <2>2, <3>1, Zenon
    <3> QED  BY <2>1, <3>1, <3>2, Zenon DEF HeldBy
  <2> QED  BY <2>1, <2>3, <2>4, <2>6, <2>7, OneLink, Zenon
<1> QED  BY <1>1, <1>2, <1>3

(* Any step keeps what is held.                                            *)
LEMMA HeldStep ==
  ASSUME RpcTypeOK, RpcFlags, CallOK, LinksKept, CallsHeld, [RpcNext]_rpcvars
  PROVE  LinksKept' /\ CallsHeld'
<1>1. CASE UNCHANGED rpcvars
  <2>1. \A j \in Link : SameLink(j)
    BY <1>1, Zenon DEF rpcvars, SameLink
  <2>2. LinksKept'
    BY <2>1, LinkFrame, Zenon DEF LinksKept
  <2>3. UNCHANGED call
    BY <1>1, Zenon DEF rpcvars
  <2>4. CallsHeld'
    BY <2>1, <2>3, LinkFrame, Zenon DEF CallsHeld
  <2> QED  BY <2>2, <2>4
<1> QED  BY <1>1, CallerKeeps, ClientKeeps, ServerKeeps, Zenon DEF RpcNext

(* A waiting call always has something left to end it: its place in a      *)
(* running task's channel, its answer under way in one piece or two, or a  *)
(* connection that closes.                                                 *)
THEOREM CallsAreNotStranded == RpcSpec => []NoCallStranded
<1> DEFINE Inv == RpcTypeOK /\ IdsApart /\ CallOK /\ RpcFlags /\ LinksKept /\ CallsHeld
<1>1. RpcInit => Inv
  <2> SUFFICES ASSUME RpcInit PROVE Inv
    OBVIOUS
  <2>1. /\ task = [k \in Link |-> TRUE] /\ rd_buf = [k \in Link |-> FALSE] /\ turn = 0
        /\ chan = [k \in Link |-> <<>>] /\ open = [k \in Link |-> {}]
        /\ back = [k \in Link |-> <<>>] /\ serving = [k \in Link |-> Reading]
        /\ call = [c \in Call |-> "new"]
    BY DEF RpcInit
  <2>2. RpcFlags
    <3>1. Len(Conn) \in Nat /\ Len(Conn) >= 1
      BY RpcAssumption, EmptySeq, LenProperties
    <3>2. turn \in 0 .. Len(Conn) - 1
      BY <2>1, <3>1
    <3> QED  BY <2>1, <3>2, Zenon DEF RpcFlags
  <2>3. Frames(<<>>, Reading, FALSE)
    <3>1. Reading.at = "read" /\ Len(<<>>) = 0 /\ ~First(0, FALSE) /\ 1 .. 0 - 1 = {}
      BY DEF Reading, First
    <3> QED  BY <3>1, Zenon DEF Frames
  <2>4. \A k \in Link : FramedOn(k)
    BY <2>1, <2>3, Zenon DEF FramedOn
  <2>5. \A k \in Link : ServedOn(k)
    BY <2>1, Zenon DEF ServedOn
  <2>6. CallsHeld
    BY <2>1 DEF CallsHeld
  <2> QED  BY <2>2, <2>4, <2>5, <2>6, RpcStart, Zenon DEF LinksKept
<1>2. Inv /\ [RpcNext]_rpcvars => Inv'
  <2> SUFFICES ASSUME Inv, [RpcNext]_rpcvars PROVE Inv'
    OBVIOUS
  <2>1. RpcTypeOK' /\ IdsApart' /\ CallOK'
    BY WireStep, IdsStep, AnswerStep
  <2>2. RpcFlags'
    BY FlagsStep
  <2>3. LinksKept' /\ CallsHeld'
    BY HeldStep
  <2> QED  BY <2>1, <2>2, <2>3
<1>3. Inv => NoCallStranded
  <2> SUFFICES ASSUME LinksKept, CallsHeld, NEW c \in Call, call[c] = "waiting"
               PROVE  \E k \in Link : /\ task[k]
                                      /\ \/ InSeq(chan[k], c)
                                         \/ \E r \in open[k] : r.call = c /\ Coming(k, r)
    BY Zenon DEF NoCallStranded
  <2>1. PICK k \in Link : HeldBy(k, c)
    BY Zenon DEF CallsHeld
  <2>2. ServedOn(k)
    BY Zenon DEF LinksKept
  <2>3. CASE InSeq(chan[k], c)
    <3>1. chan[k] # <<>>
      BY <2>3, EmptyHasNone, Zenon
    <3> QED  BY <2>2, <2>3, <3>1, Zenon DEF ServedOn
  <2>4. CASE \E r \in open[k] : r.call = c
    BY <2>2, <2>4, Zenon DEF ServedOn
  <2> QED  BY <2>1, <2>3, <2>4, Zenon DEF HeldBy
<1> QED  BY <1>1, <1>2, <1>3, PTL DEF RpcSpec

-------------------------------------------------------------------------------
(***************************************************************************)
(* A worker's log ring, for every line limit, capacity and set of pipes.   *)
(***************************************************************************)
KeptOf(n) == IF n > LineMax THEN LineMax + Ellipsis ELSE n

(* The buffer of a pipe has what fits of the unfinished line, and knows    *)
(* whether more of it was written.                                         *)
LinesKept ==
  /\ said \in [Stream -> Nat] /\ line \in [Stream -> Nat] /\ overran \in [Stream -> BOOLEAN]
  /\ \A s \in Stream : /\ line[s] = Least(LineMax, said[s])
                       /\ overran[s] <=> said[s] > LineMax
RingKept ==
  /\ ring \in Seq(Nat) /\ logged \in Seq(Nat)
  /\ Len(ring) <= RingCap /\ Len(ring) <= Len(logged)
  /\ Len(ring) = Len(logged) \/ Len(ring) = RingCap
  /\ \A i \in 1 .. Len(ring) : ring[i] = KeptOf(logged[(Len(logged) - Len(ring)) + i])

(* The ring is the end of the history before an insertion and after it.    *)
LEMMA RingShifts ==
  ASSUME RingKept, NEW n \in Nat, insert(KeptOf(n)), logged' = Append(logged, n)
  PROVE  RingKept'
<1> DEFINE g == Len(logged)
           m == Len(ring)
           cut == IF Len(ring) = RingCap THEN Tail(ring) ELSE ring
           e == Len(cut)
<1>1. /\ ring \in Seq(Nat) /\ logged \in Seq(Nat) /\ g \in Nat /\ m \in Nat
      /\ m <= RingCap /\ m <= g /\ (m = g \/ m = RingCap)
      /\ \A i \in 1 .. m : ring[i] = KeptOf(logged[(g - m) + i])
  BY LenProperties DEF RingKept
<1>2. KeptOf(n) \in Nat /\ RingCap \in Nat /\ RingCap >= 1
  BY LogTailAssumption DEF KeptOf
<1>3. ring' = Append(cut, KeptOf(n))
  BY DEF insert
<1>4. /\ cut \in Seq(Nat) /\ e \in Nat /\ e + 1 <= RingCap /\ e <= m
      /\ e = g \/ e + 1 = RingCap
      /\ \A i \in 1 .. e : cut[i] = KeptOf(logged[(g - e) + i])
  <2>1. CASE m = RingCap
    <3>1. ring # <<>> /\ cut = Tail(ring)
      BY <1>2, <2>1
    <3> HIDE DEF cut
    <3>2. cut \in Seq(Nat) /\ e = m - 1 /\ \A i \in 1 .. e : cut[i] = ring[i + 1]
      BY <1>1, <3>1, HeadTailProperties
    <3> HIDE DEF e
    <3>3. ASSUME NEW i \in 1 .. e PROVE cut[i] = KeptOf(logged[(g - e) + i])
      <4>1. i + 1 \in 1 .. m /\ (g - m) + (i + 1) = (g - e) + i
        BY <1>1, <1>2, <2>1, <3>2
      <4> QED  BY <1>1, <3>2, <4>1
    <3> QED  BY <1>1, <1>2, <2>1, <3>2, <3>3
  <2>2. CASE m # RingCap
    <3>1. cut = ring /\ e = m
      BY <2>2
    <3> HIDE DEF cut, e
    <3>2. e \in Nat /\ e + 1 <= RingCap /\ e <= m /\ e = g
      BY <1>1, <1>2, <2>2, <3>1
    <3>3. \A i \in 1 .. e : cut[i] = KeptOf(logged[(g - e) + i])
      BY <1>1, <3>1, Zenon
    <3> QED  BY <1>1, <3>1, <3>2, <3>3
  <2> QED  BY <2>1, <2>2, Zenon
<1> HIDE DEF cut
<1>5. /\ ring' \in Seq(Nat) /\ Len(ring') = e + 1
      /\ \A i \in 1 .. e : ring'[i] = cut[i]
      /\ ring'[e + 1] = KeptOf(n)
  BY <1>2, <1>3, <1>4, AppendProperties
<1>6. /\ logged' \in Seq(Nat) /\ Len(logged') = g + 1
      /\ \A i \in 1 .. g : logged'[i] = logged[i]
      /\ logged'[g + 1] = n
  BY <1>1, AppendProperties
<1> HIDE DEF e, g, m
<1>7. ASSUME NEW i \in 1 .. (e + 1) PROVE ring'[i] = KeptOf(logged'[((g + 1) - (e + 1)) + i])
  <2>1. CASE i = e + 1
    <3>1. ((g + 1) - (e + 1)) + i = g + 1
      BY <1>1, <1>4, <2>1
    <3> QED  BY <1>5, <1>6, <2>1, <3>1
  <2>2. CASE i # e + 1
    <3>1. g \in Nat /\ e \in Nat /\ e <= g
      BY <1>1, <1>4
    <3>2. i \in 1 .. e /\ (g - e) + i \in 1 .. g /\ ((g + 1) - (e + 1)) + i = (g - e) + i
      <4>1. i \in Nat /\ i >= 1 /\ i <= e
        BY <2>2, <3>1
      <4>2. (g - e) + i \in Int /\ (g - e) + i >= 1 /\ (g - e) + i <= g
        BY <3>1, <4>1
      <4> QED  BY <3>1, <4>1, <4>2
    <3> QED  BY <1>4, <1>5, <1>6, <3>2, Zenon
  <2> QED  BY <2>1, <2>2, Zenon
<1>8. /\ Len(ring') <= RingCap /\ Len(ring') <= Len(logged')
      /\ Len(ring') = Len(logged') \/ Len(ring') = RingCap
  BY <1>1, <1>2, <1>4, <1>5, <1>6
<1> QED  BY <1>5, <1>6, <1>7, <1>8, Zenon DEF RingKept, KeptOf

(* A step keeps both.                                                      *)
LEMMA LogStep ==
  ASSUME LinesKept, RingKept, [LogNext]_logvars
  PROVE  LinesKept' /\ RingKept'
<1> USE LogTailAssumption
<1>1. ASSUME NEW s \in Stream, NEW n \in Piece, Read(s, n) PROVE LinesKept' /\ RingKept'
  <2>1. RingKept'
    BY <1>1 DEF Read, RingKept, KeptOf
  <2>2. /\ said' = [said EXCEPT ![s] = said[s] + n]
        /\ line' = [line EXCEPT ![s] = Least(LineMax, line[s] + n)]
        /\ overran' = [overran EXCEPT ![s] = overran[s] \/ (n > 0 /\ line[s] + n > LineMax)]
        /\ n \in Nat /\ n > 0
    BY <1>1 DEF Read, deposit, LinesKept
  <2>3. said[s] \in Nat /\ line[s] \in Nat /\ line[s] = Least(LineMax, said[s])
    BY DEF LinesKept
  <2>4. Least(LineMax, line[s] + n) = Least(LineMax, said[s] + n) /\ Least(LineMax, said[s] + n) \in Nat
    BY <2>2, <2>3 DEF Least
  <2>5. (line[s] + n > LineMax) <=> (said[s] + n > LineMax)
    <3> DEFINE l == line[s]
               a == said[s]
    <3>1. a \in Nat /\ l \in Nat /\ l = Least(LineMax, a)
      BY <2>3
    <3>2. n \in Nat /\ n > 0 /\ LineMax \in Nat
      BY <2>2
    <3> HIDE DEF l, a
    <3>3. (l + n > LineMax) <=> (a + n > LineMax)
      BY <3>1, <3>2 DEF Least
    <3> QED  BY <3>3 DEF l, a
  <2>6. said[s] > LineMax => said[s] + n > LineMax
    BY <2>2, <2>3
  <2>7. said' \in [Stream -> Nat] /\ line' \in [Stream -> Nat]
    BY <2>2, <2>3, <2>4 DEF LinesKept
  <2>8. overran' \in [Stream -> BOOLEAN]
    BY <2>2, Zenon DEF LinesKept
  <2>9. ASSUME NEW j \in Stream
        PROVE  line'[j] = Least(LineMax, said'[j]) /\ (overran'[j] <=> said'[j] > LineMax)
    <3>1. CASE j = s
      <4>1. said'[j] = said[s] + n /\ line'[j] = Least(LineMax, line[s] + n)
        BY <2>2, <3>1 DEF LinesKept
      <4>2. overran'[j] <=> overran[s] \/ (n > 0 /\ line[s] + n > LineMax)
        BY <2>2, <3>1, Zenon DEF LinesKept
      <4>3. overran[s] <=> said[s] > LineMax
        BY DEF LinesKept
      <4>4. overran'[j] <=> said[s] + n > LineMax
        BY <2>2, <2>5, <2>6, <4>2, <4>3
      <4> QED  BY <2>4, <4>1, <4>4, Zenon
    <3>2. CASE j # s
      BY <2>2, <3>2 DEF LinesKept
    <3> QED  BY <3>1, <3>2, Zenon
  <2> QED  BY <2>1, <2>7, <2>8, <2>9 DEF LinesKept, Least
<1>2. ASSUME NEW s \in Stream, flush_line(s) PROVE LinesKept' /\ RingKept'
  <2>1. /\ line' = [line EXCEPT ![s] = 0] /\ said' = [said EXCEPT ![s] = 0]
        /\ overran' = [overran EXCEPT ![s] = FALSE]
    BY <1>2 DEF flush_line
  <2>2. LinesKept'
    BY <2>1 DEF LinesKept, Least
  <2>3. /\ said[s] \in Nat /\ line[s] \in Nat /\ line[s] = Least(LineMax, said[s])
        /\ overran[s] <=> said[s] > LineMax
    BY DEF LinesKept
  <2>4. CASE said[s] = 0
    <3>1. line[s] = 0 /\ ~overran[s]
      BY <2>3, <2>4 DEF Least
    <3> QED  BY <1>2, <2>2, <2>4, <3>1 DEF flush_line, RingKept, KeptOf
  <2>5. CASE said[s] # 0
    <3>1. line[s] # 0 \/ overran[s]
      BY <2>3, <2>5 DEF Least
    <3>2. line[s] + (IF overran[s] THEN Ellipsis ELSE 0) = KeptOf(said[s])
      BY <2>3 DEF Least, KeptOf
    <3>3. insert(KeptOf(said[s])) /\ logged' = Append(logged, said[s])
      BY <1>2, <2>5, <3>1, <3>2 DEF flush_line
    <3> QED  BY <2>2, <2>3, <3>3, RingShifts, Zenon
  <2> QED  BY <2>4, <2>5
<1>3. CASE UNCHANGED logvars
  BY <1>3 DEF logvars, LinesKept, RingKept, KeptOf
<1> QED  BY <1>1, <1>2, <1>3 DEF LogNext

(* Both hold before anything is written.                                   *)
LEMMA LogStart == LogInit => LinesKept /\ RingKept
<1> SUFFICES ASSUME LogInit PROVE LinesKept /\ RingKept
  OBVIOUS
<1>1. LinesKept
  BY LogTailAssumption DEF LogInit, LinesKept, Least
<1>2. ring = <<>> /\ logged = <<>> /\ <<>> \in Seq(Nat) /\ Len(<<>>) = 0
  BY DEF LogInit
<1> QED  BY <1>1, <1>2, LogTailAssumption DEF RingKept

(* The ring holds the newest RingCap lines, each cut and marked exactly    *)
(* when it was longer than LineMax.                                        *)
THEOREM RingHoldsTail == LogSpec => []RingIsTail
<1>1. LogInit => LinesKept /\ RingKept
  BY LogStart
<1>2. LinesKept /\ RingKept /\ [LogNext]_logvars => LinesKept' /\ RingKept'
  BY LogStep
<1>3. RingKept => RingIsTail
  <2> SUFFICES ASSUME RingKept PROVE RingIsTail
    OBVIOUS
  <2> DEFINE q == [i \in DOMAIN logged |-> KeptOf(logged[i])]
             g == Len(logged)
             m == Len(ring)
  <2>1. /\ ring \in Seq(Nat) /\ logged \in Seq(Nat) /\ g \in Nat /\ m \in Nat
        /\ DOMAIN logged = 1 .. g /\ RingCap \in Nat
        /\ m <= RingCap /\ m <= g /\ (m = g \/ m = RingCap)
        /\ \A i \in 1 .. m : ring[i] = KeptOf(logged[(g - m) + i])
    BY LenProperties, LogTailAssumption DEF RingKept
  <2>2. \A i \in 1 .. g : KeptOf(logged[i]) \in Nat
    BY <2>1, LogTailAssumption DEF KeptOf
  <2>3. q \in Seq(Nat) /\ Len(q) = g /\ \A i \in 1 .. g : q[i] = KeptOf(logged[i])
    BY <2>1, <2>2
  <2> HIDE DEF q
  <2>4. Least(RingCap, Len(q)) = m
    <3>1. g \in Nat /\ m \in Nat /\ RingCap \in Nat /\ m <= RingCap /\ m <= g /\ (m = g \/ m = RingCap)
      BY <2>1
    <3> HIDE DEF g, m
    <3>2. Least(RingCap, g) = m
      BY <3>1 DEF Least
    <3> QED  BY <2>3, <3>2
  <2> DEFINE t == SubSeq(q, g - m + 1, g)
  <2>5. LastOf(q, RingCap) = t
    BY <2>3, <2>4 DEF LastOf
  <2>6. ASSUME NEW i \in (g - m + 1) .. g PROVE q[i] \in Nat
    <3>1. g \in Nat /\ m \in Nat /\ m <= g
      BY <2>1
    <3> HIDE DEF g, m
    <3>2. i \in 1 .. g
      BY <2>6, <3>1
    <3> QED  BY <2>2, <2>3, <3>2, Zenon
  <2>7. /\ t \in Seq(Nat) /\ Len(t) = IF g - m + 1 <= g THEN g - (g - m + 1) + 1 ELSE 0
        /\ \A i \in 1 .. (g - (g - m + 1) + 1) : t[i] = q[(g - m + 1) + i - 1]
    BY <2>1, <2>6, SubSeqProperties
  <2> HIDE DEF t
  <2>8. Len(t) = m
    BY <2>1, <2>7
  <2>9. ASSUME NEW i \in 1 .. m PROVE t[i] = ring[i]
    <3>1. /\ i \in 1 .. (g - (g - m + 1) + 1) /\ (g - m + 1) + i - 1 = (g - m) + i
          /\ (g - m) + i \in 1 .. g
      BY <2>1
    <3> QED  BY <2>1, <2>3, <2>7, <3>1, Zenon
  <2>10. t = ring
    BY <2>1, <2>7, <2>8, <2>9, SeqEqual, Zenon
  <2> QED  BY <2>5, <2>10 DEF RingIsTail, q, KeptOf
<1> QED  BY <1>1, <1>2, <1>3, PTL DEF LogSpec

-------------------------------------------------------------------------------
(***************************************************************************)
(* A page of the ring.  What the recursive Sizes computes is proved by     *)
(* least counterexample.                                                   *)
(***************************************************************************)
(* A non-empty set of numbers has a least one.                             *)
LEMMA LeastNumber ==
  ASSUME NEW S, S \subseteq Nat, S # {}
  PROVE  \E n \in S : \A m \in S : n <= m
<1> DEFINE R == OpToRel(<, Nat)
<1>1. IsWellFoundedOn(R, Nat)
  BY NatLessThanWellFounded, Zenon
<1>2. \A k, m \in Nat : <<k, m>> \in R <=> k < m
  BY DEF OpToRel
<1> HIDE DEF R
<1>3. PICK n \in S : \A m \in S : ~(<<m, n>> \in R)
  BY <1>1, WFMin, Zenon
<1>4. ASSUME NEW m \in S PROVE n <= m
  <2>1. m \in Nat /\ n \in Nat
    OBVIOUS
  <2>2. ~(m < n)
    BY <1>2, <1>3, <2>1, Zenon
  <2> QED  BY <2>1, <2>2
<1> QED  BY <1>4, Zenon

(* The sizes a sequence of lines has from its end: what the n-th adds.     *)
Adds(q, n) == q[Len(q) - n + 1] + IF n > 1 THEN 1 ELSE 0
IsSizes(f, q, m) ==
  /\ f \in [0 .. m -> Nat] /\ f[0] = 0
  /\ \A n \in 1 .. m : f[n] = f[n - 1] + Adds(q, n)

(* What a line adds is at least the line.                                  *)
LEMMA AddsIsNat ==
  ASSUME NEW q \in Seq(Nat), NEW n \in 1 .. Len(q)
  PROVE  Adds(q, n) \in Nat /\ q[Len(q) - n + 1] \in Nat /\ Adds(q, n) >= q[Len(q) - n + 1]
<1> DEFINE l == Len(q)
           i == l - n + 1
           a == q[i]
<1>1. l \in Nat
  BY LenProperties
<1> HIDE DEF l
<1>2. i \in 1 .. l
  BY <1>1 DEF l
<1>3. a \in Nat
  BY <1>2, ElementOfSeq DEF l
<1> HIDE DEF a
<1>4. a + (IF n > 1 THEN 1 ELSE 0) \in Nat /\ a + (IF n > 1 THEN 1 ELSE 0) >= a
  BY <1>3
<1> QED  BY <1>3, <1>4 DEF a, l, Adds

(* One line more.                                                          *)
LEMMA SizesGrow ==
  ASSUME NEW q \in Seq(Nat), NEW m \in Nat, m + 1 <= Len(q), NEW f, IsSizes(f, q, m)
  PROVE  \E g : IsSizes(g, q, m + 1)
<1> DEFINE k == m + 1
           d == f[m] + Adds(q, k)
           g == [n \in 0 .. k |-> IF n = k THEN d ELSE f[n]]
<1>1. f \in [0 .. m -> Nat] /\ f[0] = 0 /\ \A n \in 1 .. m : f[n] = f[n - 1] + Adds(q, n)
  BY Zenon DEF IsSizes
<1>2. k \in 1 .. Len(q) /\ k \in Nat /\ m \in 0 .. m /\ k >= 1
  BY LenProperties
<1>3. d \in Nat
  BY <1>1, <1>2, AddsIsNat
<1> HIDE DEF d
<1>4. g \in [0 .. k -> Nat] /\ g[0] = 0 /\ g[k] = d
  <2>1. \A n \in 0 .. k : n # k => n \in 0 .. m
    OBVIOUS
  <2>2. 0 # k /\ 0 \in 0 .. k /\ k \in 0 .. k
    BY <1>2
  <2> HIDE DEF k
  <2> QED  BY <1>1, <1>3, <2>1, <2>2
<1>5. ASSUME NEW n \in 1 .. k PROVE g[n] = g[n - 1] + Adds(q, n)
  <2>1. n - 1 \in 0 .. k /\ n - 1 # k /\ n \in 0 .. k
    BY <1>2
  <2>2. g[n - 1] = f[n - 1]
    BY <2>1
  <2>3. CASE n = k
    <3>1. n - 1 = m
      BY <2>3
    <3> QED  BY <1>4, <2>2, <2>3, <3>1, Zenon DEF d
  <2>4. CASE n # k
    <3>1. n \in 1 .. m
      BY <2>4
    <3>2. g[n] = f[n]
      BY <2>1, <2>4
    <3> QED  BY <1>1, <2>2, <3>1, <3>2
  <2> QED  BY <2>3, <2>4
<1> HIDE DEF g
<1>6. IsSizes(g, q, k)
  BY <1>4, <1>5, Zenon DEF IsSizes
<1> QED  BY <1>6

(* So there are such sizes for every sequence: a first prefix length that  *)
(* had none would be one more than a length that has.                      *)
LEMMA SizesExist ==
  ASSUME NEW q \in Seq(Nat)
  PROVE  \E f : IsSizes(f, q, Len(q))
<1> DEFINE S == {m \in Nat : m <= Len(q) /\ ~\E f : IsSizes(f, q, m)}
<1>1. SUFFICES ASSUME S # {} PROVE FALSE
  BY LenProperties
<1>2. PICK m \in S : \A n \in S : m <= n
  BY <1>1, LeastNumber, Zenon
<1>3. m \in Nat /\ m <= Len(q) /\ ~\E f : IsSizes(f, q, m)
  BY <1>2
<1>4. Len(q) \in Nat
  BY LenProperties
<1>5. CASE m = 0
  <2> DEFINE g == [n \in 0 .. 0 |-> 0]
  <2>1. IsSizes(g, q, 0)
    BY DEF IsSizes
  <2> QED  BY <1>3, <1>5, <2>1
<1>6. CASE m # 0
  <2> DEFINE k == m - 1
  <2>1. k \in Nat /\ k + 1 = m /\ k <= Len(q) /\ ~(m <= k)
    BY <1>3, <1>4, <1>6
  <2> HIDE DEF k
  <2>2. k \notin S
    BY <1>2, <2>1, Zenon
  <2>3. PICK f : IsSizes(f, q, k)
    BY <2>1, <2>2
  <2>4. \E g : IsSizes(g, q, k + 1)
    BY <1>3, <2>1, <2>3, SizesGrow
  <2> QED  BY <1>3, <2>1, <2>4
<1> QED  BY <1>5, <1>6

(* Sizes computes them.                                                    *)
LEMMA SizesCompute ==
  ASSUME NEW q \in Seq(Nat)
  PROVE  IsSizes(Sizes(q), q, Len(q))
<1> DEFINE Rec(f) == [n \in 0 .. Len(q) |->
                        IF n = 0 THEN 0
                        ELSE f[n - 1] + q[Len(q) - n + 1] + IF n > 1 THEN 1 ELSE 0]
<1>0. Len(q) \in Nat
  BY LenProperties
<1>1. Sizes(q) = CHOOSE f : f = Rec(f)
  BY DEF Sizes
<1>2. PICK f : IsSizes(f, q, Len(q))
  BY SizesExist
<1>3. /\ f \in [0 .. Len(q) -> Nat] /\ f[0] = 0
      /\ \A n \in 1 .. Len(q) : f[n] = f[n - 1] + Adds(q, n)
  BY <1>2 DEF IsSizes
<1>4. ASSUME NEW n \in 1 .. Len(q)
      PROVE  f[n - 1] + Adds(q, n) = f[n - 1] + q[Len(q) - n + 1] + (IF n > 1 THEN 1 ELSE 0)
  <2>1. n - 1 \in 0 .. Len(q)
    BY <1>0
  <2>2. f[n - 1] \in Nat /\ q[Len(q) - n + 1] \in Nat
    BY <1>3, <2>1, AddsIsNat, Zenon
  <2> QED  BY <2>2 DEF Adds
<1>5. ASSUME NEW n \in 0 .. Len(q) PROVE f[n] = Rec(f)[n]
  <2>1. CASE n = 0
    BY <1>3, <2>1
  <2>2. CASE n # 0
    <3>1. n \in 1 .. Len(q)
      BY <1>0, <2>2
    <3> QED  BY <1>3, <1>4, <2>2, <3>1
  <2> QED  BY <2>1, <2>2
<1>6. f = Rec(f)
  BY <1>3, <1>5
<1> DEFINE h == CHOOSE g : g = Rec(g)
<1>7. h = Rec(h)
  <2> HIDE DEF Rec
  <2> QED  BY <1>6, Zenon
<1> HIDE DEF h
<1>8. h[0] = 0
  BY <1>0, <1>7
<1>9. ASSUME NEW n \in 1 .. Len(q)
      PROVE  h[n] = h[n - 1] + q[Len(q) - n + 1] + (IF n > 1 THEN 1 ELSE 0)
  <2>1. n \in 0 .. Len(q) /\ n # 0
    BY <1>0
  <2>2. h[n] = Rec(h)[n]
    <3> HIDE DEF Rec
    <3> QED  BY <1>7, Zenon
  <2>3. Rec(h)[n] = IF n = 0 THEN 0
                    ELSE h[n - 1] + q[Len(q) - n + 1] + (IF n > 1 THEN 1 ELSE 0)
    BY <2>1, Zenon
  <2> QED  BY <2>1, <2>2, <2>3, Zenon
<1> DEFINE S == {n \in Nat : n <= Len(q) /\ h[n] \notin Nat}
<1>10. S = {}
  <2>1. SUFFICES ASSUME S # {} PROVE FALSE
    OBVIOUS
  <2>2. PICK m \in S : \A n \in S : m <= n
    BY <2>1, LeastNumber, Zenon
  <2>3. m \in Nat /\ m <= Len(q) /\ h[m] \notin Nat
    BY <2>2
  <2>4. m # 0
    BY <1>8, <2>3
  <2> DEFINE k == m - 1
  <2>5. k \in Nat /\ k <= Len(q) /\ ~(m <= k) /\ m \in 1 .. Len(q)
    BY <1>0, <2>3, <2>4
  <2>6. h[k] \in Nat
    <3> HIDE DEF k
    <3> QED  BY <2>2, <2>5
  <2>7. h[m] = h[k] + q[Len(q) - m + 1] + (IF m > 1 THEN 1 ELSE 0)
    BY <1>9, <2>5
  <2>8. q[Len(q) - m + 1] \in Nat
    BY <2>5, AddsIsNat
  <2> HIDE DEF k
  <2> QED  BY <2>3, <2>6, <2>7, <2>8
<1>11. ASSUME NEW n \in 0 .. Len(q) PROVE h[n] \in Nat
  BY <1>0, <1>10
<1>12. h \in [0 .. Len(q) -> Nat]
  <2>1. h = [n \in 0 .. Len(q) |-> h[n]]
    BY <1>7
  <2> QED  BY <1>11, <2>1
<1>13. ASSUME NEW n \in 1 .. Len(q) PROVE h[n] = h[n - 1] + Adds(q, n)
  <2>1. n - 1 \in 0 .. Len(q)
    BY <1>0
  <2>2. h[n - 1] \in Nat /\ q[Len(q) - n + 1] \in Nat
    BY <1>11, <2>1, AddsIsNat
  <2> QED  BY <1>9, <2>2 DEF Adds
<1>14. IsSizes(h, q, Len(q))
  BY <1>8, <1>12, <1>13, Zenon DEF IsSizes
<1> QED  BY <1>1, <1>14 DEF h

(* Only one function has them, so the sizes of the last lines do not       *)
(* depend on what is in front of them.                                     *)
LEMMA SizesOfEnd ==
  ASSUME NEW q \in Seq(Nat), NEW r \in Seq(Nat), Len(r) <= Len(q),
         \A n \in 1 .. Len(r) : r[Len(r) - n + 1] = q[Len(q) - n + 1],
         NEW n \in 0 .. Len(r)
  PROVE  Sizes(r)[n] = Sizes(q)[n]
<1> DEFINE f == Sizes(q)
           g == Sizes(r)
           S == {m \in Nat : m <= Len(r) /\ g[m] # f[m]}
<1>1. Len(q) \in Nat /\ Len(r) \in Nat
  BY LenProperties
<1>2. IsSizes(f, q, Len(q)) /\ IsSizes(g, r, Len(r))
  BY SizesCompute
<1> HIDE DEF f, g
<1>3. S = {}
  <2>1. SUFFICES ASSUME S # {} PROVE FALSE
    OBVIOUS
  <2>2. PICK m \in S : \A k \in S : m <= k
    BY <2>1, LeastNumber, Zenon
  <2>3. m \in Nat /\ m <= Len(r) /\ g[m] # f[m]
    BY <2>2
  <2>4. m # 0
    BY <1>2, <2>3 DEF IsSizes
  <2> DEFINE k == m - 1
  <2>5. k \in Nat /\ k <= Len(r) /\ ~(m <= k) /\ m \in 1 .. Len(r) /\ m \in 1 .. Len(q)
    BY <1>1, <2>3, <2>4
  <2>6. g[k] = f[k]
    <3> HIDE DEF k
    <3> QED  BY <2>2, <2>5
  <2>7. g[m] = g[k] + Adds(r, m) /\ f[m] = f[k] + Adds(q, m)
    BY <1>2, <2>5, Zenon DEF IsSizes
  <2>8. Adds(r, m) = Adds(q, m)
    BY <2>5 DEF Adds
  <2> QED  BY <2>3, <2>6, <2>7, <2>8
<1>4. n \in Nat /\ n <= Len(r)
  BY <1>1
<1> QED  BY <1>3, <1>4 DEF f, g

(* What one line more adds is more than nothing, if no line is empty.      *)
LEMMA JoinedIsSize ==
  ASSUME NEW q \in Seq(Nat), \A i \in 1 .. Len(q) : q[i] > 0, NEW i \in 1 .. Len(q)
  PROVE  Joined(q, i) = Sizes(q)[Len(q) - i + 1] /\ Joined(q, i) \in Nat /\ Joined(q, i) > 0
<1> DEFINE f == Sizes(q)
           n == Len(q) - i + 1
<1>1. Len(q) \in Nat /\ DOMAIN q = 1 .. Len(q)
  BY LenProperties
<1>2. Joined(q, i) = f[n]
  BY <1>1 DEF Joined
<1>3. n \in 1 .. Len(q) /\ n - 1 \in 0 .. Len(q) /\ Len(q) - n + 1 = i
  BY <1>1
<1>4. IsSizes(f, q, Len(q))
  BY SizesCompute
<1> HIDE DEF f, n
<1>5. f[n] = f[n - 1] + Adds(q, n) /\ f[n - 1] \in Nat
  BY <1>3, <1>4, Zenon DEF IsSizes
<1>6. Adds(q, n) \in Nat /\ Adds(q, n) >= q[i] /\ q[i] \in Nat /\ q[i] > 0
  BY <1>3, AddsIsNat
<1>7. f[n] \in Nat /\ f[n] > 0
  BY <1>5, <1>6
<1> QED  BY <1>2, <1>7 DEF f, n

(* The window is the end of the ring, and joins to the same sizes.         *)
LEMMA WindowIsEnd ==
  ASSUME NEW all \in Seq(Nat), \A i \in 1 .. Len(all) : all[i] > 0, NEW ml \in Nat
  PROVE  /\ LastOf(all, ml) \in Seq(Nat)
         /\ Len(LastOf(all, ml)) = Least(ml, Len(all))
         /\ \A i \in 1 .. Least(ml, Len(all)) :
              /\ Joined(LastOf(all, ml), i) \in Nat /\ Joined(LastOf(all, ml), i) > 0
              /\ Joined(LastOf(all, ml), i) = Joined(all, (Len(all) - Least(ml, Len(all))) + i)
<1> DEFINE c == Len(all)
           k == Least(ml, c)
           win == LastOf(all, ml)
<1>0. c \in Nat
  BY LenProperties
<1> HIDE DEF c
<1>1. c \in Nat /\ k \in Nat /\ k <= c /\ c - k + 1 \in 1 .. c + 1
  <2>1. k \in Nat /\ k <= c
    BY <1>0 DEF Least
  <2> HIDE DEF k
  <2> QED  BY <1>0, <2>1
<1>2. win = SubSeq(all, c - k + 1, c)
  BY DEF LastOf, c
<1> USE DEF c
<1> HIDE DEF k, win
<1>3. /\ win \in Seq(Nat) /\ Len(win) = k
      /\ \A i \in 1 .. k : win[i] = all[(c - k) + i]
  <2> DEFINE a == c - k + 1
  <2>1. a \in 1 .. c + 1 /\ c \in a - 1 .. c /\ c - a + 1 = k
    BY <1>1
  <2>2. \A i \in 1 .. k : a + i - 1 = (c - k) + i /\ (c - k) + i \in 1 .. c
    BY <1>1
  <2>3. win = SubSeq(all, a, c)
    BY <1>2
  <2>4. win = [i \in 1 .. (c - a + 1) |-> all[a + i - 1]]
    BY <1>1, <2>3 DEF SubSeq
  <2>5. \A i \in 1 .. k : win[i] = all[(c - k) + i] /\ win[i] \in Nat
    <3> HIDE DEF a
    <3>1. TAKE i \in 1 .. k
    <3>2. win[i] = all[a + i - 1]
      BY <2>1, <2>4
    <3>3. all[(c - k) + i] \in Nat
      BY <2>2, ElementOfSeq
    <3> QED  BY <2>2, <3>2, <3>3
  <2>6. win = [i \in 1 .. k |-> win[i]]
    <3> HIDE DEF a
    <3> QED  BY <2>1, <2>4
  <2>7. win \in [1 .. k -> Nat]
    BY <2>5, <2>6, Zenon
  <2>8. win \in Seq(Nat) /\ Len(win) = k
    BY <1>1, <2>7, LenProperties
  <2> QED  BY <2>5, <2>8
<1>4. \A n \in 1 .. k : win[k - n + 1] = all[c - n + 1]
  <2> TAKE n \in 1 .. k
  <2>1. k - n + 1 \in 1 .. k /\ (c - k) + (k - n + 1) = c - n + 1
    BY <1>1
  <2> QED  BY <1>3, <2>1
<1>5. \A n \in 0 .. k : Sizes(win)[n] = Sizes(all)[n]
  BY <1>1, <1>3, <1>4, SizesOfEnd, Zenon
<1>6. \A i \in 1 .. k : win[i] > 0
  <2> TAKE i \in 1 .. k
  <2>1. (c - k) + i \in 1 .. c
    BY <1>1
  <2> QED  BY <1>3, <2>1, Zenon
<1>7. ASSUME NEW i \in 1 .. k
      PROVE  /\ Joined(win, i) \in Nat /\ Joined(win, i) > 0
             /\ Joined(win, i) = Joined(all, (c - k) + i)
  <2> DEFINE j == (c - k) + i
             n == k - i + 1
  <2>1. j \in 1 .. c /\ n \in 0 .. k /\ c - j + 1 = n
    BY <1>1
  <2>2. Joined(win, i) = Sizes(win)[n] /\ Joined(win, i) \in Nat /\ Joined(win, i) > 0
    BY <1>3, <1>6, JoinedIsSize, Zenon
  <2> HIDE DEF j, n
  <2>3. Joined(all, j) = Sizes(all)[n]
    BY <2>1, JoinedIsSize
  <2>4. Joined(win, i) = Joined(all, j)
    BY <1>5, <2>1, <2>2, <2>3, Zenon
  <2> QED  BY <2>2, <2>4 DEF j
<1> QED  BY <1>3, <1>7, Zenon DEF k, win

(* The least of some naturals is one of them, and no other is less.        *)
LEMMA MinIsLeast ==
  ASSUME NEW S, S \subseteq Nat, S # {}
  PROVE  Min(S) \in S /\ \A m \in S : Min(S) <= m
BY LeastNumber, Zenon DEF Min

(* The cut falls on a boundary at or after what is too much, by less than  *)
(* a character.                                                            *)
LEMMA BoundaryIsNear ==
  ASSUME NEW c \in Nat, NEW w \in 1 .. 2
  PROVE  Boundary(c, w) \in Nat /\ Boundary(c, w) >= c /\ Boundary(c, w) <= c + 1
<1>1. CASE w = 1
  BY <1>1 DEF Boundary
<1>2. CASE w = 2
  BY <1>2 DEF Boundary
<1> QED  BY <1>1, <1>2

(* The marker fits its reserve.                                            *)
LEMMA MarkerFits ==
  ASSUME NEW a, NEW b
  PROVE  Marker(a, b) \in Nat /\ Marker(a, b) <= Reserve
BY LogTailAssumption DEF Marker, Digits

(* What page_logs returns, for any ring without empty lines: the contract  *)
(* of LogPage.                                                             *)
LEMMA PageContract ==
  ASSUME NEW all \in Seq(Nat), \A i \in 1 .. Len(all) : all[i] > 0,
         NEW ml \in Nat \ {0}, NEW mb \in Nat, mb >= Reserve + 2, NEW w \in 1 .. 2
  PROVE  LET p == page_logs(all, ml, mb, w) IN
         /\ p.bytes <= mb
         /\ all # <<>> => p.text > 0
         /\ p.omitted_bytes > 0 => p.lines = 1
         /\ p.omitted_lines > 0 => \/ p.lines = ml
                                   \/ Joined(all, p.omitted_lines) > mb - Reserve
<1> DEFINE c == Len(all)
           k == Least(ml, c)
           win == LastOf(all, ml)
           room == body_budget(mb)
           T == {i \in 1 .. Len(win) + 1 : Joined(win, i) <= room}
           m == Min(T)
           kf == Least(Len(win), m)
           body == Joined(win, kf)
           ln == IF win = <<>> THEN 0 ELSE Len(win) - kf + 1
           cut == IF body > room THEN Least(body, Boundary(body - room, w)) ELSE 0
           om == Len(all) - ln
           mk == IF om > 0 \/ cut > 0 THEN Marker(om, cut) ELSE 0
           p == page_logs(all, ml, mb, w)
<1>1. p = [lines |-> ln, omitted_lines |-> om, omitted_bytes |-> cut,
           text |-> body - cut, bytes |-> mk + body - cut]
  BY Zenon DEF page_logs
<1>2. /\ p.bytes = mk + body - cut /\ p.text = body - cut /\ p.omitted_bytes = cut
      /\ p.lines = ln /\ p.omitted_lines = om
  <2> HIDE DEF mk, body, cut, ln, om, p
  <2> QED  BY <1>1, Zenon
<1>3. room \in Nat /\ room >= 2 /\ room = mb - Reserve /\ Reserve \in Nat
  BY LogTailAssumption DEF body_budget
<1>4. c \in Nat
  BY LenProperties
<1>5. /\ win \in Seq(Nat) /\ Len(win) = k
      /\ \A i \in 1 .. k : /\ Joined(win, i) \in Nat /\ Joined(win, i) > 0
                           /\ Joined(win, i) = Joined(all, (c - k) + i)
  BY WindowIsEnd, Zenon
<1>6. /\ k \in Nat /\ k <= c /\ (c > 0 => k > 0) /\ (k < c => k = ml)
      /\ win = <<>> <=> k = 0
  <2>1. k \in Nat /\ k <= c /\ (c > 0 => k > 0) /\ (k < c => k = ml)
    <3> HIDE DEF c
    <3> QED  BY <1>4 DEF Least
  <2>2. win = <<>> <=> Len(win) = 0
    <3> HIDE DEF win
    <3> QED  BY <1>5, EmptySeq
  <2> HIDE DEF win, k
  <2> QED  BY <1>5, <2>1, <2>2
<1>7. Joined(win, k + 1) = 0 /\ Joined(win, 0) = 0
  <2>1. DOMAIN win = 1 .. k
    <3> HIDE DEF win, k
    <3> QED  BY <1>5, LenProperties
  <2> HIDE DEF win, k
  <2>2. k + 1 \notin 1 .. k /\ 0 \notin 1 .. k
    BY <1>6
  <2> QED  BY <2>1, <2>2 DEF Joined
<1> HIDE DEF win, k, c, room
<1>8. /\ m \in 1 .. k + 1 /\ Joined(win, m) <= room
      /\ \A i \in 1 .. k + 1 : Joined(win, i) <= room => m <= i
  <2>1. T = {i \in 1 .. k + 1 : Joined(win, i) <= room}
    BY <1>5
  <2>2. T \subseteq Nat
    BY <1>6, <2>1
  <2>3. k + 1 \in T
    BY <1>3, <1>6, <1>7, <2>1
  <2> HIDE DEF T
  <2>4. m \in T /\ \A i \in T : m <= i
    BY <2>2, <2>3, MinIsLeast, Zenon
  <2> HIDE DEF m
  <2> QED  BY <2>1, <2>4
<1> HIDE DEF m
<1>9. kf = Least(k, m) /\ kf \in Nat /\ kf <= k /\ kf <= m /\ (k > 0 => kf >= 1)
      /\ (kf = m \/ kf = k)
  BY <1>5, <1>6, <1>8 DEF Least
<1> HIDE DEF kf
<1>10. body \in Nat /\ (k > 0 => body > 0) /\ (k = 0 => body = 0)
  <2>1. CASE k > 0
    BY <1>5, <1>6, <1>9, <2>1
  <2>2. CASE k = 0
    BY <1>6, <1>7, <1>9, <2>2
  <2> QED  BY <1>6, <2>1, <2>2
<1>11. body > room => kf = k /\ k > 0
  <2>1. body > room => kf # m
    BY <1>3, <1>8, <1>10
  <2>2. body > room => k # 0
    <3> HIDE DEF body
    <3> QED  BY <1>3, <1>10
  <2> QED  BY <1>6, <1>9, <2>1, <2>2
<1>12. k > 0 => ln = k - kf + 1
  BY <1>5, <1>6
<1>13. /\ cut \in Nat /\ cut <= body /\ body - cut <= room
       /\ (cut > 0 => body > room)
       /\ (body > 0 => body - cut > 0)
  <2>1. CASE body > room
    <3> DEFINE x == body - room
               b == Boundary(x, w)
    <3> HIDE DEF body
    <3>1. x \in Nat
      BY <1>3, <1>10, <2>1
    <3>2. b \in Nat /\ b >= x /\ b <= x + 1
      <4> HIDE DEF x
      <4> QED  BY <3>1, BoundaryIsNear, Zenon
    <3>3. cut = Least(body, b)
      BY <2>1
    <3> HIDE DEF b, cut
    <3> QED  BY <1>3, <1>10, <2>1, <3>2, <3>3 DEF Least
  <2>2. CASE ~(body > room)
    <3> HIDE DEF body
    <3> QED  BY <1>3, <1>10, <2>2
  <2> HIDE DEF body, cut
  <2> QED  BY <2>1, <2>2
<1>14. mk \in Nat /\ mk <= Reserve
  <2> HIDE DEF om, cut
  <2>1. Marker(om, cut) \in Nat /\ Marker(om, cut) <= Reserve
    BY MarkerFits, Zenon
  <2> QED  BY <1>3, <2>1
<1> HIDE DEF body, cut, mk
<1>15. p.bytes <= mb
  <2> HIDE DEF p
  <2> QED  BY <1>2, <1>3, <1>10, <1>13, <1>14
<1>16. all # <<>> => p.text > 0
  <2>1. all # <<>> => c > 0
    BY <1>4, EmptySeq DEF c
  <2> HIDE DEF p
  <2> QED  BY <1>2, <1>6, <1>10, <1>13, <2>1
<1>17. p.omitted_bytes > 0 => p.lines = 1
  <2> HIDE DEF p, ln
  <2> QED  BY <1>2, <1>6, <1>11, <1>12, <1>13
<1>18. om > 0 => ln = ml \/ Joined(all, om) > mb - Reserve
  <2> SUFFICES ASSUME om > 0 PROVE ln = ml \/ Joined(all, om) > mb - Reserve
    OBVIOUS
  <2>1. k > 0
    <3>1. CASE k = 0
      BY <1>4, <1>6, <3>1 DEF c
    <3> QED  BY <1>6, <3>1
  <2>2. ln = k - kf + 1 /\ om = c - ln
    BY <1>12, <2>1 DEF c
  <2> HIDE DEF ln, om
  <2>3. CASE kf = 1
    <3>1. ln = k /\ k < c
      BY <1>4, <1>6, <2>2, <2>3
    <3> QED  BY <1>6, <3>1
  <2>4. CASE kf # 1
    <3> DEFINE i == kf - 1
    <3>1. i \in 1 .. k /\ ~(m <= i) /\ (c - k) + i = om
      <4>1. kf \in Nat /\ kf >= 2 /\ kf <= k /\ kf <= m /\ m \in Nat
        BY <1>6, <1>8, <1>9, <2>1, <2>4
      <4>2. k \in Nat /\ c \in Nat /\ om = c - (k - kf + 1)
        BY <1>4, <1>6, <2>2
      <4> QED  BY <4>1, <4>2
    <3> HIDE DEF i
    <3>2. i \in 1 .. k + 1
      BY <1>6, <3>1
    <3>3. ~(Joined(win, i) <= room)
      BY <1>8, <3>1, <3>2
    <3>4. Joined(win, i) \in Nat /\ Joined(win, i) = Joined(all, om)
      BY <1>5, <3>1
    <3> QED  BY <1>3, <3>3, <3>4
  <2> QED  BY <2>3, <2>4
<1> HIDE DEF ln, om
<1>19. p.omitted_lines > 0 => p.lines = ml \/ Joined(all, p.omitted_lines) > mb - Reserve
  BY <1>2, <1>18, Zenon
<1> QED  BY <1>15, <1>16, <1>17, <1>19, Zenon

(* flush_line skips a line without bytes, so no line of the ring is empty. *)
LinesNotEmpty == \A i \in 1 .. Len(logged) : logged[i] > 0

(* No step puts a line without bytes in the log.                           *)
LEMMA NotEmptyStep ==
  ASSUME LinesKept, RingKept, LinesNotEmpty, [LogNext]_logvars
  PROVE  LinesNotEmpty'
<1>1. CASE logged' = logged
  BY <1>1 DEF LinesNotEmpty
<1>2. CASE \E s \in Stream : said[s] # 0 /\ logged' = Append(logged, said[s])
  <2>1. PICK s \in Stream : said[s] # 0 /\ logged' = Append(logged, said[s])
    BY <1>2
  <2>2. logged \in Seq(Nat) /\ said[s] \in Nat /\ Len(logged) \in Nat
    BY LenProperties DEF RingKept, LinesKept
  <2>3. /\ Len(logged') = Len(logged) + 1 /\ logged'[Len(logged) + 1] = said[s]
        /\ \A i \in 1 .. Len(logged) : logged'[i] = logged[i]
    <3> DEFINE e == said[s]
    <3>1. e \in Nat /\ logged' = Append(logged, e)
      BY <2>1, <2>2
    <3> HIDE DEF e
    <3>2. /\ Len(Append(logged, e)) = Len(logged) + 1 /\ Append(logged, e)[Len(logged) + 1] = e
          /\ \A i \in 1 .. Len(logged) : Append(logged, e)[i] = logged[i]
      BY <2>2, <3>1, AppendProperties
    <3> QED  BY <3>1, <3>2, Zenon DEF e
  <2> SUFFICES ASSUME NEW i \in 1 .. Len(logged) + 1 PROVE logged'[i] > 0
    BY <2>3 DEF LinesNotEmpty
  <2>4. CASE i = Len(logged) + 1
    BY <2>1, <2>2, <2>3, <2>4
  <2>5. CASE i # Len(logged) + 1
    <3>1. i \in 1 .. Len(logged)
      BY <2>2, <2>5
    <3> QED  BY <2>3, <3>1 DEF LinesNotEmpty
  <2> QED  BY <2>4, <2>5
<1> QED  BY <1>1, <1>2 DEF LogNext, Read, flush_line, logvars

(* The ring holds lines of the log, cut but not to nothing.                *)
LEMMA RingNotEmpty ==
  ASSUME RingKept, LinesNotEmpty
  PROVE  ring \in Seq(Nat) /\ \A i \in 1 .. Len(ring) : ring[i] > 0
<1> DEFINE g == Len(logged)
           m == Len(ring)
<1>1. /\ ring \in Seq(Nat) /\ logged \in Seq(Nat) /\ g \in Nat /\ m \in Nat /\ m <= g
      /\ \A i \in 1 .. m : ring[i] = KeptOf(logged[(g - m) + i])
  BY LenProperties DEF RingKept
<1>2. ASSUME NEW i \in 1 .. m PROVE ring[i] > 0
  <2> DEFINE j == (g - m) + i
  <2>1. j \in 1 .. g
    <3> HIDE DEF g, m
    <3> QED  BY <1>1
  <2>2. ring[i] = KeptOf(logged[j])
    BY <1>1
  <2> HIDE DEF j
  <2>3. logged[j] \in Nat /\ logged[j] > 0
    BY <1>1, <2>1, ElementOfSeq DEF LinesNotEmpty
  <2> QED  BY <2>2, <2>3, LogTailAssumption DEF KeptOf
<1> QED  BY <1>1, <1>2

(* malkuth_logs answers with the newest lines that fit, marker included,   *)
(* and always with something of the newest line: for every limit, ring and *)
(* budget.                                                                 *)
THEOREM PagesAreNewest == LogSpec => []PageIsNewest
<1>1. LogInit => LinesKept /\ RingKept /\ LinesNotEmpty
  <2> SUFFICES ASSUME LogInit PROVE LinesNotEmpty
    BY LogStart
  <2> QED  BY DEF LogInit, LinesNotEmpty
<1>2. LinesKept /\ RingKept /\ LinesNotEmpty /\ [LogNext]_logvars
        => LinesKept' /\ RingKept' /\ LinesNotEmpty'
  BY LogStep, NotEmptyStep
<1>3. RingKept /\ LinesNotEmpty => PageIsNewest
  <2> SUFFICES ASSUME RingKept, LinesNotEmpty,
                      NEW lines \in 0 .. LinesMax + 1, NEW asked \in Budgets, NEW w \in 1 .. 2
               PROVE  LET p == logs_payload(lines, asked, w)
                          max_bytes == Clamp(asked, MinBytes, MaxBytes)
                      IN
                      /\ p.bytes <= max_bytes
                      /\ ring # <<>> => p.text > 0
                      /\ p.omitted_bytes > 0 => p.lines = 1
                      /\ p.omitted_lines > 0 =>
                           \/ p.lines = Clamp(lines, 1, LinesMax)
                           \/ Joined(ring, p.omitted_lines) > max_bytes - Reserve
    BY Zenon DEF PageIsNewest
  <2> DEFINE ml == Clamp(lines, 1, LinesMax)
             mb == Clamp(asked, MinBytes, MaxBytes)
  <2>1. ml \in Nat \ {0}
    BY LogTailAssumption DEF Clamp, Least
  <2>2. mb \in Nat /\ mb >= Reserve + 2
    <3>1. asked \in Nat
      BY LogTailAssumption
    <3> QED  BY <3>1, LogTailAssumption DEF Clamp, Least
  <2>3. logs_payload(lines, asked, w) = page_logs(ring, ml, mb, w)
    BY DEF logs_payload
  <2> HIDE DEF ml, mb
  <2>4. ring \in Seq(Nat) /\ \A i \in 1 .. Len(ring) : ring[i] > 0
    BY RingNotEmpty
  <2>5. LET p == page_logs(ring, ml, mb, w) IN
        /\ p.bytes <= mb
        /\ ring # <<>> => p.text > 0
        /\ p.omitted_bytes > 0 => p.lines = 1
        /\ p.omitted_lines > 0 => p.lines = ml \/ Joined(ring, p.omitted_lines) > mb - Reserve
    BY <2>1, <2>2, <2>4, PageContract, Zenon
  <2> QED  BY <2>3, <2>5, Zenon DEF ml, mb
<1> QED  BY <1>1, <1>2, <1>3, PTL DEF LogSpec

-------------------------------------------------------------------------------
(***************************************************************************)
(* A service that was told to end, for any number of drain hooks.          *)
(***************************************************************************)
(* The safety of SignalEndsService: while the service serves, a signal to  *)
(* terminate stays to be received, whatever else is, until it or another   *)
(* ends the serving; after that the hooks run, each once, to the last one, *)
(* and no step leads back.                                                 *)
EndKept ==
  [][/\ \A s \in Signal \ {"HUP"} :
          service = "serving" /\ s \in arrived =>
            service' = "draining" \/ (service' = "serving" /\ s \in arrived')
     /\ service = "draining" =>
          \/ service' = "draining" /\ ran' \in ran .. Hooks
          \/ service' = "done" /\ ran' = Hooks
     /\ service = "done" => service' = "done" /\ ran' = ran]_svcvars

(* The hooks that have run are at most those there are.                    *)
HooksRun == ran \in 0 .. Hooks

(* service.rs, signals.rs: EndKept holds of every step.                    *)
THEOREM EndingIsKept == ServiceSpec => EndKept
<1>1. ServiceInit => HooksRun
  BY ServiceAssumption DEF ServiceInit, HooksRun
<1>2. HooksRun /\ [ServiceNext]_svcvars => HooksRun'
  <2>1. ServiceNext => ran' = ran \/ RunHook
    BY Zenon DEF ServiceNext, Install, Deliver, Receive, ServerEnds, Accept, Lifecycle,
       set_drain_state, Return
  <2>2. HooksRun /\ RunHook => HooksRun'
    BY ServiceAssumption DEF HooksRun, RunHook
  <2>3. HooksRun /\ ran' = ran => HooksRun'
    BY Zenon DEF HooksRun
  <2> QED  BY <2>1, <2>2, <2>3, Zenon DEF svcvars
<1>3. HooksRun /\ ServiceNext =>
        /\ \A s \in Signal \ {"HUP"} :
             service = "serving" /\ s \in arrived =>
               service' = "draining" \/ (service' = "serving" /\ s \in arrived')
        /\ service = "draining" =>
             \/ service' = "draining" /\ ran' \in ran .. Hooks
             \/ service' = "done" /\ ran' = Hooks
        /\ service = "done" => service' = "done" /\ ran' = ran
  <2> SUFFICES ASSUME HooksRun, ServiceNext
               PROVE  /\ \A s \in Signal \ {"HUP"} :
                           service = "serving" /\ s \in arrived =>
                             service' = "draining" \/ (service' = "serving" /\ s \in arrived')
                      /\ service = "draining" =>
                           \/ service' = "draining" /\ ran' \in ran .. Hooks
                           \/ service' = "done" /\ ran' = Hooks
                      /\ service = "done" => service' = "done" /\ ran' = ran
    BY Zenon
  <2>0. ran \in ran .. Hooks
    BY ServiceAssumption DEF HooksRun
  <2>1. CASE UNCHANGED <<service, ran, arrived>>
    BY <2>0, <2>1
  <2>2. CASE (\E ok \in BOOLEAN : Install(ok)) \/ ServerEnds
    BY <2>2 DEF Install, ServerEnds
  <2>3. CASE \E s \in Signal : Deliver(s)
    BY <2>3 DEF Deliver
  <2>4. ASSUME NEW t \in Signal, Receive(t)
        PROVE  /\ service = "serving" /\ (t = "HUP" \/ service' = "draining")
               /\ service' \in {"serving", "draining"} /\ arrived' = arrived \ {t}
    BY <2>4 DEF Receive, LeftAfter
  <2>5. CASE \E t \in Signal : Receive(t)
    BY <2>4, <2>5
  <2>6. CASE RunHook
    BY <2>6, ServiceAssumption DEF RunHook, HooksRun
  <2>7. CASE Return
    BY <2>7 DEF Return
  <2> QED  BY <2>1, <2>2, <2>3, <2>5, <2>6, <2>7, Zenon
           DEF ServiceNext, Accept, Lifecycle, set_drain_state
<1> QED  BY <1>1, <1>2, <1>3, PTL DEF ServiceSpec, EndKept
===============================================================================
