------------------------------ MODULE RunProofs -------------------------------
(***************************************************************************)
(* Proofs about a run's pods and its name, for every value of the          *)
(* constants.                                                              *)
(***************************************************************************)
EXTENDS PodPool, RunRegistry, FiniteSetTheorems, SequenceTheorems,
        NaturalsInduction, WellFoundedInduction, TLAPS

-------------------------------------------------------------------------------
(***************************************************************************)
(* The pod pool and its proxies, for any number of pods, connections and   *)
(* routing keys, and any placement of the virtual nodes.                   *)
(***************************************************************************)
(* A non-empty set of numbers has a least one.                             *)
LEMMA LeastNumber ==
  ASSUME NEW S, S \subseteq Nat, S # {}
  PROVE  \E n \in S : \A m \in S : n <= m
<1> DEFINE R == OpToRel(<, Nat)
<1>1. IsWellFoundedOn(R, Nat)
  BY NatLessThanWellFounded, Zenon
<1>2. \A k, m \in Nat : <<k, m>> \in R <=> k < m
  BY DEF OpToRel
<1> HIDE DEF R
<1>3. PICK n \in S : \A m \in S : ~(<<m, n>> \in R)
  BY <1>1, WFMin, Zenon
<1>4. ASSUME NEW m \in S PROVE n <= m
  <2>1. m \in Nat /\ n \in Nat
    OBVIOUS
  <2>2. ~(m < n)
    BY <1>2, <1>3, <2>1, Zenon
  <2> QED  BY <2>1, <2>2
<1> QED  BY <1>4

(* Every pod has a virtual node the walk from a key's hash comes to first. *)
LEMMA ReachIsNumber ==
  ASSUME NEW k \in Key, NEW p \in Pod
  PROVE  Reach(k, p) \in Nat
<1> DEFINE D == {Distance(k, x) : x \in Points[p]}
<1>1. \A x \in Points[p] : Distance(k, x) \in 0 .. (Size - 1)
  BY PodPoolAssumption DEF Distance
<1>2. D \subseteq Nat /\ D # {}
  BY <1>1, PodPoolAssumption
<1>3. PICK d \in D : \A e \in D : d <= e
  BY <1>2, LeastNumber, Zenon
<1>4. /\ d \in 0 .. (Size - 1) /\ \E x \in Points[p] : Distance(k, x) = d
      /\ \A x \in Points[p] : d <= Distance(k, x)
  BY <1>1, <1>3
<1>5. Reach(k, p) \in 0 .. (Size - 1)
  BY <1>4 DEF Reach
<1> QED  BY <1>5, PodPoolAssumption

(* route_excluding gives up exactly when every backend is excluded, and    *)
(* otherwise returns the one whose virtual node comes first after the key. *)
THEOREM RouteIsNearest ==
  ASSUME NEW k \in Key, NEW backends \in SUBSET Pod, NEW dead
  PROVE  /\ route_excluding(k, backends, dead) = NoPod <=> backends \subseteq dead
         /\ ~(backends \subseteq dead) =>
              /\ route_excluding(k, backends, dead) \in backends \ dead
              /\ \A q \in backends \ dead :
                   Reach(k, route_excluding(k, backends, dead)) <= Reach(k, q)
<1>1. CASE backends \subseteq dead
  BY <1>1 DEF route_excluding
<1>2. CASE ~(backends \subseteq dead)
  <2> DEFINE B == backends \ dead
             D == {Reach(k, p) : p \in B}
             r == CHOOSE p \in B : \A q \in B : Reach(k, p) <= Reach(k, q)
  <2>1. D \subseteq Nat /\ D # {}
    BY <1>2, ReachIsNumber
  <2>2. PICK d \in D : \A e \in D : d <= e
    BY <2>1, LeastNumber, Zenon
  <2>3. PICK p \in B : d = Reach(k, p)
    BY <2>2
  <2>4. \A q \in B : Reach(k, p) <= Reach(k, q)
    BY <2>2, <2>3
  <2>5. r \in B /\ \A q \in B : Reach(k, r) <= Reach(k, q)
    BY <2>4
  <2>6. route_excluding(k, backends, dead) = r
    BY <1>2 DEF route_excluding
  <2> HIDE DEF r
  <2> QED  BY <1>2, <2>5, <2>6, PodPoolAssumption
<1> QED  BY <1>1, <1>2

-------------------------------------------------------------------------------
(***************************************************************************)
(* The pods that are routed.                                               *)
(***************************************************************************)
PodPCs == {"spawn", "probe", "late", "insert", "publish", "serve", "stop", "remove", "unpublish"}

(* A pod in the shared map has answered its probe and is not removed yet;  *)
(* the ring is behind the map by no more than one publication of the pod's *)
(* own task.                                                               *)
RoutesBehind ==
  /\ pc \in [Pod -> PodPCs] /\ meta \subseteq Pod /\ ring \subseteq Pod
  /\ \A p \in meta : pc[p] \in {"publish", "serve", "stop", "remove"}
  /\ \A p \in ring : pc[p] \in {"publish", "serve", "stop", "remove", "unpublish"}

(* Every step keeps that.                                                  *)
LEMMA RoutesStep ==
  ASSUME RoutesBehind, [Next]_vars PROVE RoutesBehind'
<1> USE DEF RoutesBehind, PodPCs
<1>1. ASSUME NEW p \in Pod, Supervise(p) PROVE RoutesBehind'
  <2> USE DEF Goto, Quiet
  <2>1. CASE Spawn(p)  BY <2>1 DEF Spawn
  <2>2. CASE WaitReady(p)  BY <2>2 DEF WaitReady, Missed
  <2>3. CASE Late(p)  BY <2>3 DEF Late, LateRestart, LateProbe
  <2>4. CASE Insert(p)  BY <2>4 DEF Insert
  <2>5. CASE Publish(p)  BY <2>5 DEF Publish
  <2>6. CASE ServeExit(p)  BY <2>6 DEF ServeExit
  <2>7. CASE ServeRestart(p)  BY <2>7 DEF ServeRestart
  <2>8. CASE StopDraining(p)  BY <2>8 DEF StopDraining
  <2>9. CASE RemoveMeta(p)  BY <2>9 DEF RemoveMeta
  <2> QED  BY <1>1, <2>1, <2>2, <2>3, <2>4, <2>5, <2>6, <2>7, <2>8, <2>9 DEF Supervise
<1>2. ASSUME UNCHANGED <<pc, meta, ring>> PROVE RoutesBehind'
  BY <1>2
<1>3. ASSUME NEW p \in Pod, ChildListens(p) \/ ChildExits(p) \/ restart_one(p)
      PROVE UNCHANGED <<pc, meta, ring>>
  BY <1>3 DEF ChildListens, ChildExits, restart_one, Quiet
<1>4. ASSUME NEW c \in Conn, HandleClient(c) \/ Accept(c) \/ Close(c)
      PROVE UNCHANGED <<pc, meta, ring>>
  BY <1>4, Zenon DEF HandleClient, ReadSticky, ReadRing, Connect, Handshake, Accept, Close, OnlyConn, pods
<1>5. CASE UNCHANGED vars
  BY <1>2, <1>5 DEF vars, pods
<1> QED  BY <1>1, <1>2, <1>3, <1>4, <1>5 DEF Next

(* For any number of pods, the ring holds only pods whose present child    *)
(* has answered its probe, whichever task published last                   *)
(* (publish_backends, supervise).                                          *)
THEOREM RingHasAnswered == Spec => []RoutedHasAnswered
<1>1. Init => RoutesBehind
  BY DEF Init, RoutesBehind, PodPCs
<1>2. RoutesBehind => RoutedHasAnswered
  BY DEF RoutesBehind, RoutedHasAnswered
<1> QED  BY <1>1, <1>2, RoutesStep, PTL DEF Spec

-------------------------------------------------------------------------------
(***************************************************************************)
(* The connections that are turned away.                                   *)
(***************************************************************************)
ConnPCs == {"idle", "sticky", "ring", "connect", "handshake", "open", "turned"}
Record == [at : ConnPCs, key : Key, pod : Pod \cup {NoPod}, dead : SUBSET (Pod \cup {NoPod})]

(* What was routed all the while is routed now; and when a walk found no   *)
(* backend, it had none left to find.                                      *)
TurnedInv ==
  /\ conn \in [Conn -> Record] /\ sticky \in [Key -> Pod \cup {NoPod}]
  /\ steady \in [Conn -> SUBSET Pod]
  /\ \A c \in Conn : steady[c] \subseteq ring
  /\ \A c \in Conn : conn[c].at = "turned" => steady[c] \subseteq conn[c].dead

(* The steps of a connection keep that: it is turned away only by a walk   *)
(* over a ring that is all excluded.                                       *)
LEMMA TurnedConn ==
  ASSUME RoutesBehind, TurnedInv, NEW c \in Conn, HandleClient(c) \/ Accept(c) \/ Close(c)
  PROVE  TurnedInv'
<1>0. conn[c] \in Record /\ Idle \in Record
  BY PodPoolAssumption DEF TurnedInv, Idle, Record, ConnPCs
<1>1. ASSUME NEW r \in Record, conn' = [conn EXCEPT ![c] = r], UNCHANGED <<ring, steady>>,
             sticky' \in [Key -> Pod \cup {NoPod}], r.at = "turned" => ring \subseteq r.dead
      PROVE TurnedInv'
  BY <1>1 DEF TurnedInv
<1>k. conn[c].key \in Key /\ conn[c].pod \in Pod \cup {NoPod} /\ conn[c].dead \in SUBSET (Pod \cup {NoPod})
  BY <1>0 DEF Record
<1>2. CASE ReadSticky(c)
  <2>1. PICK s \in {sticky[conn[c].key], NoPod} :
          conn' = [conn EXCEPT ![c].at = "ring", ![c].pod = IF s \in conn[c].dead THEN NoPod ELSE s]
    BY <1>2, Zenon DEF ReadSticky
  <2> DEFINE q == IF s \in conn[c].dead THEN NoPod ELSE s
             r == [[conn[c] EXCEPT !.at = "ring"] EXCEPT !.pod = q]
  <2>2. q \in Pod \cup {NoPod}
    BY <1>k DEF TurnedInv
  <2>3. conn' = [conn EXCEPT ![c] = r]
    BY <2>1, Zenon DEF TurnedInv
  <2> HIDE DEF q
  <2>4. r \in Record /\ r.at = "ring"
    BY <1>0, <2>2, Zenon DEF Record, ConnPCs
  <2>5. UNCHANGED <<ring, steady>> /\ sticky' \in [Key -> Pod \cup {NoPod}]
    BY <1>2 DEF ReadSticky, OnlyConn, pods, TurnedInv
  <2> HIDE DEF r
  <2> QED  BY <1>1, <2>3, <2>4, <2>5, Zenon
<1>3. CASE ReadRing(c)
  <2> DEFINE q == route_excluding(conn[c].key, ring, conn[c].dead)
             r == [[conn[c] EXCEPT !.at = IF q = NoPod THEN "turned" ELSE "connect"] EXCEPT !.pod = q]
             t == [conn[c] EXCEPT !.at = "connect"]
  <2>0. UNCHANGED <<ring, steady>> /\ ring \subseteq Pod
    BY <1>3 DEF ReadRing, OnlyConn, pods, RoutesBehind
  <2>1. CASE conn[c].pod \in ring
    <3>1. conn' = [conn EXCEPT ![c] = t] /\ sticky' \in [Key -> Pod \cup {NoPod}]
      BY <1>3, <2>1 DEF ReadRing, TurnedInv
    <3>2. t \in Record /\ t.at = "connect"
      BY <1>0 DEF Record, ConnPCs
    <3> HIDE DEF t
    <3> QED  BY <1>1, <2>0, <3>1, <3>2, Zenon
  <2>2. CASE conn[c].pod \notin ring
    <3>1. conn' = [conn EXCEPT ![c] = r] /\
            sticky' = IF q = NoPod THEN sticky ELSE [sticky EXCEPT ![conn[c].key] = q]
      BY <1>3, <2>2, Zenon DEF ReadRing, TurnedInv
    <3>2. (q = NoPod <=> ring \subseteq conn[c].dead) /\ q \in Pod \cup {NoPod}
      <4> DEFINE k == conn[c].key
                 dead == conn[c].dead
      <4>1. k \in Key /\ ring \in SUBSET Pod
        BY <1>k, <2>0
      <4> HIDE DEF k, dead
      <4>2. /\ route_excluding(k, ring, dead) = NoPod <=> ring \subseteq dead
            /\ ~(ring \subseteq dead) => route_excluding(k, ring, dead) \in ring \ dead
        BY <4>1, RouteIsNearest, Zenon
      <4> QED  BY <4>1, <4>2 DEF k, dead
    <3> HIDE DEF q
    <3>3. sticky' \in [Key -> Pod \cup {NoPod}]
      BY <3>1, <3>2, Zenon DEF TurnedInv
    <3>4. r \in Record /\ (r.at = "turned" => q = NoPod) /\ r.dead = conn[c].dead
      BY <1>0, <3>2, Zenon DEF Record, ConnPCs
    <3> HIDE DEF r
    <3> QED  BY <1>1, <2>0, <3>1, <3>2, <3>3, <3>4, Zenon
  <2> QED  BY <2>1, <2>2
<1>4. ASSUME TryAnother(c), UNCHANGED <<ring, steady>> PROVE TurnedInv'
  <2> DEFINE r == [conn[c] EXCEPT !.at = "sticky", !.dead = @ \cup {conn[c].pod}]
  <2>1. conn' = [conn EXCEPT ![c] = r] /\ sticky' = [sticky EXCEPT ![conn[c].key] = NoPod]
    BY <1>4 DEF TryAnother, Failed
  <2>2. r \in Record /\ r.at = "sticky"
    BY <1>0, Zenon DEF Record, ConnPCs
  <2>3. sticky' \in [Key -> Pod \cup {NoPod}]
    BY <2>1, Zenon DEF TurnedInv
  <2> HIDE DEF r
  <2> QED  BY <1>1, <1>4, <2>1, <2>2, <2>3, Zenon
<1>5. ASSUME NEW l \in ConnPCs \ {"turned"}, conn' = [conn EXCEPT ![c].at = l],
             UNCHANGED <<ring, steady, sticky>>
      PROVE TurnedInv'
  <2> DEFINE r == [conn[c] EXCEPT !.at = l]
  <2>1. conn' = [conn EXCEPT ![c] = r] /\ sticky' \in [Key -> Pod \cup {NoPod}]
    BY <1>5 DEF TurnedInv
  <2>2. r \in Record /\ r.at # "turned"
    BY <1>0, <1>5 DEF Record
  <2> HIDE DEF r
  <2> QED  BY <1>1, <1>5, <2>1, <2>2, Zenon
<1>6. CASE Connect(c)
  BY <1>4, <1>5, <1>6 DEF Connect, OnlyConn, pods, ConnPCs
<1>7. CASE Handshake(c)
  BY <1>4, <1>5, <1>7 DEF Handshake, OnlyConn, pods, ConnPCs
<1>8. CASE Close(c)
  <2>1. Idle.at = "idle"
    BY DEF Idle
  <2> QED  BY <1>0, <1>1, <1>8, <2>1, Zenon DEF Close, OnlyConn, pods, TurnedInv
<1>9. CASE Accept(c)
  <2>1. PICK k \in Key : conn' = [conn EXCEPT ![c] = [Idle EXCEPT !.at = "sticky", !.key = k]]
    BY <1>9, Zenon DEF Accept
  <2> DEFINE r == [Idle EXCEPT !.at = "sticky", !.key = k]
  <2>2. r \in Record /\ r.at = "sticky"
    BY <1>0, Zenon DEF Record, ConnPCs
  <2>3. /\ steady' = [steady EXCEPT ![c] = ring] /\ conn' = [conn EXCEPT ![c] = r]
        /\ UNCHANGED <<ring, sticky>>
    BY <1>9, <2>1, Zenon DEF Accept, pods
  <2> HIDE DEF r
  <2> QED  BY <2>2, <2>3 DEF TurnedInv, RoutesBehind
<1> QED  BY <1>2, <1>3, <1>6, <1>7, <1>8, <1>9 DEF HandleClient

(* So does everything else: a publication only takes pods out of steady.   *)
LEMMA TurnedStep ==
  ASSUME RoutesBehind, TurnedInv, [Next]_vars PROVE TurnedInv'
<1>1. ASSUME UNCHANGED <<ring, steady, sticky, conn>> PROVE TurnedInv'
  BY <1>1 DEF TurnedInv
<1>2. ASSUME NEW p \in Pod, Supervise(p), ~Publish(p) PROVE UNCHANGED <<ring, steady, sticky, conn>>
  BY <1>2 DEF Supervise, Spawn, WaitReady, Late, Insert, ServeExit, ServeRestart, StopDraining,
              RemoveMeta, Quiet, OnlyPods
<1>3. ASSUME NEW p \in Pod, Publish(p) PROVE TurnedInv'
  <2>1. UNCHANGED <<sticky, conn>> /\ steady' = [c \in Conn |-> steady[c] \cap ring']
    BY <1>3 DEF Publish, Published, OnlyPods
  <2> QED  BY <2>1 DEF TurnedInv
<1>4. ASSUME NEW p \in Pod, ChildListens(p) \/ ChildExits(p) \/ restart_one(p)
      PROVE UNCHANGED <<ring, steady, sticky, conn>>
  BY <1>4 DEF ChildListens, ChildExits, restart_one, Quiet, OnlyPods
<1>5. CASE UNCHANGED vars
  BY <1>1, <1>5 DEF vars, pods
<1> QED  BY <1>1, <1>2, <1>3, <1>4, <1>5, TurnedConn DEF Next

(* For any pods, connections and keys, a client is turned away only if     *)
(* every pod that was routed all the while since it was accepted has       *)
(* failed it (pick, handle_client).                                        *)
THEOREM TurnedAwayOnlyForCause == Spec => []TurnedAwayForCause
<1>1. Init => RoutesBehind /\ TurnedInv
  <2> SUFFICES ASSUME Init PROVE RoutesBehind /\ TurnedInv
    OBVIOUS
  <2>1. RoutesBehind
    BY DEF Init, RoutesBehind, PodPCs
  <2>2. Idle \in Record /\ Idle.at = "idle"
    BY PodPoolAssumption DEF Idle, Record, ConnPCs
  <2>3. TurnedInv
    BY <2>2 DEF Init, TurnedInv
  <2> QED  BY <2>1, <2>3
<1>2. RoutesBehind /\ TurnedInv /\ [Next]_vars => (RoutesBehind /\ TurnedInv)'
  BY RoutesStep, TurnedStep
<1>3. TurnedInv => TurnedAwayForCause
  BY DEF TurnedInv, TurnedAwayForCause
<1> QED  BY <1>1, <1>2, <1>3, PTL DEF Spec

-------------------------------------------------------------------------------
(***************************************************************************)
(* The run registry, for every capacity and every memory of ids.           *)
(***************************************************************************)
(* Min of a non-empty set of naturals is in the set and bounds it.         *)
LEMMA MinIsLeast ==
  ASSUME NEW S, S \subseteq Nat, S # {}
  PROVE  Min(S) \in S /\ \A m \in S : Min(S) <= m
BY LeastNumber, Zenon DEF Min

(* The registry's state: runs are insertion numbers; an unfinished run is  *)
(* held; a held run is the latest under its id; used_run_ids is the end of *)
(* the history, all of it or Remembered ids; and an id is issued again     *)
(* only after more than Remembered insertions.                             *)
Holding(r) == \E i \in 1 .. Len(runs) : runs[i] = r
RegTypeOK ==
  /\ issued \in Seq(RunId) /\ used_run_ids \in Seq(RunId) /\ runs \in Seq(Nat)
  /\ \A i \in 1 .. Len(runs) : runs[i] \in 1 .. Len(issued)
Remembers ==
  /\ Len(used_run_ids) <= Remembered /\ Len(used_run_ids) <= Len(issued)
  /\ Len(used_run_ids) = Len(issued) \/ Len(used_run_ids) = Remembered
  /\ \A i \in 1 .. Len(used_run_ids) :
       used_run_ids[i] = issued[(Len(issued) - Len(used_run_ids)) + i]
RegInv ==
  /\ RegTypeOK /\ Remembers
  /\ \A r \in 1 .. Len(issued) : r \in finished \/ Holding(r)
  /\ \A q, r \in 1 .. Len(issued) : Holding(q) /\ r > q => issued[r] # issued[q]
  /\ \A q, r \in 1 .. Len(issued) : r > q /\ issued[r] = issued[q] => r - q > Remembered

(* find_run returns a held run under the id, or 0 when there is none.      *)
LEMMA FindRunFinds ==
  ASSUME RegTypeOK, NEW id
  PROVE  \/ find_run(id) = 0 /\ \A r : Holding(r) => issued[r] # id
         \/ Holding(find_run(id)) /\ issued[find_run(id)] = id
<1> DEFINE I == {i \in 1 .. Len(runs) : issued[runs[i]] = id}
<1>1. I \subseteq Nat /\ 0 \notin I
  BY DEF RegTypeOK
<1>2. find_run(id) = IF I # {} THEN runs[Min(I)] ELSE 0
  <2>1. I # {} => Min(I) # 0
    BY <1>1, MinIsLeast
  <2> QED  BY <2>1 DEF find_run, SelectInSeq
<1>3. CASE I = {}
  BY <1>2, <1>3 DEF Holding
<1>4. CASE I # {}
  <2>1. Min(I) \in I
    BY <1>1, <1>4, MinIsLeast, Zenon
  <2> QED  BY <1>2, <1>4, <2>1, Zenon DEF Holding
<1> QED  BY <1>3, <1>4

(* The victim is a finished run that is held.                              *)
LEMMA VictimIsFinished ==
  ASSUME RegTypeOK, Victim # 0
  PROVE  Victim \in 1 .. Len(runs) /\ runs[Victim] \in finished
<1> DEFINE I == {i \in 1 .. Len(runs) : runs[i] \in finished}
<1>1. Victim = IF I # {} THEN Min(I) ELSE 0
  BY DEF Victim, SelectInSeq
<1>2. I # {} /\ I \subseteq Nat
  BY <1>1
<1>3. Min(I) \in I
  BY <1>2, MinIsLeast
<1> QED  BY <1>1, <1>2, <1>3

(* Removing one entry of a sequence keeps the others and adds none.        *)
LEMMA RemoveAtKeeps ==
  ASSUME NEW T, NEW s \in Seq(T), NEW v \in 1 .. Len(s)
  PROVE  /\ RemoveAt(s, v) \in Seq(T)
         /\ \A i \in 1 .. Len(RemoveAt(s, v)) :
              \E j \in 1 .. Len(s) : RemoveAt(s, v)[i] = s[j]
         /\ \A j \in 1 .. Len(s) :
              j # v => \E i \in 1 .. Len(RemoveAt(s, v)) : RemoveAt(s, v)[i] = s[j]
<1> DEFINE a == SubSeq(s, 1, v - 1)
           b == SubSeq(s, v + 1, Len(s))
<1>1. Len(s) \in Nat /\ v \in Nat
  OBVIOUS
<1>2. /\ a \in Seq(T) /\ Len(a) = v - 1
      /\ \A i \in 1 .. (v - 1) : a[i] = s[i]
  BY <1>1
<1>3. /\ b \in Seq(T) /\ Len(b) = Len(s) - v
      /\ \A i \in 1 .. (Len(s) - v) : b[i] = s[v + i]
  BY <1>1
<1> DEFINE e == a \o b
<1>4. RemoveAt(s, v) = e
  BY DEF RemoveAt
<1> HIDE DEF a, b
<1>5. /\ e \in Seq(T) /\ Len(e) = Len(a) + Len(b)
      /\ \A i \in 1 .. (Len(a) + Len(b)) : e[i] = IF i <= Len(a) THEN a[i] ELSE b[i - Len(a)]
  BY <1>2, <1>3, ConcatProperties, Zenon
<1> HIDE DEF e
<1>6. Len(e) = Len(s) - 1
  BY <1>1, <1>2, <1>3, <1>5
<1>7. ASSUME NEW i \in 1 .. Len(e) PROVE e[i] = IF i < v THEN s[i] ELSE s[i + 1]
  <2>1. i \in Nat /\ i >= 1 /\ i <= Len(s) - 1
    BY <1>1, <1>6
  <2>2. CASE i < v
    BY <1>1, <1>2, <1>5, <2>1, <2>2
  <2>3. CASE i >= v
    <3>1. i - (v - 1) \in 1 .. (Len(s) - v) /\ v + (i - (v - 1)) = i + 1 /\ ~(i <= Len(a))
      BY <1>1, <1>2, <2>1, <2>3
    <3>2. e[i] = b[i - (v - 1)]
      BY <1>2, <1>5, <3>1
    <3>3. e[i] = s[i + 1]
      BY <1>3, <3>1, <3>2
    <3> QED  BY <1>1, <2>1, <2>3, <3>3
  <2> QED  BY <1>1, <2>1, <2>2, <2>3
<1>8. ASSUME NEW i \in 1 .. Len(e) PROVE \E j \in 1 .. Len(s) : e[i] = s[j]
  <2>1. i \in 1 .. Len(s) /\ i + 1 \in 1 .. Len(s)
    BY <1>1, <1>6
  <2> QED  BY <1>7, <2>1
<1>9. ASSUME NEW j \in 1 .. Len(s), j # v
      PROVE  \E i \in 1 .. Len(e) : e[i] = s[j]
  <2>1. CASE j < v
    <3>1. j \in 1 .. Len(e)
      BY <1>1, <1>6, <2>1
    <3> QED  BY <1>7, <2>1, <3>1
  <2>2. CASE j > v
    <3>1. j - 1 \in 1 .. Len(e) /\ ~(j - 1 < v) /\ (j - 1) + 1 = j
      BY <1>1, <1>6, <2>2
    <3> QED  BY <1>7, <3>1, Zenon
  <2> QED  BY <1>1, <1>9, <2>1, <2>2
<1> QED  BY <1>4, <1>5, <1>8, <1>9

(* An insertion adds its own number to the runs held and drops at most the *)
(* victim.                                                                 *)
LEMMA InsertHolds ==
  ASSUME RegInv, NEW id \in RunId, insert_run(id)
  PROVE  /\ runs' \in Seq(Nat)
         /\ \A i \in 1 .. Len(runs') : runs'[i] = Len(issued) + 1 \/ Holding(runs'[i])
         /\ \A r : \/ Holding(r) /\ r \notin finished
                 \/ r = Len(issued) + 1
                 => \E i \in 1 .. Len(runs') : runs'[i] = r
<1> DEFINE kept == IF Len(runs) >= MaxRuns THEN RemoveAt(runs, Victim) ELSE runs
<1>1. runs' = Append(kept, Len(issued) + 1) /\ Len(issued) + 1 \in Nat
  BY DEF insert_run, RegInv, RegTypeOK
<1>2. /\ kept \in Seq(Nat)
      /\ \A i \in 1 .. Len(kept) : \E j \in 1 .. Len(runs) : kept[i] = runs[j]
      /\ \A j \in 1 .. Len(runs) :
           runs[j] \notin finished => \E i \in 1 .. Len(kept) : kept[i] = runs[j]
  <2>0. runs \in Seq(Nat)
    BY DEF RegInv, RegTypeOK
  <2>1. CASE Len(runs) >= MaxRuns
    <3>1. Victim \in 1 .. Len(runs) /\ runs[Victim] \in finished
      BY <2>1, VictimIsFinished DEF insert_run, RegInv
    <3>2. kept = RemoveAt(runs, Victim)
      BY <2>1
    <3> HIDE DEF kept
    <3>3. /\ kept \in Seq(Nat)
          /\ \A i \in 1 .. Len(kept) : \E j \in 1 .. Len(runs) : kept[i] = runs[j]
          /\ \A j \in 1 .. Len(runs) : j # Victim => \E i \in 1 .. Len(kept) : kept[i] = runs[j]
      BY <2>0, <3>1, <3>2, RemoveAtKeeps, Zenon
    <3> QED  BY <3>1, <3>3, Zenon
  <2>2. CASE ~(Len(runs) >= MaxRuns)
    BY <2>0, <2>2
  <2> QED  BY <2>1, <2>2
<1> HIDE DEF kept
<1>3. /\ runs' \in Seq(Nat) /\ Len(runs') = Len(kept) + 1 /\ Len(kept) \in Nat
      /\ \A i \in 1 .. Len(kept) : runs'[i] = kept[i]
      /\ runs'[Len(kept) + 1] = Len(issued) + 1
  BY <1>1, <1>2, AppendProperties, LenProperties
<1>4. ASSUME NEW i \in 1 .. Len(runs')
      PROVE  runs'[i] = Len(issued) + 1 \/ Holding(runs'[i])
  <2>1. i \in 1 .. Len(kept) \/ i = Len(kept) + 1
    BY <1>3
  <2>2. CASE i \in 1 .. Len(kept)
    <3>1. PICK j \in 1 .. Len(runs) : kept[i] = runs[j]
      BY <1>2, <2>2
    <3> QED  BY <1>3, <2>2, <3>1, Zenon DEF Holding
  <2> QED  BY <1>3, <2>1, <2>2, Zenon
<1>5. ASSUME NEW r, Holding(r), r \notin finished 
      PROVE  \E i \in 1 .. Len(runs') : runs'[i] = r
  <2>1. PICK i \in 1 .. Len(kept) : kept[i] = r
    BY <1>2, <1>5 DEF Holding
  <2>2. i \in 1 .. Len(runs') /\ runs'[i] = r
    BY <1>3, <2>1
  <2> QED  BY <2>2
<1>6. \E i \in 1 .. Len(runs') : runs'[i] = Len(issued) + 1
  <2>1. Len(kept) + 1 \in 1 .. Len(runs')
    BY <1>3
  <2> QED  BY <1>3, <2>1
<1> QED  BY <1>3, <1>4, <1>5, <1>6

(* A refused id is one that a held run has, or that is still remembered.   *)
LEMMA FreshId ==
  ASSUME RegInv, NEW id \in RunId, ~Used(id)
  PROVE  /\ \A r : Holding(r) => issued[r] # id
         /\ \A r \in 1 .. Len(issued) : issued[r] = id => (Len(issued) + 1) - r > Remembered
<1>1. RegTypeOK /\ Remembers /\ find_run(id) = 0 /\ ~Contains(used_run_ids, id)
  BY DEF RegInv, Used
<1>2. \A r : Holding(r) => issued[r] # id
  <2>1. ~Holding(0)
    BY <1>1 DEF Holding, RegTypeOK
  <2> QED  BY <1>1, <2>1, FindRunFinds
<1>3. ASSUME NEW r \in 1 .. Len(issued), issued[r] = id
      PROVE  (Len(issued) + 1) - r > Remembered
  <2> DEFINE n == Len(issued)
             u == Len(used_run_ids)
  <2>1. n \in Nat /\ u \in Nat /\ r \in Nat /\ u <= n /\ r <= n /\ r >= 1
    BY <1>1 DEF RegTypeOK, Remembers
  <2>2. ~(r > n - u)
    <3> SUFFICES ASSUME r > n - u PROVE FALSE
      OBVIOUS
    <3>1. r - (n - u) \in 1 .. u /\ (n - u) + (r - (n - u)) = r
      BY <2>1
    <3>2. used_run_ids[r - (n - u)] = issued[r]
      BY <1>1, <3>1 DEF Remembers
    <3> QED  BY <1>1, <1>3, <3>1, <3>2 DEF Contains
  <2>3. u = Remembered
    BY <1>1, <2>1, <2>2 DEF Remembers
  <2> QED  BY <2>1, <2>2, <2>3
<1> QED  BY <1>2, <1>3

(* used_run_ids stays the end of the history.                              *)
LEMMA RemembersStep ==
  ASSUME RegInv, NEW id \in RunId, insert_run(id)
  PROVE  used_run_ids' \in Seq(RunId) /\ Remembers'
<1> DEFINE n == Len(issued)
           u == Append(used_run_ids, id)
           m == Len(used_run_ids)
<1>1. /\ issued \in Seq(RunId) /\ used_run_ids \in Seq(RunId) /\ n \in Nat /\ m \in Nat
      /\ m <= Remembered /\ m <= n /\ (m = n \/ m = Remembered)
      /\ \A i \in 1 .. m : used_run_ids[i] = issued[(n - m) + i]
  BY DEF RegInv, RegTypeOK, Remembers
<1>2. /\ issued' = Append(issued, id)
      /\ used_run_ids' = IF Len(u) > Remembered THEN Tail(u) ELSE u
  BY DEF insert_run
<1>3. /\ u \in Seq(RunId) /\ u # <<>> /\ Len(u) = m + 1
      /\ \A i \in 1 .. m : u[i] = used_run_ids[i]
      /\ u[m + 1] = id
  BY <1>1, AppendProperties
<1>4. /\ Len(issued') = n + 1
      /\ \A i \in 1 .. n : issued'[i] = issued[i]
      /\ issued'[n + 1] = id
  BY <1>1, <1>2, AppendProperties
<1> HIDE DEF u
<1>5. \A i \in 1 .. (m + 1) : u[i] = issued'[(n - m) + i]
  <2> SUFFICES ASSUME NEW i \in 1 .. (m + 1) PROVE u[i] = issued'[(n - m) + i]
    OBVIOUS
  <2>1. CASE i = m + 1
    <3>1. (n - m) + i = n + 1
      BY <1>1, <2>1
    <3> QED  BY <1>3, <1>4, <2>1, <3>1
  <2>2. CASE i # m + 1
    <3>1. i \in 1 .. m /\ (n - m) + i \in 1 .. n
      BY <1>1, <2>2
    <3> QED  BY <1>1, <1>3, <1>4, <3>1, Zenon
  <2> QED  BY <2>1, <2>2
<1>6. CASE Len(u) > Remembered
  <2>1. used_run_ids' = Tail(u) /\ m = Remembered
    BY <1>1, <1>2, <1>3, <1>6, RunRegistryAssumption
  <2>2. /\ Tail(u) \in Seq(RunId) /\ Len(Tail(u)) = m
        /\ \A i \in 1 .. m : Tail(u)[i] = u[i + 1]
    BY <1>1, <1>3, HeadTailProperties
  <2>3. ASSUME NEW i \in 1 .. m PROVE used_run_ids'[i] = issued'[((n + 1) - m) + i]
    <3>1. i + 1 \in 1 .. (m + 1) /\ (n - m) + (i + 1) = ((n + 1) - m) + i
      <4>1. n \in Nat /\ m \in Nat
        BY <1>1
      <4> HIDE DEF n, m
      <4> QED  BY <4>1
    <3> QED  BY <1>5, <2>1, <2>2, <3>1, Zenon
  <2>4. Len(used_run_ids') = m
    BY <2>1, <2>2
  <2>5. m <= Remembered /\ m <= n + 1
    BY <1>1
  <2> QED  BY <1>4, <2>1, <2>2, <2>3, <2>4, <2>5, Zenon DEF Remembers
<1>7. CASE ~(Len(u) > Remembered)
  <2>1. used_run_ids' = u /\ m = n /\ m + 1 <= Remembered
    BY <1>1, <1>2, <1>3, <1>7, RunRegistryAssumption
  <2>2. \A i \in 1 .. (m + 1) : u[i] = issued'[((n + 1) - (m + 1)) + i]
    BY <1>1, <1>5
  <2> QED  BY <1>1, <1>3, <1>4, <2>1, <2>2 DEF Remembers
<1> QED  BY <1>6, <1>7

(* Every step of the registry keeps its invariant.                         *)
LEMMA RegStep ==
  ASSUME RegInv, [RegistryNext]_regvars
  PROVE  RegInv'
<1>0. /\ issued \in Seq(RunId) /\ Len(issued) \in Nat
      /\ \A r : Holding(r) => r \in 1 .. Len(issued)
  BY LenProperties DEF RegInv, RegTypeOK, Holding
<1>1. ASSUME NEW id \in RunId, insert_run(id) PROVE RegInv'
  <2> DEFINE n == Len(issued)
  <2>1. /\ issued' \in Seq(RunId) /\ Len(issued') = n + 1
        /\ \A i \in 1 .. n : issued'[i] = issued[i]
        /\ issued'[n + 1] = id
    BY <1>0, <1>1, AppendProperties DEF insert_run
  <2>2. /\ \A r : Holding(r) => issued[r] # id
        /\ \A r \in 1 .. n : issued[r] = id => (n + 1) - r > Remembered
    BY <1>1, FreshId DEF insert_run
  <2>3. \A r : Holding(r)' => r = n + 1 \/ Holding(r)
    BY <1>1, InsertHolds DEF Holding
  <2>4. \A r : (Holding(r) /\ r \notin finished) \/ r = n + 1 => Holding(r)'
    BY <1>1, InsertHolds, Zenon DEF Holding
  <2>5. RegTypeOK'
    <3>1. \A i \in 1 .. Len(runs') : runs'[i] \in 1 .. (n + 1)
      BY <1>0, <1>1, InsertHolds
    <3> QED  BY <1>1, <2>1, <3>1, InsertHolds, RemembersStep DEF RegTypeOK
  <2>6. Remembers'
    BY <1>1, RemembersStep
  <2> HIDE DEF n
  <2>7. finished' = finished /\ n \in Nat
    BY <1>0, <1>1 DEF insert_run, n
  <2>8. \A r \in 1 .. (n + 1) : r \in 1 .. n \/ r = n + 1
    BY <2>7
  <2>9. \A r \in 1 .. (n + 1) : r \in finished' \/ Holding(r)'
    BY <2>4, <2>7, <2>8 DEF RegInv, n
  <2>10. ASSUME NEW q \in 1 .. (n + 1), NEW r \in 1 .. (n + 1), Holding(q)', r > q
         PROVE  issued'[r] # issued'[q]
    <3>1. q \in 1 .. n /\ q # n + 1
      BY <2>7, <2>10
    <3>2. Holding(q) /\ issued'[q] = issued[q]
      BY <2>1, <2>3, <2>10, <3>1
    <3>3. CASE r = n + 1
      BY <2>1, <2>2, <3>2, <3>3
    <3>4. CASE r \in 1 .. n
      BY <2>1, <2>10, <3>1, <3>2, <3>4 DEF RegInv, n
    <3> QED  BY <2>8, <3>3, <3>4
  <2>11. ASSUME NEW q \in 1 .. (n + 1), NEW r \in 1 .. (n + 1), r > q, issued'[r] = issued'[q]
         PROVE  r - q > Remembered
    <3>1. q \in 1 .. n /\ issued'[q] = issued[q]
      BY <2>1, <2>7, <2>11
    <3>2. CASE r = n + 1
      BY <2>1, <2>2, <2>11, <3>1, <3>2
    <3>3. CASE r \in 1 .. n
      BY <2>1, <2>11, <3>1, <3>3 DEF RegInv, n
    <3> QED  BY <2>8, <3>2, <3>3
  <2> QED  BY <2>1, <2>5, <2>6, <2>9, <2>10, <2>11 DEF RegInv
<1>2. ASSUME NEW r \in DOMAIN issued, mark_finished(r) PROVE RegInv'
  BY <1>2 DEF mark_finished, RegInv, RegTypeOK, Remembers, Holding
<1>3. CASE UNCHANGED regvars
  <2>1. RegTypeOK' /\ Remembers'
    BY <1>3, Zenon DEF regvars, RegInv, RegTypeOK, Remembers
  <2>2. /\ issued' = issued /\ finished' = finished
        /\ \A r : Holding(r)' <=> Holding(r)
    BY <1>3, Zenon DEF regvars, Holding
  <2> QED  BY <2>1, <2>2, Zenon DEF RegInv
<1> QED  BY <1>1, <1>2, <1>3, Zenon DEF RegistryNext

(* A run's id reaches that run, or no run once it has finished, until more *)
(* than Remembered later insertions have let another run have it.          *)
THEOREM IdsNameTheirRuns == RegistrySpec => []IdNamesItsRun
<1>1. RegistryInit => RegInv
  <2> SUFFICES ASSUME RegistryInit PROVE RegInv
    OBVIOUS
  <2>1. runs = <<>> /\ used_run_ids = <<>> /\ issued = <<>>
    BY DEF RegistryInit
  <2>2. <<>> \in Seq(RunId) /\ <<>> \in Seq(Nat) /\ Len(<<>>) = 0
    OBVIOUS
  <2> QED
    BY <2>1, <2>2, RunRegistryAssumption DEF RegInv, RegTypeOK, Remembers
<1>2. RegInv /\ [RegistryNext]_regvars => RegInv'
  BY RegStep
<1>3. RegInv => IdNamesItsRun
  <2> SUFFICES ASSUME RegInv, NEW r \in DOMAIN issued
               PROVE  LET f == find_run(issued[r]) IN
                      f = r \/ (r \in finished /\ (f = 0 \/ f - r > Remembered))
    BY DEF IdNamesItsRun
  <2> DEFINE f == find_run(issued[r])
  <2>1. RegTypeOK /\ DOMAIN issued = 1 .. Len(issued) /\ Len(issued) \in Nat
    BY LenProperties DEF RegInv, RegTypeOK
  <2>2. \/ f = 0 /\ ~Holding(r)
        \/ Holding(f) /\ issued[f] = issued[r]
    BY <2>1, FindRunFinds
  <2>3. r \in finished \/ Holding(r)
    BY <2>1 DEF RegInv
  <2> HIDE DEF f
  <2>4. CASE Holding(f) /\ issued[f] = issued[r]
    <3>1. f \in 1 .. Len(issued) /\ r \in 1 .. Len(issued)
      BY <2>1, <2>4 DEF Holding, RegTypeOK
    <3>2. ~(r > f)
      BY <2>4, <3>1 DEF RegInv
    <3>3. Holding(r) => ~(f > r)
      BY <2>4, <3>1 DEF RegInv
    <3>4. f > r => f - r > Remembered
      BY <2>4, <3>1 DEF RegInv
    <3>5. f = r \/ f > r
      BY <3>1, <3>2
    <3> QED  BY <2>3, <3>3, <3>4, <3>5 DEF f
  <2> QED  BY <2>2, <2>3, <2>4 DEF f
<1> QED  BY <1>1, <1>2, <1>3, PTL DEF RegistrySpec
===============================================================================
