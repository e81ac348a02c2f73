------------------------------- MODULE PodPool --------------------------------
(***************************************************************************)
(* The pod pool of pool.rs and the sticky proxies in front of it           *)
(* (proxy.rs, ws_proxy.rs, ipc_proxy.rs).  Each pod has a supervision task *)
(* that spawns the child, probes its port, enters it in the shared map and *)
(* publishes the map to the proxy; connections read the proxy's ring and   *)
(* the sticky cache at their own pace.                                     *)
(*                                                                         *)
(* A pod stands for its backend address, which it keeps across restarts.   *)
(* Time is abstract: a timeout or an expiry may happen whenever it is      *)
(* armed.  A spawn that fails is retried and changes nothing.              *)
(***************************************************************************)
EXTENDS Integers, FiniteSets

CONSTANTS
  Pod, Conn,   \* pods, and proxied connections
  Key,         \* routing keys: a client's address, or "ipc-<pid>"
  WsConn,      \* the connections of the WebSocket proxy
  Points,      \* Points[p]: where hash64 puts a pod's virtual nodes
  KeyHash,     \* KeyHash[k]: where it puts a key
  Size,        \* the size of the ring of hashes
  NoPod

ASSUME PodPoolAssumption ==
  /\ NoPod \notin Pod /\ Key # {} /\ Size \in Nat \ {0}
  /\ KeyHash \in [Key -> Nat] /\ Points \in [Pod -> SUBSET Nat]
  /\ \A p \in Pod : Points[p] # {}

VARIABLES
  proxied,     \* a proxy is configured: pods have ports
  pc, child,   \* pc[p], child[p]: the supervision task and its child
  permit,      \* permit[p]: a restart request in the pod's Notify
  meta,        \* the pods registered in the shared map
  ring,        \* the backends of the proxy's ring
  sticky,      \* sticky[k]: the cached pod of a key, or NoPod
  conn,        \* conn[c]: stage, key, pod picked, pods that failed
  steady       \* history: steady[c], the pods routed since c was accepted

pods == <<pc, child, permit, meta, ring>>
vars == <<proxied, pods, sticky, conn, steady>>

Idle == [at |-> "idle", key |-> CHOOSE k \in Key : TRUE, pod |-> NoPod, dead |-> {}]

Init ==
  /\ proxied \in BOOLEAN
  /\ pc = [p \in Pod |-> "spawn"] /\ child = [p \in Pod |-> "dead"]
  /\ permit = [p \in Pod |-> FALSE]
  /\ meta = {} /\ ring = {}
  /\ sticky = [k \in Key |-> NoPod]
  /\ conn = [c \in Conn |-> Idle]
  /\ steady = [c \in Conn |-> {}]

-------------------------------------------------------------------------------
(* Ring::route_excluding: walk from the key's hash upwards, around the end,*)
(* to the first point of a backend not excluded.                           *)
Distance(k, x) == (x - KeyHash[k]) % Size
Reach(k, p) == CHOOSE d \in 0..(Size - 1) :
                 /\ \E x \in Points[p] : Distance(k, x) = d
                 /\ \A x \in Points[p] : d <= Distance(k, x)

(* With a bug: the walk gives up at the key's own backend.                 *)
route_owner(k, backends, dead) ==
  LET p == CHOOSE p \in backends : \A q \in backends : Reach(k, p) <= Reach(k, q)
  IN  IF backends = {} THEN NoPod ELSE IF p \in dead THEN NoPod ELSE p

route_excluding(k, backends, dead) ==
  IF backends \subseteq dead THEN NoPod
  ELSE CHOOSE p \in backends \ dead : \A q \in backends \ dead : Reach(k, p) <= Reach(k, q)

-------------------------------------------------------------------------------
Goto(p, l) == pc' = [pc EXCEPT ![p] = l]
Child(p, s) == child' = [child EXCEPT ![p] = s]
Published == steady' = [c \in Conn |-> steady[c] \cap ring']
OnlyPods == UNCHANGED <<proxied, sticky, conn>>
Quiet == OnlyPods /\ UNCHANGED <<ring, steady>>

Spawn(p) ==
  /\ pc[p] = "spawn"
  /\ Child(p, "starting") /\ Goto(p, IF proxied THEN "probe" ELSE "serve")
  /\ UNCHANGED <<permit, meta>> /\ Quiet

ChildListens(p) ==
  /\ child[p] = "starting" /\ Child(p, "listening")
  /\ UNCHANGED <<pc, permit, meta>> /\ Quiet

ChildExits(p) ==
  /\ child[p] # "dead" /\ Child(p, "dead")
  /\ UNCHANGED <<pc, permit, meta>> /\ Quiet

(* wait_ready, which looks neither at the child nor at the Notify.  A      *)
(* window missed leads to the late loop, without which the pod would run   *)
(* unregistered.                                                           *)
MissedServes(p) == pc[p] = "probe" /\ Goto(p, "serve")
Missed(p) == pc[p] = "probe" /\ Goto(p, "late")

WaitReady(p) ==
  /\ \/ pc[p] = "probe" /\ child[p] = "listening" /\ Goto(p, "insert")
     \/ Missed(p)
  /\ UNCHANGED <<child, permit, meta>> /\ Quiet

(* The late loop's select is biased: a request first, then the probe, then *)
(* the child's exit.                                                       *)
LateDeaf(p) == FALSE
LateRestart(p) ==
  /\ pc[p] = "late" /\ permit[p]
  /\ permit' = [permit EXCEPT ![p] = FALSE] /\ Goto(p, "stop")

LateProbe(p) ==
  /\ pc[p] = "late" /\ ~permit[p] /\ child[p] # "starting"
  /\ Goto(p, IF child[p] = "listening" THEN "insert" ELSE "remove")
  /\ UNCHANGED permit

Late(p) ==
  /\ LateRestart(p) \/ LateProbe(p)
  /\ UNCHANGED <<child, meta>> /\ Quiet

Insert(p) ==
  /\ pc[p] = "insert"
  /\ meta' = meta \cup {p} /\ Goto(p, "publish")
  /\ UNCHANGED <<child, permit>> /\ Quiet

(* publish_backends holds the map's lock while it sets the ring.           *)
Publish(p) ==
  /\ pc[p] \in {"publish", "unpublish"}
  /\ ring' = meta
  /\ Goto(p, IF pc[p] = "publish" THEN "serve" ELSE "spawn")
  /\ Published /\ OnlyPods
  /\ UNCHANGED <<child, permit, meta>>

ServeExit(p) ==
  /\ pc[p] = "serve" /\ child[p] = "dead" /\ Goto(p, "remove")
  /\ UNCHANGED <<child, permit, meta>> /\ Quiet

ServeRestart(p) ==
  /\ pc[p] = "serve" /\ permit[p]
  /\ permit' = [permit EXCEPT ![p] = FALSE] /\ Goto(p, "stop")
  /\ UNCHANGED <<child, meta>> /\ Quiet

(* stop_draining: SIGTERM, and SIGKILL when the window ends.  The pod is   *)
(* routed until it is gone.                                                *)
StopDraining(p) ==
  /\ pc[p] = "stop" /\ Child(p, "dead") /\ Goto(p, "remove")
  /\ UNCHANGED <<permit, meta>> /\ Quiet

RemoveKeeps(p) ==
  /\ pc[p] = "remove" /\ Goto(p, "unpublish")
  /\ UNCHANGED <<child, permit, meta>> /\ Quiet

RemoveMeta(p) ==
  /\ pc[p] = "remove"
  /\ meta' = meta \ {p} /\ Goto(p, "unpublish")
  /\ UNCHANGED <<child, permit>> /\ Quiet

restart_one(p) ==
  /\ permit' = [permit EXCEPT ![p] = TRUE]
  /\ UNCHANGED <<pc, child, meta>> /\ Quiet

-------------------------------------------------------------------------------
OnlyConn == UNCHANGED <<proxied, pods, steady>>

Accept(c) ==
  /\ proxied /\ conn[c].at \in {"idle", "turned"}
  /\ \E k \in Key : conn' = [conn EXCEPT ![c] = [Idle EXCEPT !.at = "sticky", !.key = k]]
  /\ steady' = [steady EXCEPT ![c] = ring]
  /\ UNCHANGED <<proxied, pods, sticky>>

(* pick: the sticky cache, then the ring, each under its own lock.  The    *)
(* entry may have expired.                                                 *)
ReadSticky(c) ==
  /\ conn[c].at = "sticky"
  /\ \E s \in {sticky[conn[c].key], NoPod} :
       conn' = [conn EXCEPT ![c].at = "ring",
                            ![c].pod = IF s \in conn[c].dead THEN NoPod ELSE s]
  /\ UNCHANGED sticky /\ OnlyConn

ReadRing(c) ==
  /\ conn[c].at = "ring"
  /\ LET r == conn[c]
         q == route_excluding(r.key, ring, r.dead)
     IN IF r.pod \in ring
        THEN conn' = [conn EXCEPT ![c].at = "connect"] /\ UNCHANGED sticky
        ELSE /\ conn' = [conn EXCEPT ![c].at = IF q = NoPod THEN "turned" ELSE "connect",
                                     ![c].pod = q]
             /\ sticky' = IF q = NoPod THEN sticky ELSE [sticky EXCEPT ![r.key] = q]
  /\ OnlyConn

(* The failed backend is excluded from now on.                             *)
Failed(r) == [r EXCEPT !.at = "sticky", !.dead = @ \cup {r.pod}]

(* invalidate forgets the key's pod, whoever put it there.                 *)
TryAnother(c) ==
  /\ conn' = [conn EXCEPT ![c] = Failed(@)]
  /\ sticky' = [sticky EXCEPT ![conn[c].key] = NoPod]

Connect(c) ==
  /\ conn[c].at = "connect"
  /\ IF child[conn[c].pod] = "listening"
     THEN /\ conn' = [conn EXCEPT ![c].at = IF c \in WsConn THEN "handshake" ELSE "open"]
          /\ UNCHANGED sticky
     ELSE TryAnother(c)
  /\ OnlyConn

(* A WebSocket backend may fail the handshake, or die before it.           *)
Handshake(c) ==
  /\ conn[c].at = "handshake"
  /\ \/ /\ child[conn[c].pod] = "listening"
        /\ conn' = [conn EXCEPT ![c].at = "open"] /\ UNCHANGED sticky
     \/ TryAnother(c)
  /\ OnlyConn

Close(c) ==
  /\ conn[c].at = "open"
  /\ conn' = [conn EXCEPT ![c] = Idle] /\ UNCHANGED sticky /\ OnlyConn

Supervise(p) ==
  \/ Spawn(p) \/ WaitReady(p) \/ Late(p) \/ Insert(p) \/ Publish(p)
  \/ ServeExit(p) \/ ServeRestart(p) \/ StopDraining(p) \/ RemoveMeta(p)

HandleClient(c) == ReadSticky(c) \/ ReadRing(c) \/ Connect(c) \/ Handshake(c)

Next ==
  \/ \E p \in Pod : Supervise(p) \/ ChildListens(p) \/ ChildExits(p) \/ restart_one(p)
  \/ \E c \in Conn : HandleClient(c) \/ Accept(c) \/ Close(c)

Spec == Init /\ [][Next]_vars

(* Tasks are scheduled; children and clients owe nothing.                  *)
FairSpec ==
  /\ Spec
  /\ \A p \in Pod : WF_vars(Supervise(p))
  /\ \A c \in Conn : WF_vars(HandleClient(c))

-------------------------------------------------------------------------------
(* The ring never holds a pod whose present child has not answered its     *)
(* probe, whichever pod's task published last.                             *)
RoutedHasAnswered ==
  \A p \in ring : pc[p] \in {"publish", "serve", "stop", "remove", "unpublish"}

(* A client is turned away only if every pod routed all the while since it *)
(* was accepted has failed it.                                             *)
TurnedAwayForCause ==
  \A c \in Conn : conn[c].at = "turned" => steady[c] \subseteq conn[c].dead

(* A restart request ends the pod's present child, whatever its task was   *)
(* doing: starting, probing, probing late or serving.                      *)
RestartEndsChild ==
  \A p \in Pod : permit[p] ~> pc[p] = "spawn"

(* A pod that answers is routed, however late it began to, unless it stops *)
(* answering or is restarted.                                              *)
AnsweringIsRouted ==
  \A p \in Pod : proxied /\ child[p] = "listening" ~>
                   p \in ring \/ child[p] # "listening"
===============================================================================
