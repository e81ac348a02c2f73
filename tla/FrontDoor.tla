------------------------------- MODULE FrontDoor ------------------------------
(***************************************************************************)
(* The --serve front door (info_page.rs) with a browser behind it: the     *)
(* health checker learns the backend's state and its build token, document *)
(* requests of clients that have not seen the token's build get the        *)
(* landing page, everything else is forwarded, and the landing page        *)
(* (LandingPage.tsx) brings the client into the backend.                   *)
(*                                                                         *)
(* A token is the build it was computed from; 0 is the initial "1", and a  *)
(* nonce of -1 is no cookie.                                               *)
(***************************************************************************)
EXTENDS Integers

CONSTANTS
  MaxBuild,     \* bound: builds of the backend
  MaxOutages    \* bound: outages of the backend

VARIABLES
  backend,      \* [state, build]: what answers behind the door
  outages,
  checker,      \* the health checker's round: [at, state, token]
  backend_state,   \* what the checker last stored
  epoch,
  nonce,        \* the client's __malkuth_nonce
  page,         \* [at, token]: what the browser shows, and its initEpoch
  doc,          \* epoch under which a document is being forwarded, or None
  xhr,          \* the same for a background request of the application
  shown,        \* history: tokens the landing page was shown for
  entered,      \* history: tokens under which a document was forwarded
  late          \* history: a background reply stamped an older token

doorvars == <<backend, outages, checker, backend_state, epoch, nonce, page, doc, xhr, shown, entered, late>>
client == <<nonce, page, doc, xhr, shown, entered, late>>

None == -1
NoToken == -1

DoorInit ==
  /\ backend \in [state : {"up", "notready", "down"}, build : {1}] /\ outages = 0
  /\ checker = [at |-> "idle", state |-> "down", token |-> NoToken]
  /\ backend_state = backend.state /\ epoch = IF backend.state = "up" THEN 1 ELSE 0
  /\ nonce = -1 /\ page = [at |-> "none", token |-> 0]
  /\ doc = None /\ xhr = None
  /\ shown = {} /\ entered = {} /\ late = FALSE

-------------------------------------------------------------------------------
(* The backend goes down, reports not-ready, or comes back, perhaps with   *)
(* another build.                                                          *)
Outage(s) ==
  /\ backend.state = "up" /\ outages < MaxOutages
  /\ backend' = [backend EXCEPT !.state = s] /\ outages' = outages + 1
  /\ UNCHANGED <<checker, backend_state, epoch, client>>

Recover(b) ==
  /\ backend.state # "up"
  /\ backend' = [state |-> "up", build |-> b]
  /\ UNCHANGED <<outages, checker, backend_state, epoch, client>>

(* One round of the checker: the state, then the token, then both are      *)
(* stored, one after the other.                                            *)
probe_backend ==
  /\ checker.at = "idle"
  /\ checker' = [at |-> "token", state |-> backend.state, token |-> NoToken]
  /\ UNCHANGED <<backend, outages, backend_state, epoch, client>>

probe_backend_epoch ==
  /\ checker.at = "token"
  /\ checker' = [checker EXCEPT !.at = "store",
                                !.token = IF backend.state = "up" THEN backend.build ELSE NoToken]
  /\ backend_state' = checker.state
  /\ UNCHANGED <<backend, outages, epoch, client>>

(* A failed probe keeps the previous token; with a bug, it resets it.      *)
LearnedReset(token) == IF token = NoToken THEN 0 ELSE token
Learned(token) == IF token = NoToken THEN epoch ELSE token

StoreEpoch ==
  /\ checker.at = "store"
  /\ checker' = [checker EXCEPT !.at = "idle"] /\ epoch' = Learned(checker.token)
  /\ UNCHANGED <<backend, outages, backend_state, client>>

-------------------------------------------------------------------------------
(* What the landing page is rendered with, and what its probes are told.   *)
build_spa_init ==
  [state |-> CASE backend_state = "up" -> "landing" [] backend_state = "notready" -> "starting" [] OTHER -> "offline",
   epoch |-> epoch]
serve_probe ==
  [state |-> CASE backend_state = "up" -> "ready" [] backend_state = "notready" -> "starting" [] OTHER -> "offline",
   epoch |-> epoch]

(* loadInit: what the page does with that.  With a bug, a client whose     *)
(* cookie matches waits for a click.                                       *)
loadInitStuck(n) ==
  LET init == build_spa_init IN
  [at |-> CASE init.state # "landing" -> "poll" [] n = init.epoch -> "refresh"
            [] OTHER -> "countdown",
   token |-> init.epoch]
loadInit(n) ==
  LET init == build_spa_init IN
  [at |-> IF init.state # "landing" \/ n = init.epoch THEN "poll" ELSE "countdown",
   token |-> init.epoch]

Landing == {"countdown", "poll", "refresh", "cancelled"}

(* info_page: a document is forwarded when the nonce is the token of the   *)
(* current build, and is the landing page otherwise.                       *)
request_interceptable(dest) == dest = "document"
Intercept(n, dest) == n # epoch /\ request_interceptable(dest)

Load(n) ==
  /\ nonce' = n
  /\ IF Intercept(n, "document")
     THEN page' = loadInit(n) /\ shown' = shown \cup {epoch} /\ UNCHANGED <<doc, entered>>
     ELSE doc' = epoch /\ entered' = entered \cup {epoch}
          /\ page' = [page EXCEPT !.at = "loading"]
          /\ shown' = IF page.at \in Landing THEN shown \cup {n} ELSE shown
  /\ UNCHANGED <<backend, outages, checker, backend_state, epoch, xhr, late>>

Navigate ==
  /\ page.at \in Landing \cup {"none", "app"} /\ doc = None
  /\ Load(nonce)

(* proxy_to_backend answers: the reply carries the nonce of the epoch read *)
(* before the request was forwarded.  A backend that is down or draining   *)
(* is masked by the landing page.                                          *)
DocAnswer ==
  /\ doc # None /\ doc' = None
  /\ IF backend.state = "up"
     THEN page' = [at |-> "app", token |-> doc] /\ nonce' = doc
     ELSE page' = loadInit(nonce) /\ UNCHANGED nonce
  /\ UNCHANGED <<backend, outages, checker, backend_state, epoch, xhr, shown, entered, late>>

(* A background request of a running application is never intercepted.     *)
XhrSend ==
  /\ page.at = "app" /\ xhr = None /\ ~Intercept(nonce, "xhr")
  /\ xhr' = epoch
  /\ UNCHANGED <<backend, outages, checker, backend_state, epoch, nonce, page, doc, shown, entered, late>>

XhrAnswer ==
  /\ xhr # None /\ xhr' = None
  /\ IF backend.state = "up"
     THEN nonce' = xhr /\ late' = (late \/ nonce > xhr)
     ELSE UNCHANGED <<nonce, late>>
  /\ UNCHANGED <<backend, outages, checker, backend_state, epoch, page, doc, shown, entered>>

(* The countdown ends: the token the page was rendered with.               *)
CountdownEnds == page.at = "countdown" /\ Load(page.token)

(* probe: reload with the token of now, once the door says ready.          *)
PollReload == page.at = "poll" /\ serve_probe.state = "ready" /\ Load(serve_probe.epoch)

(* cancelRedirect, and doRefresh.                                          *)
Cancel ==
  /\ page.at \in {"countdown", "poll"} /\ page' = [page EXCEPT !.at = "cancelled"]
  /\ UNCHANGED <<backend, outages, checker, backend_state, epoch, nonce, doc, xhr, shown, entered, late>>
Refresh == page.at \in Landing \ {"countdown"} /\ Load(serve_probe.epoch)

BackendStep ==
  (\E s \in {"notready", "down"} : Outage(s)) \/ (\E b \in 1 .. MaxBuild : b >= backend.build /\ Recover(b))
CheckerStep == probe_backend \/ probe_backend_epoch \/ StoreEpoch
UserStep == Navigate \/ XhrSend \/ Cancel \/ Refresh
PageStep == DocAnswer \/ XhrAnswer \/ CountdownEnds \/ PollReload
DoorNext == BackendStep \/ CheckerStep \/ UserStep \/ PageStep
DoorSpec == DoorInit /\ [][DoorNext]_doorvars

(* The backend comes back, the checker loops, timers fire and forwarded    *)
(* requests end within their timeout.  Nothing is asked of the user.       *)
DoorFairness ==
  /\ WF_doorvars(\E b \in 1 .. MaxBuild : b >= backend.build /\ Recover(b))
  /\ WF_doorvars(CheckerStep) /\ WF_doorvars(DocAnswer)
  /\ WF_doorvars(CountdownEnds) /\ WF_doorvars(PollReload)

-------------------------------------------------------------------------------
(* A client on the landing page gets into the backend by itself once the   *)
(* backend is back for good, unless its user cancels the redirect.         *)
EntersBackend ==
  page.at \in {"countdown", "poll"} ~> page.at \in {"app", "cancelled"}

(* A client that has entered under the token of the current build is       *)
(* still recognised, so it is not intercepted for that build again, however *)
(* often probes fail, unless a late reply of its own has put an older      *)
(* token back.                                                             *)
StillRecognised ==
  epoch \in entered => nonce = epoch \/ late

(* What the comments promise: a client is forwarded into a build only      *)
(* after the landing page was shown for it.                                *)
ShownBeforeEntered ==
  entered \subseteq shown
===============================================================================
