---------------------------------- MODULE Rpc ---------------------------------
(***************************************************************************)
(* JSON-RPC over long-lived connections: the ClientPool and the single     *)
(* Client of client.rs, the framing of codec.rs and ws.rs, and the server  *)
(* of server.rs.                                                           *)
(*                                                                         *)
(* A call stands for its method and parameters, and a response's value is  *)
(* the call it answers.  A response reaches the client in two reads, so a  *)
(* connection task's select! may turn to a new call between them.          *)
(***************************************************************************)
EXTENDS Naturals, Sequences

CONSTANTS
  Call,     \* calls, each issued once
  Conn,     \* connections of the pool, in rotation
  Solo,     \* the connection of a Client
  Cap,      \* the capacity of a connection's channel
  NoCall

ASSUME RpcAssumption ==
  /\ {"new", "waiting", "error", "dropped"} \cap Call = {}
  /\ Conn # <<>> /\ Conn \in Seq({Conn[i] : i \in DOMAIN Conn})

Link == {Conn[i] : i \in DOMAIN Conn} \cup {Solo}

VARIABLES
  call,     \* call[c]: "new", "waiting", "error", "dropped", or the answer
  turn,     \* the pool's next
  chan,     \* chan[k]: calls sent to the connection's task
  ids,      \* ids[k]: next_id
  open,     \* open[k]: requests written and not answered, with their ids
  task,     \* task[k]: the client's end of the connection is served
  out,      \* out[k]: requests on the wire
  serving,  \* serving[k]: what serve_conn is doing
  back,     \* back[k]: the chunks of responses on the wire
  rd_buf    \* rd_buf[k]: half a frame has been read

rpcvars == <<call, turn, chan, ids, open, task, out, serving, back, rd_buf>>
wire == <<out, serving, back, rd_buf>>

NoReq == [id |-> 0, call |-> NoCall]
Reading == [at |-> "read", req |-> NoReq]

RpcInit ==
  /\ call = [c \in Call |-> "new"] /\ turn = 0
  /\ chan = [k \in Link |-> <<>>] /\ ids = [k \in Link |-> 1]
  /\ open = [k \in Link |-> {}] /\ task = [k \in Link |-> TRUE]
  /\ out = [k \in Link |-> <<>>] /\ back = [k \in Link |-> <<>>]
  /\ serving = [k \in Link |-> Reading] /\ rd_buf = [k \in Link |-> FALSE]

Closed(k) == serving[k].at = "closed"

-------------------------------------------------------------------------------
(* ClientPool::call: round robin, whether or not the task still runs.      *)
PoolCall(c) ==
  LET k == Conn[turn + 1] IN
  /\ call[c] = "new" /\ Len(chan[k]) < Cap
  /\ turn' = (turn + 1) % Len(Conn)
  /\ IF task[k]
     THEN chan' = [chan EXCEPT ![k] = Append(@, c)] /\ call' = [call EXCEPT ![c] = "waiting"]
     ELSE call' = [call EXCEPT ![c] = "error"] /\ UNCHANGED chan
  /\ UNCHANGED <<ids, open, task, wire>>

(* write_msg.  A peer that is gone may still take it.                      *)
Written(k, c) ==
  /\ open' = [open EXCEPT ![k] = @ \cup {[id |-> ids[k], call |-> c]}]
  /\ out' = IF Closed(k) THEN out
            ELSE [out EXCEPT ![k] = Append(@, [id |-> ids[k], call |-> c])]
  /\ UNCHANGED <<serving, back, rd_buf>>

(* conn_task takes a call; with a bug, it uses the same id again.          *)
NextIdStays(k) == UNCHANGED ids
NextId(k) == ids' = [ids EXCEPT ![k] = @ + 1]

Answer(cs, v) == call' = [c \in Call |-> IF c \in cs /\ call[c] = "waiting" THEN v ELSE call[c]]
Calls(k) == {r.call : r \in open[k]} \cup {chan[k][i] : i \in DOMAIN chan[k]}

(* The task returns: every sender it held is dropped, and with them the    *)
(* calls fail.  With a bug, the calls already written are kept.            *)
EndedKeeps(k, cs) ==
  /\ task' = [task EXCEPT ![k] = FALSE]
  /\ chan' = [chan EXCEPT ![k] = <<>>] /\ UNCHANGED open
  /\ Answer(cs \ {r.call : r \in open[k]}, "error")
Ended(k, cs) ==
  /\ task' = [task EXCEPT ![k] = FALSE]
  /\ chan' = [chan EXCEPT ![k] = <<>>] /\ open' = [open EXCEPT ![k] = {}]
  /\ Answer(cs, "error")

TaskSend(k) ==
  /\ task[k] /\ chan[k] # <<>>
  /\ \/ /\ Written(k, Head(chan[k])) /\ NextId(k)
        /\ chan' = [chan EXCEPT ![k] = Tail(@)]
        /\ UNCHANGED <<call, task>>
     \/ Closed(k) /\ Ended(k, Calls(k)) /\ UNCHANGED <<ids, wire>>
  /\ UNCHANGED turn

(* Client::call holds the connection until its answer or its caller is     *)
(* gone; an answer left behind by a dropped call has another id.           *)
SoloCall(c) ==
  /\ call[c] = "new" /\ task[Solo] /\ open[Solo] = {}
  /\ call' = [call EXCEPT ![c] = "waiting"]
  /\ Written(Solo, c) /\ NextId(Solo)
  /\ UNCHANGED <<turn, chan, task>>

(* The caller's future is dropped.                                         *)
Drop(c) ==
  /\ call[c] = "waiting"
  /\ call' = [call EXCEPT ![c] = "dropped"]
  /\ open' = [open EXCEPT ![Solo] = {r \in @ : r.call # c}]
  /\ UNCHANGED <<turn, chan, ids, task, wire>>

-------------------------------------------------------------------------------
(* read_msg: the first part of a frame stays in the buffer, though select! *)
(* drops the read for a new call; the second completes it.                 *)
read_msg(k) ==
  /\ back[k] # <<>>
  /\ back' = [back EXCEPT ![k] = Tail(@)]
  /\ rd_buf' = [rd_buf EXCEPT ![k] = ~@]

(* A complete response goes to the call with its id.                       *)
TaskRead(k) ==
  /\ task[k] /\ read_msg(k)
  /\ IF ~rd_buf[k]
     THEN UNCHANGED <<call, open>>
     ELSE LET rs == {r \in open[k] : r.id = Head(back[k]).id} IN
          /\ open' = [open EXCEPT ![k] = @ \ rs]
          /\ Answer({r.call : r \in rs}, Head(back[k]).call)
  /\ UNCHANGED <<turn, chan, ids, task, out, serving>>

(* The end of the stream, mid-frame or not.                                *)
TaskClosed(k) ==
  /\ task[k] /\ Closed(k) /\ back[k] = <<>>
  /\ Ended(k, Calls(k))
  /\ UNCHANGED <<turn, ids, wire>>

(* serve_conn: read, handle, answer.                                       *)
ServeRead(k) ==
  /\ serving[k].at = "read" /\ out[k] # <<>>
  /\ serving' = [serving EXCEPT ![k] = [at |-> "handle", req |-> Head(out[k])]]
  /\ out' = [out EXCEPT ![k] = Tail(@)]
  /\ UNCHANGED <<call, turn, chan, ids, open, task, back, rd_buf>>

ServeWrite(k) ==
  /\ serving[k].at \in {"handle", "half"}
  /\ back' = [back EXCEPT ![k] = Append(@, serving[k].req)]
  /\ serving' = [serving EXCEPT ![k] = IF @.at = "handle" THEN [@ EXCEPT !.at = "half"]
                                       ELSE Reading]
  /\ UNCHANGED <<call, turn, chan, ids, open, task, out, rd_buf>>

ServeCloses(k) ==
  /\ ~Closed(k)
  /\ serving' = [serving EXCEPT ![k] = [at |-> "closed", req |-> NoReq]]
  /\ out' = [out EXCEPT ![k] = <<>>]
  /\ UNCHANGED <<call, turn, chan, ids, open, task, back, rd_buf>>

ClientStep(k) == TaskSend(k) \/ TaskRead(k) \/ TaskClosed(k)
ServerStep(k) == ServeRead(k) \/ ServeWrite(k)

RpcNext ==
  \/ \E c \in Call : PoolCall(c) \/ SoloCall(c) \/ Drop(c)
  \/ \E k \in Link : ClientStep(k) \/ ServerStep(k) \/ ServeCloses(k)

RpcSpec == RpcInit /\ [][RpcNext]_rpcvars

(* The tasks of both ends run, and handlers return.                        *)
RpcFairness ==
  \A k \in Link : WF_rpcvars(ClientStep(k)) /\ WF_rpcvars(ServerStep(k))

-------------------------------------------------------------------------------
(* A caller gets the answer to its own request, though calls overlap, are  *)
(* dropped before their answers come, and responses arrive in pieces.      *)
AnswersMatch ==
  \A c \in Call : call[c] \in Call => call[c] = c

(* A call ends: with its answer, or with an error when the connection      *)
(* fails before or after the request is written.                           *)
CallEnds ==
  \A c \in Call : call[c] = "waiting" ~> call[c] # "waiting"
===============================================================================
