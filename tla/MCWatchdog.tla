------------------------------- MODULE MCWatchdog -----------------------------
(***************************************************************************)
(* Parts of the malkuth binary that share no state, checked in one run: a  *)
(* behaviour chooses a part and takes its steps only.  The rebuild task is *)
(* the part whose Init and Next have no prefix.                            *)
(***************************************************************************)
EXTENDS Rebuild, Singleton, DbBackup, LogForward, FrontDoor, HttpRelay

VARIABLE part  \* chosen

allvars == <<part, vars, dogvars, dbvars, fwdvars, doorvars, relayvars>>

(* A part that was not chosen has one of its initial states.               *)
PartInit ==
  /\ part \in {"rebuild", "singleton", "backup", "forward", "door", "relay"}
  /\ Init /\ DogInit /\ BackupInit /\ ForwardInit /\ DoorInit /\ RelayInit
  /\ part # "rebuild" => armed = {}
  /\ part # "backup" => ~keyed
  /\ part # "door" => backend.state = "down"
  /\ part # "relay" => answer.kind = "eof" /\ answer.size = 0 /\ ~cut

Chosen(p) ==
  /\ part = p /\ UNCHANGED part
  /\ IF p = "rebuild" THEN TRUE ELSE UNCHANGED vars
  /\ IF p = "singleton" THEN TRUE ELSE UNCHANGED dogvars
  /\ IF p = "backup" THEN TRUE ELSE UNCHANGED dbvars
  /\ IF p = "forward" THEN TRUE ELSE UNCHANGED fwdvars
  /\ IF p = "door" THEN TRUE ELSE UNCHANGED doorvars
  /\ IF p = "relay" THEN TRUE ELSE UNCHANGED relayvars

PartNext ==
  \/ Chosen("rebuild") /\ Next
  \/ Chosen("singleton") /\ DogNext
  \/ Chosen("backup") /\ BackupNext
  \/ Chosen("forward") /\ ForwardNext
  \/ Chosen("door") /\ DoorNext
  \/ Chosen("relay") /\ RelayNext

(* The fairness of Rebuild's FairSpec and of FrontDoor's.                  *)
PartSpec ==
  /\ PartInit /\ [][PartNext]_allvars
  /\ WF_vars(part = "rebuild" /\ (Elapse \/ Fire))
  /\ WF_vars(part = "rebuild" /\ Poll)
  /\ WF_vars(part = "rebuild" /\ Event)
  /\ WF_vars(part = "rebuild" /\ \E p \in Path : Retry(p))
  /\ WF_vars(part = "rebuild" /\ ProbeRemote)
  /\ WF_vars(part = "rebuild" /\ Task)
  /\ WF_vars(part = "rebuild" /\ BackoffPasses)
  /\ WF_doorvars(part = "door" /\ \E b \in 1 .. MaxBuild : b >= backend.build /\ Recover(b))
  /\ WF_doorvars(part = "door" /\ CheckerStep)
  /\ WF_doorvars(part = "door" /\ DocAnswer)
  /\ WF_doorvars(part = "door" /\ CountdownEnds)
  /\ WF_doorvars(part = "door" /\ PollReload)
===============================================================================
