-------------------------------- MODULE Daemon --------------------------------
(***************************************************************************)
(* `malkuth daemon` (bin/malkuth.rs) and its Windows service host          *)
(* (windows_service.rs): processes that compete for one pid file, and in   *)
(* each the loop that reads the configuration, supervises the workers and  *)
(* is told to reload or to exit by signals or by the service manager.      *)
(*                                                                         *)
(* Every iteration of the loop spawns a task that waits for a reload or an *)
(* exit and then drains that iteration's DrainController.  An iteration    *)
(* whose workers all end by themselves leaves its task behind, an orphan   *)
(* first in the queue of the Notify.  supervisor.run is abstracted to what *)
(* Supervisor.tla shows of it: it ends after a drain, or on its own.       *)
(***************************************************************************)
EXTENDS Naturals

CONSTANTS
  Proc,        \* processes started with the same pid file; a pid each
  NoPid,       \* not a process
  MaxOrphans   \* bound on the tasks left behind in one process

ASSUME DaemonAssumption == NoPid \notin Proc

VARIABLES
  windows,     \* the platform: mutex and service manager, or pid and signals
  file, ino,   \* what the pid file says, and which inode its path names
  mutex,       \* Windows: the process that owns the named mutex
  proc,        \* proc[d]: the process, a record with the fields of Fresh
  overlap      \* history: two processes were starting at the same time

vars == <<windows, file, ino, mutex, proc, overlap>>

(* pc: where acquire_daemon_lock and the loop are.  fd: the inode open for *)
(* writing.  scm, stop: the state last reported to the service manager and *)
(* the handler's shutdown channel.  exit: the exit channel.  permit: a     *)
(* permit stored in reload_notify.  task, drain: this iteration's waiting  *)
(* task and its controller.  orphans: earlier tasks still waiting.  owed:  *)
(* history, a SIGHUP no configuration was read for since.                  *)
Fresh ==
  [pc |-> "off", fd |-> 0, scm |-> "stopped", stop |-> FALSE, exit |-> FALSE,
   permit |-> FALSE, task |-> "done", drain |-> FALSE, orphans |-> 0, owed |-> FALSE]

Starting == {d \in Proc : proc[d].pc \in {"read", "unlink", "create", "write"}}
Looping == {d \in Proc : proc[d].pc \in {"config", "running", "over"}}
Alive(d) == proc[d].pc # "off"

(* No pid file, one of a process long gone, or one that does not parse.    *)
Init ==
  /\ windows \in BOOLEAN
  /\ file \in {"absent", "blank", "stale"} /\ ino = 0
  /\ mutex = NoPid
  /\ proc = [d \in Proc |-> Fresh]
  /\ overlap = FALSE

At(d, l) == proc' = [proc EXCEPT ![d].pc = l]

(* The process ends; the kernel closes what it had open.                   *)
End(d, status) ==
  /\ proc' = [proc EXCEPT ![d] = [Fresh EXCEPT !.scm = status]]
  /\ mutex' = IF mutex = d THEN NoPid ELSE mutex

-------------------------------------------------------------------------------
(* acquire_daemon_lock, a file operation a step.  On Windows the mutex     *)
(* comes first and the pid in the file is not looked up.                   *)
Start(d) ==
  /\ ~Alive(d)
  /\ proc' = [proc EXCEPT ![d] = [Fresh EXCEPT !.pc = "read"]]
  /\ overlap' = (overlap \/ Starting # {})
  /\ UNCHANGED <<windows, file, ino, mutex>>

(* service_main: StartPending, then Running once the runtime is built.     *)
ServiceStart(d) ==
  /\ windows /\ ~Alive(d)
  /\ proc' = [proc EXCEPT ![d] = [Fresh EXCEPT !.pc = "service", !.scm = "pending"]]
  /\ UNCHANGED <<windows, file, ino, mutex, overlap>>

ServiceRunning(d) ==
  /\ proc[d].pc = "service"
  /\ \/ /\ proc' = [proc EXCEPT ![d].pc = "read", ![d].scm = "running"]
        /\ overlap' = (overlap \/ Starting # {})
        /\ UNCHANGED mutex
     \/ End(d, "stopped") /\ UNCHANGED overlap
  /\ UNCHANGED <<windows, file, ino>>

(* The live owner taken for a stale one.                                   *)
RefusedOnWindows == windows /\ mutex # NoPid

Refused ==
  \/ windows /\ mutex # NoPid
  \/ ~windows /\ file \in Proc /\ Alive(file)

ReadPid(d) ==
  /\ proc[d].pc = "read"
  /\ IF Refused
     THEN End(d, "stopped")
     ELSE /\ At(d, IF file \in Proc \cup {"stale"} THEN "unlink" ELSE "create")
          /\ mutex' = IF windows THEN d ELSE mutex
  /\ UNCHANGED <<windows, file, ino, overlap>>

Unlink(d) ==
  /\ proc[d].pc = "unlink"
  /\ file' = "absent"
  /\ At(d, "create")
  /\ UNCHANGED <<windows, ino, mutex, overlap>>

(* create_new, or else File::create, which truncates what is there.        *)
Create(d) ==
  /\ proc[d].pc = "create"
  /\ ino' = IF file # "absent" THEN ino
            ELSE CHOOSE i \in 0..3 : \A e \in Proc : Alive(e) => proc[e].fd # i
  /\ file' = "blank"
  /\ proc' = [proc EXCEPT ![d].pc = "write", ![d].fd = ino']
  /\ UNCHANGED <<windows, mutex, overlap>>

WritePid(d) ==
  /\ proc[d].pc = "write"
  /\ file' = IF file # "absent" /\ ino = proc[d].fd THEN d ELSE file
  /\ At(d, "config")
  /\ UNCHANGED <<windows, ino, mutex, overlap>>

-------------------------------------------------------------------------------
(* The signal tasks and the control handler.                               *)
Exited(r) == [r EXCEPT !.exit = TRUE, !.orphans = 0,
                       !.task = IF @ = "waiting" THEN "woken" ELSE @]

ExitSignal(d) ==
  /\ d \in Looping
  /\ proc' = [proc EXCEPT ![d] = Exited(@)]
  /\ UNCHANGED <<windows, file, ino, mutex, overlap>>

ServiceStop(d) ==
  /\ proc[d].scm \in {"pending", "running"}
  /\ proc' = [proc EXCEPT ![d].stop = TRUE]
  /\ UNCHANGED <<windows, file, ino, mutex, overlap>>

ForwardStop(d) == proc[d].stop /\ ~proc[d].exit /\ ExitSignal(d)

(* The notify lost when no task waits, as notify_waiters would.            *)
NotifiedWaiters(r) ==
  [r EXCEPT !.orphans = 0, !.task = IF @ = "waiting" THEN "woken" ELSE @, !.owed = TRUE]

(* notify_one wakes the task that waits longest, or stores a permit.       *)
Notified(r) ==
  IF r.orphans > 0 THEN [r EXCEPT !.orphans = @ - 1]
  ELSE IF r.task = "waiting" THEN [r EXCEPT !.task = "woken", !.owed = TRUE]
  ELSE [r EXCEPT !.permit = TRUE, !.owed = TRUE]

HangUp(d) ==
  /\ ~windows /\ d \in Looping
  /\ proc' = [proc EXCEPT ![d] = Notified(@)]
  /\ UNCHANGED <<windows, file, ino, mutex, overlap>>

(* Does a task polled for the first time find its select ready?  The exit  *)
(* receiver is a clone of one that never saw the change, so yes if exit    *)
(* came first; a clone of one that had seen it would wait.                 *)
ReadySeen(r) == r.permit

Ready(r) == r.permit \/ r.exit

(* The task of this iteration: first polled, woken, and begin_drain.       *)
TaskPolled(d) ==
  /\ \/ /\ proc[d].task = "spawned"
        /\ proc' = [proc EXCEPT ![d].task = IF Ready(proc[d]) THEN "woken" ELSE "waiting",
                                ![d].permit = FALSE]
     \/ /\ proc[d].task = "woken"
        /\ proc' = [proc EXCEPT ![d].task = "done", ![d].drain = TRUE]
  /\ UNCHANGED <<windows, file, ino, mutex, overlap>>

-------------------------------------------------------------------------------
(* One iteration of the loop.  A file that cannot be read, or defines no   *)
(* services, ends the process with the lock still taken.                   *)
ReadConfig(d) ==
  /\ proc[d].pc = "config"
  /\ \/ /\ proc' = [proc EXCEPT ![d].pc = "running", ![d].task = "spawned",
                                ![d].drain = FALSE, ![d].owed = FALSE]
        /\ UNCHANGED mutex
     \/ End(d, "died")
  /\ UNCHANGED <<windows, file, ino, overlap>>

Left(r) == IF r.task \in {"spawned", "waiting"} THEN r.orphans + 1 ELSE r.orphans

(* supervisor.run returns: the workers drained, or every one of them ended.*)
RunOver(d) ==
  /\ proc[d].pc = "running"
  /\ proc[d].drain \/ Left(proc[d]) <= MaxOrphans
  /\ proc' = [proc EXCEPT ![d].pc = "over", ![d].orphans = Left(proc[d]),
                          ![d].task = "done"]
  /\ UNCHANGED <<windows, file, ino, mutex, overlap>>

Over(d) ==
  /\ proc[d].pc = "over"
  /\ At(d, IF proc[d].exit THEN "release" ELSE "config")
  /\ UNCHANGED <<windows, file, ino, mutex, overlap>>

Release(d) ==
  /\ proc[d].pc = "release"
  /\ file' = "absent"
  /\ End(d, "stopped")
  /\ UNCHANGED <<windows, ino, overlap>>

Crash(d) ==
  /\ Alive(d) /\ End(d, "died")
  /\ UNCHANGED <<windows, file, ino, overlap>>

MainStep(d) ==
  \/ ServiceRunning(d) \/ ReadPid(d) \/ Unlink(d) \/ Create(d) \/ WritePid(d)
  \/ ReadConfig(d) \/ Over(d) \/ Release(d)

Next ==
  \E d \in Proc :
    \/ MainStep(d) \/ RunOver(d) \/ TaskPolled(d) \/ ForwardStop(d)
    \/ Start(d) \/ ServiceStart(d) \/ ExitSignal(d) \/ ServiceStop(d)
    \/ HangUp(d) \/ Crash(d)

Spec == Init /\ [][Next]_vars

(* Tasks are scheduled, and a drained run ends (Supervisor.tla).           *)
FairSpec ==
  /\ Spec
  /\ \A d \in Proc : /\ WF_vars(MainStep(d))
                      /\ WF_vars(ForwardStop(d))
                      /\ WF_vars(TaskPolled(d))
                      /\ WF_vars(proc[d].drain /\ RunOver(d))

-------------------------------------------------------------------------------
(* One daemon per pid file, when no two start at the same time: crashes,   *)
(* failed reloads and stale or unreadable files do not let in a second     *)
(* one, and the running one's pid stays in the file.                       *)
OneDaemon ==
  ~overlap => \A d \in Looping : /\ file = d
                                 /\ \A e \in Looping : e = d

(* An exit request, from a signal or from the service manager, ends the    *)
(* process however reloads, ending workers and failed reads come between.  *)
ExitIsServed ==
  \A d \in Proc : (proc[d].exit \/ proc[d].stop) ~> ~Alive(d)

(* A SIGHUP that finds no task of an earlier iteration waiting makes the   *)
(* loop read its configuration again, even one that comes during a reload. *)
ReloadIsServed ==
  \A d \in Proc : proc[d].owed ~> ~proc[d].owed

===============================================================================
