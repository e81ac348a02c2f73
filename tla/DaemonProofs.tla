----------------------------- MODULE DaemonProofs -----------------------------
(***************************************************************************)
(* Proofs about the processes of the malkuth binary and what they write,   *)
(* for every value of their constants.                                     *)
(***************************************************************************)
EXTENDS Daemon, Singleton, LogForward, DbBackup, FiniteSetTheorems,
        NaturalsInduction, WellFoundedInduction, TLAPS

-------------------------------------------------------------------------------
(***************************************************************************)
(* One daemon per pid file, for any number of processes: on Windows by the *)
(* named mutex, elsewhere by the pid in the file, as long as no two        *)
(* processes start at the same time.                                       *)
(***************************************************************************)
Entering == {"read", "unlink", "create", "write"}
Past == {"unlink", "create", "write"}
Inside == {"config", "running", "over", "release"}

(* Every process has a record with a place and a descriptor.               *)
Shape ==
  /\ DOMAIN proc = Proc
  /\ \A d \in Proc : {"pc", "fd"} \subseteq DOMAIN proc[d]

(* The mutex excludes from the read of the pid file to the end.            *)
Owned == windows => \A d \in Proc : proc[d].pc \in Past \cup Inside => mutex = d

(* Without an overlap: one process enters; the pid in the file is that of  *)
(* the one inside; past the read no other is inside; and the file that     *)
(* will be written is the one at the path.                                 *)
Entry ==
  /\ \A d, e \in Proc : proc[d].pc \in Entering /\ proc[e].pc \in Entering => d = e
  /\ \A d \in Proc : proc[d].pc \in Inside => file = d
  /\ \A d, e \in Proc : proc[d].pc \in Past => proc[e].pc \notin Inside
  /\ \A d \in Proc : proc[d].pc = "write" => file = "blank" /\ ino = proc[d].fd

Inv == Shape /\ Owned /\ (~overlap => Entry)

(* Process d goes to place l; the others stay where they are.              *)
Moves(d, l) ==
  \A e \in Proc : /\ proc'[e].pc = IF e = d THEN l ELSE proc[e].pc
                  /\ e # d => proc'[e].fd = proc[e].fd

(* Nobody's place, nor what is shared, changes.                            *)
Still ==
  /\ \A e \in Proc : proc'[e].pc = proc[e].pc /\ proc'[e].fd = proc[e].fd
  /\ UNCHANGED <<windows, file, ino, mutex, overlap>>

(* A change to one record of proc that keeps its fields.                   *)
LEMMA OneRecord ==
  ASSUME Shape, NEW d \in Proc, NEW r, {"pc", "fd"} \subseteq DOMAIN r,
         proc' = [proc EXCEPT ![d] = r]
  PROVE  Shape' /\ Moves(d, r.pc) /\ proc'[d].fd = r.fd
  BY DEF Shape, Moves

(* The end of a process: it is off, and its mutex free.                    *)
LEMMA Ending ==
  ASSUME Shape, NEW d \in Proc, NEW s, End(d, s)
  PROVE  Shape' /\ Moves(d, "off") /\ mutex' = (IF mutex = d THEN NoPid ELSE mutex)
<1> DEFINE r == [Fresh EXCEPT !.scm = s]
<1>1. {"pc", "fd"} \subseteq DOMAIN r /\ r.pc = "off"  BY DEF Fresh
<1>2. proc' = [proc EXCEPT ![d] = r]  BY DEF End
<1>3. mutex' = (IF mutex = d THEN NoPid ELSE mutex)  BY DEF End
<1> HIDE DEF r
<1> QED  BY <1>1, <1>2, <1>3, OneRecord, Zenon

(* At changes the place alone.                                             *)
LEMMA Going ==
  ASSUME Shape, NEW d \in Proc, NEW l, At(d, l)
  PROVE  Shape' /\ Moves(d, l)
<1> DEFINE r == [proc[d] EXCEPT !.pc = l]
<1>1. {"pc", "fd"} \subseteq DOMAIN r /\ r.pc = l  BY DEF Shape
<1>2. proc' = [proc EXCEPT ![d] = r]  BY DEF At
<1> QED  BY <1>1, <1>2, OneRecord, Zenon

(* Signals, the service manager and the waiting tasks touch no place.      *)
LEMMA Signals ==
  ASSUME Shape, NEW d \in Proc,
         TaskPolled(d) \/ ForwardStop(d) \/ ExitSignal(d) \/ ServiceStop(d) \/ HangUp(d)
  PROVE  Shape' /\ Still
<1>1. ASSUME NEW r, DOMAIN r = DOMAIN proc[d], r.pc = proc[d].pc, r.fd = proc[d].fd,
             proc' = [proc EXCEPT ![d] = r],
             UNCHANGED <<windows, file, ino, mutex, overlap>>
      PROVE  Shape' /\ Still
  BY <1>1 DEF Shape, Still
<1>2. "pc" \in DOMAIN proc[d] /\ "fd" \in DOMAIN proc[d]  BY DEF Shape
<1>3. CASE ExitSignal(d) \/ ForwardStop(d)
  <2> DEFINE r == Exited(proc[d])
  <2>1. DOMAIN r = DOMAIN proc[d] /\ r.pc = proc[d].pc /\ r.fd = proc[d].fd
    BY <1>2 DEF Exited
  <2>2. proc' = [proc EXCEPT ![d] = r] /\ UNCHANGED <<windows, file, ino, mutex, overlap>>
    BY <1>3 DEF ExitSignal, ForwardStop
  <2> HIDE DEF r
  <2> QED  BY <2>1, <2>2, <1>1, Zenon
<1>4. CASE ServiceStop(d)
  <2> DEFINE r == [proc[d] EXCEPT !.stop = TRUE]
  <2>1. DOMAIN r = DOMAIN proc[d] /\ r.pc = proc[d].pc /\ r.fd = proc[d].fd  BY <1>2
  <2>2. proc' = [proc EXCEPT ![d] = r] /\ UNCHANGED <<windows, file, ino, mutex, overlap>>
    BY <1>4 DEF ServiceStop
  <2> HIDE DEF r
  <2> QED  BY <2>1, <2>2, <1>1, Zenon
<1>5. CASE HangUp(d)
  <2> DEFINE r == Notified(proc[d])
  <2>1. DOMAIN r = DOMAIN proc[d] /\ r.pc = proc[d].pc /\ r.fd = proc[d].fd
    BY <1>2 DEF Notified
  <2>2. proc' = [proc EXCEPT ![d] = r] /\ UNCHANGED <<windows, file, ino, mutex, overlap>>
    BY <1>5 DEF HangUp
  <2> HIDE DEF r
  <2> QED  BY <2>1, <2>2, <1>1, Zenon
<1>6. CASE TaskPolled(d)
  <2>1. PICK s, b : proc' = [proc EXCEPT ![d].task = s, ![d].permit = b]
                    \/ proc' = [proc EXCEPT ![d].task = s, ![d].drain = b]
    BY <1>6 DEF TaskPolled
  <2>2. UNCHANGED <<windows, file, ino, mutex, overlap>>  BY <1>6 DEF TaskPolled
  <2>3. CASE proc' = [proc EXCEPT ![d].task = s, ![d].permit = b]
    BY <2>2, <2>3, <1>2 DEF Shape, Still
  <2>4. CASE proc' = [proc EXCEPT ![d].task = s, ![d].drain = b]
    BY <2>2, <2>4, <1>2 DEF Shape, Still
  <2> QED  BY <2>1, <2>3, <2>4
<1> QED  BY <1>3, <1>4, <1>5, <1>6

(* The two ways to start: the place is set, and an overlap is noted when   *)
(* the read comes next.                                                    *)
LEMMA Starts ==
  ASSUME Inv, NEW d \in Proc, Start(d) \/ ServiceStart(d) \/ ServiceRunning(d)
  PROVE  Inv'
<1>0. Shape /\ Owned /\ (~overlap => Entry)  BY DEF Inv
<1>1. ASSUME Shape', Moves(d, "read"), overlap' = (overlap \/ Starting # {}),
             UNCHANGED <<windows, file, ino, mutex>>,
             proc[d].pc \notin Past \cup Inside
      PROVE  Inv'
  <2>1. Owned'  BY <1>0, <1>1 DEF Owned, Moves, Past, Inside
  <2>2. ASSUME ~overlap' PROVE Entry'
    <3>1. Entry /\ \A e \in Proc : proc[e].pc \notin Entering
      BY <1>0, <1>1, <2>2, Zenon DEF Starting, Entering
    <3> QED  BY <3>1, <1>1 DEF Entry, Moves, Entering, Past, Inside
  <2> QED  BY <1>1, <2>1, <2>2 DEF Inv
<1>2. CASE Start(d)
  <2> DEFINE r == [Fresh EXCEPT !.pc = "read"]
  <2>1. {"pc", "fd"} \subseteq DOMAIN r /\ r.pc = "read"  BY DEF Fresh
  <2>2. proc' = [proc EXCEPT ![d] = r]  BY <1>2 DEF Start
  <2>3. Shape' /\ Moves(d, "read")  BY <2>1, <2>2, <1>0, OneRecord, Zenon
  <2> QED  BY <2>3, <1>2, <1>1 DEF Start, Alive, Past, Inside
<1>3. CASE ServiceStart(d)
  <2> DEFINE r == [Fresh EXCEPT !.pc = "service", !.scm = "pending"]
  <2>1. {"pc", "fd"} \subseteq DOMAIN r /\ r.pc = "service"  BY DEF Fresh
  <2>2. proc' = [proc EXCEPT ![d] = r]  BY <1>3 DEF ServiceStart
  <2>3. Shape' /\ Moves(d, "service")  BY <2>1, <2>2, <1>0, OneRecord, Zenon
  <2>4. UNCHANGED <<windows, file, ino, mutex, overlap>>  BY <1>3 DEF ServiceStart
  <2> QED
    BY <2>3, <2>4, <1>0 DEF Inv, Owned, Entry, Moves, Entering, Past, Inside
<1>4. CASE ServiceRunning(d)
  <2>1. proc[d].pc = "service" /\ UNCHANGED <<windows, file, ino>>
    BY <1>4 DEF ServiceRunning
  <2>2. CASE proc' = [proc EXCEPT ![d].pc = "read", ![d].scm = "running"]
             /\ overlap' = (overlap \/ Starting # {}) /\ UNCHANGED mutex
    <3>1. Shape' /\ Moves(d, "read")  BY <2>2, <1>0 DEF Shape, Moves
    <3> QED  BY <3>1, <2>1, <2>2, <1>1 DEF Past, Inside
  <2>3. CASE End(d, "stopped") /\ UNCHANGED overlap
    <3>1. Shape' /\ Moves(d, "off") /\ mutex' = (IF mutex = d THEN NoPid ELSE mutex)
      BY <2>3, <1>0, Ending
    <3> QED
      BY <3>1, <2>1, <2>3, <1>0 DEF Inv, Owned, Entry, Moves, Entering, Past, Inside
  <2> QED  BY <2>2, <2>3, <1>4 DEF ServiceRunning
<1> QED  BY <1>2, <1>3, <1>4

(* acquire_daemon_lock, step by step.                                      *)
LEMMA Acquires ==
  ASSUME NoPid \notin Proc, Inv, NEW d \in Proc,
         ReadPid(d) \/ Unlink(d) \/ Create(d) \/ WritePid(d)
  PROVE  Inv'
<1>0. Shape /\ Owned /\ (~overlap => Entry)  BY DEF Inv
<1> USE DEF Entering, Past, Inside
<1>1. CASE ReadPid(d)
  <2>1. proc[d].pc = "read" /\ UNCHANGED <<windows, file, ino, overlap>>
    BY <1>1 DEF ReadPid
  <2>2. CASE Refused
    <3>1. Shape' /\ Moves(d, "off") /\ mutex' = (IF mutex = d THEN NoPid ELSE mutex)
      BY <1>1, <2>2, <1>0, Ending DEF ReadPid
    <3> QED  BY <3>1, <2>1, <1>0 DEF Inv, Owned, Entry, Moves
  <2>3. CASE ~Refused
    <3>1. PICK l \in {"unlink", "create"} : At(d, l)
      BY <1>1, <2>3 DEF ReadPid
    <3>2. mutex' = IF windows THEN d ELSE mutex  BY <1>1, <2>3 DEF ReadPid
    <3>3. Shape' /\ Moves(d, l)  BY <3>1, <1>0, Going
    <3>4. CASE windows
      <4>1. \A e \in Proc : proc[e].pc \notin Past \cup Inside
        BY <2>3, <3>4, <1>0 DEF Refused, Owned
      <4>2. Owned'  BY <4>1, <3>1, <3>2, <3>3, <2>1 DEF Owned, Moves
      <4>3. ~overlap => Entry'  BY <4>1, <3>1, <3>3, <2>1, <1>0 DEF Entry, Moves
      <4> QED  BY <4>2, <4>3, <3>3, <2>1 DEF Inv
    <3>5. CASE ~windows
      <4>1. Owned'  BY <3>5, <2>1 DEF Owned
      <4>2. ASSUME Entry PROVE Entry'
        <5>1. \A e \in Proc : proc[e].pc \notin Inside
          BY <2>3, <3>5, <4>2 DEF Refused, Entry, Alive
        <5> QED  BY <5>1, <4>2, <3>1, <3>3, <2>1 DEF Entry, Moves
      <4> QED  BY <4>1, <4>2, <3>3, <2>1, <1>0 DEF Inv
    <3> QED  BY <3>4, <3>5
  <2> QED  BY <2>2, <2>3
<1>2. CASE Unlink(d)
  <2>1. /\ proc[d].pc = "unlink" /\ At(d, "create")
        /\ UNCHANGED <<windows, ino, mutex, overlap>>
    BY <1>2 DEF Unlink
  <2>2. Shape' /\ Moves(d, "create")  BY <2>1, <1>0, Going
  <2> QED  BY <2>1, <2>2, <1>0 DEF Inv, Owned, Entry, Moves
<1>3. CASE Create(d)
  <2>1. /\ proc[d].pc = "create" /\ file' = "blank"
        /\ UNCHANGED <<windows, mutex, overlap>>
        /\ proc' = [proc EXCEPT ![d].pc = "write", ![d].fd = ino']
    BY <1>3 DEF Create
  <2>2. Shape' /\ Moves(d, "write") /\ proc'[d].fd = ino'
    BY <2>1, <1>0 DEF Shape, Moves
  <2>3. Owned'  BY <2>1, <2>2, <1>0 DEF Owned, Moves
  <2>4. ASSUME Entry PROVE Entry'
    <3>1. \A e \in Proc : e # d => proc[e].pc \notin Entering \cup Inside
      BY <2>1, <2>4 DEF Entry
    <3>2. file' = "blank"  BY <2>1
    <3> QED  BY <3>1, <3>2, <2>2 DEF Entry, Moves
  <2> QED  BY <2>1, <2>2, <2>3, <2>4, <1>0 DEF Inv
<1>4. CASE WritePid(d)
  <2>1. /\ proc[d].pc = "write" /\ At(d, "config")
        /\ file' = IF file # "absent" /\ ino = proc[d].fd THEN d ELSE file
        /\ UNCHANGED <<windows, ino, mutex, overlap>>
    BY <1>4 DEF WritePid
  <2>2. Shape' /\ Moves(d, "config")  BY <2>1, <1>0, Going
  <2>3. Owned'  BY <2>1, <2>2, <1>0 DEF Owned, Moves
  <2>4. ASSUME Entry PROVE Entry'
    <3>1. \A e \in Proc : e # d => proc[e].pc \notin Entering \cup Inside
      BY <2>1, <2>4 DEF Entry
    <3>2. file' = d  BY <2>1, <2>4 DEF Entry
    <3> QED  BY <3>1, <3>2, <2>2 DEF Entry, Moves
  <2> QED  BY <2>1, <2>2, <2>3, <2>4, <1>0 DEF Inv
<1> QED  BY <1>1, <1>2, <1>3, <1>4

(* The loop, its end, and a crash anywhere.                                *)
LEMMA Loops ==
  ASSUME Inv, NEW d \in Proc,
         ReadConfig(d) \/ RunOver(d) \/ Over(d) \/ Release(d) \/ Crash(d)
  PROVE  Inv'
<1>0. Shape /\ Owned /\ (~overlap => Entry)  BY DEF Inv
<1> USE DEF Entering, Past, Inside
<1>1. ASSUME Shape', NEW l \in Inside, Moves(d, l), proc[d].pc \in Inside,
             UNCHANGED <<windows, file, ino, mutex, overlap>>
      PROVE  Inv'
  BY <1>1, <1>0 DEF Inv, Owned, Entry, Moves
<1>2. ASSUME NEW s, End(d, s), UNCHANGED <<windows, file, ino, overlap>> PROVE Inv'
  <2>1. Shape' /\ Moves(d, "off") /\ mutex' = (IF mutex = d THEN NoPid ELSE mutex)
    BY <1>2, <1>0, Ending
  <2> QED  BY <1>2, <2>1, <1>0 DEF Inv, Owned, Entry, Moves
<1>3. CASE ReadConfig(d)
  <2>1. CASE End(d, "died")  BY <1>3, <2>1, <1>2 DEF ReadConfig
  <2>2. CASE proc' = [proc EXCEPT ![d].pc = "running", ![d].task = "spawned",
                                  ![d].drain = FALSE, ![d].owed = FALSE]
             /\ UNCHANGED mutex
    <3>1. Shape' /\ Moves(d, "running")  BY <2>2, <1>0 DEF Shape, Moves
    <3> QED  BY <3>1, <2>2, <1>3, <1>1 DEF ReadConfig
  <2> QED  BY <2>1, <2>2, <1>3 DEF ReadConfig
<1>4. CASE RunOver(d)
  <2>1. PICK o : proc' = [proc EXCEPT ![d].pc = "over", ![d].orphans = o,
                                      ![d].task = "done"]
    BY <1>4, Zenon DEF RunOver
  <2>2. Shape' /\ Moves(d, "over")  BY <2>1, <1>0 DEF Shape, Moves
  <2> QED  BY <2>2, <1>4, <1>1 DEF RunOver
<1>5. CASE Over(d)
  <2>1. PICK l \in {"release", "config"} : At(d, l)  BY <1>5 DEF Over
  <2>2. Shape' /\ Moves(d, l)  BY <2>1, <1>0, Going
  <2> QED  BY <2>1, <2>2, <1>5, <1>1 DEF Over
<1>6. CASE Release(d)
  <2>1. proc[d].pc = "release" /\ UNCHANGED <<windows, ino, overlap>>  BY <1>6 DEF Release
  <2>2. Shape' /\ Moves(d, "off") /\ mutex' = (IF mutex = d THEN NoPid ELSE mutex)
    BY <1>6, <1>0, Ending DEF Release
  <2>3. Owned'  BY <2>1, <2>2, <1>0 DEF Owned, Moves
  <2>4. ASSUME Entry PROVE Entry'
    <3>1. \A e \in Proc : proc[e].pc \notin Past /\ (e # d => proc[e].pc \notin Inside)
      BY <2>1, <2>4 DEF Entry
    <3> QED  BY <3>1, <2>2, <2>4 DEF Entry, Moves
  <2> QED  BY <2>1, <2>2, <2>3, <2>4, <1>0 DEF Inv
<1>7. CASE Crash(d)  BY <1>7, <1>2 DEF Crash
<1> QED  BY <1>3, <1>4, <1>5, <1>6, <1>7

(* bin/malkuth.rs: for any number of processes, those that run the loop    *)
(* are one, with its pid in the file, as long as no two started at the     *)
(* same time; whatever crashed, and whatever the file said before.         *)
THEOREM SingleDaemon == Spec => []OneDaemon
<1>1. Init => Inv
  <2> SUFFICES ASSUME Init PROVE Inv  OBVIOUS
  <2>1. Shape /\ \A d \in Proc : proc[d].pc = "off"  BY DEF Init, Shape, Fresh
  <2> QED  BY <2>1 DEF Inv, Owned, Entry, Entering, Past, Inside
<1>2. Inv /\ [Next]_vars => Inv'
  <2> SUFFICES ASSUME Inv, [Next]_vars PROVE Inv'  OBVIOUS
  <2>1. ASSUME Shape', Still PROVE Inv'
    BY <2>1 DEF Inv, Still, Owned, Entry
  <2>2. ASSUME NEW d \in Proc,
               TaskPolled(d) \/ ForwardStop(d) \/ ExitSignal(d) \/ ServiceStop(d) \/ HangUp(d)
        PROVE  Inv'
    BY <2>1, <2>2, Signals DEF Inv
  <2>3. CASE UNCHANGED vars
    BY <2>3 DEF vars, Inv, Shape, Owned, Entry
  <2> QED  BY <2>2, <2>3, Starts, Acquires, Loops, DaemonAssumption DEF Next, MainStep
<1>3. Inv => OneDaemon
  BY Zenon DEF Inv, Entry, OneDaemon, Looping, Inside
<1> QED  BY <1>1, <1>2, <1>3, PTL DEF Spec

-------------------------------------------------------------------------------
(***************************************************************************)
(* No signal is lost to the reload loop, whatever iterations ended on      *)
(* their own before it and whatever tasks they left behind.                *)
(***************************************************************************)
(* What the process's record says of the signals it was sent.  While a run *)
(* is supervised, a request to exit, or a reload that is owed, has a task  *)
(* that will drain the run or has drained it.                              *)
Fields == {"pc", "fd", "scm", "stop", "exit", "permit", "task", "drain", "orphans", "owed"}
Heard(r) ==
  /\ r.pc = "running" =>
       /\ r.task \in {"spawned", "waiting", "woken"} \/ r.drain
       /\ r.exit => r.task # "waiting"
       /\ r.owed => r.task # "waiting" /\ (r.task = "spawned" => r.permit)
  /\ r.owed => r.pc \in {"config", "running", "over", "release"}
Record(r) == DOMAIN r = Fields /\ Heard(r)
Records == DOMAIN proc = Proc /\ \A d \in Proc : Record(proc[d])

(* The safety of ExitIsServed and of ReloadIsServed: a request that a run  *)
(* has yet to obey is never left to a task that waits for another.         *)
RequestsKept ==
  \A d \in Proc : LET r == proc[d] IN
    /\ r.pc = "running" /\ r.exit => r.drain \/ r.task \in {"spawned", "woken"}
    /\ r.pc = "running" /\ r.owed =>
         r.drain \/ r.task = "woken" \/ (r.task = "spawned" /\ r.permit)
    /\ r.owed => r.pc \in {"config", "running", "over", "release"}

(* The record of one process changes.                                      *)
LEMMA RecordChanges ==
  ASSUME Records, NEW d \in Proc, NEW r, Record(r), proc' = [proc EXCEPT ![d] = r]
  PROVE  Records'
BY DEF Records

(* A process that ends or has just begun has heard nothing.                *)
LEMMA FreshRecord ==
  ASSUME NEW s, NEW l, l \in {"off", "read", "service"}
  PROVE  Record([Fresh EXCEPT !.scm = s]) /\ Record([Fresh EXCEPT !.pc = l])
         /\ Record([Fresh EXCEPT !.pc = l, !.scm = s])
BY DEF Record, Heard, Fields, Fresh

(* exit_tx.send and reload_notify.notify_one reach the task.               *)
LEMMA SignalRecord ==
  ASSUME NEW r, Record(r), r.pc \in {"config", "running", "over"}
  PROVE  Record(Exited(r)) /\ Record(Notified(r))
<1>1. Record(Exited(r))
  <2> DEFINE q == Exited(r)
  <2>1. /\ DOMAIN q = Fields /\ q.pc = r.pc /\ q.exit = TRUE /\ q.permit = r.permit
        /\ q.drain = r.drain /\ q.owed = r.owed
        /\ q.task = IF r.task = "waiting" THEN "woken" ELSE r.task
    BY DEF Record, Fields, Exited
  <2> HIDE DEF q
  <2>2. Record(q)
    BY <2>1 DEF Record, Heard
  <2> QED  BY <2>2 DEF q
<1>2. Record(Notified(r))
  <2> DEFINE q == Notified(r)
  <2>1. CASE r.orphans > 0
    <3>1. /\ DOMAIN q = Fields /\ q.pc = r.pc /\ q.exit = r.exit /\ q.permit = r.permit
          /\ q.drain = r.drain /\ q.owed = r.owed /\ q.task = r.task
      BY <2>1 DEF Record, Fields, Notified
    <3> HIDE DEF q
    <3>2. Record(q)
      BY <3>1 DEF Record, Heard
    <3> QED  BY <3>2 DEF q
  <2>2. CASE ~(r.orphans > 0) /\ r.task = "waiting"
    <3>1. /\ DOMAIN q = Fields /\ q.pc = r.pc /\ q.exit = r.exit /\ q.permit = r.permit
          /\ q.drain = r.drain /\ q.owed = TRUE /\ q.task = "woken"
      BY <2>2 DEF Record, Fields, Notified
    <3> HIDE DEF q
    <3>2. Record(q)
      BY <3>1 DEF Record, Heard
    <3> QED  BY <3>2 DEF q
  <2>3. CASE ~(r.orphans > 0) /\ r.task # "waiting"
    <3>1. /\ DOMAIN q = Fields /\ q.pc = r.pc /\ q.exit = r.exit /\ q.permit = TRUE
          /\ q.drain = r.drain /\ q.owed = TRUE /\ q.task = r.task
      BY <2>3 DEF Record, Fields, Notified
    <3> HIDE DEF q
    <3>2. Record(q)
      BY <2>3, <3>1 DEF Record, Heard
    <3> QED  BY <3>2 DEF q
  <2> QED  BY <2>1, <2>2, <2>3
<1> QED  BY <1>1, <1>2

(* The process ends.                                                       *)
LEMMA EndRecord ==
  ASSUME Records, NEW d \in Proc, NEW s, End(d, s)
  PROVE  Records'
<1>1. proc' = [proc EXCEPT ![d] = [Fresh EXCEPT !.scm = s]]
  BY DEF End
<1>2. Record([Fresh EXCEPT !.scm = s])
  BY FreshRecord, Zenon
<1> QED  BY <1>1, <1>2, RecordChanges, Zenon

(* It moves to a place where nothing is supervised, and owes nothing new.  *)
LEMMA PlaceRecord ==
  ASSUME Records, NEW d \in Proc, NEW l, At(d, l), l # "running",
         l \in {"config", "over", "release"} \/ proc[d].pc \notin {"config", "running", "over", "release"}
  PROVE  Records'
<1> DEFINE r == proc[d]
           q == [r EXCEPT !.pc = l]
<1>1. Record(r) /\ proc' = [proc EXCEPT ![d] = q]
  BY DEF Records, At
<1>2. DOMAIN q = Fields /\ q.pc = l /\ q.owed = r.owed
  BY <1>1 DEF Record, Fields
<1> HIDE DEF q
<1>3. Record(q)
  BY <1>1, <1>2 DEF Record, Heard
<1> QED  BY <1>1, <1>3, RecordChanges, Zenon

(* A signal, the service manager or the polled task.                       *)
LEMMA AskStep ==
  ASSUME Records, NEW d \in Proc,
         ForwardStop(d) \/ ExitSignal(d) \/ ServiceStop(d) \/ HangUp(d)
  PROVE  Records'
<1> DEFINE r == proc[d]
<1>1. Record(r)
  BY DEF Records
<1>2. CASE ForwardStop(d) \/ ExitSignal(d)
  <2>1. d \in Looping /\ proc' = [proc EXCEPT ![d] = Exited(proc[d])]
    BY <1>2 DEF ForwardStop, ExitSignal
  <2>2. Record(Exited(r))
    BY <1>1, <2>1, SignalRecord DEF Looping
  <2> QED  BY <2>1, <2>2, RecordChanges, Zenon
<1>3. CASE ServiceStop(d)
  <2> DEFINE q == [r EXCEPT !.stop = TRUE]
  <2>1. proc' = [proc EXCEPT ![d] = q]
    BY <1>3 DEF ServiceStop
  <2>2. /\ DOMAIN q = Fields /\ q.pc = r.pc /\ q.exit = r.exit /\ q.permit = r.permit
        /\ q.drain = r.drain /\ q.owed = r.owed /\ q.task = r.task
    BY <1>1 DEF Record, Fields
  <2> HIDE DEF q
  <2>3. Record(q)
    BY <1>1, <2>2 DEF Record, Heard
  <2> QED  BY <2>1, <2>3, RecordChanges, Zenon
<1>4. CASE HangUp(d)
  <2>1. d \in Looping /\ proc' = [proc EXCEPT ![d] = Notified(proc[d])]
    BY <1>4 DEF HangUp
  <2>2. Record(Notified(r))
    BY <1>1, <2>1, SignalRecord DEF Looping
  <2> QED  BY <2>1, <2>2, RecordChanges, Zenon
<1> QED  BY <1>2, <1>3, <1>4

(* The task is polled: a request that came first is found by its first     *)
(* poll, so that it never goes to wait beside one.                         *)
LEMMA PollStep ==
  ASSUME Records, NEW d \in Proc, TaskPolled(d)
  PROVE  Records'
<1> DEFINE r == proc[d]
<1>1. Record(r)
  BY DEF Records
<1>2. CASE r.task = "spawned" /\ proc' = [proc EXCEPT
             ![d].task = IF Ready(proc[d]) THEN "woken" ELSE "waiting", ![d].permit = FALSE]
  <2> DEFINE q == [r EXCEPT !.task = IF Ready(r) THEN "woken" ELSE "waiting", !.permit = FALSE]
  <2>1. proc' = [proc EXCEPT ![d] = q]
    BY <1>2, Zenon DEF Records
  <2>2. /\ DOMAIN q = Fields /\ q.pc = r.pc /\ q.exit = r.exit
        /\ q.drain = r.drain /\ q.owed = r.owed
        /\ q.task = IF Ready(r) THEN "woken" ELSE "waiting"
    BY <1>1 DEF Record, Fields
  <2> HIDE DEF q
  <2>3. Record(q)
    BY <1>1, <1>2, <2>2 DEF Record, Heard, Ready
  <2> QED  BY <2>1, <2>3, RecordChanges, Zenon
<1>3. CASE r.task = "woken" /\ proc' = [proc EXCEPT ![d].task = "done", ![d].drain = TRUE]
  <2> DEFINE q == [r EXCEPT !.task = "done", !.drain = TRUE]
  <2>1. proc' = [proc EXCEPT ![d] = q]
    BY <1>3, Zenon DEF Records
  <2>2. /\ DOMAIN q = Fields /\ q.pc = r.pc /\ q.owed = r.owed
        /\ q.drain = TRUE /\ q.task = "done"
    BY <1>1 DEF Record, Fields
  <2> HIDE DEF q
  <2>3. Record(q)
    BY <1>1, <2>2 DEF Record, Heard
  <2> QED  BY <2>1, <2>3, RecordChanges, Zenon
<1> QED  BY <1>2, <1>3 DEF TaskPolled

(* Starting, and taking the lock.                                          *)
LEMMA LockStep ==
  ASSUME Records, NEW d \in Proc,
         \/ Start(d) \/ ServiceStart(d) \/ ServiceRunning(d) \/ ReadPid(d)
         \/ Unlink(d) \/ Create(d) \/ WritePid(d) \/ Crash(d)
  PROVE  Records'
<1> DEFINE r == proc[d]
<1>1. Record(r)
  BY DEF Records
<1>2. CASE Start(d)
  <2>1. proc' = [proc EXCEPT ![d] = [Fresh EXCEPT !.pc = "read"]]
    BY <1>2 DEF Start
  <2>2. Record([Fresh EXCEPT !.pc = "read"])
    BY FreshRecord, Zenon
  <2> QED  BY <2>1, <2>2, RecordChanges, Zenon
<1>3. CASE ServiceStart(d)
  <2>1. proc' = [proc EXCEPT ![d] = [Fresh EXCEPT !.pc = "service", !.scm = "pending"]]
    BY <1>3 DEF ServiceStart
  <2>2. Record([Fresh EXCEPT !.pc = "service", !.scm = "pending"])
    BY FreshRecord, Zenon
  <2> QED  BY <2>1, <2>2, RecordChanges, Zenon
<1>4. CASE End(d, "stopped") \/ End(d, "died")
  BY <1>4, EndRecord
<1>5. CASE r.pc = "service" /\ proc' = [proc EXCEPT ![d].pc = "read", ![d].scm = "running"]
  <2> DEFINE q == [r EXCEPT !.pc = "read", !.scm = "running"]
  <2>1. proc' = [proc EXCEPT ![d] = q]
    BY <1>5, Zenon DEF Records
  <2>2. DOMAIN q = Fields /\ q.pc = "read" /\ q.owed = r.owed
    BY <1>1 DEF Record, Fields
  <2> HIDE DEF q
  <2>3. Record(q)
    BY <1>1, <1>5, <2>2 DEF Record, Heard
  <2> QED  BY <2>1, <2>3, RecordChanges, Zenon
<1>6. CASE r.pc = "create" /\ proc' = [proc EXCEPT ![d].pc = "write", ![d].fd = ino']
  <2> DEFINE q == [r EXCEPT !.pc = "write", !.fd = ino']
  <2>1. proc' = [proc EXCEPT ![d] = q]
    BY <1>6, Zenon DEF Records
  <2>2. DOMAIN q = Fields /\ q.pc = "write" /\ q.owed = r.owed
    BY <1>1 DEF Record, Fields
  <2> HIDE DEF q
  <2>3. Record(q)
    BY <1>1, <1>6, <2>2 DEF Record, Heard
  <2> QED  BY <2>1, <2>3, RecordChanges, Zenon
<1>7. ASSUME NEW l \in {"unlink", "create", "config"}, At(d, l),
             r.pc \in {"read", "unlink", "write"}
      PROVE  Records'
  BY <1>7, PlaceRecord
<1>8. CASE ReadPid(d)
  BY <1>4, <1>7, <1>8 DEF ReadPid
<1>9. CASE Unlink(d) \/ WritePid(d)
  BY <1>7, <1>9 DEF Unlink, WritePid
<1> QED  BY <1>2, <1>3, <1>4, <1>5, <1>6, <1>8, <1>9 DEF ServiceRunning, Create, Crash

(* An iteration of the loop.                                               *)
LEMMA LoopStep ==
  ASSUME Records, NEW d \in Proc, ReadConfig(d) \/ RunOver(d) \/ Over(d) \/ Release(d)
  PROVE  Records'
<1> DEFINE r == proc[d]
<1>1. Record(r)
  BY DEF Records
<1>2. CASE End(d, "stopped") \/ End(d, "died")
  BY <1>2, EndRecord
<1>3. CASE proc' = [proc EXCEPT ![d].pc = "running", ![d].task = "spawned",
                                ![d].drain = FALSE, ![d].owed = FALSE]
  <2> DEFINE q == [r EXCEPT !.pc = "running", !.task = "spawned", !.drain = FALSE, !.owed = FALSE]
  <2>1. proc' = [proc EXCEPT ![d] = q]
    BY <1>3, Zenon DEF Records
  <2>2. DOMAIN q = Fields /\ q.task = "spawned" /\ q.owed = FALSE
    BY <1>1 DEF Record, Fields
  <2> HIDE DEF q
  <2>3. Record(q)
    BY <2>2 DEF Record, Heard
  <2> QED  BY <2>1, <2>3, RecordChanges, Zenon
<1>4. CASE RunOver(d)
  <2> DEFINE q == [r EXCEPT !.pc = "over", !.orphans = Left(r), !.task = "done"]
  <2>1. proc' = [proc EXCEPT ![d] = q]
    BY <1>4, Zenon DEF Records, RunOver
  <2>2. DOMAIN q = Fields /\ q.pc = "over" /\ q.owed = r.owed
    BY <1>1 DEF Record, Fields
  <2> HIDE DEF q
  <2>3. Record(q)
    BY <1>1, <2>2 DEF Record, Heard
  <2> QED  BY <2>1, <2>3, RecordChanges, Zenon
<1>5. CASE Over(d)
  BY <1>5, PlaceRecord DEF Over
<1> QED  BY <1>2, <1>3, <1>4, <1>5 DEF ReadConfig, Release

(* While its workers are supervised, a request to exit, or a reload that   *)
(* is owed, has a task that has drained them or is on its way to: one      *)
(* woken, or one whose first poll will find the request.  None is left to  *)
(* a task that waits.  And a reload owed is forgotten only by reading the  *)
(* configuration or by the end of the process.                             *)
THEOREM RequestsAreKept == Spec => []RequestsKept
<1>1. Init => Records
  BY DEF Init, Records, Record, Heard, Fields, Fresh
<1>2. Records /\ [Next]_vars => Records'
  <2>1. CASE UNCHANGED vars
    BY <2>1 DEF vars, Records
  <2>2. ASSUME Records, NEW d \in Proc, MainStep(d)
        PROVE  Records'
    BY <2>2, LockStep, LoopStep DEF MainStep
  <2>3. ASSUME Records, NEW d \in Proc,
               \/ RunOver(d) \/ TaskPolled(d) \/ ForwardStop(d) \/ Start(d) \/ ServiceStart(d)
               \/ ExitSignal(d) \/ ServiceStop(d) \/ HangUp(d) \/ Crash(d)
        PROVE  Records'
    BY <2>3, LockStep, LoopStep, PollStep, AskStep
  <2> QED  BY <2>1, <2>2, <2>3 DEF Next
<1>3. Records => RequestsKept
  BY Zenon DEF Records, Record, Heard, RequestsKept
<1> QED  BY <1>1, <1>2, <1>3, PTL DEF Spec

-------------------------------------------------------------------------------
(***************************************************************************)
(* --singleton keeps its promise while starts do not overlap, for any      *)
(* number of processes and builds.                                         *)
(***************************************************************************)
DogPCs == {"none", "open", "write", "judge", "kill", "remove", "held", "gone"}
Meta == [ino : Dog \cup {NoDog}, pid : Dog \cup {NoDog}, build : Build \cup {0}]

(* Every process is somewhere in acquire, and the file and what was read   *)
(* of it have the form read_meta gives them; a process is killed only if   *)
(* the file named one.                                                     *)
DogTypeOK ==
  /\ dog \in [Dog -> [at : DogPCs, build : Build \cup {0}, old : Meta]]
  /\ lock \in Meta /\ overlapped \in BOOLEAN
  /\ \A p \in Dog : dog[p].at = "kill" => dog[p].old.pid \in Dog

(* One start at a time: the file names the instance that runs, what the    *)
(* start read of it is still true, and when it removes the file or has     *)
(* created it, no instance runs.                                           *)
OneStart ==
  /\ \A p, q \in Acquiring : p = q
  /\ \A h \in Holders : lock.pid = h
  /\ lock.pid \in Dog => dog[lock.pid].at \in {"held", "gone"}
  /\ \A p \in Dog : dog[p].at \in {"judge", "kill", "remove"} => dog[p].old = lock
  /\ \A p \in Dog : dog[p].at = "write" => lock.ino = p
  /\ \A p \in Dog : dog[p].at \in {"write", "remove"} => Holders = {}

DogInv == DogTypeOK /\ (~overlapped => OneStart)

(* Types are kept.                                                         *)
LEMMA DogTypeStep ==
  ASSUME DogTypeOK, [DogNext]_dogvars
  PROVE  DogTypeOK'
<1> USE SingletonAssumption DEF DogTypeOK, Meta, DogPCs, NoFile, Absent, Go
<1>1. ASSUME NEW p \in Dog, NEW b \in Build, DogStart(p, b) PROVE DogTypeOK'
  BY <1>1, Zenon DEF DogStart
<1>2. ASSUME NEW p \in Dog, acquire(p) PROVE DogTypeOK'
  <2>1. CASE CreateNew(p)  BY <2>1 DEF CreateNew
  <2>2. CASE WriteMeta(p)
    <3>1. lock' \in Meta
      BY <2>2, Zenon DEF WriteMeta
    <3>2. dog' = [dog EXCEPT ![p].at = "held"] /\ overlapped' = overlapped
      BY <2>2 DEF WriteMeta
    <3> QED  BY <3>1, <3>2
  <2>3. CASE read_meta(p)
    <3> DEFINE d == [[dog[p] EXCEPT !.at = "judge"] EXCEPT !.old = lock]
    <3>1. dog' = [dog EXCEPT ![p] = d] /\ lock' = lock /\ overlapped' = overlapped
      BY <2>3, Zenon DEF read_meta
    <3>2. dog[p] \in [at : DogPCs, build : Build \cup {0}, old : Meta] /\ lock \in Meta
      OBVIOUS
    <3> HIDE DEF Meta
    <3>3. d \in [at : DogPCs, build : Build \cup {0}, old : Meta] /\ d.at = "judge"
      BY <3>2, Zenon
    <3> HIDE DEF d
    <3> QED  BY <3>1, <3>3
  <2>4. CASE Judge(p)
    <3>1. Verdict(dog[p].old, dog[p].build) \in {"remove", "gone", "kill"}
      BY DEF Verdict
    <3>2. Verdict(dog[p].old, dog[p].build) = "kill" => dog[p].old.pid \in Dog
      BY DEF Verdict, is_process_alive
    <3>3. \A r \in Dog : dog'[r] = [dog[r] EXCEPT !.at =
             IF r = p THEN Verdict(dog[p].old, dog[p].build) ELSE dog[r].at]
      BY <2>4 DEF Judge
    <3> QED  BY <2>4, <3>1, <3>2, <3>3 DEF Judge
  <2>5. CASE kill_process(p)
    <3> DEFINE q == dog[p].old.pid
    <3>1. q \in Dog /\ dog[p].at = "kill" /\ lock' = lock /\ overlapped' = overlapped
      BY <2>5 DEF kill_process
    <3>2. dog' = [dog EXCEPT ![p].at = "remove", ![q].at = "gone"]
      BY <2>5 DEF kill_process
    <3>3. \A r \in Dog : dog'[r] = [dog[r] EXCEPT !.at =
             IF r = q THEN "gone" ELSE IF r = p THEN "remove" ELSE dog[r].at]
      BY <3>1, <3>2
    <3>4. dog' \in [Dog -> [at : DogPCs, build : Build \cup {0}, old : Meta]]
      BY <3>1, <3>2
    <3> HIDE DEF q
    <3>5. ASSUME NEW r \in Dog, dog'[r].at = "kill" PROVE dog'[r].old.pid \in Dog
      <4> DEFINE w == IF r = q THEN "gone" ELSE IF r = p THEN "remove" ELSE dog[r].at
      <4>1. dog'[r] = [dog[r] EXCEPT !.at = w]
        BY <3>3, Zenon
      <4>2. dog[r] \in [at : DogPCs, build : Build \cup {0}, old : Meta]
        OBVIOUS
      <4> HIDE DEF w
      <4>3. dog'[r].old = dog[r].old /\ dog'[r].at = w
        BY <4>1, <4>2
      <4>4. dog[r].at = "kill"
        BY <3>5, <4>3 DEF w
      <4> QED  BY <4>3, <4>4
    <3> QED  BY <3>1, <3>4, <3>5, Zenon
  <2>6. CASE RemoveFile(p)  BY <2>6 DEF RemoveFile
  <2> QED  BY <1>2, <2>1, <2>2, <2>3, <2>4, <2>5, <2>6, Zenon DEF acquire
<1>3. ASSUME NEW p \in Dog, Exit(p) PROVE DogTypeOK'
  BY <1>3 DEF Exit
<1>4. CASE UNCHANGED dogvars
  BY <1>4 DEF dogvars
<1> QED  BY <1>1, <1>2, <1>3, <1>4 DEF DogNext

(* A step that does not begin a second start keeps OneStart.               *)
LEMMA StartStep ==
  ASSUME DogTypeOK, OneStart, [DogNext]_dogvars, ~overlapped'
  PROVE  OneStart'
<1> USE SingletonAssumption DEF DogTypeOK, OneStart, Meta, DogPCs, NoFile, Absent, Go, Acquiring, Holders
<1>1. ASSUME NEW p \in Dog, NEW b \in Build, DogStart(p, b) PROVE OneStart'
  <2>1. Acquiring = {} /\ lock' = lock
    BY <1>1, Zenon DEF DogStart
  <2>2. \A r \in Dog : dog'[r] = IF r = p THEN [Absent EXCEPT !.at = "open", !.build = b]
                                          ELSE dog[r]
    BY <1>1 DEF DogStart
  <2>3. dog[p].at = "none" /\ dog'[p].at = "open"
    BY <1>1, <2>2 DEF DogStart
  <2>4. Acquiring' = {p} /\ Holders' = Holders
    BY <2>1, <2>2, <2>3
  <2> QED  BY <2>1, <2>2, <2>3, <2>4
<1>2. ASSUME NEW p \in Dog, acquire(p) PROVE OneStart'
  <2>1. CASE CreateNew(p)  BY <2>1 DEF CreateNew
  <2>2. CASE WriteMeta(p)  BY <2>2 DEF WriteMeta
  <2>3. CASE read_meta(p)  BY <2>3 DEF read_meta
  <2>4. CASE Judge(p)
    <3> DEFINE v == Verdict(dog[p].old, dog[p].build)
    <3>1. v \in {"remove", "gone", "kill"}
      BY DEF Verdict
    <3>2. dog[p].at = "judge" /\ dog[p].old = lock /\ lock' = lock
      BY <2>4 DEF Judge
    <3>3. \A r \in Dog : r # p => dog'[r] = dog[r]
      BY <2>4 DEF Judge
    <3>4. dog'[p] = [dog[p] EXCEPT !.at = v]
      BY <2>4 DEF Judge
    <3>5. v = "remove" => Holders = {}
      BY <3>2 DEF Verdict, is_process_alive
    <3> HIDE DEF v
    <3>6. dog'[p].at = v /\ dog'[p].old = dog[p].old
      BY <3>4
    <3>7. Holders' = Holders /\ Acquiring' \subseteq Acquiring
      BY <3>1, <3>2, <3>3, <3>6
    <3>8. lock'.pid \in Dog => dog'[lock'.pid].at \in {"held", "gone"}
      BY <3>2, <3>3
    <3>9. \A r \in Dog : dog'[r].at \in {"judge", "kill", "remove"} => dog'[r].old = lock'
      BY <3>2, <3>3, <3>6
    <3>10. \A r \in Dog : dog'[r].at = "write" => lock'.ino = r
      BY <3>1, <3>2, <3>3, <3>6
    <3>11. \A r \in Dog : dog'[r].at \in {"write", "remove"} => Holders = {}
      <4> HIDE DEF Holders
      <4>1. ASSUME NEW r \in Dog, dog'[r].at \in {"write", "remove"} PROVE Holders = {}
        <5>1. CASE r = p  BY <3>1, <3>5, <3>6, <4>1, <5>1
        <5>2. CASE r # p  BY <3>3, <4>1, <5>2
        <5> QED  BY <5>1, <5>2
      <4> QED  BY <4>1
    <3>12. \A r, q \in Acquiring' : r = q
      BY <3>7
    <3> HIDE DEF Acquiring, Holders
    <3> QED  BY <3>2, <3>7, <3>8, <3>9, <3>10, <3>11, <3>12, Zenon
  <2>5. CASE kill_process(p)
    <3> DEFINE q == dog[p].old.pid
    <3>1. dog[p].at = "kill" /\ lock' = lock /\ q = lock.pid /\ q \in Dog
      BY <2>5 DEF kill_process
    <3>2. dog' = [dog EXCEPT ![p].at = "remove", ![q].at = "gone"]
      BY <2>5 DEF kill_process
    <3>3. q # p
      BY <3>1
    <3>4. \A r \in Dog \ {p, q} : dog'[r] = dog[r]
      BY <3>2
    <3>5. dog'[p] = [dog[p] EXCEPT !.at = "remove"] /\ dog'[q] = [dog[q] EXCEPT !.at = "gone"]
      BY <3>1, <3>2, <3>3
    <3>6. dog'[p].at = "remove" /\ dog'[p].old = dog[p].old /\ dog'[q].at = "gone"
      BY <3>1, <3>5
    <3> HIDE DEF q
    <3>7. Holders' = {} /\ Acquiring' \subseteq Acquiring
      BY <3>1, <3>4, <3>6
    <3> QED  BY <3>1, <3>3, <3>4, <3>6, <3>7
  <2>6. CASE RemoveFile(p)  BY <2>6 DEF RemoveFile
  <2> QED  BY <1>2, <2>1, <2>2, <2>3, <2>4, <2>5, <2>6, Zenon DEF acquire
<1>3. ASSUME NEW p \in Dog, Exit(p) PROVE OneStart'
  BY <1>3 DEF Exit, is_process_alive
<1>4. CASE UNCHANGED dogvars
  BY <1>4 DEF dogvars
<1> QED  BY <1>1, <1>2, <1>3, <1>4, Zenon DEF DogNext

(* While starts do not overlap, one instance at most holds the port,       *)
(* whatever crashes, exits and replaced builds leave in the lock file.     *)
THEOREM SerialStartsAreExclusive == DogSpec => []SerialStartsExclude
<1>1. DogInit => DogInv
  <2> SUFFICES ASSUME DogInit PROVE DogInv
    OBVIOUS
  <2>1. DogTypeOK  BY Zenon DEF DogInit, DogTypeOK, Meta, DogPCs, NoFile, Absent
  <2>2. OneStart  BY SingletonAssumption DEF DogInit, OneStart, NoFile, Absent, Acquiring, Holders
  <2> QED  BY <2>1, <2>2 DEF DogInv
<1>2. DogInv /\ [DogNext]_dogvars => DogInv'
  <2> SUFFICES ASSUME DogInv, [DogNext]_dogvars PROVE DogInv'
    OBVIOUS
  <2>1. DogTypeOK'  BY DogTypeStep DEF DogInv
  <2>2. ~overlapped' => ~overlapped
    BY Zenon DEF DogInv, DogTypeOK, DogNext, dogvars, acquire, DogStart, CreateNew, WriteMeta, read_meta,
           Judge, kill_process, RemoveFile, Exit
  <2> QED  BY <2>1, <2>2, StartStep DEF DogInv
<1>3. DogInv => SerialStartsExclude
  BY DEF DogInv, OneStart, SerialStartsExclude, OneInstance
<1> QED  BY <1>1, <1>2, <1>3, PTL DEF DogSpec

-------------------------------------------------------------------------------
(***************************************************************************)
(* The forwarder accounts for every line, for every rate, summary interval *)
(* and ring size.                                                          *)
(***************************************************************************)
(* While the loop runs, a line read was emitted, is in a summary already   *)
(* made, or is in the count of the next one; Close moves that count.       *)
Accounted ==
  /\ dropped \in Nat /\ seen \in Nat /\ emitted \in Nat /\ summed \in Nat
  /\ reader \in {"reading", "ended"} => seen = emitted + summed + dropped
  /\ reader = "ended" => dropped = 0

(* One step of the loop keeps the account.                                 *)
LEMMA AccountStep == Accounted /\ [ForwardNext]_fwdvars => Accounted'
<1> SUFFICES ASSUME Accounted, [ForwardNext]_fwdvars PROVE Accounted'
  OBVIOUS
<1> USE DEF Accounted
<1>1. ASSUME NEW k \in {"blank", "short", "long", "split"}, Line(k) PROVE Accounted'
  <2>1. CASE k = "blank"  BY <1>1, <2>1 DEF Line
  <2>2. CASE k = "split"  BY <1>1, <2>2 DEF Line
  <2>3. CASE k \in {"short", "long"} /\ Emit
    BY <1>1, <2>3 DEF Line, Emit
  <2>4. CASE k \in {"short", "long"} /\ Shed
    BY <1>1, <2>4 DEF Line, Shed
  <2> QED  BY <1>1, <2>1, <2>2, <2>3, <2>4 DEF Line
<1>2. CASE Close  BY <1>2 DEF Close
<1>3. CASE Second  BY <1>3 DEF Second
<1>4. CASE UNCHANGED fwdvars  BY <1>4 DEF fwdvars
<1> QED  BY <1>1, <1>2, <1>3, <1>4 DEF ForwardNext

(* When the stream has ended, every line read was emitted or counted in    *)
(* exactly one summary.                                                    *)
THEOREM NothingUnreported == ForwardSpec => []DropsAreReported
<1>1. ForwardInit => Accounted
  BY DEF ForwardInit, Accounted
<1>2. Accounted => DropsAreReported
  BY DEF Accounted, DropsAreReported
<1> QED  BY <1>1, <1>2, AccountStep, PTL DEF ForwardSpec

-------------------------------------------------------------------------------
(***************************************************************************)
(* Database backups, for any databases and any retention of at least one.  *)
(***************************************************************************)
(* A non-empty set of naturals has a least element.                        *)
LEMMA LeastNumber ==
  ASSUME NEW S, S \subseteq Nat, S # {}
  PROVE  \E n \in S : \A m \in S : n <= m
<1> DEFINE R == OpToRel(<, Nat)
<1>1. IsWellFoundedOn(R, Nat)
  BY NatLessThanWellFounded, Zenon
<1>2. \A k, m \in Nat : <<k, m>> \in R <=> k < m
  BY DEF OpToRel
<1> HIDE DEF R
<1>3. PICK n \in S : \A m \in S : ~(<<m, n>> \in R)
  BY <1>1, WFMin, Zenon
<1>4. ASSUME NEW m \in S PROVE n <= m
  <2>1. m \in Nat /\ n \in Nat
    OBVIOUS
  <2>2. ~(m < n)
    BY <1>2, <1>3, <2>1, Zenon
  <2> QED  BY <2>1, <2>2
<1> QED  BY <1>4

Dump == [db : Uri, stamp : Nat, whole : BOOLEAN]

(* Unless a crash inside age has left a torn one, the only dump that is    *)
(* not whole is the one age is writing; and age runs only with a key.      *)
BackupInv ==
  /\ now \in Nat /\ dumps \subseteq Dump /\ torn \in BOOLEAN
  /\ \A f \in dumps : f.stamp <= now
  /\ dumping = NoDump \/ (dumping \in [db : Uri, at : {"dump", "age"}])
  /\ dumping.at = "age" => keyed
  /\ ~torn => \A f \in dumps : f.whole \/ (dumping.at = "age" /\ f = File(FALSE))

(* The newest dump of a database is not in excess, so rotate keeps one.    *)
LEMMA NewestStays ==
  ASSUME BackupInv, NEW f \in dumps
  PROVE  \E g \in dumps \ Excess : g.db = f.db
<1> DEFINE Of == {g \in dumps : g.db = f.db}
           S == {now - g.stamp : g \in Of}
<1>1. \A g \in dumps : g.stamp \in Nat /\ now - g.stamp \in Nat
  BY DEF BackupInv, Dump
<1>2. S \subseteq Nat /\ S # {}
  BY <1>1
<1>3. PICK n \in S : \A m \in S : n <= m
  BY <1>2, LeastNumber, Zenon
<1>4. PICK g \in Of : n = now - g.stamp
  BY <1>3
<1>5. ASSUME NEW h \in Of PROVE ~(h.stamp > g.stamp)
  <2>1. now - h.stamp \in S
    OBVIOUS
  <2>2. now - g.stamp <= now - h.stamp
    BY <1>3, <1>4, <2>1
  <2>3. now \in Nat /\ h.stamp \in Nat /\ g.stamp \in Nat
    BY <1>1 DEF BackupInv
  <2> QED  BY <2>2, <2>3
<1>6. Newer(g) = {}
  BY <1>5 DEF Newer
<1>7. Cardinality(Newer(g)) = 0
  BY <1>6, FS_EmptySet
<1>8. g \notin Excess
  BY <1>7, DbBackupAssumption DEF Excess
<1> QED  BY <1>4, <1>8

(* A file of the dump at hand.                                             *)
LEMMA FileIs ==
  ASSUME BackupInv, dumping # NoDump, NEW w \in BOOLEAN
  PROVE  /\ File(w) \in Dump /\ File(w).stamp = now /\ File(w).whole = w
         /\ File(w).db = dumping.db /\ dumping.db \in Uri
BY DEF BackupInv, File, Dump

(* What a step that ends the dump at hand has to leave.                    *)
LEMMA IdleInv ==
  ASSUME BackupInv, dumping' = NoDump, now' = now, torn' \in BOOLEAN, dumps' \subseteq Dump,
         \A f \in dumps' : f.stamp <= now, ~torn' => \A f \in dumps' : f.whole
  PROVE  BackupInv'
<1>1. dumping'.at # "age"
  BY DEF NoDump
<1>2. now' \in Nat
  BY DEF BackupInv
<1>3. \A f \in dumps' : f.stamp <= now'
  OBVIOUS
<1> QED  BY <1>1, <1>2, <1>3, Zenon DEF BackupInv

(* Every step keeps the invariant.                                         *)
LEMMA BackupStep ==
  ASSUME BackupInv, [BackupNext]_dbvars
  PROVE  BackupInv'
<1>1. ASSUME NEW u \in Uri, pg_dump(u) PROVE BackupInv'
  <2>1. /\ dumping = NoDump /\ dumping' = [db |-> u, at |-> "dump"] /\ now' = now + 1
        /\ UNCHANGED <<keyed, dumps, torn>> /\ now \in Nat
    BY <1>1 DEF pg_dump, BackupInv
  <2>2. dumping.at = "idle" /\ dumping'.at = "dump" /\ dumping' \in [db : Uri, at : {"dump", "age"}]
    BY <2>1 DEF NoDump
  <2>3. \A f \in dumps : f.stamp \in Nat /\ f.stamp <= now + 1
    BY <2>1 DEF BackupInv, Dump
  <2> QED  BY <2>1, <2>2, <2>3 DEF BackupInv
<1>2. CASE run_backup
  <2>0. now <= now /\ \A f \in dumps : f.stamp <= now
    BY DEF BackupInv
  <2>1. UNCHANGED <<keyed, now, torn>>
    BY <1>2 DEF run_backup
  <2>2. NoDump.at = "idle"
    BY DEF NoDump
  <2>3. CASE Finalize
    <3>1. /\ dumping.at = "dump" /\ dumping' = NoDump /\ dumps' = dumps \cup {File(TRUE)}
      BY <2>3 DEF Finalize
    <3>2. File(TRUE) \in Dump /\ File(TRUE).stamp = now /\ File(TRUE).whole
      BY <2>2, <3>1, FileIs, Zenon
    <3>3. ~torn => \A f \in dumps' : f.whole
      BY <3>1, <3>2, Zenon DEF BackupInv
    <3>4. dumps' \subseteq Dump /\ torn \in BOOLEAN
      BY <3>1, <3>2, Zenon DEF BackupInv
    <3>5. \A f \in dumps' : f.stamp <= now
      BY <2>0, <3>1, <3>2, Zenon
    <3> QED  BY <2>1, <3>1, <3>3, <3>4, <3>5, IdleInv, Zenon
  <2>4. CASE AgeStarts
    <3>1. /\ dumping.at = "dump" /\ keyed /\ dumping' = [dumping EXCEPT !.at = "age"]
          /\ dumps' = dumps \cup {File(FALSE)}
      BY <2>4 DEF AgeStarts
    <3>2. File(FALSE) \in Dump /\ File(FALSE).stamp = now
      BY <2>2, <3>1, FileIs, Zenon
    <3>3. dumping \in [db : Uri, at : {"dump", "age"}]
      BY <2>2, <3>1 DEF BackupInv
    <3>4. /\ dumping' \in [db : Uri, at : {"dump", "age"}] /\ dumping'.at = "age"
          /\ dumping'.db = dumping.db
      BY <3>1, <3>3
    <3>5. File(FALSE)' = File(FALSE)
      BY <2>1, <3>4 DEF File
    <3>6. ~torn => \A f \in dumps' : f.whole \/ f = File(FALSE)
      BY <3>1, Zenon DEF BackupInv
    <3>7. now' \in Nat /\ dumps' \subseteq Dump /\ torn' \in BOOLEAN /\ keyed'
      BY <2>1, <3>1, <3>2, Zenon DEF BackupInv
    <3>8. \A f \in dumps' : f.stamp <= now'
      BY <2>0, <2>1, <3>1, <3>2, Zenon
    <3>9. ~torn' => \A f \in dumps' : f.whole \/ (dumping'.at = "age" /\ f = File(FALSE)')
      BY <2>1, <3>4, <3>5, <3>6, Zenon
    <3> QED  BY <3>4, <3>7, <3>8, <3>9, Zenon DEF BackupInv
  <2>5. CASE AgeEnds
    <3>1. /\ dumping.at = "age" /\ dumping' = NoDump
          /\ dumps' = (dumps \ {File(FALSE)}) \cup {File(TRUE)}
      BY <2>5 DEF AgeEnds
    <3>2. File(TRUE) \in Dump /\ File(TRUE).stamp = now /\ File(TRUE).whole
      BY <2>2, <3>1, FileIs, Zenon
    <3>3. ~torn => \A f \in dumps' : f.whole
      BY <3>1, <3>2, Zenon DEF BackupInv
    <3>4. dumps' \subseteq Dump /\ torn \in BOOLEAN
      BY <3>1, <3>2, Zenon DEF BackupInv
    <3>5. \A f \in dumps' : f.stamp <= now
      BY <2>0, <3>1, <3>2, Zenon
    <3> QED  BY <2>1, <3>1, <3>3, <3>4, <3>5, IdleInv, Zenon
  <2>6. CASE Fails
    <3>1. dumping' = NoDump /\ dumps' = dumps \ {File(FALSE)}
      BY <2>6 DEF Fails
    <3>2. ~torn => \A f \in dumps' : f.whole
      BY <3>1, Zenon DEF BackupInv
    <3>3. dumps' \subseteq Dump /\ torn \in BOOLEAN /\ \A f \in dumps' : f.stamp <= now
      BY <3>1, Zenon DEF BackupInv
    <3> QED  BY <2>1, <3>1, <3>2, <3>3, IdleInv, Zenon
  <2> QED  BY <1>2, <2>3, <2>4, <2>5, <2>6 DEF run_backup
<1>3. CASE rotate
  BY <1>3 DEF rotate, BackupInv, NoDump
<1>4. CASE BackupCrash
  <2>1. /\ dumping' = NoDump /\ torn' = (torn \/ (keyed /\ dumping.at = "age"))
        /\ UNCHANGED <<keyed, dumps, now>>
    BY <1>4 DEF BackupCrash
  <2>2. NoDump.at = "idle"
    BY DEF NoDump
  <2>3. ~torn' => ~torn /\ dumping.at # "age"
    BY <2>1, Zenon DEF BackupInv
  <2>4. ~torn' => \A f \in dumps : f.whole
    BY <2>3, Zenon DEF BackupInv
  <2> QED  BY <2>1, <2>2, <2>4 DEF BackupInv
<1>5. CASE UNCHANGED dbvars
  BY <1>5 DEF dbvars, BackupInv, File
<1> QED  BY <1>1, <1>2, <1>3, <1>4, <1>5 DEF BackupNext

(* A step keeps a whole dump of every database that has had one.           *)
LEMMA KeptStep ==
  ASSUME BackupInv, LastGoodKept, [BackupNext]_dbvars
  PROVE  LastGoodKept'
<1> SUFFICES ASSUME ~torn', NEW u \in saved' PROVE \E f \in dumps' : f.db = u /\ f.whole
  BY DEF LastGoodKept
<1>1. ~torn
  BY DEF BackupInv, BackupNext, pg_dump, run_backup, rotate, BackupCrash, dbvars
<1>2. CASE u \in saved /\ ~rotate
  <2>1. PICK f \in dumps : f.db = u /\ f.whole
    BY <1>1, <1>2 DEF LastGoodKept
  <2>2. File(FALSE).whole = FALSE
    BY DEF File
  <2>3. f \in dumps'
    BY <1>2, <2>1, <2>2, Zenon DEF BackupNext, pg_dump, run_backup, Finalize, AgeStarts, AgeEnds, Fails, BackupCrash, dbvars
  <2> QED  BY <2>1, <2>3
<1>3. CASE u \in saved /\ rotate
  <2>1. PICK f \in dumps : f.db = u /\ f.whole
    BY <1>1, <1>3 DEF LastGoodKept
  <2>2. PICK g \in dumps \ Excess : g.db = u
    BY <2>1, NewestStays
  <2>3. dumping.at = "idle" /\ dumps' = dumps \ Excess
    BY <1>3 DEF rotate, NoDump
  <2>4. g.whole
    BY <1>1, <2>3 DEF BackupInv
  <2> QED  BY <2>2, <2>3, <2>4
<1>4. CASE u \notin saved
  <2>1. Finalize \/ AgeEnds
    BY <1>4, Zenon DEF BackupNext, pg_dump, run_backup, AgeStarts, Fails, rotate, BackupCrash, dbvars
  <2>2. u = dumping.db /\ dumping.at # "idle" /\ File(TRUE) \in dumps'
    BY <1>4, <2>1, Zenon DEF Finalize, AgeEnds
  <2>3. dumping # NoDump
    BY <2>2 DEF NoDump
  <2> QED  BY <2>2, <2>3, FileIs, Zenon
<1> QED  BY <1>2, <1>3, <1>4

(* Failed dumps and crashes never push the last whole dump of a database   *)
(* out of the retention window, unless a crash inside age left a torn one. *)
THEOREM LastGoodIsKept == BackupSpec => []LastGoodKept
<1>1. BackupInit => BackupInv /\ LastGoodKept
  <2> SUFFICES ASSUME BackupInit PROVE BackupInv /\ LastGoodKept
    OBVIOUS
  <2>1. dumping.at # "age"
    BY DEF BackupInit, NoDump
  <2>2. dumps = {} /\ saved = {} /\ now \in Nat /\ torn \in BOOLEAN /\ dumping = NoDump
    BY Zenon DEF BackupInit
  <2> QED  BY <2>1, <2>2 DEF BackupInv, LastGoodKept
<1>2. BackupInv /\ LastGoodKept /\ [BackupNext]_dbvars => BackupInv' /\ LastGoodKept'
  BY BackupStep, KeptStep
<1> QED  BY <1>1, <1>2, PTL DEF BackupSpec
===============================================================================
