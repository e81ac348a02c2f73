------------------------------- MODULE Singleton ------------------------------
(***************************************************************************)
(* singleton.rs: at most one watchdog per proxy port, by a lock file that  *)
(* is created exclusively, filled in a second step, and judged by the pid  *)
(* and the build it names.  main forgets the guard, so the file outlives   *)
(* its process and is found stale.                                         *)
(***************************************************************************)
CONSTANTS
  Dog,       \* watchdog processes, each started once
  Build,     \* modification times of the binary
  NoDog      \* pid 0, and no process

ASSUME SingletonAssumption == NoDog \notin Dog

VARIABLES
  dog,       \* dog[p]: [at, build, old]: where acquire is, and what it read
  lock,      \* the file: [ino, pid, build]; ino is the process that created it
  overlapped    \* history: a start began while another one was not over

dogvars == <<dog, lock, overlapped>>

NoFile == [ino |-> NoDog, pid |-> NoDog, build |-> 0]
Absent == [at |-> "none", build |-> 0, old |-> NoFile]

DogInit == dog = [p \in Dog |-> Absent] /\ lock = NoFile /\ overlapped = FALSE

Acquiring == {p \in Dog : dog[p].at \in {"open", "write", "judge", "kill", "remove"}}
Holders == {p \in Dog : dog[p].at = "held"}
is_process_alive(p) == p # NoDog /\ dog[p].at \notin {"none", "gone"}
Go(p, at) == dog' = [dog EXCEPT ![p].at = at]

DogStart(p, b) ==
  /\ dog[p].at = "none"
  /\ dog' = [dog EXCEPT ![p] = [Absent EXCEPT !.at = "open", !.build = b]]
  /\ overlapped' = (overlapped \/ Acquiring # {})
  /\ UNCHANGED lock

(* create_new succeeds; the metadata follows, into that file wherever its  *)
(* name has gone.                                                          *)
CreateNew(p) ==
  /\ dog[p].at = "open" /\ lock = NoFile
  /\ lock' = [NoFile EXCEPT !.ino = p] /\ Go(p, "write")
  /\ UNCHANGED overlapped

WriteMeta(p) ==
  /\ dog[p].at = "write" /\ Go(p, "held")
  /\ lock' = IF lock.ino = p THEN [lock EXCEPT !.pid = p, !.build = dog[p].build] ELSE lock
  /\ UNCHANGED overlapped

(* AlreadyExists: read_meta; what does not parse has pid 0.                *)
read_meta(p) ==
  /\ dog[p].at = "open" /\ lock # NoFile
  /\ dog' = [dog EXCEPT ![p].at = "judge", ![p].old = lock]
  /\ UNCHANGED <<lock, overlapped>>

(* Stale, the same build, or another build's; with a bug, an instance of   *)
(* another build is left running.                                          *)
VerdictSpares(old, build) ==
  IF old.build = build /\ is_process_alive(old.pid) THEN "gone" ELSE "remove"
Verdict(old, build) ==
  CASE ~is_process_alive(old.pid) -> "remove"
    [] is_process_alive(old.pid) /\ old.build = build -> "gone"
    [] OTHER -> "kill"

Judge(p) ==
  /\ dog[p].at = "judge" /\ Go(p, Verdict(dog[p].old, dog[p].build))
  /\ UNCHANGED <<lock, overlapped>>

(* SIGTERM, and SIGKILL after two seconds.                                 *)
kill_process(p) ==
  /\ dog[p].at = "kill"
  /\ dog' = [dog EXCEPT ![p].at = "remove", ![dog[p].old.pid].at = "gone"]
  /\ UNCHANGED <<lock, overlapped>>

(* remove_file, whoever's file it is by now, and acquire again.            *)
RemoveFile(p) ==
  /\ dog[p].at = "remove" /\ Go(p, "open") /\ lock' = NoFile
  /\ UNCHANGED overlapped

Exit(p) ==
  /\ is_process_alive(p) /\ Go(p, "gone")
  /\ UNCHANGED <<lock, overlapped>>

acquire(p) == CreateNew(p) \/ WriteMeta(p) \/ read_meta(p) \/ Judge(p) \/ kill_process(p) \/ RemoveFile(p)
DogNext == \E p \in Dog : acquire(p) \/ Exit(p) \/ \E b \in Build : DogStart(p, b)
DogSpec == DogInit /\ [][DogNext]_dogvars

-------------------------------------------------------------------------------
(* The promise of --singleton: only one instance runs per proxy port.      *)
OneInstance ==
  \A p, q \in Holders : p = q

(* It holds while starts do not overlap, whatever crashes leave behind.    *)
SerialStartsExclude ==
  overlapped \/ OneInstance
===============================================================================
