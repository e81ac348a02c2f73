------------------------------- MODULE Rebuild --------------------------------
(***************************************************************************)
(* From a change to a restart: the watcher thread of watcher.rs, the       *)
(* remote poller, backoff and build lock of pipeline.rs, and the task of   *)
(* bin/malkuth.rs that takes their triggers, runs the pipeline and asks    *)
(* for a rolling restart.                                                  *)
(*                                                                         *)
(* A path's content is a number that grows with every write.  Its identity *)
(* (inode, size, mtime) is that of its last write, but a write inside a    *)
(* watched directory need not change the directory's.  Whether inotify     *)
(* reports a write is up to the kernel: it may when the path is armed or   *)
(* its parent is, and need not.                                            *)
(* Times are abstract: a deadline may pass whenever it is set.  The two    *)
(* channels of 16 from the watcher to the task are one queue of Cap.       *)
(***************************************************************************)
EXTENDS Naturals, Sequences, FiniteSetsExt

CONSTANTS
  Path,       \* the watched paths
  Dir,        \* those that are directories
  Bin,        \* the file that is the supervised binary
  Remote,     \* the upstream ref, if watched: a source of triggers, no path
  Cap,        \* bound: triggers in flight
  MaxWrites,  \* bound: writes to the paths and moves of the ref
  MaxFails,   \* bound: failed pipelines
  Staged,     \* there are build stages or an install hook
  MaySkip     \* a pause file, or a builder with the lock, may turn up

Source == Path \cup {Remote}

ASSUME RebuildAssumption ==
  /\ Dir \subseteq Path /\ Bin \in Path \ Dir /\ Remote \notin Path
  /\ Cap \in Nat /\ MaxWrites \in Nat /\ MaxFails \in Nat

VARIABLES
  disk,       \* disk[s]: the version at a path, or upstream
  ident,      \* ident[s]: the version its identity shows
  armed,      \* the paths whose watch follows the inode now at the path
  events,     \* events notify has reported: path and "modify" or "name"
  failed,     \* watches to be re-armed
  known,      \* known[s]: the identity last seen; the poller's baseline
  pending, window,  \* the debounce window and the paths changed in it
  queue,      \* triggers: sets of paths, or {Remote}
  job,        \* the task: idle, running a pipeline, or about to restart
  backoff,    \* a failure's backoff has not passed
  fails,      \* failed pipelines so far
  built,      \* history: built[s], the version the last pipeline begun saw
  restarted,  \* history: the binary at the last restart request
  skipped     \* history: a trigger was dropped

watcher == <<armed, events, failed, known, pending, window>>
task == <<job, backoff, fails, built, restarted, skipped>>
vars == <<disk, ident, watcher, queue, task>>

Idle == [at |-> "idle", paths |-> {}, before |-> [p \in Dir |-> 0]]

Init ==
  /\ disk = [s \in Source |-> 0] /\ ident = disk
  /\ armed \in SUBSET Path /\ failed = Path \ armed
  /\ events = {} /\ pending = {} /\ window = "none"
  /\ known = disk
  /\ queue = <<>> /\ job = Idle
  /\ backoff = FALSE /\ fails = 0
  /\ built = disk /\ restarted = 0 /\ skipped = FALSE

-------------------------------------------------------------------------------
(* The world: a write in place or inside a directory, or something renamed *)
(* over the path, after which the old watch follows a dead inode.          *)
MoreWrites == MapThenSumSet(LAMBDA s : disk[s], Source) < MaxWrites
Reported(p, k) == events' \in {events, events \cup {<<p, k>>}}

Write(p) ==
  /\ MoreWrites
  /\ disk' = [disk EXCEPT ![p] = @ + 1]
  /\ ident' = [ident EXCEPT ![p] = disk'[p]] \/ (p \in Dir /\ UNCHANGED ident)
  /\ Reported(p, "modify")
  /\ UNCHANGED <<armed, failed, known, pending, window, queue, task>>

Replace(p) ==
  /\ MoreWrites
  /\ disk' = [disk EXCEPT ![p] = @ + 1] /\ ident' = [ident EXCEPT ![p] = disk'[p]]
  /\ armed' = armed \ {p} /\ Reported(p, "name")
  /\ UNCHANGED <<failed, known, pending, window, queue, task>>

MoveRef ==
  /\ MoreWrites
  /\ disk' = [disk EXCEPT ![Remote] = @ + 1] /\ ident' = [ident EXCEPT ![Remote] = disk'[Remote]]
  /\ UNCHANGED <<watcher, queue, task>>

-------------------------------------------------------------------------------
(* One pass of the watcher's loop.  An elapsed window is looked at first.  *)
Elapse ==
  /\ window = "open" /\ window' = "elapsed"
  /\ UNCHANGED <<disk, ident, armed, events, failed, known, pending, queue, task>>

Note(ps) == pending' = pending \cup ps /\ window' = "open"
Learn(ps) == known' = [s \in Source |-> IF s \in ps THEN ident[s] ELSE known[s]]

(* The identities are read, then the batch is sent; the channel may be     *)
(* full, and the send waits.  What was reported inside a directory goes    *)
(* under its own name, and the directory's identity is not read then.      *)
Fire ==
  /\ window = "elapsed" /\ Len(queue) < Cap
  /\ \E named \in SUBSET (pending \cap Dir) : Learn((pending \ Dir) \cup named)
  /\ queue' = Append(queue, pending)
  /\ pending' = {} /\ window' = "none"
  /\ UNCHANGED <<disk, ident, armed, events, failed, task>>

(* A watch armed again reports its path only if its identity changed; with *)
(* a bug, it takes the new identity and reports nothing.                   *)
RearmQuiet(p) == Learn({p}) /\ UNCHANGED <<pending, window>>
Rearm(p) ==
  /\ Learn({p})
  /\ IF known[p] # ident[p] THEN Note({p}) ELSE UNCHANGED <<pending, window>>

Retry(p) ==
  /\ window # "elapsed" /\ p \in failed
  /\ failed' = failed \ {p} /\ armed' = armed \cup {p}
  /\ Rearm(p)
  /\ UNCHANGED <<disk, ident, events, queue, task>>

(* poll_changes, which updates the cache.                                  *)
Stale == {p \in Path : known[p] # ident[p]}

Poll ==
  /\ window # "elapsed" /\ Stale # {}
  /\ Note(Stale) /\ Learn(Stale)
  /\ UNCHANGED <<disk, ident, armed, events, failed, queue, task>>

(* The root itself was removed or renamed.                                 *)
watch_needs_rearm(e) == e[2] = "name"

Event ==
  /\ window # "elapsed"
  /\ \E e \in events :
       /\ events' = events \ {e}
       /\ failed' = IF watch_needs_rearm(e) THEN failed \cup {e[1]} ELSE failed
       /\ Note({e[1]})
  /\ UNCHANGED <<disk, ident, armed, known, queue, task>>

(* The remote poller: the baseline moves with the trigger it sends.        *)
ProbeRemote ==
  /\ known[Remote] # ident[Remote] /\ Len(queue) < Cap
  /\ queue' = Append(queue, {Remote}) /\ Learn({Remote})
  /\ UNCHANGED <<disk, ident, armed, events, failed, pending, window, task>>

-------------------------------------------------------------------------------
(* The files below the watched directories; a watched file is not among    *)
(* them.                                                                   *)
snapshot_mtimes == [p \in Dir |-> disk[p]]
mtimes_changed(before) == before # snapshot_mtimes

(* A lock file that cannot be opened is no reason to skip.                 *)
acquire_build_lock == {"Acquired", "Disabled"} \cup IF MaySkip THEN {"Busy"} ELSE {}

(* The task takes a trigger: the pause file, backoff, the build lock.      *)
Skip ==
  /\ job.at = "idle" /\ queue # <<>>
  /\ MaySkip \/ backoff \/ "Busy" \in acquire_build_lock
  /\ queue' = Tail(queue) /\ skipped' = TRUE
  /\ UNCHANGED <<disk, ident, watcher, job, backoff, fails, built, restarted>>

Take ==
  /\ job.at = "idle" /\ queue # <<>> /\ ~backoff
  /\ queue' = Tail(queue)
  /\ job' = [at |-> "run", paths |-> Head(queue), before |-> snapshot_mtimes]
  /\ built' = disk
  /\ UNCHANGED <<disk, ident, watcher, backoff, fails, restarted, skipped>>

(* A stage, or the install hook; without any, the pipeline is empty.       *)
run_shell_stage == {"ok"} \cup IF Staged THEN {"failed"} ELSE {}

(* A pipeline that fails restarts nothing, unless the binary changed.      *)
AfterFailureNothing == job' = Idle
AfterFailure ==
  job' = IF Bin \in job.paths THEN [job EXCEPT !.at = "restart"] ELSE Idle

PipelineFails ==
  /\ job.at = "run" /\ "failed" \in run_shell_stage /\ fails < MaxFails
  /\ backoff' = TRUE /\ fails' = fails + 1
  /\ AfterFailure
  /\ UNCHANGED <<disk, ident, watcher, queue, built, restarted, skipped>>

(* Stages and install, if any, succeed.  The mtimes before and after tell  *)
(* whether they changed anything, or anyone else did meanwhile.            *)
PipelineSucceeds ==
  /\ job.at = "run"
  /\ backoff' = FALSE
  /\ job' = IF mtimes_changed(job.before) \/ Bin \in job.paths \/ ~Staged
            THEN [job EXCEPT !.at = "restart"] ELSE Idle
  /\ UNCHANGED <<disk, ident, watcher, queue, fails, built, restarted, skipped>>

Restart ==
  /\ job.at = "restart"
  /\ restarted' = disk[Bin] /\ job' = Idle
  /\ UNCHANGED <<disk, ident, watcher, queue, backoff, fails, built, skipped>>

BackoffPasses ==
  /\ backoff /\ backoff' = FALSE
  /\ UNCHANGED <<disk, ident, watcher, queue, job, fails, built, restarted, skipped>>

Watch == Elapse \/ Fire \/ Poll \/ Event \/ \E p \in Path : Retry(p)
Task == Skip \/ Take \/ PipelineFails \/ PipelineSucceeds \/ Restart

Next ==
  \/ \E p \in Path : Write(p) \/ Replace(p)
  \/ MoveRef \/ Watch \/ ProbeRemote \/ Task \/ BackoffPasses

Spec == Init /\ [][Next]_vars

(* The threads run and deadlines pass.  Writes come to an end by their     *)
(* bound: an endless stream of them can keep the debounce window open.     *)
FairSpec ==
  /\ Spec
  /\ WF_vars(Elapse \/ Fire) /\ WF_vars(Poll) /\ WF_vars(Event)
  /\ WF_vars(\E p \in Path : Retry(p))
  /\ WF_vars(ProbeRemote) /\ WF_vars(Task) /\ WF_vars(BackoffPasses)

-------------------------------------------------------------------------------
(* A change of a file or the ref reaches a pipeline begun after it, whether *)
(* inotify reported it or not, and so does a reported change inside a      *)
(* directory, wherever it fell in the debounce window, unless some trigger *)
(* was skipped.                                                            *)
Noticed(s) == s \in Dir => \E k \in {"modify", "name"} : <<s, k>> \in events
ChangeIsBuilt ==
  \A s \in Source : built[s] < disk[s] /\ Noticed(s) ~> built[s] = disk[s] \/ skipped

(* A new binary leads to a restart, though the pipeline fails.             *)
NewBinaryRestarts ==
  restarted < disk[Bin] ~> restarted = disk[Bin] \/ skipped

(* pipeline.rs on a trigger dropped in backoff: "the next file change or   *)
(* remote poll retries later".  Here, that the ref upstream is built.      *)
RefIsBuilt == built[Remote] < disk[Remote] ~> built[Remote] = disk[Remote]
===============================================================================
