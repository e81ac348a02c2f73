---------------------------- MODULE WatchdogProofs ----------------------------
(***************************************************************************)
(* Proofs about the watchdog's rebuild task and its front door, for every  *)
(* value of their constants.                                               *)
(***************************************************************************)
EXTENDS Rebuild, FrontDoor, HttpRelay, SequenceTheorems, TLAPS

-------------------------------------------------------------------------------
(***************************************************************************)
(* Nothing that was written is forgotten on its way to a pipeline, for any *)
(* set of watched paths and any capacity of the trigger channel.           *)
(***************************************************************************)
(* The rebuild task's state.  What is pending has an open window, and no   *)
(* identity, seen or shown, is ahead of the content.                       *)
RebuildTyped ==
  /\ disk \in [Source -> Nat] /\ ident \in [Source -> Nat] /\ known \in [Source -> Nat]
  /\ \A s \in Source : known[s] <= disk[s] /\ ident[s] <= disk[s]
  /\ pending \in SUBSET Path /\ (pending # {} => window # "none")
  /\ queue \in Seq(SUBSET Source)
  /\ \A e \in events : e[1] \in Path

(* A change is on its way to a pipeline: the identity last seen is not the *)
(* present one, or it waits in a window, or in a trigger.                  *)
Queued(s) == \E i \in 1 .. Len(queue) : s \in queue[i]
OnItsWay(s) == known[s] # ident[s] \/ s \in pending \/ Queued(s)

(* The safety of ChangeIsBuilt: a file or ref whose content no pipeline    *)
(* has begun with is on its way, unless some trigger was skipped, and what *)
(* is pending has a window that will elapse.                               *)
NoChangeLost ==
  /\ \A s \in Source \ Dir : built[s] # disk[s] => skipped \/ OnItsWay(s)
  /\ pending # {} => window # "none"

(* The safety of NewBinaryRestarts: a binary no restart was asked for is   *)
(* on its way, or the task has it in hand, whether its pipeline fails or   *)
(* not, unless some trigger was skipped.                                   *)
BinaryInHand == job.at = "restart" \/ (job.at = "run" /\ Bin \in job.paths)
NoBinaryLost == restarted # disk[Bin] => skipped \/ OnItsWay(Bin) \/ BinaryInHand

(* A trigger sent is queued behind the others.                             *)
LEMMA QueuedAppend ==
  ASSUME queue \in Seq(SUBSET Source), NEW b \in SUBSET Source, queue' = Append(queue, b)
  PROVE  /\ queue' \in Seq(SUBSET Source)
         /\ \A s : Queued(s) \/ s \in b => Queued(s)'
<1> DEFINE l == Len(queue)
<1>1. /\ l \in Nat /\ queue' \in Seq(SUBSET Source) /\ Len(queue') = l + 1
      /\ queue'[l + 1] = b /\ \A i \in 1 .. l : queue'[i] = queue[i]
  BY LenProperties, AppendProperties
<1>2. \A i \in 1 .. l : i \in 1 .. l + 1
  BY <1>1
<1>3. l + 1 \in 1 .. l + 1
  BY <1>1
<1> QED  BY <1>1, <1>2, <1>3, Zenon DEF Queued

(* A trigger taken leaves the others in the queue.                         *)
LEMMA QueuedTail ==
  ASSUME queue \in Seq(SUBSET Source), queue # <<>>, queue' = Tail(queue)
  PROVE  /\ queue' \in Seq(SUBSET Source) /\ Head(queue) \in SUBSET Source
         /\ \A s : Queued(s) => Queued(s)' \/ s \in Head(queue)
<1> DEFINE l == Len(queue)
<1>1. /\ l \in Nat /\ l >= 1 /\ queue' \in Seq(SUBSET Source) /\ Len(queue') = l - 1
      /\ Head(queue) = queue[1] /\ Head(queue) \in SUBSET Source
      /\ \A i \in 1 .. l - 1 : queue'[i] = queue[i + 1]
  BY LenProperties, EmptySeq, HeadTailProperties
<1>2. ASSUME NEW s, NEW i \in 1 .. l, s \in queue[i] PROVE Queued(s)' \/ s \in Head(queue)
  <2>1. CASE i = 1
    BY <1>1, <1>2, <2>1
  <2>2. CASE i # 1
    <3> DEFINE j == i - 1
    <3>1. j \in 1 .. l - 1 /\ j + 1 = i
      BY <1>1, <2>2
    <3> HIDE DEF j
    <3>2. s \in queue'[j]
      BY <1>1, <1>2, <3>1
    <3> QED  BY <1>1, <3>1, <3>2 DEF Queued
  <2> QED  BY <2>1, <2>2
<1> QED  BY <1>1, <1>2 DEF Queued

(* Learning identities keeps what is known a version of each source.       *)
LEMMA LearnTyped ==
  ASSUME RebuildTyped, NEW ps, Learn(ps)
  PROVE  /\ known' \in [Source -> Nat] /\ \A s \in Source : known'[s] <= disk[s]
         /\ \A s \in Source : known'[s] = known[s] \/ (s \in ps /\ known'[s] = ident[s])
<1>1. \A s \in Source : known'[s] = IF s \in ps THEN ident[s] ELSE known[s]
  BY DEF Learn
<1>2. known' \in [Source -> Nat]
  BY DEF Learn, RebuildTyped
<1> QED  BY <1>1, <1>2 DEF RebuildTyped

(* A write, a rename or a move of the ref shows in the identity of         *)
(* anything but a directory, which then differs from the one last seen.    *)
LEMMA WorldStep ==
  ASSUME RebuildTyped, NEW p \in Source,
         \/ p \in Path /\ (Write(p) \/ Replace(p))
         \/ p = Remote /\ MoveRef
  PROVE  /\ RebuildTyped' /\ UNCHANGED task
         /\ \A s \in Source \ Dir : s = p => OnItsWay(s)'
         /\ \A s \in Source \ {p} : disk'[s] = disk[s] /\ (OnItsWay(s) => OnItsWay(s)')
<1>1. /\ disk' = [disk EXCEPT ![p] = disk[p] + 1]
      /\ ident' = [ident EXCEPT ![p] = disk'[p]] \/ (p \in Dir /\ UNCHANGED ident)
      /\ UNCHANGED <<known, pending, window, queue, task>>
  BY DEF Write, Replace, MoveRef, watcher
<1>2. \A e \in events' : e[1] \in Path
  <2>1. CASE UNCHANGED events
    BY <2>1 DEF RebuildTyped
  <2>2. CASE p \in Path /\ \E k : events' = events \cup {<<p, k>>}
    BY <2>2 DEF RebuildTyped
  <2> QED  BY <2>1, <2>2, RebuildAssumption, Zenon DEF Write, Replace, MoveRef, Reported, watcher
<1>3. /\ disk \in [Source -> Nat] /\ ident \in [Source -> Nat] /\ known \in [Source -> Nat]
      /\ \A s \in Source : known[s] <= disk[s] /\ ident[s] <= disk[s]
  BY DEF RebuildTyped
<1>4. disk' \in [Source -> Nat] /\ disk'[p] = disk[p] + 1 /\ \A s \in Source \ {p} : disk'[s] = disk[s]
  BY <1>1, <1>3
<1>5. /\ ident' \in [Source -> Nat] /\ ident'[p] <= disk'[p]
      /\ (p \notin Dir => ident'[p] = disk'[p])
      /\ \A s \in Source \ {p} : ident'[s] = ident[s]
  <2>1. CASE ident' = [ident EXCEPT ![p] = disk'[p]]
    BY <1>3, <1>4, <2>1
  <2>2. CASE p \in Dir /\ UNCHANGED ident
    BY <1>3, <1>4, <2>2
  <2> QED  BY <1>1, <2>1, <2>2
<1>6. known'[p] # disk'[p] /\ \A s \in Source : known'[s] <= disk'[s] /\ ident'[s] <= disk'[s]
  BY <1>1, <1>3, <1>4, <1>5
<1>7. RebuildTyped'
  <2>1. known' \in [Source -> Nat] /\ pending' \in SUBSET Path /\ (pending' # {} => window' # "none")
        /\ queue' \in Seq(SUBSET Source)
    BY <1>1, Zenon DEF RebuildTyped
  <2> QED  BY <1>2, <1>4, <1>5, <1>6, <2>1, Zenon DEF RebuildTyped
<1>8. \A s \in Source \ Dir : s = p => OnItsWay(s)'
  BY <1>5, <1>6, Zenon DEF OnItsWay
<1>9. ASSUME NEW s \in Source \ {p}, OnItsWay(s) PROVE OnItsWay(s)'
  <2>1. known'[s] = known[s] /\ ident'[s] = ident[s] /\ pending' = pending /\ queue' = queue
    BY <1>1, <1>5
  <2> QED  BY <1>9, <2>1, Zenon DEF OnItsWay, Queued
<1> QED  BY <1>1, <1>4, <1>7, <1>8, <1>9

(* Noting the sources whose new identity is learned keeps each on its way. *)
LEMMA NoteStep ==
  ASSUME RebuildTyped, NEW ps \in SUBSET Path, NEW ls,
         pending' = pending \cup ps, window' = "open" \/ (ps = {} /\ window' = window),
         Learn(ls), \A s \in ls : known[s] # ident[s] => s \in ps,
         UNCHANGED <<disk, ident, queue, task>>, events' \subseteq events
  PROVE  RebuildTyped' /\ \A s \in Source : OnItsWay(s) => OnItsWay(s)'
<1>1. /\ known' \in [Source -> Nat] /\ \A s \in Source : known'[s] <= disk[s]
      /\ \A s \in Source : known'[s] = known[s] \/ (s \in ls /\ known'[s] = ident[s])
  BY LearnTyped
<1>2. RebuildTyped'
  BY <1>1 DEF RebuildTyped
<1>3. ASSUME NEW s \in Source, OnItsWay(s) PROVE OnItsWay(s)'
  BY <1>1, <1>3 DEF OnItsWay, Queued
<1> QED  BY <1>2, <1>3

(* No pass of the watcher or the poller takes a change off its way.        *)
LEMMA WatchStep ==
  ASSUME RebuildTyped, Watch \/ ProbeRemote
  PROVE  /\ RebuildTyped' /\ UNCHANGED <<disk, task>>
         /\ \A s \in Source : OnItsWay(s) => OnItsWay(s)'
<1>1. CASE Elapse
  <2>1. UNCHANGED <<disk, ident, events, known, pending, queue, task>> /\ window' # "none"
    BY <1>1 DEF Elapse
  <2> QED  BY <2>1 DEF RebuildTyped, OnItsWay, Queued
<1>2. CASE Fire
  <2>1. PICK named \in SUBSET (pending \cap Dir) : Learn((pending \ Dir) \cup named)
    BY <1>2, Zenon DEF Fire
  <2>2. /\ queue' = Append(queue, pending) /\ pending' = {}
        /\ UNCHANGED <<disk, ident, events, task>>
    BY <1>2 DEF Fire
  <2>3. /\ known' \in [Source -> Nat] /\ \A s \in Source : known'[s] <= disk[s]
        /\ \A s \in Source : known'[s] = known[s] \/ (s \in pending /\ known'[s] = ident[s])
    BY <2>1, LearnTyped
  <2>4. pending \in SUBSET Source /\ queue \in Seq(SUBSET Source)
    BY DEF RebuildTyped, Source
  <2>5. queue' \in Seq(SUBSET Source) /\ \A s : Queued(s) \/ s \in pending => Queued(s)'
    BY <2>2, <2>4, QueuedAppend
  <2>6. RebuildTyped'
    BY <2>2, <2>3, <2>5 DEF RebuildTyped
  <2>7. ASSUME NEW s \in Source, OnItsWay(s) PROVE OnItsWay(s)'
    <3>1. CASE Queued(s) \/ s \in pending
      BY <2>5, <3>1, Zenon DEF OnItsWay
    <3>2. CASE s \notin pending /\ known[s] # ident[s]
      BY <2>2, <2>3, <3>2 DEF OnItsWay
    <3> QED  BY <2>7, <3>1, <3>2, Zenon DEF OnItsWay
  <2> QED  BY <2>2, <2>6, <2>7
<1>3. CASE Poll
  <2>1. /\ Stale \in SUBSET Path /\ Note(Stale) /\ Learn(Stale)
        /\ UNCHANGED <<disk, ident, events, queue, task>>
    BY <1>3 DEF Poll, Stale
  <2>2. RebuildTyped' /\ \A s \in Source : OnItsWay(s) => OnItsWay(s)'
    BY <2>1, NoteStep DEF Note
  <2> QED  BY <2>1, <2>2
<1>4. CASE Event
  <2>1. PICK e \in events : events' = events \ {e} /\ Note({e[1]})
    BY <1>4 DEF Event
  <2>2. UNCHANGED <<disk, ident, known, queue, task>> /\ e[1] \in Path
    BY <1>4 DEF Event, RebuildTyped
  <2>3. pending' = pending \cup {e[1]} /\ window' = "open"
    BY <2>1 DEF Note
  <2>4. RebuildTyped'
    BY <2>1, <2>2, <2>3 DEF RebuildTyped
  <2>5. \A s \in Source : OnItsWay(s) => OnItsWay(s)'
    BY <2>2, <2>3 DEF OnItsWay, Queued
  <2> QED  BY <2>2, <2>4, <2>5
<1>5. ASSUME NEW p \in Path, Retry(p)
      PROVE  /\ RebuildTyped' /\ UNCHANGED <<disk, task>>
             /\ \A s \in Source : OnItsWay(s) => OnItsWay(s)'
  <2>1. Rearm(p) /\ UNCHANGED <<disk, ident, events, queue, task>>
    BY <1>5 DEF Retry
  <2> DEFINE ps == IF known[p] # ident[p] THEN {p} ELSE {}
  <2>2. /\ Learn({p}) /\ ps \in SUBSET Path /\ pending' = pending \cup ps
        /\ window' = "open" \/ (ps = {} /\ window' = window)
        /\ \A s \in {p} : known[s] # ident[s] => s \in ps
    BY <2>1 DEF Rearm, Note
  <2> HIDE DEF ps
  <2>3. RebuildTyped' /\ \A s \in Source : OnItsWay(s) => OnItsWay(s)'
    BY <2>1, <2>2, NoteStep
  <2> QED  BY <2>1, <2>3
<1>6. CASE ProbeRemote
  <2>1. /\ queue' = Append(queue, {Remote}) /\ Learn({Remote})
        /\ UNCHANGED <<disk, ident, events, pending, window, task>>
    BY <1>6 DEF ProbeRemote
  <2>2. queue \in Seq(SUBSET Source) /\ {Remote} \in SUBSET Source
    BY DEF RebuildTyped, Source
  <2>3. queue' \in Seq(SUBSET Source) /\ \A s : Queued(s) \/ s \in {Remote} => Queued(s)'
    BY <2>1, <2>2, QueuedAppend, Zenon
  <2>4. /\ known' \in [Source -> Nat] /\ \A s \in Source : known'[s] <= disk[s]
        /\ \A s \in Source : known'[s] = known[s] \/ (s \in {Remote} /\ known'[s] = ident[s])
    BY <2>1, LearnTyped
  <2>5. RebuildTyped'
    BY <2>1, <2>3, <2>4 DEF RebuildTyped
  <2>6. \A s \in Source : OnItsWay(s) => OnItsWay(s)'
    BY <2>1, <2>3, <2>4 DEF OnItsWay
  <2> QED  BY <2>1, <2>5, <2>6
<1> QED  BY <1>1, <1>2, <1>3, <1>4, <1>5, <1>6 DEF Watch

(* What the task does with a trigger.                                      *)
LEMMA TaskStep ==
  ASSUME RebuildTyped, NoChangeLost, NoBinaryLost, Task \/ BackoffPasses
  PROVE  RebuildTyped' /\ NoChangeLost' /\ NoBinaryLost'
<1>1. UNCHANGED <<disk, ident, watcher>>
  BY DEF Task, Skip, Take, PipelineFails, PipelineSucceeds, Restart, BackoffPasses
<1>2. Bin \in Source \ Dir
  BY RebuildAssumption DEF Source
<1>3. ASSUME queue' = queue
      PROVE  RebuildTyped' /\ \A s : OnItsWay(s) => OnItsWay(s)'
  BY <1>1, <1>3 DEF watcher, RebuildTyped, OnItsWay, Queued
<1>4. ASSUME queue # <<>>, queue' = Tail(queue)
      PROVE  RebuildTyped' /\ \A s : OnItsWay(s) => OnItsWay(s)' \/ s \in Head(queue)
  <2>1. queue \in Seq(SUBSET Source)
    BY DEF RebuildTyped
  <2>2. /\ queue' \in Seq(SUBSET Source)
        /\ \A s : Queued(s) => Queued(s)' \/ s \in Head(queue)
    BY <1>4, <2>1, QueuedTail
  <2>3. RebuildTyped'
    BY <1>1, <2>2 DEF watcher, RebuildTyped
  <2>4. \A s : OnItsWay(s) => OnItsWay(s)' \/ s \in Head(queue)
    BY <1>1, <2>2 DEF watcher, OnItsWay
  <2> QED  BY <2>3, <2>4
<1>5. CASE Skip
  <2>1. queue # <<>> /\ queue' = Tail(queue) /\ skipped' = TRUE
    BY <1>5 DEF Skip
  <2> QED  BY <1>4, <2>1 DEF NoChangeLost, NoBinaryLost, RebuildTyped
<1>6. CASE Take
  <2>1. /\ queue # <<>> /\ queue' = Tail(queue) /\ job.at = "idle"
        /\ built' = disk /\ UNCHANGED <<restarted, skipped>>
        /\ job'.at = "run" /\ job'.paths = Head(queue)
    BY <1>6 DEF Take
  <2>2. RebuildTyped'
    BY <1>4, <2>1
  <2>3. NoChangeLost'
    BY <1>1, <2>1, <2>2 DEF NoChangeLost, RebuildTyped
  <2>4. NoBinaryLost'
    <3>1. SUFFICES ASSUME restarted' # disk'[Bin] PROVE (skipped \/ OnItsWay(Bin) \/ BinaryInHand)'
      BY DEF NoBinaryLost
    <3>2. skipped \/ OnItsWay(Bin)
      BY <1>1, <2>1, <3>1 DEF NoBinaryLost, BinaryInHand
    <3>3. OnItsWay(Bin)' \/ Bin \in Head(queue) \/ skipped'
      BY <1>4, <2>1, <3>2
    <3> QED  BY <2>1, <3>3 DEF BinaryInHand
  <2> QED  BY <2>2, <2>3, <2>4
<1>7. CASE PipelineFails \/ PipelineSucceeds \/ BackoffPasses
  <2>1. UNCHANGED <<queue, built, restarted, skipped>>
    BY <1>7 DEF PipelineFails, PipelineSucceeds, BackoffPasses
  <2>2. RebuildTyped' /\ \A s : OnItsWay(s) => OnItsWay(s)'
    BY <1>3, <2>1
  <2>3. NoChangeLost'
    BY <1>1, <2>1, <2>2 DEF NoChangeLost, RebuildTyped
  <2>4. BinaryInHand => BinaryInHand'
    <3>1. CASE PipelineFails
      BY <3>1 DEF PipelineFails, AfterFailure, BinaryInHand
    <3>2. CASE PipelineSucceeds
      BY <3>2 DEF PipelineSucceeds, BinaryInHand
    <3>3. CASE BackoffPasses
      BY <3>3 DEF BackoffPasses, BinaryInHand
    <3> QED  BY <1>7, <3>1, <3>2, <3>3
  <2>5. NoBinaryLost'
    BY <1>1, <2>1, <2>2, <2>4 DEF NoBinaryLost
  <2> QED  BY <2>2, <2>3, <2>5
<1>8. CASE Restart
  <2>1. UNCHANGED <<queue, built, skipped>> /\ restarted' = disk[Bin]
    BY <1>8 DEF Restart
  <2>2. RebuildTyped' /\ \A s : OnItsWay(s) => OnItsWay(s)'
    BY <1>3, <2>1
  <2>3. NoChangeLost'
    BY <1>1, <2>1, <2>2 DEF NoChangeLost, RebuildTyped
  <2>4. NoBinaryLost'
    BY <1>1, <2>1 DEF NoBinaryLost
  <2> QED  BY <2>2, <2>3, <2>4
<1> QED  BY <1>5, <1>6, <1>7, <1>8 DEF Task

(* Any step keeps all three.                                               *)
LEMMA RebuildStep ==
  ASSUME RebuildTyped, NoChangeLost, NoBinaryLost, [Next]_vars
  PROVE  RebuildTyped' /\ NoChangeLost' /\ NoBinaryLost'
<1>1. Bin \in Source \ Dir /\ Remote \in Source
  BY RebuildAssumption DEF Source
<1>2. ASSUME NEW p \in Source,
             \/ p \in Path /\ (Write(p) \/ Replace(p))
             \/ p = Remote /\ MoveRef
      PROVE  RebuildTyped' /\ NoChangeLost' /\ NoBinaryLost'
  <2>1. /\ RebuildTyped' /\ UNCHANGED task
        /\ \A s \in Source \ Dir : s = p => OnItsWay(s)'
        /\ \A s \in Source \ {p} : disk'[s] = disk[s] /\ (OnItsWay(s) => OnItsWay(s)')
    BY <1>2, WorldStep
  <2>2. NoChangeLost'
    <3>1. ASSUME NEW s \in Source \ Dir, built'[s] # disk'[s] PROVE skipped' \/ OnItsWay(s)'
      <4>1. CASE s = p
        BY <2>1, <4>1
      <4>2. CASE s # p
        BY <2>1, <3>1, <4>2 DEF NoChangeLost, task
      <4> QED  BY <4>1, <4>2
    <3> QED  BY <2>1, <3>1 DEF NoChangeLost, RebuildTyped
  <2>3. NoBinaryLost'
    <3>1. CASE Bin = p
      BY <1>1, <2>1, <3>1 DEF NoBinaryLost
    <3>2. CASE Bin # p
      BY <1>1, <2>1, <3>2 DEF NoBinaryLost, BinaryInHand, task
    <3> QED  BY <3>1, <3>2
  <2> QED  BY <2>1, <2>2, <2>3
<1>3. CASE \E p \in Path : Write(p) \/ Replace(p)
  BY <1>2, <1>3 DEF Source
<1>4. CASE MoveRef
  BY <1>1, <1>2, <1>4
<1>5. CASE Watch \/ ProbeRemote
  <2>1. /\ RebuildTyped' /\ UNCHANGED <<disk, task>>
        /\ \A s \in Source : OnItsWay(s) => OnItsWay(s)'
    BY <1>5, WatchStep
  <2>2. NoChangeLost'
    BY <2>1 DEF NoChangeLost, RebuildTyped, task
  <2>3. NoBinaryLost'
    BY <1>1, <2>1 DEF NoBinaryLost, BinaryInHand, task
  <2> QED  BY <2>1, <2>2, <2>3
<1>6. CASE Task \/ BackoffPasses
  BY <1>6, TaskStep
<1>7. CASE UNCHANGED vars
  BY <1>7 DEF vars, watcher, task, RebuildTyped, NoChangeLost, NoBinaryLost, BinaryInHand,
              OnItsWay, Queued
<1> QED  BY <1>3, <1>4, <1>5, <1>6, <1>7 DEF Next

(* All three hold at the start.                                            *)
LEMMA RebuildStart == Init => RebuildTyped /\ NoChangeLost /\ NoBinaryLost
<1> SUFFICES ASSUME Init PROVE RebuildTyped /\ NoChangeLost /\ NoBinaryLost
  OBVIOUS
<1>1. /\ disk = [s \in Source |-> 0] /\ ident = disk /\ known = disk /\ built = disk
      /\ restarted = 0 /\ pending = {} /\ queue = <<>> /\ events = {}
  BY DEF Init
<1>2. Bin \in Source
  BY RebuildAssumption DEF Source
<1>3. <<>> \in Seq(SUBSET Source)
  BY EmptySeq
<1>4. RebuildTyped
  BY <1>1, <1>3 DEF RebuildTyped
<1> QED  BY <1>1, <1>2, <1>4 DEF NoChangeLost, NoBinaryLost

(* However the writes, the watcher's passes, the windows and the pipelines *)
(* interleave, and whether inotify reports a write or not, no change of a  *)
(* file or of the ref is forgotten while no trigger is skipped.            *)
THEOREM ChangesAreNotLost == Spec => []NoChangeLost
BY RebuildStart, RebuildStep, PTL DEF Spec

(* Nor is a new binary, until a restart is asked for.                      *)
THEOREM BinariesAreNotLost == Spec => []NoBinaryLost
BY RebuildStart, RebuildStep, PTL DEF Spec

-------------------------------------------------------------------------------
(***************************************************************************)
(* The front door, for any number of builds and outages.                   *)
(***************************************************************************)
States == {"up", "notready", "down"}
DoorTypeOK ==
  /\ backend \in [state : States, build : Nat] /\ epoch \in Nat
  /\ checker \in [at : {"idle", "token", "store"}, state : States, token : Int]
  /\ page \in [at : Landing \cup {"none", "app", "loading"}, token : Nat]
  /\ nonce \in Int /\ doc \in Nat \cup {None} /\ xhr \in Nat \cup {None}
  /\ entered \subseteq Nat /\ late \in BOOLEAN

(* Tokens only grow, and nothing in flight is ahead of the door's.         *)
TokensOrdered ==
  /\ epoch <= backend.build
  /\ checker.at = "store" /\ checker.token # NoToken =>
       epoch <= checker.token /\ checker.token <= backend.build

(* A landing page, and a document on its way, carry a token no older than  *)
(* any build the client has entered.                                       *)
ClientOrdered ==
  /\ nonce <= epoch /\ doc <= epoch /\ xhr <= epoch /\ page.token <= epoch
  /\ \A e \in entered : e <= epoch
  /\ doc # None <=> page.at = "loading"
  /\ page.at \in Landing => \A e \in entered : e <= page.token
  /\ doc # None => \A e \in entered : e <= doc

DoorInv == DoorTypeOK /\ TokensOrdered /\ ClientOrdered /\ StillRecognised

(* The landing page is rendered with the door's token.                     *)
LEMMA LoadInitIs ==
  ASSUME epoch \in Nat, NEW n
  PROVE  loadInit(n).token = epoch /\ loadInit(n).at \in {"poll", "countdown"}
         /\ loadInit(n) \in [at : Landing \cup {"none", "app", "loading"}, token : Nat]
BY DEF loadInit, build_spa_init, Landing

(* A document request with a token the door may hold against the client    *)
(* only when a late reply explains it.                                     *)
LEMMA LoadKeeps ==
  ASSUME DoorInv, NEW n \in Int, n <= epoch, page.at # "loading", Load(n),
         epoch \in entered => n = epoch \/ late
  PROVE  DoorInv'
<1>1. UNCHANGED <<backend, checker, epoch, xhr, late>> /\ nonce' = n
  BY DEF Load
<1>2. epoch \in Nat /\ page \in [at : Landing \cup {"none", "app", "loading"}, token : Nat]
      /\ entered \subseteq Nat
  BY DEF DoorInv, DoorTypeOK
<1>3. doc = None /\ \A e \in entered : e <= epoch
  BY DEF DoorInv, ClientOrdered
<1>4. TokensOrdered'
  BY <1>1 DEF DoorInv, TokensOrdered
<1>5. CASE n # epoch
  <2>1. page' = loadInit(n) /\ UNCHANGED <<doc, entered>>
    BY <1>5 DEF Load, Intercept, request_interceptable
  <2>2. /\ page'.token = epoch /\ page'.at \in {"poll", "countdown"}
        /\ page' \in [at : Landing \cup {"none", "app", "loading"}, token : Nat]
    BY <1>2, <2>1, LoadInitIs
  <2>3. page'.at # "loading"
    BY <2>2
  <2>4. DoorTypeOK'
    BY <1>1, <2>1, <2>2 DEF DoorInv, DoorTypeOK
  <2>5. ClientOrdered'
    BY <1>1, <1>2, <1>3, <2>1, <2>2, <2>3 DEF DoorInv, ClientOrdered
  <2>6. StillRecognised'
    BY <1>1, <2>1 DEF StillRecognised
  <2> QED  BY <1>4, <2>4, <2>5, <2>6 DEF DoorInv
<1>6. CASE n = epoch
  <2>1. /\ doc' = epoch /\ entered' = entered \cup {epoch}
        /\ page' = [page EXCEPT !.at = "loading"]
    BY <1>6 DEF Load, Intercept
  <2>2. /\ page'.token = page.token /\ page'.at = "loading"
        /\ page' \in [at : Landing \cup {"none", "app", "loading"}, token : Nat]
    BY <1>2, <2>1
  <2>3. page'.at \notin Landing /\ epoch # None
    BY <1>2, <2>2 DEF Landing, None
  <2>4. DoorTypeOK'
    BY <1>1, <1>2, <2>1, <2>2 DEF DoorInv, DoorTypeOK
  <2>5. \A e \in entered' : e <= epoch
    BY <1>2, <1>3, <2>1
  <2>6. page.token <= epoch /\ xhr <= epoch /\ epoch <= epoch
    BY <1>2 DEF DoorInv, ClientOrdered
  <2>7. ClientOrdered'
    BY <1>1, <1>6, <2>1, <2>2, <2>3, <2>5, <2>6 DEF ClientOrdered
  <2>8. StillRecognised'
    BY <1>1, <1>6 DEF StillRecognised
  <2> QED  BY <1>4, <2>4, <2>7, <2>8 DEF DoorInv
<1> QED  BY <1>5, <1>6

(* The steps of the backend.                                               *)
LEMMA BackendKeeps ==
  ASSUME DoorInv, BackendStep
  PROVE  DoorInv'
<1>1. UNCHANGED <<checker, epoch, client>>
  BY DEF BackendStep, Outage, Recover
<1>2. backend' \in [state : States, build : Nat] /\ backend'.build >= backend.build
  <2>0. backend \in [state : States, build : Nat]
    BY DEF DoorInv, DoorTypeOK
  <2>1. ASSUME NEW s \in {"notready", "down"}, Outage(s)
        PROVE  backend' \in [state : States, build : Nat] /\ backend'.build = backend.build
    BY <2>0, <2>1 DEF Outage, States
  <2>2. ASSUME NEW b \in 1 .. MaxBuild, b >= backend.build, Recover(b)
        PROVE  backend' = [state |-> "up", build |-> b] /\ b \in Nat
    BY <2>2 DEF Recover
  <2> QED  BY <2>0, <2>1, <2>2 DEF BackendStep, States
<1>3. DoorTypeOK'
  BY <1>1, <1>2 DEF DoorInv, DoorTypeOK, client
<1>4. TokensOrdered'
  <2>1. backend.build \in Nat /\ backend'.build \in Nat /\ epoch \in Nat /\ checker.token \in Int
    BY <1>2 DEF DoorInv, DoorTypeOK
  <2>2. epoch <= backend'.build
    BY <1>2, <2>1 DEF DoorInv, TokensOrdered
  <2>3. checker.token <= backend.build => checker.token <= backend'.build
    BY <1>2, <2>1
  <2> QED  BY <1>1, <2>2, <2>3 DEF DoorInv, TokensOrdered
<1>5. ClientOrdered' /\ StillRecognised'
  BY <1>1 DEF DoorInv, ClientOrdered, StillRecognised, client
<1> QED  BY <1>3, <1>4, <1>5 DEF DoorInv

(* The steps of the checker: a token it stores is no older than the last.  *)
LEMMA CheckerKeeps ==
  ASSUME DoorInv, CheckerStep
  PROVE  DoorInv'
<1>0. /\ backend \in [state : States, build : Nat] /\ epoch \in Nat
      /\ checker \in [at : {"idle", "token", "store"}, state : States, token : Int]
      /\ epoch <= backend.build
  BY DEF DoorInv, DoorTypeOK, TokensOrdered
<1>1. UNCHANGED <<backend, client>>
  BY DEF CheckerStep, probe_backend, probe_backend_epoch, StoreEpoch
<1>2. CASE probe_backend \/ probe_backend_epoch
  <2>1. epoch' = epoch
    BY <1>2 DEF probe_backend, probe_backend_epoch
  <2>2. /\ checker' \in [at : {"idle", "token", "store"}, state : States, token : Int]
        /\ checker'.at = "store" => checker'.token \in {NoToken, backend.build}
    <3>1. CASE probe_backend
      BY <1>0, <3>1 DEF probe_backend, NoToken
    <3>2. CASE probe_backend_epoch
      <4> DEFINE tok == IF backend.state = "up" THEN backend.build ELSE NoToken
      <4>1. checker' = [checker EXCEPT !.at = "store", !.token = tok]
        BY <3>2 DEF probe_backend_epoch
      <4>2. tok \in Int /\ tok \in {NoToken, backend.build}
        BY <1>0 DEF NoToken
      <4> HIDE DEF tok
      <4> QED  BY <1>0, <4>1, <4>2, Zenon
    <3> QED  BY <1>2, <3>1, <3>2
  <2>3. backend.build <= backend.build
    BY <1>0
  <2>4. TokensOrdered'
    BY <1>0, <1>1, <2>1, <2>2, <2>3 DEF TokensOrdered
  <2>5. DoorTypeOK' /\ ClientOrdered' /\ StillRecognised'
    BY <1>1, <2>1, <2>2 DEF DoorInv, DoorTypeOK, ClientOrdered, StillRecognised, client
  <2> QED  BY <2>4, <2>5 DEF DoorInv
<1>3. CASE StoreEpoch
  <2>1. checker.at = "store" /\ checker' = [checker EXCEPT !.at = "idle"] /\ epoch' = Learned(checker.token)
    BY <1>3 DEF StoreEpoch
  <2>2. /\ checker' \in [at : {"idle", "token", "store"}, state : States, token : Int]
        /\ checker'.at = "idle"
    BY <1>0, <2>1
  <2>3. checker.token # NoToken => epoch <= checker.token /\ checker.token <= backend.build
    BY <2>1 DEF DoorInv, TokensOrdered
  <2>4. checker.token \in Int /\ backend.build \in Nat
    BY <1>0
  <2>5. epoch' \in Nat /\ epoch <= epoch' /\ epoch' <= backend.build
    BY <1>0, <2>1, <2>3, <2>4 DEF Learned
  <2>6. TokensOrdered'
    BY <1>1, <2>2, <2>5 DEF TokensOrdered
  <2>7. DoorTypeOK'
    BY <1>1, <2>2, <2>5 DEF DoorInv, DoorTypeOK, client
  <2>8. /\ nonce \in Int /\ doc \in Int /\ xhr \in Int /\ page.token \in Nat /\ entered \subseteq Nat
    BY DEF DoorInv, DoorTypeOK, None
  <2>9. /\ nonce <= epoch' /\ doc <= epoch' /\ xhr <= epoch' /\ page.token <= epoch'
        /\ \A e \in entered : e <= epoch'
    BY <1>0, <2>5, <2>8 DEF DoorInv, ClientOrdered
  <2>10. ClientOrdered'
    BY <1>1, <2>9 DEF DoorInv, ClientOrdered, client
  <2>11. epoch' \in entered => epoch' = epoch
    BY <1>0, <2>5, <2>8 DEF DoorInv, ClientOrdered
  <2>12. StillRecognised'
    BY <1>1, <2>11 DEF DoorInv, StillRecognised, client
  <2> QED  BY <2>6, <2>7, <2>10, <2>12 DEF DoorInv
<1> QED  BY <1>2, <1>3 DEF CheckerStep

(* A document arrives under the token it was forwarded with.               *)
LEMMA DocKeeps ==
  ASSUME DoorInv, DocAnswer
  PROVE  DoorInv'
<1>0. /\ epoch \in Nat /\ doc \in Int /\ doc # None /\ entered \subseteq Nat
      /\ doc <= epoch /\ \A e \in entered : e <= doc /\ e <= epoch
  BY DEF DoorInv, DoorTypeOK, ClientOrdered, DocAnswer, None
<1>1. UNCHANGED <<backend, checker, epoch, xhr, entered, late>> /\ doc' = None
  BY DEF DocAnswer
<1>2. TokensOrdered'
  BY <1>1 DEF DoorInv, TokensOrdered
<1>3. xhr <= epoch /\ nonce <= epoch /\ None \in Int /\ None <= epoch
  BY <1>0 DEF DoorInv, ClientOrdered, None
<1>4. CASE backend.state = "up"
  <2>1. page' = [at |-> "app", token |-> doc] /\ nonce' = doc
    BY <1>4 DEF DocAnswer
  <2>2. page'.at = "app" /\ page'.token = doc /\ page'.at \notin Landing
    BY <2>1 DEF Landing
  <2>3. doc \in Nat
    BY <1>0 DEF DoorInv, DoorTypeOK, None
  <2>4. page' \in [at : Landing \cup {"none", "app", "loading"}, token : Nat]
    BY <2>1, <2>3
  <2>5. DoorTypeOK'
    BY <1>0, <1>1, <1>3, <2>1, <2>4 DEF DoorInv, DoorTypeOK
  <2>6. ClientOrdered'
    BY <1>0, <1>1, <1>3, <2>1, <2>2 DEF ClientOrdered
  <2>7. StillRecognised'
    BY <1>0, <1>1, <2>1 DEF StillRecognised
  <2> QED  BY <1>2, <2>5, <2>6, <2>7 DEF DoorInv
<1>5. CASE backend.state # "up"
  <2>1. page' = loadInit(nonce) /\ nonce' = nonce
    BY <1>5 DEF DocAnswer
  <2>2. /\ page'.token = epoch /\ page'.at \in {"poll", "countdown"}
        /\ page' \in [at : Landing \cup {"none", "app", "loading"}, token : Nat]
    BY <1>0, <2>1, LoadInitIs
  <2>3. page'.at # "loading" /\ epoch <= epoch
    BY <1>0, <2>2
  <2>4. DoorTypeOK'
    BY <1>1, <1>3, <2>1, <2>2 DEF DoorInv, DoorTypeOK
  <2>5. ClientOrdered'
    BY <1>0, <1>1, <1>3, <2>1, <2>2, <2>3 DEF ClientOrdered
  <2>6. StillRecognised'
    BY <1>1, <2>1 DEF DoorInv, StillRecognised
  <2> QED  BY <1>2, <2>4, <2>5, <2>6 DEF DoorInv
<1> QED  BY <1>4, <1>5

(* The other steps of the client.                                          *)
LEMMA ClientKeeps ==
  ASSUME DoorInv, XhrSend \/ XhrAnswer \/ Cancel
  PROVE  DoorInv'
<1>0. /\ epoch \in Nat /\ xhr \in Nat \cup {None} /\ nonce \in Int
      /\ page \in [at : Landing \cup {"none", "app", "loading"}, token : Nat]
      /\ xhr <= epoch /\ nonce <= epoch
  BY DEF DoorInv, DoorTypeOK, ClientOrdered
<1>1. UNCHANGED <<backend, checker, epoch, entered, doc>>
  BY DEF XhrSend, XhrAnswer, Cancel
<1>2. TokensOrdered'
  BY <1>1 DEF DoorInv, TokensOrdered
<1>3. CASE XhrSend
  <2>1. xhr' = epoch /\ UNCHANGED <<nonce, page, late>> /\ epoch <= epoch
    BY <1>0, <1>3 DEF XhrSend
  <2> QED
    BY <1>0, <1>1, <1>2, <2>1 DEF DoorInv, DoorTypeOK, ClientOrdered, StillRecognised
<1>4. CASE XhrAnswer
  <2>1. /\ xhr # None /\ xhr' = None /\ UNCHANGED page /\ None <= epoch
        /\ \/ nonce' = xhr /\ late' = (late \/ nonce > xhr)
           \/ UNCHANGED <<nonce, late>>
    BY <1>0, <1>4 DEF XhrAnswer, None
  <2>2. xhr \in Nat
    BY <1>0, <2>1
  <2>3. nonce' \in Int /\ nonce' <= epoch
    BY <1>0, <2>1, <2>2
  <2>4. late' \in BOOLEAN /\ (late => late')
    <3>1. late \in BOOLEAN
      BY DEF DoorInv, DoorTypeOK
    <3>2. CASE UNCHANGED late
      BY <3>1, <3>2
    <3>3. CASE late' = (late \/ nonce > xhr)
      <4>1. (late \/ nonce > xhr) \in BOOLEAN
        OBVIOUS
      <4>2. late => (late \/ nonce > xhr) = TRUE
        OBVIOUS
      <4> QED  BY <3>3, <4>1, <4>2, Zenon
    <3> QED  BY <2>1, <3>2, <3>3
  <2>5. DoorTypeOK'
    BY <1>1, <2>1, <2>3, <2>4 DEF DoorInv, DoorTypeOK
  <2>6. ClientOrdered'
    BY <1>1, <2>1, <2>3 DEF DoorInv, ClientOrdered
  <2>7. nonce = epoch => nonce' = epoch \/ late'
    <3>1. CASE nonce' = xhr /\ nonce = epoch /\ xhr # epoch
      <4>1. nonce > xhr
        BY <1>0, <2>2, <3>1
      <4> QED  BY <2>1, <4>1, Zenon
    <3> QED  BY <2>1, <3>1
  <2>8. StillRecognised'
    BY <1>1, <2>4, <2>7 DEF DoorInv, StillRecognised
  <2> QED  BY <1>2, <2>5, <2>6, <2>8 DEF DoorInv
<1>5. CASE Cancel
  <2>1. /\ page.at \in {"countdown", "poll"} /\ page' = [page EXCEPT !.at = "cancelled"]
        /\ UNCHANGED <<nonce, xhr, late>>
    BY <1>5 DEF Cancel
  <2>2. /\ page'.token = page.token /\ page'.at = "cancelled"
        /\ page' \in [at : Landing \cup {"none", "app", "loading"}, token : Nat]
    BY <1>0, <2>1 DEF Landing
  <2>3. page.at \in Landing /\ page.at # "loading" /\ page'.at # "loading"
    BY <2>1, <2>2 DEF Landing
  <2>4. DoorTypeOK'
    BY <1>1, <2>1, <2>2 DEF DoorInv, DoorTypeOK
  <2>5. ClientOrdered'
    BY <1>1, <2>1, <2>2, <2>3 DEF DoorInv, ClientOrdered
  <2>6. StillRecognised'
    BY <1>1, <2>1 DEF DoorInv, StillRecognised
  <2> QED  BY <1>2, <2>4, <2>5, <2>6 DEF DoorInv
<1> QED  BY <1>3, <1>4, <1>5

(* The steps that request a document.                                      *)
LEMMA RequestKeeps ==
  ASSUME DoorInv, Navigate \/ CountdownEnds \/ PollReload \/ Refresh
  PROVE  DoorInv'
<1>0. /\ epoch \in Nat /\ epoch <= epoch /\ nonce \in Int /\ nonce <= epoch
      /\ page.token \in Int /\ page.token <= epoch /\ entered \subseteq Nat
  BY DEF DoorInv, DoorTypeOK, ClientOrdered
<1>1. page.at # "loading"
  BY DEF Navigate, CountdownEnds, PollReload, Refresh, Landing
<1>2. CASE Navigate
  BY <1>0, <1>1, <1>2, LoadKeeps DEF Navigate, DoorInv, StillRecognised
<1>3. CASE CountdownEnds
  <2>1. page.at \in Landing /\ Load(page.token)
    BY <1>3 DEF CountdownEnds, Landing
  <2>2. epoch \in entered => page.token = epoch
    BY <1>0, <2>1 DEF DoorInv, ClientOrdered
  <2> QED  BY <1>0, <1>1, <2>1, <2>2, LoadKeeps
<1>4. CASE PollReload \/ Refresh
  <2>1. Load(epoch)
    BY <1>4 DEF PollReload, Refresh, serve_probe
  <2> QED  BY <1>0, <1>1, <2>1, LoadKeeps
<1> QED  BY <1>2, <1>3, <1>4

(* A client that has entered the current build is not shown its landing    *)
(* page again, unless a late reply of its own put an older token back.     *)
THEOREM EnteredStaysRecognised == DoorSpec => []StillRecognised
<1>1. DoorInit => DoorInv
  <2> SUFFICES ASSUME DoorInit PROVE DoorInv
    OBVIOUS
  <2>1. /\ backend \in [state : States, build : {1}] /\ epoch \in {0, 1}
        /\ checker = [at |-> "idle", state |-> "down", token |-> NoToken]
        /\ nonce = -1 /\ page = [at |-> "none", token |-> 0] /\ doc = None /\ xhr = None
        /\ entered = {} /\ late = FALSE
    BY DEF DoorInit, States
  <2>2. DoorTypeOK
    <3>1. backend \in [state : States, build : Nat] /\ epoch \in Nat
      BY <2>1
    <3>2. -1 \in Int /\ NoToken \in Int
      BY DEF NoToken
    <3>3. checker \in [at : {"idle", "token", "store"}, state : States, token : Int]
      BY <2>1, <3>2 DEF States
    <3>4. page \in [at : Landing \cup {"none", "app", "loading"}, token : Nat]
      BY <2>1
    <3> QED  BY <2>1, <3>1, <3>2, <3>3, <3>4, Zenon DEF DoorTypeOK
  <2>3. backend.build = 1 /\ checker.at = "idle" /\ page.at = "none" /\ page.token = 0
    BY <2>1
  <2>4. TokensOrdered
    BY <2>1, <2>3 DEF TokensOrdered
  <2>5. ClientOrdered
    BY <2>1, <2>3 DEF ClientOrdered, None
  <2>6. StillRecognised
    BY <2>1 DEF StillRecognised
  <2> QED  BY <2>2, <2>4, <2>5, <2>6 DEF DoorInv
<1>2. DoorInv /\ [DoorNext]_doorvars => DoorInv'
  <2> SUFFICES ASSUME DoorInv, [DoorNext]_doorvars PROVE DoorInv'
    OBVIOUS
  <2>1. CASE UNCHANGED doorvars
    BY <2>1 DEF doorvars, DoorInv, DoorTypeOK, TokensOrdered, ClientOrdered, StillRecognised
  <2> QED
    BY <2>1, BackendKeeps, CheckerKeeps, DocKeeps, ClientKeeps, RequestKeeps
    DEF DoorNext, UserStep, PageStep
<1>3. DoorInv => StillRecognised
  BY DEF DoorInv
<1> QED  BY <1>1, <1>2, <1>3, PTL DEF DoorSpec

-------------------------------------------------------------------------------
(***************************************************************************)
(* The relay of an upgrade, for every answer and every way its bytes are   *)
(* cut into reads.                                                         *)
(***************************************************************************)
(* What has been read, b, and what has not, s, are together the start of   *)
(* the symbols e that the relay has still to see, and all of them unless   *)
(* the backend hung up early.                                              *)
AheadOf(b, s, c, e) ==
  /\ Len(b) + Len(s) <= Len(e)
  /\ \A i \in 1 .. Len(b) : b[i] = e[i]
  /\ \A i \in 1 .. Len(s) : s[i] = e[Len(b) + i]
  /\ c <=> Len(b) + Len(s) < Len(e)

(* A read moves symbols and loses none.                                    *)
LEMMA ReadMoves ==
  ASSUME NEW b \in Seq(Int), NEW s \in Seq(Int), NEW c, NEW e \in Seq(Int),
         AheadOf(b, s, c, e), NEW n \in 1 .. Len(s)
  PROVE  /\ b \o SubSeq(s, 1, n) \in Seq(Int) /\ SubSeq(s, n + 1, Len(s)) \in Seq(Int)
         /\ b # <<>> => b \o SubSeq(s, 1, n) # <<>>
         /\ AheadOf(b \o SubSeq(s, 1, n), SubSeq(s, n + 1, Len(s)), c, e)
<1> DEFINE r == SubSeq(s, 1, n)
           t == SubSeq(s, n + 1, Len(s))
           d == b \o r
<1>0. Len(s) \in Nat /\ Len(b) \in Nat /\ n \in Nat /\ n <= Len(s) /\ Len(e) \in Nat
  BY LenProperties
<1>1. r \in Seq(Int) /\ Len(r) = n /\ \A i \in 1 .. n : r[i] = s[i]
  BY <1>0
<1>2. t \in Seq(Int) /\ Len(t) = Len(s) - n /\ \A i \in 1 .. (Len(s) - n) : t[i] = s[n + i]
  BY <1>0
<1> HIDE DEF r, t
<1>3. /\ d \in Seq(Int) /\ Len(d) = Len(b) + Len(r)
      /\ \A i \in 1 .. (Len(b) + Len(r)) : d[i] = IF i <= Len(b) THEN b[i] ELSE r[i - Len(b)]
  BY <1>1, ConcatProperties, Zenon
<1> HIDE DEF d
<1>4. Len(d) = Len(b) + n
  BY <1>1, <1>3
<1>5. ASSUME NEW i \in 1 .. Len(d) PROVE d[i] = e[i]
  <2>1. i \in Nat /\ i >= 1 /\ i <= Len(b) + n
    BY <1>0, <1>4
  <2>2. CASE i <= Len(b)
    <3>1. i \in 1 .. Len(b) /\ i \in 1 .. (Len(b) + Len(r))
      BY <1>0, <1>1, <2>1, <2>2
    <3>2. d[i] = b[i]
      BY <1>3, <2>2, <3>1
    <3> QED  BY <3>1, <3>2 DEF AheadOf
  <2>3. CASE ~(i <= Len(b))
    <3>1. i - Len(b) \in 1 .. n /\ i - Len(b) \in 1 .. Len(s) /\ Len(b) + (i - Len(b)) = i
      BY <1>0, <2>1, <2>3
    <3>2. d[i] = s[i - Len(b)]
      BY <1>1, <1>3, <1>4, <2>3, <3>1, Zenon
    <3> QED  BY <3>1, <3>2 DEF AheadOf
  <2> QED  BY <2>2, <2>3
<1>6. ASSUME NEW i \in 1 .. Len(t) PROVE t[i] = e[Len(d) + i]
  <2>0. Len(t) = Len(s) - n
    BY <1>2, Zenon
  <2>1. n + i \in 1 .. Len(s) /\ Len(b) + (n + i) = Len(d) + i
    BY <1>0, <1>4, <2>0
  <2> QED  BY <1>2, <2>1, Zenon DEF AheadOf
<1>7. Len(d) + Len(t) = Len(b) + Len(s)
  BY <1>0, <1>2, <1>4
<1>8. AheadOf(d, t, c, e)
  BY <1>5, <1>6, <1>7 DEF AheadOf
<1>9. d # <<>>
  BY <1>0, <1>3, <1>4
<1> QED  BY <1>2, <1>3, <1>8, <1>9, Zenon DEF r, t, d

(* Positions past the first a of f, m of them.                             *)
LEMMA Within ==
  ASSUME NEW a \in Nat, NEW m \in Nat, NEW f \in Nat, a + m <= f, NEW i \in 1 .. m
  PROVE  a + i \in 1 .. f
OBVIOUS

(* The symbols e begin with k others and go on with f.                     *)
GoesOn(k, e, f) == Len(e) = k + Len(f) /\ \A i \in 1 .. Len(f) : e[k + i] = f[i]

(* Taking k symbols off the front leaves the start of what follows them.   *)
LEMMA TakeFront ==
  ASSUME NEW b \in Seq(Int), NEW s \in Seq(Int), NEW c, NEW e \in Seq(Int), NEW f \in Seq(Int),
         AheadOf(b, s, c, e), NEW k \in 0 .. Len(b), GoesOn(k, e, f)
  PROVE  /\ SubSeq(b, k + 1, Len(b)) \in Seq(Int)
         /\ Len(SubSeq(b, k + 1, Len(b))) = Len(b) - k
         /\ AheadOf(SubSeq(b, k + 1, Len(b)), s, c, f)
<1> DEFINE t == SubSeq(b, k + 1, Len(b))
<1> USE DEF GoesOn
<1>0. Len(s) \in Nat /\ Len(b) \in Nat /\ k \in Nat /\ k <= Len(b) /\ Len(e) \in Nat /\ Len(f) \in Nat
  BY LenProperties
<1>1. t \in Seq(Int) /\ Len(t) = Len(b) - k /\ \A i \in 1 .. (Len(b) - k) : t[i] = b[k + i]
  BY <1>0
<1> HIDE DEF t
<1>2. Len(b) + Len(s) <= Len(e) /\ (c <=> Len(b) + Len(s) < Len(e))
  BY DEF AheadOf
<1>3. Len(t) + Len(s) <= Len(f) /\ (c <=> Len(t) + Len(s) < Len(f))
  BY <1>0, <1>1, <1>2
<1>4. ASSUME NEW i \in 1 .. Len(t) PROVE t[i] = f[i]
  <2>0. Len(t) = Len(b) - k /\ Len(t) + Len(s) <= Len(f)
    BY <1>1, <1>3
  <2>1. k + i \in 1 .. Len(b) /\ i \in 1 .. (Len(b) - k) /\ i \in 1 .. Len(f)
    BY <1>0, <2>0
  <2> QED  BY <1>1, <2>1, Zenon DEF AheadOf
<1>5. ASSUME NEW i \in 1 .. Len(s) PROVE s[i] = f[Len(t) + i]
  <2>0. Len(t) = Len(b) - k /\ Len(t) + Len(s) <= Len(f)
    BY <1>1, <1>3
  <2>1. Len(b) + i = k + (Len(t) + i) /\ Len(t) + i \in 1 .. Len(f)
    <3>1. i \in Nat /\ Len(t) \in Nat
      BY <1>0, <1>1, LenProperties
    <3>2. Len(t) + i \in 1 .. Len(f)
      BY <1>0, <2>0, <3>1, Within, Zenon
    <3> QED  BY <1>0, <2>0, <3>1, <3>2
  <2>2. s[i] = e[Len(b) + i]
    BY DEF AheadOf
  <2> QED  BY <2>1, <2>2, Zenon
<1> QED  BY <1>1, <1>3, <1>4, <1>5, Zenon DEF AheadOf, t

(* A run of body bytes.                                                    *)
LEMMA BytesAre ==
  ASSUME NEW a \in Nat \ {0}, NEW b \in Nat, a <= b + 1
  PROVE  /\ Bytes(a, b) \in Seq(Int) /\ Len(Bytes(a, b)) = b - a + 1
         /\ \A i \in 1 .. (b - a + 1) : Bytes(a, b)[i] = a + i - 1
<1> DEFINE n == b - a + 1
<1>1. n \in Nat
  OBVIOUS
<1>2. Bytes(a, b) = [i \in 1 .. n |-> a + i - 1]
  BY DEF Bytes
<1> HIDE DEF n
<1>3. \A i \in 1 .. n : a + i - 1 \in Int
  BY <1>1
<1>4. [i \in 1 .. n |-> a + i - 1] \in Seq(Int) /\ Len([i \in 1 .. n |-> a + i - 1]) = n
  BY <1>1, <1>3
<1> QED  BY <1>2, <1>4 DEF n

(* The order in which sequences of symbols are put together is immaterial. *)
LEMMA SymbolsConcat ==
  ASSUME NEW s \in Seq(Int), NEW t \in Seq(Int), NEW u \in Seq(Int)
  PROVE  (s \o t) \o u = s \o (t \o u)
BY ConcatAssociative, SMTT(20)

(* A chunk: its size line, its bytes and the line end.                     *)
LEMMA ChunkIs ==
  ASSUME NEW a \in Nat \ {0}, NEW b \in Nat, a <= b
  PROVE  /\ Chunk(a, b) \in Seq(Int) /\ Len(Chunk(a, b)) = (b - a + 1) + 2
         /\ Chunk(a, b)[1] = Size(b - a + 1)
         /\ \A i \in 1 .. (b - a + 1) : Chunk(a, b)[i + 1] = a + i - 1
         /\ Chunk(a, b)[(b - a + 1) + 2] = Crlf
<1> DEFINE n == b - a + 1
           h == <<Size(n)>>
           y == Bytes(a, b)
           z == <<Crlf>>
           hy == h \o y
           c == hy \o z
<1>1. n \in Nat /\ n >= 1
  OBVIOUS
<1>2. Chunk(a, b) = c
  BY DEF Chunk
<1>3. y \in Seq(Int) /\ Len(y) = n /\ \A i \in 1 .. n : y[i] = a + i - 1
  BY BytesAre
<1>4. Size(n) \in Int /\ Crlf \in Int
  BY <1>1 DEF Size, Crlf
<1>5. h \in Seq(Int) /\ Len(h) = 1 /\ h[1] = Size(n) /\ z \in Seq(Int) /\ Len(z) = 1 /\ z[1] = Crlf
  <2> HIDE DEF n
  <2> QED  BY <1>4
<1> HIDE DEF n, h, y, z
<1>6. /\ hy \in Seq(Int) /\ Len(hy) = Len(h) + Len(y)
      /\ \A i \in 1 .. (Len(h) + Len(y)) : hy[i] = IF i <= Len(h) THEN h[i] ELSE y[i - Len(h)]
  BY <1>3, <1>5, ConcatProperties, Zenon
<1> HIDE DEF hy
<1>7. /\ c \in Seq(Int) /\ Len(c) = Len(hy) + Len(z)
      /\ \A i \in 1 .. (Len(hy) + Len(z)) : c[i] = IF i <= Len(hy) THEN hy[i] ELSE z[i - Len(hy)]
  <2>1. hy \in Seq(Int) /\ z \in Seq(Int)
    BY <1>5, <1>6
  <2> QED  BY <2>1, ConcatProperties, Zenon
<1> HIDE DEF c
<1>8. Len(hy) = n + 1 /\ Len(c) = n + 2
  BY <1>1, <1>3, <1>5, <1>6, <1>7
<1>9. /\ \A i \in 1 .. (n + 1) : c[i] = hy[i]
      /\ c[n + 2] = Crlf
  <2>1. \A i \in 1 .. (n + 1) : i \in 1 .. (Len(hy) + Len(z)) /\ i <= Len(hy)
    BY <1>1, <1>5, <1>8
  <2>2. n + 2 \in 1 .. (Len(hy) + Len(z)) /\ ~(n + 2 <= Len(hy)) /\ (n + 2) - Len(hy) = 1
    BY <1>1, <1>5, <1>8
  <2> QED  BY <1>5, <1>7, <2>1, <2>2
<1>10. c[1] = Size(n)
  <2>1. 1 \in 1 .. (n + 1) /\ 1 \in 1 .. (Len(h) + Len(y)) /\ 1 <= Len(h)
    BY <1>1, <1>3, <1>5
  <2> QED  BY <1>5, <1>6, <1>9, <2>1
<1>11. ASSUME NEW i \in 1 .. n PROVE c[i + 1] = a + i - 1
  <2>1. /\ i + 1 \in 1 .. (n + 1) /\ i + 1 \in 1 .. (Len(h) + Len(y)) /\ ~(i + 1 <= Len(h))
        /\ (i + 1) - Len(h) = i
    BY <1>1, <1>3, <1>5
  <2>2. c[i + 1] = y[i]
    BY <1>6, <1>9, <2>1
  <2> QED  BY <1>3, <2>2
<1> QED  BY <1>2, <1>7, <1>8, <1>9, <1>10, <1>11 DEF n

(* What a chunked answer still has after g bytes of its body.              *)
Ending == <<Size(0), Trailer, Blank>>
Later(g, first) == IF g < first THEN first ELSE g
ChunksFrom(g, first, size) ==
  Chunk(g + 1, first) \o (Chunk(Later(g, first) + 1, size) \o Ending)

(* The end of a chunked answer.                                            *)
LEMMA EndingIs ==
  /\ Ending \in Seq(Int) /\ Len(Ending) = 3 /\ Ending[1] = -10
  /\ Ending[2] = Trailer /\ Ending[3] = Blank
BY DEF Ending, Size, Trailer, Blank

(* A chunk, empty or not, is a sequence of symbols.                        *)
LEMMA AnyChunk ==
  ASSUME NEW a \in Nat \ {0}, NEW b \in Nat
  PROVE  Chunk(a, b) \in Seq(Int)
<1>1. CASE a <= b  BY <1>1, ChunkIs
<1>2. CASE a > b  BY <1>2, EmptySeq DEF Chunk
<1> QED  BY <1>1, <1>2

(* It is an int sequence, and it is the next chunk followed by the rest.   *)
LEMMA NextChunk ==
  ASSUME NEW first \in Nat, NEW size \in Nat, first <= size, NEW g \in {0, first, size}
  PROVE  /\ ChunksFrom(size, first, size) = Ending
         /\ g < size => LET b == IF g < first THEN first ELSE size IN
              ChunksFrom(g, first, size) = Chunk(g + 1, b) \o ChunksFrom(b, first, size)
         /\ ChunksFrom(g, first, size) \in Seq(Int)
<1>0. g \in Nat /\ g <= size
  OBVIOUS
<1>1. \A a, b \in Nat : a > b => Chunk(a, b) = <<>>
  BY DEF Chunk
<1>2. \A a, b \in Nat : a # 0 => Chunk(a, b) \in Seq(Int)
  BY AnyChunk
<1>3. \A s \in Seq(Int) : <<>> \o s = s
  BY ConcatEmptySeq
<1>4. ChunksFrom(size, first, size) = Ending
  <2>1. Later(size, first) = size
    BY DEF Later
  <2>2. Chunk(size + 1, first) = <<>> /\ Chunk(size + 1, size) = <<>>
    BY <1>1
  <2> QED  BY <1>3, <2>1, <2>2, EndingIs, Zenon DEF ChunksFrom
<1> DEFINE tail == Chunk(first + 1, size) \o Ending
<1>5. tail \in Seq(Int)
  BY <1>2, EndingIs, ConcatProperties
<1>6. ChunksFrom(first, first, size) = tail
  <2>1. Later(first, first) = first /\ Chunk(first + 1, first) = <<>>
    BY <1>1 DEF Later
  <2> HIDE DEF tail
  <2> QED  BY <1>3, <1>5, <2>1, Zenon DEF ChunksFrom, tail
<1>7. CASE g < first
  <2>1. ChunksFrom(g, first, size) = Chunk(g + 1, first) \o tail
    BY <1>7 DEF ChunksFrom, Later
  <2>2. Chunk(g + 1, first) \in Seq(Int)
    BY <1>0, <1>2
  <2> HIDE DEF tail
  <2>3. ChunksFrom(g, first, size) \in Seq(Int)
    BY <1>5, <2>1, <2>2, ConcatProperties
  <2> QED  BY <1>4, <1>6, <1>7, <2>1, <2>3
<1>8. CASE ~(g < first) /\ g < size
  <2>1. g = first
    BY <1>0, <1>8
  <2>2. ChunksFrom(g, first, size) = Chunk(g + 1, size) \o ChunksFrom(size, first, size)
    BY <1>4, <1>6, <2>1
  <2> QED  BY <1>4, <1>5, <1>6, <1>8, <2>1, <2>2, Zenon
<1>9. CASE g = size
  BY <1>0, <1>4, <1>9, EndingIs
<1> QED  BY <1>0, <1>7, <1>8, <1>9

ChunkEnd(g, first, size) == IF g < first THEN first ELSE size

NextIs(g, first, size) ==
  LET b == ChunkEnd(g, first, size)
      k == b - g
      e == ChunksFrom(g, first, size)
      f == ChunksFrom(b, first, size)
  IN  /\ b \in {first, size} /\ k \in Nat \ {0} /\ g + k <= size
      /\ e \in Seq(Int) /\ f \in Seq(Int) /\ Len(e) = (k + 2) + Len(f)
      /\ e[1] = -10 - k /\ \A i \in 1 .. k : e[i + 1] = g + i
      /\ \A i \in 1 .. Len(f) : e[(k + 2) + i] = f[i]

(* The next chunk, position by position.                                   *)
LEMMA ChunkAhead ==
  ASSUME NEW first \in Nat, NEW size \in Nat, first <= size, NEW g \in {0, first, size}, g < size
  PROVE  NextIs(g, first, size)
<1> DEFINE b == ChunkEnd(g, first, size)
           k == b - g
           e == ChunksFrom(g, first, size)
           f == ChunksFrom(b, first, size)
           c == Chunk(g + 1, b)
<1>1. b \in {first, size} /\ b \in Nat /\ g \in Nat /\ g < b /\ b <= size
  BY DEF ChunkEnd
<1>2. e = c \o f
  BY NextChunk, Zenon DEF ChunkEnd
<1>3. e \in Seq(Int) /\ f \in Seq(Int)
  BY <1>1, NextChunk, Zenon
<1> HIDE DEF b, e, f
<1>4. k \in Nat \ {0} /\ b - (g + 1) + 1 = k /\ g + k <= size /\ g + 1 \in Nat \ {0} /\ g + 1 <= b
  BY <1>1
<1>5. /\ c \in Seq(Int) /\ Len(c) = k + 2 /\ c[1] = Size(k)
      /\ \A i \in 1 .. k : c[i + 1] = (g + 1) + i - 1
  <2>1. /\ c \in Seq(Int) /\ Len(c) = (b - (g + 1) + 1) + 2 /\ c[1] = Size(b - (g + 1) + 1)
        /\ \A i \in 1 .. (b - (g + 1) + 1) : c[i + 1] = (g + 1) + i - 1
    BY <1>1, <1>4, ChunkIs, Zenon
  <2> HIDE DEF c, k
  <2> QED  BY <1>4, <2>1, Zenon
<1>6. /\ Len(c \o f) = Len(c) + Len(f)
      /\ \A i \in 1 .. (Len(c) + Len(f)) : (c \o f)[i] = IF i <= Len(c) THEN c[i] ELSE f[i - Len(c)]
  <2>1. c \in Seq(Int) /\ f \in Seq(Int)
    BY <1>3, <1>5
  <2> HIDE DEF c
  <2> QED  BY <2>1, ConcatProperties, Zenon
<1> HIDE DEF c, k
<1>7. /\ Len(e) = (k + 2) + Len(f) /\ Len(f) \in Nat
      /\ \A i \in 1 .. ((k + 2) + Len(f)) : e[i] = IF i <= k + 2 THEN c[i] ELSE f[i - (k + 2)]
  BY <1>2, <1>3, <1>5, <1>6, LenProperties
<1>8. e[1] = -10 - k
  <2>1. 1 \in 1 .. ((k + 2) + Len(f)) /\ 1 <= k + 2
    BY <1>4, <1>7
  <2> QED  BY <1>5, <1>7, <2>1 DEF Size
<1>9. ASSUME NEW i \in 1 .. k PROVE e[i + 1] = g + i
  <2>1. i + 1 \in 1 .. ((k + 2) + Len(f)) /\ i + 1 <= k + 2 /\ (g + 1) + i - 1 = g + i
    BY <1>1, <1>4, <1>7
  <2> QED  BY <1>5, <1>7, <2>1
<1>10. ASSUME NEW i \in 1 .. Len(f) PROVE e[(k + 2) + i] = f[i]
  <2>1. k + 2 \in Nat /\ (k + 2) + Len(f) <= (k + 2) + Len(f) /\ (k + 2) + Len(f) \in Nat
    BY <1>4, <1>7
  <2>2. (k + 2) + i \in 1 .. ((k + 2) + Len(f))
    BY <1>7, <2>1, Within
  <2>3. ~((k + 2) + i <= k + 2) /\ ((k + 2) + i) - (k + 2) = i
    BY <1>4, <1>7
  <2> QED  BY <1>7, <2>2, <2>3
<1> QED  BY <1>1, <1>3, <1>4, <1>7, <1>8, <1>9, <1>10, Zenon DEF NextIs, k, e, f, b

(* No symbol of a body is the end of a head.                               *)
NoHead(s) == \A i \in 1 .. Len(s) : s[i] # EndOfHead

(* Two sequences without it make one without it.                           *)
LEMMA NoHeadConcat ==
  ASSUME NEW s \in Seq(Int), NEW t \in Seq(Int), NoHead(s), NoHead(t)
  PROVE  NoHead(s \o t)
<1> DEFINE u == s \o t
<1>1. /\ Len(u) = Len(s) + Len(t)
      /\ \A i \in 1 .. (Len(s) + Len(t)) : u[i] = IF i <= Len(s) THEN s[i] ELSE t[i - Len(s)]
  BY ConcatProperties, Zenon
<1> HIDE DEF u
<1>2. Len(s) \in Nat /\ Len(t) \in Nat
  BY LenProperties
<1>3. ASSUME NEW i \in 1 .. Len(u) PROVE u[i] # EndOfHead
  <2>1. i \in 1 .. Len(s) \/ i - Len(s) \in 1 .. Len(t)
    BY <1>1, <1>2
  <2>2. CASE i <= Len(s)
    <3>1. i \in 1 .. Len(s) /\ i \in 1 .. (Len(s) + Len(t))
      BY <1>1, <1>2, <2>2
    <3> QED  BY <1>1, <2>2, <3>1 DEF NoHead
  <2>3. CASE ~(i <= Len(s))
    <3>1. i - Len(s) \in 1 .. Len(t) /\ i \in 1 .. (Len(s) + Len(t))
      BY <1>1, <1>2, <2>3
    <3> QED  BY <1>1, <2>3, <3>1, Zenon DEF NoHead
  <2> QED  BY <2>2, <2>3
<1> QED  BY <1>3 DEF NoHead, u

(* The body an answer carries, and the answer as head and body.            *)
BodyOf(r) == IF r.kind = "chunked" THEN ChunksFrom(0, r.first, r.size) ELSE Bytes(1, r.size)
Answers == {r \in [kind : {"101", "length", "chunked", "eof", "gateway"}, size : Nat, first : Nat] :
              r.first <= r.size}

(* So a body has no end of a head in it.                                   *)
LEMMA BodyHasNoHead ==
  ASSUME NEW r \in Answers
  PROVE  BodyOf(r) \in Seq(Int) /\ NoHead(BodyOf(r))
<1>0. r.first \in Nat /\ r.size \in Nat /\ r.first <= r.size
  BY DEF Answers
<1>1. ASSUME NEW a \in Nat \ {0}, NEW b \in Nat PROVE Chunk(a, b) \in Seq(Int) /\ NoHead(Chunk(a, b))
  <2>1. CASE a > b
    BY <2>1, EmptySeq DEF Chunk, NoHead
  <2>2. CASE a <= b
    <3> DEFINE c == Chunk(a, b)
               n == b - a + 1
    <3>1. /\ c \in Seq(Int) /\ Len(c) = n + 2 /\ c[1] = Size(n)
          /\ \A i \in 1 .. n : c[i + 1] = a + i - 1
          /\ c[n + 2] = Crlf
      BY <2>2, ChunkIs
    <3>2. n \in Nat /\ n >= 1
      BY <2>2
    <3> HIDE DEF c, n
    <3>3. ASSUME NEW i \in 1 .. Len(c) PROVE c[i] # EndOfHead
      <4>1. i \in 1 .. (n + 2)
        BY <3>1
      <4>2. CASE i = 1  BY <3>1, <3>2, <4>2 DEF Size, EndOfHead
      <4>3. CASE i = n + 2  BY <3>1, <4>3 DEF Crlf, EndOfHead
      <4>4. CASE i # 1 /\ i # n + 2
        <5>1. i - 1 \in 1 .. n /\ (i - 1) + 1 = i /\ a + (i - 1) - 1 >= 1
          BY <3>2, <4>1, <4>4
        <5>2. c[i] = a + (i - 1) - 1
          BY <3>1, <5>1
        <5> QED  BY <5>1, <5>2 DEF EndOfHead
      <4> QED  BY <4>2, <4>3, <4>4
    <3> QED  BY <3>1, <3>3 DEF NoHead, c
  <2> QED  BY <2>1, <2>2
<1>2. NoHead(Ending)
  <2>1. \A i \in 1 .. 3 : Ending[i] \in {-10, Trailer, Blank}
    BY EndingIs
  <2> QED  BY <2>1, EndingIs DEF NoHead, Trailer, Blank, EndOfHead
<1>3. CASE r.kind = "chunked"
  <2> DEFINE x == Chunk(1, r.first)
             y == Chunk(Later(0, r.first) + 1, r.size)
  <2>1. x \in Seq(Int) /\ NoHead(x) /\ y \in Seq(Int) /\ NoHead(y)
    <3>1. 1 \in Nat \ {0} /\ Later(0, r.first) + 1 \in Nat \ {0}
      BY <1>0 DEF Later
    <3> QED  BY <1>0, <1>1, <3>1, Zenon
  <2>2. BodyOf(r) = x \o (y \o Ending)
    BY <1>3 DEF BodyOf, ChunksFrom
  <2> HIDE DEF x, y
  <2>3. y \o Ending \in Seq(Int) /\ NoHead(y \o Ending)
    <3>1. Ending \in Seq(Int)
      BY EndingIs
    <3> QED  BY <1>2, <2>1, <3>1, NoHeadConcat, ConcatProperties
  <2> QED  BY <2>1, <2>2, <2>3, NoHeadConcat, ConcatProperties, Zenon
<1>4. CASE r.kind # "chunked"
  <2>1. BodyOf(r) = Bytes(1, r.size)
    BY <1>4 DEF BodyOf
  <2>2. /\ Bytes(1, r.size) \in Seq(Int) /\ Len(Bytes(1, r.size)) = r.size - 1 + 1
        /\ \A i \in 1 .. (r.size - 1 + 1) : Bytes(1, r.size)[i] = 1 + i - 1
    <3>1. 1 \in Nat \ {0} /\ r.size \in Nat /\ 1 <= r.size + 1
      BY <1>0
    <3> QED  BY <3>1, BytesAre, Zenon
  <2> QED  BY <1>0, <2>1, <2>2 DEF NoHead, EndOfHead
<1> QED  BY <1>3, <1>4

(* An answer is its head and its body.                                     *)
LEMMA SentIs ==
  ASSUME NEW r \in Answers
  PROVE  /\ Sent(r) \in Seq(Int) /\ Len(Sent(r)) = 2 + Len(BodyOf(r))
         /\ Sent(r)[1] = HeadLine /\ Sent(r)[2] = EndOfHead
         /\ \A i \in 1 .. Len(BodyOf(r)) : Sent(r)[2 + i] = BodyOf(r)[i]
<1> DEFINE h == <<HeadLine, EndOfHead>>
           y == BodyOf(r)
           e == h \o y
<1>0. r.first \in Nat /\ r.size \in Nat /\ r.first <= r.size
  BY DEF Answers
<1>1. Sent(r) = e
  <2>1. CASE r.kind = "chunked"
    <3>1. Chunk(1, r.first) \in Seq(Int) /\ Chunk(r.first + 1, r.size) \in Seq(Int) /\ Ending \in Seq(Int)
      <4>1. 1 \in Nat \ {0} /\ r.first + 1 \in Nat \ {0}
        BY <1>0
      <4>2. Ending \in Seq(Int)
        BY EndingIs
      <4> QED  BY <1>0, <4>1, <4>2, AnyChunk, Zenon
    <3>2. (Chunk(1, r.first) \o Chunk(r.first + 1, r.size)) \o Ending
            = Chunk(1, r.first) \o (Chunk(r.first + 1, r.size) \o Ending)
      <4> DEFINE t == Chunk(1, r.first)
                 u == Chunk(r.first + 1, r.size)
                 v == Ending
      <4>1. t \in Seq(Int) /\ u \in Seq(Int) /\ v \in Seq(Int)
        BY <3>1
      <4> HIDE DEF t, u, v
      <4>2. (t \o u) \o v = t \o (u \o v)
        BY <4>1, SymbolsConcat, Zenon
      <4> QED  BY <4>2 DEF t, u, v
    <3>3. 0 + 1 = 1 /\ Later(0, r.first) = r.first
      BY <1>0 DEF Later
    <3>4. y = Chunk(1, r.first) \o (Chunk(r.first + 1, r.size) \o Ending)
      BY <2>1, <3>3, Zenon DEF BodyOf, ChunksFrom
    <3> QED  BY <2>1, <3>2, <3>4, Zenon DEF Sent, Ending
  <2>2. CASE r.kind # "chunked"
    BY <2>2 DEF Sent, BodyOf
  <2> QED  BY <2>1, <2>2
<1>2. y \in Seq(Int)
  BY BodyHasNoHead
<1>3. h \in Seq(Int) /\ Len(h) = 2 /\ h[1] = HeadLine /\ h[2] = EndOfHead
  BY DEF HeadLine, EndOfHead
<1> HIDE DEF h, y
<1>4. /\ e \in Seq(Int) /\ Len(e) = Len(h) + Len(y)
      /\ \A i \in 1 .. (Len(h) + Len(y)) : e[i] = IF i <= Len(h) THEN h[i] ELSE y[i - Len(h)]
  <2>1. h \in Seq(Int)
    BY <1>3
  <2> QED  BY <1>2, <2>1, ConcatProperties, Zenon
<1>5. Len(y) \in Nat
  BY <1>2, LenProperties
<1> HIDE DEF e
<1>6. e[1] = HeadLine /\ e[2] = EndOfHead
  BY <1>3, <1>4, <1>5
<1>7. ASSUME NEW i \in 1 .. Len(y) PROVE e[2 + i] = y[i]
  <2>1. 2 + i \in 1 .. (Len(h) + Len(y)) /\ ~(2 + i <= Len(h)) /\ (2 + i) - Len(h) = i
    BY <1>3, <1>5
  <2> QED  BY <1>4, <2>1
<1> QED  BY <1>1, <1>3, <1>4, <1>6, <1>7 DEF y

(* The head ends where it was sent, and what follows it is the body.       *)
LEMMA HeadEnds ==
  ASSUME NEW r \in Answers, NEW b \in Seq(Int), NEW s \in Seq(Int), NEW c,
         AheadOf(b, s, c, Sent(r)), NEW j \in DOMAIN b, b[j] = EndOfHead
  PROVE  /\ Leftover(b) \in Seq(Int)
         /\ AheadOf(Leftover(b), s, c, BodyOf(r))
<1> DEFINE e == Sent(r)
           y == BodyOf(r)
<1>1. /\ e \in Seq(Int) /\ Len(e) = 2 + Len(y) /\ e[1] = HeadLine
      /\ \A i \in 1 .. Len(y) : e[2 + i] = y[i]
  BY SentIs, Zenon
<1>2. y \in Seq(Int) /\ \A i \in 1 .. Len(y) : y[i] # EndOfHead
  BY BodyHasNoHead, Zenon DEF NoHead
<1> HIDE DEF e, y
<1>3. Len(b) \in Nat /\ DOMAIN b = 1 .. Len(b) /\ Len(s) \in Nat /\ Len(y) \in Nat
  BY <1>2, LenProperties, Zenon
<1>4. Len(b) + Len(s) <= Len(e) /\ \A i \in 1 .. Len(b) : b[i] = e[i]
  BY Zenon DEF AheadOf, e
<1>5. ASSUME NEW i \in DOMAIN b, b[i] = EndOfHead PROVE i = 2
  <2>1. i \in Nat /\ i >= 1 /\ i <= Len(b) /\ e[i] = EndOfHead
    BY <1>3, <1>4, <1>5
  <2>2. i # 1
    BY <1>1, <2>1 DEF HeadLine, EndOfHead
  <2>3. CASE i > 2
    <3>0. /\ Len(e) = 2 + Len(y) /\ Len(b) + Len(s) <= Len(e)
          /\ Len(b) \in Nat /\ Len(s) \in Nat /\ Len(y) \in Nat
      BY <1>1, <1>3, <1>4, Zenon
    <3>1. i - 2 \in 1 .. Len(y) /\ 2 + (i - 2) = i
      <4> DEFINE lb == Len(b)
                 ls == Len(s)
                 ly == Len(y)
      <4>1. /\ i \in Nat /\ i <= lb /\ i > 2 /\ lb + ls <= 2 + ly
            /\ lb \in Nat /\ ls \in Nat /\ ly \in Nat
        BY <2>1, <2>3, <3>0
      <4> HIDE DEF lb, ls, ly
      <4>2. i - 2 \in 1 .. ly /\ 2 + (i - 2) = i
        BY <4>1
      <4> QED  BY <4>2 DEF ly
    <3> QED  BY <1>1, <1>2, <2>1, <3>1, Zenon
  <2>4. i \in Nat /\ i >= 1
    BY <2>1, Zenon
  <2>5. i = 2 \/ i > 2
    BY <2>2, <2>4
  <2> QED  BY <2>3, <2>5, Zenon
<1>6. (CHOOSE i \in DOMAIN b : b[i] = EndOfHead) = 2 /\ j = 2
  BY <1>5
<1> DEFINE k == 2
<1>7. Leftover(b) = SubSeq(b, k + 1, Len(b))
  BY <1>6, Zenon DEF Leftover
<1>8. k \in 0 .. Len(b)
  BY <1>3, <1>6
<1>9. e \in Seq(Int) /\ y \in Seq(Int) /\ GoesOn(k, e, y) /\ AheadOf(b, s, c, e)
  BY <1>1, <1>2, Zenon DEF e, GoesOn
<1> HIDE DEF k
<1>10. SubSeq(b, k + 1, Len(b)) \in Seq(Int) /\ AheadOf(SubSeq(b, k + 1, Len(b)), s, c, y)
  BY <1>8, <1>9, TakeFront, Zenon
<1> QED  BY <1>7, <1>10 DEF y

(* What a chunked answer r still has after g bytes, and its next chunk.    *)
Rest(r, g) == ChunksFrom(g, r.first, r.size)
ChunkLen(r, g) == ChunkEnd(g, r.first, r.size) - g

(* It begins with the chunk and goes on with the rest.                     *)
LEMMA RestIs ==
  ASSUME NEW r \in Answers, NEW g \in {0, r.first, r.size}
  PROVE  /\ r.size \in Nat /\ r.first \in Nat /\ g \in Nat /\ g <= r.size
         /\ Rest(r, g) \in Seq(Int) /\ Len(Rest(r, g)) \in Nat
         /\ g < r.size =>
              LET k == ChunkLen(r, g) IN
                /\ k \in Nat \ {0} /\ g + k <= r.size /\ g + k \in {0, r.first, r.size}
                /\ Rest(r, g + k) \in Seq(Int) /\ Len(Rest(r, g + k)) \in Nat
                /\ GoesOn(k + 2, Rest(r, g), Rest(r, g + k))
                /\ Rest(r, g)[1] = -10 - k /\ \A i \in 1 .. k : Rest(r, g)[i + 1] = g + i
         /\ g = r.size => Rest(r, g) = Ending
<1> DEFINE first == r.first
           size == r.size
<1>1. first \in Nat /\ size \in Nat /\ first <= size
  BY DEF Answers
<1>2. g \in {0, first, size}
  OBVIOUS
<1> HIDE DEF first, size
<1>3. g \in Nat /\ g <= size
  BY <1>1, <1>2
<1>4. ChunksFrom(g, first, size) \in Seq(Int) /\ ChunksFrom(size, first, size) = Ending
  BY <1>1, <1>2, NextChunk, Zenon
<1>5. Len(ChunksFrom(g, first, size)) \in Nat
  BY <1>4, LenProperties
<1>6. ASSUME g < size
      PROVE  LET k == ChunkEnd(g, first, size) - g
                 e == ChunksFrom(g, first, size)
                 f == ChunksFrom(g + k, first, size)
             IN  /\ k \in Nat \ {0} /\ g + k <= size /\ g + k \in {0, first, size}
                 /\ f \in Seq(Int) /\ Len(f) \in Nat /\ GoesOn(k + 2, e, f)
                 /\ e[1] = -10 - k /\ \A i \in 1 .. k : e[i + 1] = g + i
  <2> DEFINE b == ChunkEnd(g, first, size)
             k == b - g
             e == ChunksFrom(g, first, size)
             f == ChunksFrom(b, first, size)
  <2>1. /\ b \in {first, size} /\ k \in Nat \ {0} /\ g + k <= size
        /\ e \in Seq(Int) /\ f \in Seq(Int) /\ Len(e) = (k + 2) + Len(f)
        /\ e[1] = -10 - k /\ \A i \in 1 .. k : e[i + 1] = g + i
        /\ \A i \in 1 .. Len(f) : e[(k + 2) + i] = f[i]
    <3>1. NextIs(g, first, size)
      BY <1>1, <1>2, <1>6, ChunkAhead, Zenon
    <3> QED  BY <3>1, Zenon DEF NextIs
  <2>2. g + k = b
    <3>1. b \in Nat
      BY <1>1, <2>1, Zenon
    <3> HIDE DEF b
    <3> QED  BY <1>3, <3>1
  <2>3. Len(f) \in Nat
    BY <2>1, LenProperties
  <2> HIDE DEF b, e, f
  <2>4. GoesOn(k + 2, e, f)
    BY <2>1 DEF GoesOn
  <2>5. f = ChunksFrom(g + k, first, size) /\ g + k \in {0, first, size}
    BY <2>1, <2>2 DEF f
  <2> QED  BY <2>1, <2>3, <2>4, <2>5, Zenon DEF b, e
<1> QED  BY <1>1, <1>3, <1>4, <1>5, <1>6, Zenon DEF Rest, ChunkLen, first, size

(* Where the relay is in the answer.                                       *)
HeadStage ==
  at \in {"dial", "head"} => Len(got) = 0 /\ AheadOf(buf, stream, cut, Sent(answer))
TunnelStage ==
  at = "tunnel" =>
    Len(got) <= answer.size /\ AheadOf(buf, stream, cut, Bytes(Len(got) + 1, answer.size))
PlainStage ==
  at \in {"length", "eof"} =>
    answer.kind = at /\ Len(got) = 0 /\ AheadOf(buf, stream, cut, Bytes(1, answer.size))
ChunkStage ==
  at \in {"size", "chunk"} =>
    /\ answer.kind = "chunked" /\ Len(got) \in {0, answer.first, answer.size}
    /\ AheadOf(buf, stream, cut, Rest(answer, Len(got)))
    /\ at = "chunk" => Len(got) < answer.size /\ buf # <<>>
TrailerStage ==
  at = "trailer" =>
    /\ answer.kind = "chunked" /\ Len(got) = answer.size
    /\ AheadOf(buf, stream, cut, <<Trailer, Blank>>) \/ AheadOf(buf, stream, cut, <<Blank>>)
EndStage ==
  /\ at = "whole" => Len(got) = answer.size \/ (answer.kind = "eof" /\ cut)
  /\ at = "landing" => cut \/ answer.kind = "gateway" \/ answer.size > BodyCap
Stages == HeadStage /\ TunnelStage /\ PlainStage /\ ChunkStage /\ TrailerStage /\ EndStage

RelayTypeOK ==
  /\ buf \in Seq(Int) /\ stream \in Seq(Int) /\ got \in Seq(Int) /\ answer \in Answers
  /\ \A i \in 1 .. Len(got) : got[i] = i
RelayInv == RelayTypeOK /\ Stages

(* What is ahead is a sequence of symbols at every stage.                  *)
LEMMA AheadTyped ==
  ASSUME RelayTypeOK
  PROVE  /\ answer.size \in Nat /\ answer.first \in Nat /\ answer.first <= answer.size
         /\ Len(got) \in Nat /\ Len(buf) \in Nat /\ Len(stream) \in Nat
         /\ Sent(answer) \in Seq(Int)
         /\ \A g \in Nat : g <= answer.size =>
              /\ Bytes(g + 1, answer.size) \in Seq(Int) /\ Len(Bytes(g + 1, answer.size)) = answer.size - g
              /\ \A i \in 1 .. (answer.size - g) : Bytes(g + 1, answer.size)[i] = g + i
         /\ \A g \in {0, answer.first, answer.size} :
              Rest(answer, g) \in Seq(Int)
         /\ <<Trailer, Blank>> \in Seq(Int) /\ <<Blank>> \in Seq(Int)
<1>1. answer.size \in Nat /\ answer.first \in Nat /\ answer.first <= answer.size
  BY DEF RelayTypeOK, Answers
<1>2. Len(got) \in Nat /\ Len(buf) \in Nat /\ Len(stream) \in Nat
  BY LenProperties DEF RelayTypeOK
<1>3. Sent(answer) \in Seq(Int)
  BY SentIs, Zenon DEF RelayTypeOK
<1> DEFINE z == answer.size
<1>4. ASSUME NEW g \in Nat, g <= z
      PROVE  /\ Bytes(g + 1, z) \in Seq(Int) /\ Len(Bytes(g + 1, z)) = z - g
             /\ \A i \in 1 .. (z - g) : Bytes(g + 1, z)[i] = g + i
  <2> HIDE DEF z
  <2>1. g + 1 \in Nat \ {0} /\ z \in Nat /\ g + 1 <= z + 1
    BY <1>1, <1>4 DEF z
  <2>2. /\ Bytes(g + 1, z) \in Seq(Int) /\ Len(Bytes(g + 1, z)) = z - (g + 1) + 1
        /\ \A i \in 1 .. (z - (g + 1) + 1) : Bytes(g + 1, z)[i] = (g + 1) + i - 1
    BY <2>1, BytesAre, Zenon
  <2>3. z - (g + 1) + 1 = z - g
    BY <2>1
  <2>4. \A i \in 1 .. (z - g) : (g + 1) + i - 1 = g + i
    BY <2>1
  <2> QED  BY <2>2, <2>3, <2>4
<1>5. \A g \in {0, answer.first, answer.size} : Rest(answer, g) \in Seq(Int)
  BY RestIs DEF RelayTypeOK
<1>6. <<Trailer, Blank>> \in Seq(Int) /\ <<Blank>> \in Seq(Int)
  BY DEF Trailer, Blank
<1> QED  BY <1>1, <1>2, <1>3, <1>4, <1>5, <1>6

(* A size line is read as it was sent: the next chunk's, or the last, 0.   *)
LEMMA SizeRead ==
  ASSUME RelayTypeOK, Len(got) \in {0, answer.first, answer.size}, buf # <<>>,
         AheadOf(buf, stream, cut, Rest(answer, Len(got)))
  PROVE  chunk_size = IF Len(got) < answer.size THEN ChunkLen(answer, Len(got)) ELSE 0
<1> DEFINE e == Rest(answer, Len(got))
           k == ChunkLen(answer, Len(got))
<1>1. /\ answer.size \in Nat /\ Len(got) \in Nat /\ Len(got) <= answer.size
      /\ Len(got) < answer.size => k \in Nat /\ e[1] = -10 - k
      /\ Len(got) = answer.size => e = Ending
  BY RestIs, Zenon DEF RelayTypeOK
<1> HIDE DEF e, k
<1>2. Len(buf) \in Nat /\ Len(buf) >= 1 /\ Head(buf) = buf[1]
  BY EmptySeq, LenProperties DEF RelayTypeOK
<1>3. Head(buf) = e[1]
  BY <1>2 DEF AheadOf, e
<1>4. CASE Len(got) < answer.size
  BY <1>1, <1>3, <1>4 DEF chunk_size, k
<1>5. CASE ~(Len(got) < answer.size)
  <2>1. Len(got) = answer.size
    BY <1>1, <1>5
  <2>2. e[1] = -10
    BY <1>1, <2>1, EndingIs
  <2> QED  BY <1>3, <1>5, <2>2 DEF chunk_size
<1> QED  BY <1>4, <1>5

(* In a chunked body, too little in the buffer with nothing left to read   *)
(* means that the backend hung up.                                         *)
LEMMA ShortChunk ==
  ASSUME RelayTypeOK, at \in {"size", "chunk"}, Short, stream = <<>>, ChunkStage
  PROVE  cut
<1> DEFINE g == Len(got)
           e == Rest(answer, g)
           k == ChunkLen(answer, g)
<1>0. g \in {0, answer.first, answer.size} /\ AheadOf(buf, stream, cut, e)
  BY DEF ChunkStage
<1>1. /\ answer.size \in Nat /\ g \in Nat /\ g <= answer.size /\ Len(e) \in Nat
      /\ g < answer.size => k \in Nat \ {0} /\ GoesOn(k + 2, e, Rest(answer, g + k))
                             /\ Len(Rest(answer, g + k)) \in Nat
      /\ g = answer.size => e = Ending
  BY <1>0, RestIs, Zenon DEF RelayTypeOK
<1>2. Len(buf) \in Nat /\ Len(stream) = 0
  BY LenProperties DEF RelayTypeOK
<1>s. CASE at = "size"
  <2>1. Len(buf) = 0
    BY <1>s DEF Short
  <2> HIDE DEF e, k, g
  <2>2. CASE g < answer.size
    <3>1. Len(e) >= 1
      BY <1>1, <2>2 DEF GoesOn
    <3> QED  BY <1>0, <1>1, <1>2, <2>1, <3>1 DEF AheadOf
  <2>3. CASE g = answer.size
    <3>1. Len(e) = 3
      BY <1>1, <2>3, EndingIs
    <3> QED  BY <1>0, <1>2, <2>1, <3>1 DEF AheadOf
  <2> QED  BY <1>1, <2>2, <2>3
<1>c. CASE at = "chunk"
  <2>1. g < answer.size /\ buf # <<>> /\ Len(buf) - 1 < chunk_size + 1
    BY <1>c DEF ChunkStage, Short
  <2>2. chunk_size = k
    BY <1>0, <2>1, SizeRead
  <2> HIDE DEF e, k, g
  <2>3. Len(buf) < k + 2 /\ Len(e) >= k + 2 /\ k \in Nat
    BY <1>1, <1>2, <2>1, <2>2 DEF GoesOn
  <2> QED  BY <1>0, <1>1, <1>2, <2>3 DEF AheadOf
<1> QED  BY <1>s, <1>c

(* A read keeps the stage.                                                 *)
LEMMA ReadKeeps ==
  ASSUME RelayInv, NEW n \in 1 .. Len(stream), read_some(n)
  PROVE  RelayInv'
<1>1. /\ buf' = buf \o SubSeq(stream, 1, n) /\ stream' = SubSeq(stream, n + 1, Len(stream))
      /\ UNCHANGED <<answer, cut, at, got>> /\ RelayTypeOK
      /\ at \in {"head", "length", "size", "chunk", "trailer", "eof"}
  BY DEF read_some, RelayInv, Reading
<1>2. \A e \in Seq(Int) : AheadOf(buf, stream, cut, e) =>
        /\ buf' \in Seq(Int) /\ stream' \in Seq(Int) /\ (buf # <<>> => buf' # <<>>)
        /\ AheadOf(buf', stream', cut, e)
  BY <1>1, ReadMoves DEF RelayTypeOK
<1>3. HeadStage' /\ (at = "head" => buf' \in Seq(Int) /\ stream' \in Seq(Int))
  BY <1>1, <1>2, AheadTyped, Zenon DEF RelayInv, Stages, HeadStage
<1>4. TunnelStage' /\ EndStage'
  BY <1>1 DEF TunnelStage, EndStage
<1>5. PlainStage' /\ (at \in {"length", "eof"} => buf' \in Seq(Int) /\ stream' \in Seq(Int))
  <2>1. Bytes(0 + 1, answer.size) \in Seq(Int)
    BY <1>1, AheadTyped
  <2> QED  BY <1>1, <1>2, <2>1 DEF RelayInv, Stages, PlainStage
<1>6. ChunkStage' /\ (at \in {"size", "chunk"} => buf' \in Seq(Int) /\ stream' \in Seq(Int))
  BY <1>1, <1>2, AheadTyped, Zenon DEF RelayInv, Stages, ChunkStage
<1>7. TrailerStage' /\ (at = "trailer" => buf' \in Seq(Int) /\ stream' \in Seq(Int))
  BY <1>1, <1>2, AheadTyped, Zenon DEF RelayInv, Stages, TrailerStage
<1>8. RelayTypeOK'
  BY <1>1, <1>3, <1>5, <1>6, <1>7, Zenon DEF RelayTypeOK
<1> QED  BY <1>3, <1>4, <1>5, <1>6, <1>7, <1>8 DEF RelayInv, Stages

(* The stream ends or a deadline passes.                                   *)
LEMMA EofKeeps ==
  ASSUME RelayInv, Eof \/ Deadline
  PROVE  RelayInv'
<1>0. RelayTypeOK /\ UNCHANGED <<answer, stream, cut, buf>>
  BY DEF RelayInv, Eof, Deadline, Over
<1>1. CASE Deadline
  <2>1. at' = "late" /\ got' = got
    BY <1>1 DEF Deadline, Over
  <2> QED
    BY <1>0, <2>1, Zenon DEF RelayInv, RelayTypeOK, Stages, HeadStage, TunnelStage, PlainStage, ChunkStage,
                      TrailerStage, EndStage
<1>2. CASE Eof /\ at = "eof"
  <2>1. at' = "whole" /\ got' = buf /\ stream = <<>> /\ Len(stream) = 0
    BY <1>2 DEF Eof
  <2>2. answer.kind = "eof" /\ AheadOf(buf, stream, cut, Bytes(0 + 1, answer.size))
    BY <1>2 DEF RelayInv, Stages, PlainStage
  <2>3. /\ Len(Bytes(0 + 1, answer.size)) = answer.size /\ answer.size \in Nat /\ Len(buf) \in Nat
        /\ \A i \in 1 .. answer.size : Bytes(0 + 1, answer.size)[i] = i
    <3>1. /\ answer.size \in Nat /\ Len(buf) \in Nat /\ Len(Bytes(0 + 1, answer.size)) = answer.size - 0
          /\ \A i \in 1 .. (answer.size - 0) : Bytes(0 + 1, answer.size)[i] = 0 + i
      BY <1>0, AheadTyped
    <3>2. answer.size - 0 = answer.size /\ \A i \in 1 .. answer.size : 0 + i = i
      BY <3>1
    <3> QED  BY <3>1, <3>2
  <2>4. ~cut => Len(buf) = answer.size
    BY <2>1, <2>2, <2>3 DEF AheadOf
  <2>5. ASSUME NEW i \in 1 .. Len(buf) PROVE buf[i] = i
    BY <2>1, <2>2, <2>3 DEF AheadOf
  <2>6. RelayTypeOK'
    BY <1>0, <2>1, <2>5 DEF RelayTypeOK
  <2> QED
    BY <1>0, <2>1, <2>2, <2>4, <2>6, Zenon DEF RelayInv, Stages, HeadStage, TunnelStage, PlainStage, ChunkStage,
                                  TrailerStage, EndStage
<1>3. CASE Eof /\ at # "eof"
  <2>1. /\ at' = "landing" /\ got' = got /\ stream = <<>> /\ Len(stream) = 0 /\ Short
        /\ at \in {"head", "length", "size", "chunk", "trailer"}
    BY <1>3 DEF Eof, Over, Reading
  <2>2. cut
    <3>1. CASE at = "head"
      <4>1. AheadOf(buf, stream, cut, Sent(answer)) /\ \A i \in DOMAIN buf : buf[i] # EndOfHead
        BY <2>1, <3>1 DEF RelayInv, Stages, HeadStage, Short
      <4>2. Len(Sent(answer)) >= 2 /\ Sent(answer)[2] = EndOfHead
        <5>1. Len(BodyOf(answer)) \in Nat
          BY <1>0, BodyHasNoHead, LenProperties DEF RelayTypeOK
        <5> QED  BY <1>0, <5>1, SentIs DEF RelayTypeOK
      <4>3. DOMAIN buf = 1 .. Len(buf) /\ Len(buf) \in Nat /\ Len(Sent(answer)) \in Nat
        BY <1>0, AheadTyped, LenProperties DEF RelayTypeOK
      <4>4. Len(buf) < 2
        BY <4>1, <4>2, <4>3 DEF AheadOf
      <4> QED  BY <2>1, <4>1, <4>2, <4>3, <4>4 DEF AheadOf
    <3>2. CASE at = "length"
      <4>1. AheadOf(buf, stream, cut, Bytes(0 + 1, answer.size)) /\ Len(buf) < answer.size
        BY <2>1, <3>2 DEF RelayInv, Stages, PlainStage, Short
      <4>2. Len(Bytes(0 + 1, answer.size)) = answer.size /\ Len(buf) \in Nat /\ answer.size \in Nat
        BY <1>0, AheadTyped
      <4> QED  BY <2>1, <4>1, <4>2 DEF AheadOf
    <3>3. CASE at \in {"size", "chunk"}
      BY <1>0, <2>1, <3>3, ShortChunk DEF RelayInv, Stages
    <3>4. CASE at = "trailer"
      <4>1. buf = <<>> /\ Len(buf) = 0
        BY <2>1, <3>4 DEF Short
      <4>2. Len(<<Trailer, Blank>>) = 2 /\ Len(<<Blank>>) = 1
        OBVIOUS
      <4> QED  BY <2>1, <3>4, <4>1, <4>2 DEF RelayInv, Stages, TrailerStage, AheadOf
    <3> QED  BY <2>1, <3>1, <3>2, <3>3, <3>4
  <2> QED
    BY <1>0, <2>1, <2>2, Zenon DEF RelayInv, RelayTypeOK, Stages, HeadStage, TunnelStage, PlainStage, ChunkStage,
                            TrailerStage, EndStage
<1> QED  BY <1>1, <1>2, <1>3

(* Bytes passed on in order stay in order when the next ones follow.       *)
Ordered(s, g) == \A i \in 1 .. Len(s) : s[i] = g + i

(* The concatenation of two such runs is one.                              *)
LEMMA OrderedConcat ==
  ASSUME NEW s \in Seq(Int), NEW t \in Seq(Int), Ordered(s, 0), Ordered(t, Len(s))
  PROVE  s \o t \in Seq(Int) /\ Len(s \o t) = Len(s) + Len(t) /\ Ordered(s \o t, 0)
<1> DEFINE u == s \o t
<1>1. /\ u \in Seq(Int) /\ Len(u) = Len(s) + Len(t)
      /\ \A i \in 1 .. (Len(s) + Len(t)) : u[i] = IF i <= Len(s) THEN s[i] ELSE t[i - Len(s)]
  BY ConcatProperties, Zenon
<1> HIDE DEF u
<1>2. Len(s) \in Nat /\ Len(t) \in Nat
  BY LenProperties
<1>3. ASSUME NEW i \in 1 .. (Len(s) + Len(t)) PROVE u[i] = 0 + i
  <2>1. CASE i <= Len(s)
    <3>1. i \in 1 .. Len(s)
      BY <1>2, <2>1
    <3> QED  BY <1>1, <2>1, <3>1, Zenon DEF Ordered
  <2>2. CASE ~(i <= Len(s))
    <3>1. i - Len(s) \in 1 .. Len(t) /\ Len(s) + (i - Len(s)) = 0 + i
      BY <1>2, <2>2
    <3> QED  BY <1>1, <2>2, <3>1, Zenon DEF Ordered
  <2> QED  BY <2>1, <2>2
<1> QED  BY <1>1, <1>3 DEF Ordered, u

(* The bytes after the first g go on with those after the next m.          *)
LEMMA BytesGoOn ==
  ASSUME NEW g \in Nat, NEW m \in Nat, NEW z \in Nat, g + m <= z
  PROVE  /\ Bytes(g + 1, z) \in Seq(Int) /\ Bytes((g + m) + 1, z) \in Seq(Int)
         /\ Len(Bytes(g + 1, z)) = z - g
         /\ \A i \in 1 .. (z - g) : Bytes(g + 1, z)[i] = g + i
         /\ GoesOn(m, Bytes(g + 1, z), Bytes((g + m) + 1, z))
<1>1. ASSUME NEW h \in Nat, h <= z
      PROVE  /\ Bytes(h + 1, z) \in Seq(Int) /\ Len(Bytes(h + 1, z)) = z - h
             /\ \A i \in 1 .. (z - h) : Bytes(h + 1, z)[i] = h + i
  <2>1. h + 1 \in Nat \ {0} /\ h + 1 <= z + 1 /\ z - (h + 1) + 1 = z - h
    BY <1>1
  <2>2. /\ Bytes(h + 1, z) \in Seq(Int) /\ Len(Bytes(h + 1, z)) = z - (h + 1) + 1
        /\ \A i \in 1 .. (z - (h + 1) + 1) : Bytes(h + 1, z)[i] = (h + 1) + i - 1
    BY <2>1, BytesAre, Zenon
  <2>3. \A i \in 1 .. (z - h) : (h + 1) + i - 1 = h + i
    BY <1>1
  <2> QED  BY <2>1, <2>2, <2>3
<1> DEFINE e == Bytes(g + 1, z)
           f == Bytes((g + m) + 1, z)
<1>2. /\ e \in Seq(Int) /\ Len(e) = z - g /\ \A i \in 1 .. (z - g) : e[i] = g + i
      /\ f \in Seq(Int) /\ Len(f) = z - (g + m) /\ \A i \in 1 .. (z - (g + m)) : f[i] = (g + m) + i
  <2>1. g <= z /\ g + m \in Nat /\ g + m <= z
    OBVIOUS
  <2> QED  BY <1>1, <2>1, Zenon
<1> HIDE DEF e, f
<1>3. Len(e) = m + Len(f)
  BY <1>2
<1>4. ASSUME NEW i \in 1 .. (z - (g + m)) PROVE e[m + i] = f[i]
  <2>1. m + i \in 1 .. (z - g) /\ g + (m + i) = (g + m) + i
    OBVIOUS
  <2> QED  BY <1>2, <2>1
<1>5. GoesOn(m, e, f)
  BY <1>2, <1>3, <1>4 DEF GoesOn
<1> QED  BY <1>2, <1>5 DEF e, f

(* The tunnel passes the leftover on, then what the backend sends.         *)
LEMMA TunnelKeeps ==
  ASSUME RelayInv, Tunnel
  PROVE  RelayInv'
<1> DEFINE g == Len(got)
           z == answer.size
           e == Bytes(g + 1, z)
<1>0. at = "tunnel" /\ UNCHANGED <<answer, cut, at>> /\ RelayTypeOK /\ Ordered(got, 0)
  BY DEF RelayInv, RelayTypeOK, Tunnel, Ordered
<1>1. /\ g \in Nat /\ z \in Nat /\ Len(buf) \in Nat /\ Len(stream) \in Nat /\ g <= z
      /\ AheadOf(buf, stream, cut, e)
  <2>1. g \in Nat /\ z \in Nat /\ Len(buf) \in Nat /\ Len(stream) \in Nat
    BY <1>0, AheadTyped
  <2> QED  BY <1>0, <2>1 DEF RelayInv, Stages, TunnelStage
<1>2. /\ e \in Seq(Int) /\ Len(e) = z - g /\ \A i \in 1 .. (z - g) : e[i] = g + i
  <2> HIDE DEF g, z
  <2>1. g + 0 <= z
    BY <1>1
  <2> QED  BY <1>1, <2>1, BytesGoOn
<1>3. buf \in Seq(Int) /\ stream \in Seq(Int) /\ got \in Seq(Int)
  BY <1>0 DEF RelayTypeOK
<1> HIDE DEF e, z, g
<1>4. SUFFICES /\ buf' \in Seq(Int) /\ stream' \in Seq(Int) /\ got' \in Seq(Int) /\ Ordered(got', 0)
               /\ Len(got') <= z /\ AheadOf(buf', stream', cut, Bytes(Len(got') + 1, z))
  <2>1. \A i \in 1 .. Len(got') : 0 + i = i
    OBVIOUS
  <2> QED
    BY <1>0, <2>1, Zenon DEF RelayInv, RelayTypeOK, Ordered, Stages, HeadStage, TunnelStage, PlainStage, ChunkStage,
                TrailerStage, EndStage, z
<1>5. CASE buf # <<>>
  <2> DEFINE m == Len(buf)
             f == Bytes((g + m) + 1, z)
  <2>1. got' = got \o buf /\ buf' = <<>> /\ stream' = stream
    BY <1>5 DEF Tunnel
  <2>2. m + Len(stream) <= Len(e) /\ \A i \in 1 .. m : buf[i] = e[i]
    BY <1>1, Zenon DEF AheadOf
  <2>3. g + m <= z
    BY <1>1, <1>2, <2>2
  <2>4. Ordered(buf, g)
    <3>1. ASSUME NEW i \in 1 .. m PROVE buf[i] = g + i
      <4>1. i \in 1 .. (z - g)
        BY <1>1, <2>3
      <4> QED  BY <1>2, <2>2, <4>1
    <3> QED  BY <3>1 DEF Ordered
  <2>5. got' \in Seq(Int) /\ Len(got') = g + m /\ Ordered(got', 0)
    BY <1>0, <1>3, <2>1, <2>4, OrderedConcat DEF g
  <2>6. f \in Seq(Int) /\ GoesOn(m, e, f)
    BY <1>1, <2>3, BytesGoOn DEF e
  <2>7. m \in 0 .. Len(buf)
    BY <1>1
  <2> HIDE DEF f
  <2>8. /\ SubSeq(buf, m + 1, Len(buf)) \in Seq(Int) /\ Len(SubSeq(buf, m + 1, Len(buf))) = Len(buf) - m
        /\ AheadOf(SubSeq(buf, m + 1, Len(buf)), stream, cut, f)
    <3>1. e \in Seq(Int) /\ AheadOf(buf, stream, cut, e)
      BY <1>1, <1>2
    <3> HIDE DEF m
    <3> QED  BY <1>3, <2>6, <2>7, <3>1, TakeFront
  <2>9. SubSeq(buf, m + 1, Len(buf)) = <<>>
    BY <1>1, <2>8, EmptySeq
  <2> QED  BY <1>3, <2>1, <2>3, <2>5, <2>8, <2>9, Zenon DEF f
<1>6. CASE buf = <<>>
  <2> DEFINE f == Bytes((g + 1) + 1, z)
             t == Tail(stream)
  <2>1. got' = Append(got, Head(stream)) /\ stream' = t /\ buf' = <<>> /\ stream # <<>> /\ Len(buf) = 0
    BY <1>6, <1>3 DEF Tunnel
  <2>2. /\ Len(stream) >= 1 /\ Head(stream) = stream[1] /\ t \in Seq(Int) /\ Len(t) = Len(stream) - 1
        /\ \A i \in 1 .. (Len(stream) - 1) : t[i] = stream[i + 1]
    BY <1>1, <1>3, <2>1
  <2> HIDE DEF t
  <2>3. /\ Len(stream) <= Len(e) /\ (cut <=> Len(stream) < Len(e))
        /\ \A i \in 1 .. Len(stream) : stream[i] = e[i]
    BY <1>1, <2>1 DEF AheadOf
  <2>4. g + 1 <= z /\ 1 \in 1 .. (z - g) /\ 1 \in 1 .. Len(stream)
    BY <1>1, <1>2, <2>2, <2>3
  <2>5. Head(stream) = g + 1
    BY <1>2, <2>2, <2>3, <2>4
  <2>6. got' \in Seq(Int) /\ Len(got') = g + 1 /\ Ordered(got', 0)
    <3>1. got' \in Seq(Int) /\ Len(got') = g + 1 /\ \A i \in 1 .. (g + 1) : got'[i] = IF i <= g THEN got[i] ELSE g + 1
      BY <1>1, <1>3, <2>1, <2>5 DEF g
    <3>2. \A i \in 1 .. (g + 1) : got'[i] = 0 + i
      BY <1>0, <1>1, <3>1 DEF Ordered, g
    <3> QED  BY <3>1, <3>2 DEF Ordered
  <2>7. f \in Seq(Int) /\ GoesOn(1, e, f)
    BY <1>1, <2>4, BytesGoOn DEF e
  <2> HIDE DEF f
  <2>8. Len(f) \in Nat /\ Len(e) = 1 + Len(f)
    BY <2>7, LenProperties DEF GoesOn
  <2>9. Len(t) <= Len(f) /\ (cut <=> Len(t) < Len(f))
    BY <1>1, <2>2, <2>3, <2>8
  <2>10. ASSUME NEW i \in 1 .. Len(t) PROVE t[i] = f[0 + i]
    <3>0. Len(t) <= Len(f) /\ Len(t) = Len(stream) - 1
      BY <2>2, <2>9
    <3>1. /\ i + 1 \in 1 .. Len(stream) /\ i \in 1 .. (Len(stream) - 1) /\ i \in 1 .. Len(f) /\ i + 1 = 1 + i
          /\ 0 + i = i
      BY <1>1, <2>8, <3>0
    <3>2. e[1 + i] = f[i]
      BY <2>7, <3>1 DEF GoesOn
    <3> QED  BY <2>2, <2>3, <3>1, <3>2
  <2>11. AheadOf(<<>>, t, cut, f)
    <3>1. Len(<<>>) = 0 /\ 0 + Len(t) = Len(t)
      BY <1>1, <2>2
    <3> QED  BY <2>9, <2>10, <3>1 DEF AheadOf
  <2> QED  BY <2>1, <2>2, <2>4, <2>6, <2>11, EmptySeq DEF f
<1> QED  BY <1>5, <1>6

(* Dialling, and the head: what follows it is the body.                    *)
LEMMA HeadKeeps ==
  ASSUME RelayInv, proxy_upgrade \/ read_response_head
  PROVE  RelayInv'
<1>0. RelayTypeOK /\ UNCHANGED <<answer, stream, cut, got>> /\ at \in {"dial", "head"}
  BY DEF RelayInv, proxy_upgrade, read_response_head
<1>1. Len(got) = 0 /\ AheadOf(buf, stream, cut, Sent(answer))
  BY <1>0 DEF RelayInv, Stages, HeadStage
<1>2. CASE proxy_upgrade
  <2>1. at' \in {"head", "late"} /\ buf' = buf
    BY <1>2 DEF proxy_upgrade
  <2> QED
    BY <1>0, <1>1, <2>1, Zenon DEF RelayInv, RelayTypeOK, Stages, HeadStage, TunnelStage, PlainStage, ChunkStage,
                      TrailerStage, EndStage
<1>3. CASE read_response_head
  <2>1. at' = AfterHead /\ buf' = Leftover(buf)
    BY <1>3 DEF read_response_head
  <2>2. PICK j \in DOMAIN buf : buf[j] = EndOfHead
    BY <1>3 DEF read_response_head, Short
  <2>3. buf' \in Seq(Int) /\ AheadOf(buf', stream, cut, BodyOf(answer))
    BY <1>0, <1>1, <2>1, <2>2, HeadEnds DEF RelayTypeOK
  <2>4. RelayTypeOK'
    BY <1>0, <2>3 DEF RelayTypeOK
  <2>5. answer.kind \in {"101", "length", "chunked", "eof", "gateway"} /\ answer.size \in Nat
    BY <1>0 DEF RelayTypeOK, Answers
  <2>6. CASE answer.kind = "chunked"
    <3>1. at' = "size" /\ AheadOf(buf', stream, cut, Rest(answer, 0))
      BY <2>1, <2>3, <2>6 DEF AfterHead, BodyOf, Rest
    <3>2. AheadOf(buf', stream', cut', Rest(answer', Len(got')))
      BY <1>0, <1>1, <3>1
    <3>3. Len(got') \in {0, answer'.first, answer'.size} /\ answer'.kind = "chunked"
      BY <1>0, <1>1, <2>6
    <3> QED
      BY <2>4, <3>1, <3>2, <3>3, Zenon DEF RelayInv, Stages, HeadStage, TunnelStage, PlainStage, ChunkStage,
                              TrailerStage, EndStage
  <2>7. CASE answer.kind = "101"
    <3>1. at' = "tunnel" /\ AheadOf(buf', stream, cut, Bytes(1, answer.size))
      BY <2>1, <2>3, <2>7 DEF AfterHead, BodyOf
    <3>2. Len(got') + 1 = 1 /\ Len(got') <= answer'.size
      BY <1>0, <1>1, <2>5
    <3>3. AheadOf(buf', stream', cut', Bytes(Len(got') + 1, answer'.size))
      BY <1>0, <3>1, <3>2
    <3> QED
      BY <2>4, <3>1, <3>2, <3>3, Zenon DEF RelayInv, Stages, HeadStage, TunnelStage, PlainStage, ChunkStage,
                              TrailerStage, EndStage
  <2>8. CASE answer.kind = "gateway"
    <3>1. at' = "landing"
      BY <2>1, <2>8 DEF AfterHead
    <3> QED
      BY <1>0, <2>4, <2>8, <3>1, Zenon DEF RelayInv, Stages, HeadStage, TunnelStage, PlainStage, ChunkStage,
                              TrailerStage, EndStage
  <2>9. CASE answer.kind \in {"length", "eof"}
    <3>1. at' = answer.kind /\ AheadOf(buf', stream, cut, Bytes(1, answer.size))
      BY <2>1, <2>3, <2>9 DEF AfterHead, BodyOf
    <3> QED
      BY <1>0, <1>1, <2>4, <2>9, <3>1, Zenon DEF RelayInv, Stages, HeadStage, TunnelStage, PlainStage, ChunkStage,
                              TrailerStage, EndStage
  <2> QED  BY <2>5, <2>6, <2>7, <2>8, <2>9
<1> QED  BY <1>2, <1>3

(* A body with a Content-Length is taken whole.                            *)
LEMMA LengthKeeps ==
  ASSUME RelayInv, LengthRead
  PROVE  RelayInv'
<1> DEFINE z == answer.size
           e == Bytes(0 + 1, z)
<1>0. /\ RelayTypeOK /\ UNCHANGED <<answer, stream, cut, buf>> /\ at = "length" /\ at' = "whole"
      /\ got' = SubSeq(buf, 1, z) /\ ~(Len(buf) < z)
  BY DEF RelayInv, LengthRead, Short
<1>1. AheadOf(buf, stream, cut, e)
  BY <1>0 DEF RelayInv, Stages, PlainStage
<1>2. z \in Nat /\ Len(buf) \in Nat /\ Len(stream) \in Nat /\ buf \in Seq(Int)
  BY <1>0, AheadTyped DEF RelayTypeOK
<1>3. Len(e) = z /\ \A i \in 1 .. z : e[i] = i
  <2> HIDE DEF z
  <2>1. Len(e) = z - 0 /\ \A i \in 1 .. (z - 0) : e[i] = 0 + i
    <3>1. 0 + 0 <= z
      BY <1>2
    <3> QED  BY <1>2, <3>1, BytesGoOn, Zenon
  <2>2. z - 0 = z /\ \A i \in 1 .. z : 0 + i = i
    BY <1>2
  <2> QED  BY <2>1, <2>2
<1> HIDE DEF e
<1>4. got' \in Seq(Int) /\ Len(got') = z /\ \A i \in 1 .. z : got'[i] = buf[i]
  <2> HIDE DEF z
  <2> QED  BY <1>0, <1>2
<1>5. Len(buf) = z
  BY <1>0, <1>1, <1>2, <1>3 DEF AheadOf
<1>6. \A i \in 1 .. z : got'[i] = i
  BY <1>1, <1>3, <1>4, <1>5 DEF AheadOf
<1>7. RelayTypeOK'
  BY <1>0, <1>4, <1>6 DEF RelayTypeOK
<1> QED
  BY <1>0, <1>4, <1>7, Zenon DEF RelayInv, Stages, HeadStage, TunnelStage, PlainStage, ChunkStage,
                    TrailerStage, EndStage

(* Dropping a line leaves what follows it.                                 *)
LEMMA DropLine ==
  ASSUME NEW b \in Seq(Int), NEW s \in Seq(Int), NEW c, NEW e \in Seq(Int), NEW f \in Seq(Int),
         AheadOf(b, s, c, e), b # <<>>, GoesOn(1, e, f)
  PROVE  Tail(b) \in Seq(Int) /\ AheadOf(Tail(b), s, c, f) /\ Head(b) = e[1]
<1>1. Len(b) \in Nat /\ Len(b) >= 1 /\ Head(b) = b[1]
  BY EmptySeq, LenProperties
<1>2. Tail(b) = SubSeq(b, 2, Len(b))
  BY <1>1
<1> DEFINE k == 1
<1>3. k \in 0 .. Len(b) /\ GoesOn(k, e, f) /\ SubSeq(b, 2, Len(b)) = SubSeq(b, k + 1, Len(b))
  BY <1>1
<1> HIDE DEF k
<1>4. SubSeq(b, k + 1, Len(b)) \in Seq(Int) /\ AheadOf(SubSeq(b, k + 1, Len(b)), s, c, f)
  BY <1>3, TakeFront
<1>5. Head(b) = e[1]
  BY <1>1 DEF AheadOf
<1> QED  BY <1>2, <1>3, <1>4, <1>5, Zenon

(* A size line: a chunk that fits is waited for, one that does not means   *)
(* that the body is over the cap, and the last is followed by trailers.    *)
LEMMA SizeKeeps ==
  ASSUME RelayInv, SizeLine
  PROVE  RelayInv'
<1> DEFINE g == Len(got)
           z == answer.size
<1>0. /\ RelayTypeOK /\ UNCHANGED <<answer, stream, cut, got>> /\ at = "size" /\ buf # <<>>
      /\ buf' = IF at' = "chunk" THEN buf ELSE Tail(buf)
      /\ buf \in Seq(Int) /\ stream \in Seq(Int) /\ answer \in Answers
  BY DEF RelayInv, RelayTypeOK, SizeLine, Short
<1>1. /\ answer.kind = "chunked" /\ g \in {0, answer.first, z}
      /\ AheadOf(buf, stream, cut, Rest(answer, g))
  BY <1>0 DEF RelayInv, Stages, ChunkStage
<1>2. chunk_size = IF g < z THEN ChunkLen(answer, g) ELSE 0
  BY <1>0, <1>1, SizeRead
<1>3. /\ z \in Nat /\ g \in Nat /\ g <= z /\ Rest(answer, g) \in Seq(Int)
      /\ g < z => ChunkLen(answer, g) \in Nat \ {0} /\ g + ChunkLen(answer, g) <= z
      /\ g = z => Rest(answer, g) = Ending
  BY <1>0, <1>1, RestIs, Zenon
<1>4. BodyCap \in Nat
  BY HttpRelayAssumption
<1>5. Tail(buf) \in Seq(Int)
  BY <1>0, EmptySeq
<1>6. RelayTypeOK'
  BY <1>0, <1>5 DEF RelayTypeOK
<1>7. CASE g < z
  <2> DEFINE k == ChunkLen(answer, g)
  <2>1. chunk_size = k /\ k \in Nat \ {0} /\ g + k <= z
    BY <1>2, <1>3, <1>7
  <2> HIDE DEF k
  <2>2. chunk_size # 0
    BY <2>1
  <2>3. (at' = "landing" /\ g + k > BodyCap) \/ at' = "chunk"
    BY <2>1, <2>2 DEF SizeLine
  <2>4. at' = "landing" => z > BodyCap
    BY <1>3, <1>4, <2>1, <2>3
  <2> QED
    BY <1>0, <1>1, <1>6, <1>7, <2>3, <2>4, Zenon DEF RelayInv, Stages, HeadStage, TunnelStage, PlainStage, ChunkStage,
                    TrailerStage, EndStage
<1>8. CASE g = z
  <2>1. chunk_size = 0
    BY <1>2, <1>3, <1>8
  <2>2. at' = "trailer" /\ buf' = Tail(buf)
    BY <1>0, <2>1 DEF SizeLine
  <2>3. <<Trailer, Blank>> \in Seq(Int) /\ GoesOn(1, Ending, <<Trailer, Blank>>)
    BY DEF GoesOn, Ending, Size, Trailer, Blank
  <2>4. AheadOf(Tail(buf), stream, cut, <<Trailer, Blank>>)
    <3>1. AheadOf(buf, stream, cut, Ending) /\ Ending \in Seq(Int)
      BY <1>1, <1>3, <1>8
    <3> DEFINE f == <<Trailer, Blank>>
    <3>2. f \in Seq(Int) /\ GoesOn(1, Ending, f)
      BY <2>3
    <3> HIDE DEF f
    <3>3. AheadOf(Tail(buf), stream, cut, f)
      BY <1>0, <3>1, <3>2, DropLine
    <3> QED  BY <3>3 DEF f
  <2>5. AheadOf(buf', stream', cut', <<Trailer, Blank>>)
    BY <1>0, <2>2, <2>4
  <2> QED
    BY <1>0, <1>1, <1>6, <1>8, <2>2, <2>5, Zenon DEF RelayInv, Stages, HeadStage, TunnelStage, PlainStage, ChunkStage,
                    TrailerStage, EndStage
<1> QED  BY <1>3, <1>7, <1>8

(* A chunk: its bytes follow those before it, and what is left follows it. *)
LEMMA ChunkKeeps ==
  ASSUME RelayInv, ChunkRead
  PROVE  RelayInv'
<1> DEFINE g == Len(got)
           z == answer.size
           k == ChunkLen(answer, g)
           e == Rest(answer, g)
           f == Rest(answer, g + k)
           p == SubSeq(buf, 2, k + 1)
           q == SubSeq(buf, (k + 2) + 1, Len(buf))
<1>0. /\ RelayTypeOK /\ UNCHANGED <<answer, stream, cut>> /\ at = "chunk" /\ at' = "size"
      /\ got' = got \o SubSeq(buf, 2, chunk_size + 1) /\ buf' = SubSeq(buf, chunk_size + 3, Len(buf))
      /\ ~(Len(buf) - 1 < chunk_size + 1)
      /\ buf \in Seq(Int) /\ stream \in Seq(Int) /\ got \in Seq(Int) /\ answer \in Answers
  BY DEF RelayInv, RelayTypeOK, ChunkRead, Short
<1>1. /\ answer.kind = "chunked" /\ g \in {0, answer.first, z} /\ AheadOf(buf, stream, cut, e)
      /\ g < z /\ buf # <<>>
  BY <1>0 DEF RelayInv, Stages, ChunkStage
<1>2. chunk_size = k
  BY <1>0, <1>1, SizeRead
<1>3. /\ z \in Nat /\ g \in Nat /\ e \in Seq(Int) /\ k \in Nat \ {0} /\ g + k \in {0, answer.first, z}
      /\ f \in Seq(Int) /\ GoesOn(k + 2, e, f) /\ \A i \in 1 .. k : e[i + 1] = g + i
  BY <1>0, <1>1, RestIs, Zenon
<1>4. Len(buf) \in Nat /\ Len(stream) \in Nat /\ Ordered(got, 0)
  BY <1>0, AheadTyped DEF RelayTypeOK, Ordered
<1> HIDE DEF g, z, k, e, f
<1>5. k + 2 \in 0 .. Len(buf) /\ k + 3 = (k + 2) + 1 /\ k + 2 <= Len(buf)
  BY <1>0, <1>2, <1>3, <1>4
<1>6. got' = got \o p /\ buf' = q
  BY <1>0, <1>2, <1>5, Zenon
<1>7. q \in Seq(Int) /\ AheadOf(q, stream, cut, f)
  <2> DEFINE m == k + 2
  <2>1. m \in 0 .. Len(buf) /\ GoesOn(m, e, f) /\ q = SubSeq(buf, m + 1, Len(buf))
    BY <1>3, <1>5
  <2> HIDE DEF m, q
  <2>2. SubSeq(buf, m + 1, Len(buf)) \in Seq(Int) /\ AheadOf(SubSeq(buf, m + 1, Len(buf)), stream, cut, f)
    BY <1>0, <1>1, <1>3, <2>1, TakeFront
  <2> QED  BY <2>1, <2>2
<1>8. p \in Seq(Int) /\ Len(p) = k /\ \A i \in 1 .. k : p[i] = buf[i + 1]
  <2>1. k \in Nat /\ k + 1 <= Len(buf)
    BY <1>3, <1>4, <1>5
  <2>2. buf \in Seq(Int)
    BY <1>0
  <2>3. p \in Seq(Int) /\ Len(p) = k
    BY <1>4, <2>1, <2>2
  <2>4. ASSUME NEW i \in 1 .. k PROVE p[i] = buf[i + 1]
    BY <1>4, <2>1, <2>2
  <2> QED  BY <2>3, <2>4
<1> HIDE DEF p, q
<1>9. Ordered(p, g)
  <2>1. ASSUME NEW i \in 1 .. k PROVE p[i] = g + i
    <3>1. i + 1 \in 1 .. Len(buf)
      BY <1>3, <1>4, <1>5
    <3>2. buf[i + 1] = e[i + 1]
      BY <1>1, <3>1 DEF AheadOf
    <3> QED  BY <1>3, <1>8, <3>2, Zenon
  <2> QED  BY <1>8, <2>1 DEF Ordered
<1>10. got' \in Seq(Int) /\ Len(got') = g + k /\ Ordered(got', 0)
  BY <1>0, <1>4, <1>6, <1>8, <1>9, OrderedConcat, Zenon DEF g
<1>11. RelayTypeOK'
  <2>1. \A i \in 1 .. Len(got') : 0 + i = i
    OBVIOUS
  <2> QED  BY <1>0, <1>6, <1>7, <1>10, <2>1, Zenon DEF RelayTypeOK, Ordered
<1>12. /\ answer'.kind = "chunked" /\ Len(got') \in {0, answer'.first, answer'.size}
       /\ AheadOf(buf', stream', cut', Rest(answer', Len(got')))
  BY <1>0, <1>1, <1>3, <1>6, <1>7, <1>10, Zenon DEF f, z
<1> QED
  BY <1>0, <1>11, <1>12, Zenon DEF RelayInv, Stages, HeadStage, TunnelStage, PlainStage, ChunkStage,
                    TrailerStage, EndStage

(* A trailer is dropped; the blank line ends the body, which is whole.     *)
LEMMA TrailerKeeps ==
  ASSUME RelayInv, TrailerLine
  PROVE  RelayInv'
<1>0. /\ RelayTypeOK /\ UNCHANGED <<answer, stream, cut, got>> /\ at = "trailer" /\ buf # <<>>
      /\ at' = (IF Head(buf) = Blank THEN "whole" ELSE "trailer") /\ buf' = Tail(buf)
      /\ buf \in Seq(Int) /\ stream \in Seq(Int)
  BY DEF RelayInv, RelayTypeOK, TrailerLine, Short
<1>1. answer.kind = "chunked" /\ Len(got) = answer.size
  BY <1>0 DEF RelayInv, Stages, TrailerStage
<1>2. Tail(buf) \in Seq(Int)
  BY <1>0, EmptySeq
<1>3. RelayTypeOK'
  BY <1>0, <1>2 DEF RelayTypeOK
<1>4. Head(buf) # Blank => AheadOf(Tail(buf), stream, cut, <<Blank>>)
  <2> DEFINE e == <<Trailer, Blank>>
             f == <<Blank>>
  <2>1. e \in Seq(Int) /\ f \in Seq(Int) /\ GoesOn(1, e, f) /\ f[1] = Blank
    BY DEF GoesOn, Trailer, Blank
  <2>2. AheadOf(buf, stream, cut, e) \/ AheadOf(buf, stream, cut, f)
    BY <1>0 DEF RelayInv, Stages, TrailerStage
  <2>3. Len(buf) \in Nat /\ Len(buf) >= 1 /\ Head(buf) = buf[1]
    BY <1>0, EmptySeq, LenProperties
  <2> HIDE DEF e, f
  <2>4. CASE AheadOf(buf, stream, cut, e)
    <3>1. AheadOf(Tail(buf), stream, cut, f)
      BY <1>0, <2>1, <2>4, DropLine, Zenon
    <3> QED  BY <3>1 DEF f
  <2>5. CASE AheadOf(buf, stream, cut, f)
    <3>1. 1 \in 1 .. Len(buf)
      BY <2>3
    <3>2. buf[1] = f[1]
      BY <2>5, <3>1, Zenon DEF AheadOf
    <3> QED  BY <2>1, <2>3, <3>2, Zenon
  <2> QED  BY <2>2, <2>4, <2>5
<1>5. at' = "trailer" => AheadOf(buf', stream', cut', <<Blank>>)
  BY <1>0, <1>4
<1> QED
  BY <1>0, <1>1, <1>3, <1>5, Zenon DEF RelayInv, Stages, HeadStage, TunnelStage, PlainStage, ChunkStage,
                    TrailerStage, EndStage

(* The relay starts before the whole of what the backend will send.        *)
LEMMA RelayStarts == RelayInit => RelayInv
<1> SUFFICES ASSUME RelayInit PROVE RelayInv
  OBVIOUS
<1> DEFINE e == Sent(answer)
<1>1. answer \in Answers
  <2>1. 0 .. MaxBody \subseteq Nat
    OBVIOUS
  <2>2. /\ answer \in [kind : {"101", "length", "chunked", "eof", "gateway"}, size : 0 .. MaxBody, first : 0 .. MaxBody]
        /\ answer.first <= answer.size
    BY DEF RelayInit
  <2> HIDE DEF e
  <2> QED  BY <2>1, <2>2 DEF Answers
<1>2. e \in Seq(Int) /\ Len(e) \in Nat
  BY <1>1, SentIs, LenProperties, Zenon
<1>3. PICK n \in 0 .. Len(e) : stream = SubSeq(e, 1, n) /\ cut = (n < Len(e))
  BY DEF RelayInit
<1>4. at = "dial" /\ buf = <<>> /\ got = <<>>
  BY DEF RelayInit
<1> HIDE DEF e
<1>5. stream \in Seq(Int) /\ Len(stream) = n /\ \A i \in 1 .. n : stream[i] = e[i]
  BY <1>2, <1>3
<1>6. Len(buf) = 0 /\ Len(got) = 0 /\ 0 + n = n /\ \A i \in 1 .. n : 0 + i = i
  BY <1>4
<1>7. AheadOf(buf, stream, cut, e)
  <2>1. n <= Len(e)
    BY <1>2
  <2>2. cut <=> n < Len(e)
    BY <1>3, Zenon
  <2> QED  BY <1>5, <1>6, <2>1, <2>2 DEF AheadOf
<1>8. RelayTypeOK
  BY <1>1, <1>4, <1>5, <1>6, EmptySeq DEF RelayTypeOK
<1> QED
  BY <1>4, <1>6, <1>7, <1>8, Zenon DEF RelayInv, Stages, HeadStage, TunnelStage, PlainStage, ChunkStage,
                    TrailerStage, EndStage, e

(* RelayIsExact of proxy_upgrade, read_response_head and                   *)
(* read_response_body, for a body of any size, chunks of any sizes and     *)
(* reads of any sizes: the client gets the backend's bytes in order and    *)
(* none of the framing, an answer passed on as whole is whole, and the     *)
(* landing page is shown only for cause.                                   *)
THEOREM RelayPassesExactly == RelaySpec => []RelayIsExact
<1>1. RelayInv /\ [RelayNext]_relayvars => RelayInv'
  <2> SUFFICES ASSUME RelayInv, [RelayNext]_relayvars PROVE RelayInv'
    OBVIOUS
  <2>1. CASE \E n \in 1 .. Len(stream) : read_some(n)
    BY <2>1, ReadKeeps
  <2>2. CASE proxy_upgrade \/ read_response_head
    BY <2>2, HeadKeeps
  <2>3. CASE Tunnel
    BY <2>3, TunnelKeeps
  <2>4. CASE LengthRead
    BY <2>4, LengthKeeps
  <2>5. CASE SizeLine
    BY <2>5, SizeKeeps
  <2>6. CASE ChunkRead
    BY <2>6, ChunkKeeps
  <2>7. CASE TrailerLine
    BY <2>7, TrailerKeeps
  <2>8. CASE Eof \/ Deadline
    BY <2>8, EofKeeps
  <2>9. CASE UNCHANGED relayvars
    BY <2>9, Zenon DEF relayvars, RelayInv, RelayTypeOK, Stages, HeadStage, TunnelStage, PlainStage, ChunkStage,
                TrailerStage, EndStage
  <2> QED  BY <2>1, <2>2, <2>3, <2>4, <2>5, <2>6, <2>7, <2>8, <2>9 DEF RelayNext
<1>2. RelayInv => RelayIsExact
  <2> SUFFICES ASSUME RelayInv PROVE RelayIsExact
    OBVIOUS
  <2>1. \A i \in DOMAIN got : got[i] = i
    BY LenProperties DEF RelayInv, RelayTypeOK
  <2>2. /\ at = "whole" => Len(got) = answer.size \/ (answer.kind = "eof" /\ cut)
        /\ at = "landing" => cut \/ answer.kind = "gateway" \/ answer.size > BodyCap
    BY DEF RelayInv, Stages, EndStage
  <2> QED  BY <2>1, <2>2, Zenon DEF RelayIsExact
<1> QED  BY <1>1, <1>2, RelayStarts, PTL DEF RelaySpec
===============================================================================
