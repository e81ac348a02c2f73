-------------------------------- MODULE Lease ---------------------------------
(***************************************************************************)
(* The file lease of lease.rs and the leader elector of leader.rs on top   *)
(* of it.  Processes share one lease file and, with it, one temporary      *)
(* file; each claim reads the file, writes the temporary file, renames it  *)
(* over the lease and reads it back, and a guard's renewer thread does the *)
(* middle two on its own.  Every file operation is a step.                 *)
(*                                                                         *)
(* An owner is one claim: next_owner never repeats a label, so a label is  *)
(* taken again only when nothing refers to it.  A record's expiry is the   *)
(* number of ticks left.  The elector's term only labels the announcement  *)
(* and is left out, as are I/O errors other than the lost rename.          *)
(***************************************************************************)
EXTENDS Integers, FiniteSets

CONSTANTS
  Node,       \* processes, each with one elector for the same key
  Label,      \* what next_owner tells one process's claims apart by
  Ttl, Step,  \* the lease, and the renewer's cadence, in ticks
  None        \* no file, no guard

ASSUME LeaseAssumption ==
  /\ Ttl \in Nat \ {0} /\ Step \in Nat
  /\ None \notin Node \X Label /\ None \notin [owner : Node \X Label, left : 0..Ttl]

VARIABLES
  disk, tmp,  \* the lease file and the temporary file: a record or None
  up,         \* up[n]: the process runs
  stage,      \* stage[o]: where the claim, later the guard, of o is
  renewer,    \* renewer[o]: ticks slept, or Writing, or Off
  held,       \* held[n]: the owner in the elector's slot, or None
  disturbed   \* history: claims overlapped, or a guarded lease lapsed

vars == <<disk, tmp, up, stage, renewer, held, disturbed>>

Owner == Node \X Label
Off == -1
Writing == Step + 1
Record(o) == [owner |-> o, left |-> Ttl]

Claiming == {o \in Owner : stage[o] \in {"read", "write", "rename", "confirm"}}
Guarding == {o \in Owner : stage[o] \in {"held", "drop", "check", "remove"}}
Of(n) == {o \in Owner : o[1] = n}
Owns(f, o) == f # None /\ f.owner = o
Unused(o) == stage[o] = "unused" /\ ~Owns(disk, o) /\ ~Owns(tmp, o)

Init ==
  /\ disk = None /\ tmp = None
  /\ up = [n \in Node |-> TRUE]
  /\ stage = [o \in Owner |-> "unused"]
  /\ renewer = [o \in Owner |-> Off]
  /\ held = [n \in Node |-> None]
  /\ disturbed = FALSE

At(o, s) == stage' = [stage EXCEPT ![o] = s]

-------------------------------------------------------------------------------
(* acquire: next_owner, then try_take.                                     *)
TryAcquire(n) ==
  /\ up[n] /\ Of(n) \cap Claiming = {}
  /\ \A o \in Of(n) \cap Guarding : stage[o] = "held"
  /\ \E o \in Of(n) : Unused(o)
  /\ At(CHOOSE o \in Of(n) : Unused(o), "read")
  /\ UNCHANGED <<disk, tmp, up, renewer, held>>

(* Two forms of the test below with a bug each: no look at the expiry, and *)
(* a lease that ends a tick early.                                         *)
LiveForever(o) == disk # None /\ disk.owner # o
LiveShort(o) == disk # None /\ disk.left > 1 /\ disk.owner # o

Live(o) == disk # None /\ disk.left > 0 /\ disk.owner # o

ReadLease(o) ==
  /\ stage[o] = "read"
  /\ At(o, IF Live(o) THEN "unused" ELSE "write")
  /\ UNCHANGED <<disk, tmp, up, renewer, held>>

WriteTmp(o) ==
  /\ stage[o] = "write"
  /\ tmp' = Record(o)
  /\ At(o, "rename")
  /\ UNCHANGED <<disk, up, renewer, held>>

(* Another writer may have renamed the shared temporary file first.        *)
MoveTmp ==
  /\ disk' = IF tmp = None THEN disk ELSE tmp
  /\ tmp' = None

Rename(o) ==
  /\ stage[o] = "rename"
  /\ MoveTmp
  /\ At(o, IF tmp = None THEN "unused" ELSE "confirm")
  /\ UNCHANGED <<up, renewer, held>>

(* The winner's renewer starts, and the elector's slot takes the guard: a  *)
(* guard already there is dropped.                                         *)
Confirm(o) ==
  /\ stage[o] = "confirm"
  /\ IF Owns(disk, o)
     THEN /\ stage' = [q \in Owner |-> IF q = o THEN "held"
                                       ELSE IF q = held[o[1]] THEN "drop" ELSE stage[q]]
          /\ renewer' = [renewer EXCEPT ![o] = 0]
          /\ held' = [held EXCEPT ![o[1]] = o]
     ELSE At(o, "unused") /\ UNCHANGED <<renewer, held>>
  /\ UNCHANGED <<disk, tmp, up>>

-------------------------------------------------------------------------------
(* The renewer writes without looking at what the file holds.  The stop    *)
(* flag is read before every sleep, so a drop finds it asleep or writing.  *)
Renew(o) ==
  /\ renewer[o] = Step /\ stage[o] = "held"
  /\ tmp' = Record(o)
  /\ renewer' = [renewer EXCEPT ![o] = Writing]
  /\ UNCHANGED <<disk, up, stage, held>>

RenewRename(o) ==
  /\ renewer[o] = Writing
  /\ MoveTmp
  /\ renewer' = [renewer EXCEPT ![o] = 0]
  /\ UNCHANGED <<up, stage, held>>

(* resign, whose release is what a guard's Drop does too.                  *)
Resign(n) ==
  /\ up[n] /\ held[n] # None /\ Of(n) \cap Claiming = {}
  /\ held' = [held EXCEPT ![n] = None]
  /\ At(held[n], "drop")
  /\ UNCHANGED <<disk, tmp, up, renewer>>

(* stop, and join: a renewer in a write ends it first.                     *)
Join(o) ==
  /\ stage[o] = "drop" /\ renewer[o] # Writing
  /\ renewer' = [renewer EXCEPT ![o] = Off]
  /\ At(o, "check")
  /\ UNCHANGED <<disk, tmp, up, held>>

CheckOwner(o) ==
  /\ stage[o] = "check"
  /\ At(o, IF Owns(disk, o) THEN "remove" ELSE "unused")
  /\ UNCHANGED <<disk, tmp, up, renewer, held>>

Remove(o) ==
  /\ stage[o] = "remove"
  /\ disk' = None
  /\ At(o, "unused")
  /\ UNCHANGED <<tmp, up, renewer, held>>

-------------------------------------------------------------------------------
(* A process that comes back has a new pid and so new labels: it is        *)
(* another node.                                                           *)
Crash(n) ==
  /\ up[n]
  /\ up' = [up EXCEPT ![n] = FALSE]
  /\ held' = [held EXCEPT ![n] = None]
  /\ stage' = [o \in Owner |-> IF o[1] = n THEN "unused" ELSE stage[o]]
  /\ renewer' = [o \in Owner |-> IF o[1] = n THEN Off ELSE renewer[o]]
  /\ UNCHANGED <<disk, tmp>>

Older(f) == IF f # None /\ f.left > 0 THEN [f EXCEPT !.left = @ - 1] ELSE f

Tick ==
  /\ disk' = Older(disk) /\ tmp' = Older(tmp)
  /\ renewer' = [o \in Owner |-> IF renewer[o] \in 0..(Step - 1) THEN renewer[o] + 1
                                 ELSE renewer[o]]
  /\ UNCHANGED <<up, stage, held>>

OwnerStep(o) ==
  \/ ReadLease(o) \/ WriteTmp(o) \/ Rename(o) \/ Confirm(o)
  \/ Renew(o) \/ RenewRename(o) \/ Join(o) \/ CheckOwner(o) \/ Remove(o)

(* What the lease's exclusion rests on, and the code does not ensure: one  *)
(* claim at a time, and no claim or guard slower than its lease.           *)
Disturbance ==
  \/ \E o, q \in Claiming : o # q
  \/ disk # None /\ disk.left = 0 /\ disk.owner \in Claiming \cup Guarding

Observe == disturbed' = (disturbed \/ Disturbance')

Next ==
  \/ \E o \in Owner : OwnerStep(o) /\ Observe
  \/ \E n \in Node : TryAcquire(n) /\ Observe
  \/ \E n \in Node : (Resign(n) \/ Crash(n)) /\ Observe
  \/ Tick /\ Observe

Spec == Init /\ [][Next]_vars

(* Threads and the clock move on; a caller without the lease asks again.   *)
Fairness ==
  /\ \A n \in Node : WF_vars(\E o \in Of(n) \ {held[n]} : OwnerStep(o) /\ Observe)
  /\ \A n \in Node : WF_vars(held[n] = None /\ TryAcquire(n) /\ Observe)
  /\ WF_vars(Tick /\ Observe)

FairSpec == Spec /\ Fairness

-------------------------------------------------------------------------------
TypeOK ==
  /\ {disk, tmp} \subseteq {None} \cup [owner : Owner, left : 0..Ttl]
  /\ up \in [Node -> BOOLEAN]
  /\ stage \in [Owner -> {"unused", "read", "write", "rename", "confirm",
                          "held", "drop", "check", "remove"}]
  /\ renewer \in [Owner -> Off..Writing]
  /\ held \in [Node -> {None} \cup Owner]
  /\ disturbed \in BOOLEAN

(* As long as claims came one at a time and heartbeats were on time, the   *)
(* process that thinks it leads owns the lease file: takeovers, crashes,   *)
(* resignations and renewals in any order leave at most one leader.        *)
LeaderOwnsLease ==
  ~disturbed => \A o \in Owner : stage[o] = "held" => Owns(disk, o)

(* A leader that is gone for good is replaced: its lease runs out and the  *)
(* process still asking gets it, whatever was left in either file.         *)
Takeover ==
  \A n, m \in Node :
    n # m => (<>[](~up[n] /\ up[m]) => []<>(held[m] # None))

(* leader.rs: "only one owner at a time".                                  *)
OneOwner ==
  \A n, m \in Node : held[n] # None /\ held[m] # None => n = m
===============================================================================
