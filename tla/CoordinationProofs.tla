-------------------------- MODULE CoordinationProofs --------------------------
(***************************************************************************)
(* Proofs about leadership and locks, for any number of processes, tasks   *)
(* and database sessions.                                                  *)
(***************************************************************************)
EXTENDS Lease, Locks, FiniteSetTheorems, TLAPS

-------------------------------------------------------------------------------
(***************************************************************************)
(* A leader owns the lease file as long as claims come one at a time and no *)
(* lease lapses under its guard, for any lease and any cadence of the      *)
(* renewer.                                                                *)
(***************************************************************************)
Slot == {None} \cup [owner : Owner, left : 0..Ttl]

(* The elector's slot holds a guard of its own process, and only guards    *)
(* that have not been joined have a renewer.                               *)
Slots ==
  /\ \A n \in Node : held[n] # None => held[n] \in Of(n) /\ stage[held[n]] = "held"
  /\ \A o \in Owner : renewer[o] # Off => stage[o] \in {"held", "drop"}

Guard == {"held", "drop", "check", "remove"}

(* What a claim relies on between its steps: a guard's lease is on disk,   *)
(* so there is one guard; past its first read a claim is without guards    *)
(* beside it; and nobody else's record is in the temporary file when a     *)
(* claim or a renewer renames it.                                          *)
Serial ==
  /\ \A o \in Owner : stage[o] \in Guard => Owns(disk, o)
  /\ \A o, q \in Owner : stage[o] \in {"write", "rename", "confirm"} => stage[q] \notin Guard
  /\ \A o \in Owner : stage[o] = "rename" => Owns(tmp, o)
  /\ \A o \in Owner : stage[o] = "confirm" => Owns(disk, o)
  /\ \A o \in Owner : renewer[o] = Writing => Owns(tmp, o)

Inv == TypeOK /\ Slots /\ (~disturbed => ~Disturbance /\ Serial)

(* Arithmetic of the renewer's marks.                                      *)
LEMMA Marks ==
  /\ Writing \in Off..Writing /\ Off \in Off..Writing /\ 0 \in Off..Writing
  /\ Writing # Off /\ 0 # Off /\ Writing # 0 /\ Step # Off /\ Ttl \in 0..Ttl
  BY LeaseAssumption DEF Writing, Off

(* None is neither an owner nor a record.                                  *)
LEMMA Nones == None \notin Owner /\ None \notin [owner : Owner, left : 0..Ttl]
  BY LeaseAssumption DEF Owner

(* A record of an owner, and one that grows older.                         *)
LEMMA Records ==
  /\ \A o \in Owner : Record(o) \in Slot /\ Owns(Record(o), o) /\ Record(o) # None
  /\ \A f \in Slot : /\ Older(f) \in Slot /\ (Older(f) = None <=> f = None)
                     /\ \A o \in Owner : Owns(Older(f), o) <=> Owns(f, o)
<1>1. \A o \in Owner : Record(o) \in Slot /\ Owns(Record(o), o) /\ Record(o) # None
  BY Marks, Nones DEF Record, Slot, Owns
<1>2. ASSUME NEW f \in Slot
      PROVE  /\ Older(f) \in Slot /\ (Older(f) = None <=> f = None)
             /\ \A o \in Owner : Owns(Older(f), o) <=> Owns(f, o)
  <2>1. CASE f = None  BY <2>1, Nones DEF Older, Slot, Owns
  <2>2. CASE f # None /\ f.left > 0
    <3>1. f \in [owner : Owner, left : 0..Ttl]  BY <2>2 DEF Slot
    <3>2. Older(f) = [f EXCEPT !.left = f.left - 1]  BY <2>2 DEF Older
    <3>3. f.left - 1 \in 0..Ttl  BY <2>2, <3>1, LeaseAssumption
    <3>4. Older(f) \in [owner : Owner, left : 0..Ttl] /\ Older(f).owner = f.owner
      BY <3>1, <3>2, <3>3
    <3> QED  BY <2>2, <3>4, Nones DEF Slot, Owns
  <2>3. CASE f # None /\ ~(f.left > 0)  BY <2>3 DEF Older, Slot, Owns
  <2> QED  BY <2>1, <2>2, <2>3
<1> QED  BY <1>1, <1>2

(* An owner's first component is its process.                              *)
LEMMA Processes ==
  /\ \A o \in Owner : o[1] \in Node /\ o \in Of(o[1])
  /\ \A n \in Node : \A o \in Of(n) : o \in Owner /\ o[1] = n
  BY DEF Owner, Of

(* What TypeOK says of the files, apart from the rest.                     *)
LEMMA Files == TypeOK => disk \in Slot /\ tmp \in Slot
  BY DEF TypeOK, Slot

(* TryAcquire starts a claim with a label nothing refers to.               *)
LEMMA FreshLabel ==
  ASSUME NEW n \in Node, TryAcquire(n)
  PROVE  /\ \E o \in Of(n) : Unused(o) /\ At(o, "read")
         /\ UNCHANGED <<disk, tmp, up, renewer, held>>
<1> DEFINE c == CHOOSE o \in Of(n) : Unused(o)
<1>1. c \in Of(n) /\ Unused(c)  BY DEF TryAcquire
<1>2. At(c, "read") /\ UNCHANGED <<disk, tmp, up, renewer, held>>  BY DEF TryAcquire
<1> QED  BY <1>1, <1>2

(* Every step keeps the types.                                             *)
LEMMA TypeStep == TypeOK /\ [Next]_vars => TypeOK'
<1> SUFFICES ASSUME TypeOK, [Next]_vars PROVE TypeOK'  OBVIOUS
<1> USE Marks, Nones
<1>0. disk \in Slot /\ tmp \in Slot  BY Files
<1>1. ASSUME disk' \in Slot, tmp' \in Slot, up' \in [Node -> BOOLEAN],
             stage' \in [Owner -> {"unused", "read", "write", "rename", "confirm",
                                   "held", "drop", "check", "remove"}],
             renewer' \in [Owner -> Off..Writing],
             held' \in [Node -> {None} \cup Owner], disturbed' \in BOOLEAN
      PROVE  TypeOK'
  BY <1>1 DEF TypeOK, Slot
<1>2. ASSUME Observe PROVE disturbed' \in BOOLEAN  BY <1>2 DEF Observe
<1>3. ASSUME MoveTmp PROVE disk' \in Slot /\ tmp' \in Slot
  BY <1>3, <1>0 DEF MoveTmp, Slot
<1>4. ASSUME NEW o \in Owner, OwnerStep(o), Observe PROVE TypeOK'
  <2>1. CASE ReadLease(o)
    BY <2>1, <1>0, <1>1, <1>2, <1>4 DEF ReadLease, At, TypeOK
  <2>2. CASE WriteTmp(o)
    BY <2>2, <1>0, <1>1, <1>2, <1>4, Records DEF WriteTmp, At, TypeOK
  <2>3. CASE Rename(o)
    BY <2>3, <1>1, <1>2, <1>3, <1>4 DEF Rename, At, TypeOK
  <2>4. CASE Confirm(o)
    <3>1. CASE Owns(disk, o)
      <4>1. stage' = [q \in Owner |-> IF q = o THEN "held"
                                      ELSE IF q = held[o[1]] THEN "drop" ELSE stage[q]]
        BY <2>4, <3>1 DEF Confirm
      <4>2. renewer' \in [Owner -> Off..Writing]  BY <2>4, <3>1 DEF Confirm, TypeOK
      <4>3. held' \in [Node -> {None} \cup Owner]  BY <2>4, <3>1 DEF Confirm, TypeOK
      <4>4. stage' \in [Owner -> {"unused", "read", "write", "rename", "confirm",
                                  "held", "drop", "check", "remove"}]
        BY <4>1 DEF TypeOK
      <4> QED  BY <2>4, <4>2, <4>3, <4>4, <1>0, <1>1, <1>2, <1>4 DEF Confirm, TypeOK
    <3>2. CASE ~Owns(disk, o)
      BY <2>4, <3>2, <1>0, <1>1, <1>2, <1>4 DEF Confirm, At, TypeOK
    <3> QED  BY <3>1, <3>2
  <2>5. CASE Renew(o)
    BY <2>5, <1>0, <1>1, <1>2, <1>4, Records DEF Renew, TypeOK
  <2>6. CASE RenewRename(o)
    BY <2>6, <1>1, <1>2, <1>3, <1>4 DEF RenewRename, TypeOK
  <2>7. CASE Join(o)
    BY <2>7, <1>0, <1>1, <1>2, <1>4 DEF Join, At, TypeOK
  <2>8. CASE CheckOwner(o)
    BY <2>8, <1>0, <1>1, <1>2, <1>4 DEF CheckOwner, At, TypeOK
  <2>9. CASE Remove(o)
    BY <2>9, <1>0, <1>1, <1>2, <1>4 DEF Remove, At, TypeOK, Slot
  <2> QED
    BY <1>4, <2>1, <2>2, <2>3, <2>4, <2>5, <2>6, <2>7, <2>8, <2>9 DEF OwnerStep
<1>5. ASSUME NEW n \in Node, TryAcquire(n), Observe PROVE TypeOK'
  <2>1. PICK o \in Of(n) : At(o, "read")  BY <1>5, FreshLabel
  <2>2. UNCHANGED <<disk, tmp, up, renewer, held>>  BY <1>5, FreshLabel
  <2> QED  BY <2>1, <2>2, <1>5, <1>0, <1>1, <1>2, Zenon DEF At, TypeOK
<1>6. ASSUME NEW n \in Node, Resign(n), Observe PROVE TypeOK'
  BY <1>6, <1>0, <1>1, <1>2 DEF Resign, At, TypeOK
<1>7. ASSUME NEW n \in Node, Crash(n), Observe PROVE TypeOK'
  <2>1. up' \in [Node -> BOOLEAN] /\ held' \in [Node -> {None} \cup Owner]
    BY <1>7 DEF Crash, TypeOK
  <2>2. renewer' \in [Owner -> Off..Writing]  BY <1>7 DEF Crash, TypeOK
  <2>3. stage' \in [Owner -> {"unused", "read", "write", "rename", "confirm",
                              "held", "drop", "check", "remove"}]
    BY <1>7 DEF Crash, TypeOK
  <2> QED  BY <2>1, <2>2, <2>3, <1>7, <1>0, <1>1, <1>2 DEF Crash
<1>8. CASE Tick /\ Observe
  <2>1. ASSUME NEW r \in Off..Writing, r \in 0..(Step - 1) PROVE r + 1 \in Off..Writing
    BY <2>1, LeaseAssumption DEF Off, Writing
  <2>2. renewer' \in [Owner -> Off..Writing]  BY <1>8, <2>1 DEF Tick, TypeOK
  <2> QED  BY <1>8, <2>2, <1>0, <1>1, <1>2, Records DEF Tick, TypeOK
<1>9. CASE UNCHANGED vars  BY <1>9 DEF vars, TypeOK
<1> QED  BY <1>4, <1>5, <1>6, <1>7, <1>8, <1>9 DEF Next

(* Every step keeps the slots' guards held and joined guards without a     *)
(* renewer.                                                                *)
LEMMA SlotStep == TypeOK /\ Slots /\ [Next]_vars => Slots'
<1> SUFFICES ASSUME TypeOK, Slots, [Next]_vars PROVE Slots'  OBVIOUS
<1> USE Marks, Nones, Processes
<1>0. /\ stage \in [Owner -> {"unused", "read", "write", "rename", "confirm",
                              "held", "drop", "check", "remove"}]
      /\ renewer \in [Owner -> Off..Writing] /\ held \in [Node -> {None} \cup Owner]
  BY DEF TypeOK
<1>1. ASSUME NEW o \in Owner, OwnerStep(o) PROVE Slots'
  <2>1. CASE ReadLease(o) \/ WriteTmp(o) \/ Rename(o) \/ CheckOwner(o) \/ Remove(o)
    <3>1. /\ \E s : At(o, s) /\ UNCHANGED <<renewer, held>>
          /\ stage[o] \notin {"held", "drop"}
      BY <2>1 DEF ReadLease, WriteTmp, Rename, CheckOwner, Remove
    <3> QED  BY <3>1, <1>0 DEF At, Slots
  <2>2. CASE Confirm(o)
    <3>1. stage[o] = "confirm"  BY <2>2 DEF Confirm
    <3>2. CASE Owns(disk, o)
      <4>1. /\ stage' = [q \in Owner |-> IF q = o THEN "held"
                                ELSE IF q = held[o[1]] THEN "drop" ELSE stage[q]]
            /\ renewer' = [renewer EXCEPT ![o] = 0]
            /\ held' = [held EXCEPT ![o[1]] = o]
        BY <2>2, <3>2 DEF Confirm
      <4>2. ASSUME NEW n \in Node, held'[n] # None
            PROVE  held'[n] \in Of(n) /\ stage'[held'[n]] = "held"
        <5>1. CASE n = o[1]  BY <5>1, <4>1, <1>0
        <5>2. CASE n # o[1]
          <6>1. held'[n] = held[n] /\ held[n] \in Of(n) /\ stage[held[n]] = "held"
            BY <5>2, <4>1, <4>2, <1>0 DEF Slots
          <6>2. held[n] # held[o[1]] /\ held[n] # o /\ held[n] \in Owner
            BY <6>1, <5>2, <3>1 DEF Slots
          <6> QED  BY <6>1, <6>2, <4>1
        <5> QED  BY <5>1, <5>2
      <4>3. ASSUME NEW q \in Owner, renewer'[q] # Off PROVE stage'[q] \in {"held", "drop"}
        BY <4>1, <4>3, <1>0 DEF Slots
      <4> QED  BY <4>2, <4>3 DEF Slots
    <3>3. CASE ~Owns(disk, o)
      <4>1. At(o, "unused") /\ UNCHANGED <<renewer, held>>  BY <2>2, <3>3 DEF Confirm
      <4> QED  BY <4>1, <3>1, <1>0 DEF At, Slots
    <3> QED  BY <3>2, <3>3
  <2>3. CASE Renew(o) \/ RenewRename(o)
    <3>1. /\ \E r : renewer' = [renewer EXCEPT ![o] = r] /\ UNCHANGED <<stage, held>>
          /\ renewer[o] # Off
      BY <2>3 DEF Renew, RenewRename
    <3> QED  BY <3>1, <1>0 DEF Slots
  <2>4. CASE Join(o)
    <3>1. /\ stage[o] = "drop" /\ At(o, "check") /\ UNCHANGED held
          /\ renewer' = [renewer EXCEPT ![o] = Off]
      BY <2>4 DEF Join
    <3> QED  BY <3>1, <1>0 DEF At, Slots
  <2> QED  BY <1>1, <2>1, <2>2, <2>3, <2>4 DEF OwnerStep
<1>2. ASSUME NEW n \in Node, TryAcquire(n) PROVE Slots'
  <2>1. PICK o \in Of(n) : Unused(o) /\ At(o, "read")  BY <1>2, FreshLabel
  <2>2. UNCHANGED <<renewer, held>>  BY <1>2, FreshLabel
  <2>3. o \in Owner /\ stage[o] = "unused"  BY <2>1 DEF Unused
  <2> QED  BY <2>1, <2>2, <2>3, <1>0 DEF At, Slots
<1>3. ASSUME NEW n \in Node, Resign(n) PROVE Slots'
  <2>1. /\ held[n] # None /\ At(held[n], "drop") /\ UNCHANGED renewer
        /\ held' = [held EXCEPT ![n] = None]
    BY <1>3 DEF Resign
  <2> QED  BY <2>1, <1>0 DEF At, Slots
<1>4. ASSUME NEW n \in Node, Crash(n) PROVE Slots'
  <2>1. /\ held' = [held EXCEPT ![n] = None]
        /\ stage' = [o \in Owner |-> IF o[1] = n THEN "unused" ELSE stage[o]]
        /\ renewer' = [o \in Owner |-> IF o[1] = n THEN Off ELSE renewer[o]]
    BY <1>4 DEF Crash
  <2> QED  BY <2>1, <1>0 DEF Slots
<1>5. CASE Tick
  <2>1. /\ renewer' = [o \in Owner |-> IF renewer[o] \in 0..(Step - 1) THEN renewer[o] + 1
                                       ELSE renewer[o]]
        /\ UNCHANGED <<stage, held>>
    BY <1>5 DEF Tick
  <2>2. ASSUME NEW o \in Owner, renewer'[o] # Off PROVE renewer[o] # Off
    BY <2>1, <2>2 DEF Off
  <2> QED  BY <2>1, <2>2 DEF Slots
<1>6. CASE UNCHANGED vars  BY <1>6 DEF vars, Slots
<1> QED  BY <1>1, <1>2, <1>3, <1>4, <1>5, <1>6 DEF Next

(* While nothing was disturbed, every step keeps the claims and the guards *)
(* out of each other's way.                                                *)
LEMMA SerialStep ==
  ASSUME TypeOK, Slots, Serial, ~Disturbance, [Next]_vars, ~Disturbance'
  PROVE  Serial'
<1> USE Marks, Nones, Processes
<1>0. /\ stage \in [Owner -> {"unused", "read", "write", "rename", "confirm",
                              "held", "drop", "check", "remove"}]
      /\ renewer \in [Owner -> Off..Writing] /\ held \in [Node -> {None} \cup Owner]
  BY DEF TypeOK
<1>a. ASSUME NEW o \in Owner, NEW q \in Owner, o # q,
             stage'[o] \in {"read", "write", "rename", "confirm"}
      PROVE  stage'[q] \notin {"read", "write", "rename", "confirm"}
  BY <1>a DEF Disturbance, Claiming
<1>b. ASSUME NEW o \in Owner, stage[o] \in Guard
      PROVE  disk # None /\ disk.owner = o /\ disk.left > 0
  <2>1. disk # None /\ disk.owner = o  BY <1>b DEF Serial, Owns
  <2>2. o \in Guarding  BY <1>b DEF Guarding, Guard
  <2>3. disk.left # 0  BY <2>1, <2>2 DEF Disturbance
  <2>4. disk.left \in 0..Ttl  BY <2>1, Files DEF Slot
  <2> QED  BY <2>1, <2>3, <2>4, LeaseAssumption
<1>c. ASSUME NEW o \in Owner, renewer[o] # Off PROVE stage[o] \in Guard
  BY <1>c DEF Slots, Guard
<1>d. ASSUME NEW o \in Owner, NEW q \in Owner, stage[o] \in Guard, stage[q] \in Guard
      PROVE  o = q
  BY <1>b, <1>d
<1>1. ASSUME NEW o \in Owner, ReadLease(o) PROVE Serial'
  <2>1. stage[o] = "read" /\ UNCHANGED <<disk, tmp, renewer>>  BY <1>1 DEF ReadLease
  <2>2. CASE Live(o)
    <3>1. At(o, "unused")  BY <1>1, <2>2 DEF ReadLease
    <3> QED  BY <2>1, <3>1, <1>0 DEF At, Serial, Guard, Owns
  <2>3. CASE ~Live(o)
    <3>1. At(o, "write")  BY <1>1, <2>3 DEF ReadLease
    <3>2. \A q \in Owner : stage[q] \notin Guard
      BY <2>1, <2>3, <1>b DEF Live, Guard
    <3> QED  BY <2>1, <3>1, <3>2, <1>0 DEF At, Serial, Guard, Owns
  <2> QED  BY <2>2, <2>3
<1>2. ASSUME NEW o \in Owner, WriteTmp(o) PROVE Serial'
  <2>1. /\ stage[o] = "write" /\ At(o, "rename") /\ UNCHANGED <<disk, renewer>>
        /\ tmp' = Record(o)
    BY <1>2 DEF WriteTmp
  <2>2. \A q \in Owner : stage[q] \notin Guard /\ renewer[q] = Off
    BY <2>1, <1>c DEF Serial
  <2>3. Owns(tmp', o)  BY <2>1, Records DEF Owns
  <2>4. \A q \in Owner : stage'[q] = "rename" => q = o
    BY <2>1, <1>0, <1>a DEF At
  <2> QED  BY <2>1, <2>2, <2>3, <2>4, <1>0 DEF At, Serial, Guard, Owns
<1>3. ASSUME NEW o \in Owner, Rename(o) PROVE Serial'
  <2>1. stage[o] = "rename" /\ MoveTmp /\ UNCHANGED renewer /\ Owns(tmp, o)
    BY <1>3 DEF Rename, Serial
  <2>2. tmp # None /\ disk' = tmp /\ At(o, "confirm")  BY <1>3, <2>1 DEF Rename, MoveTmp, Owns
  <2>3. \A q \in Owner : stage[q] \notin Guard /\ renewer[q] = Off
    BY <2>1, <1>c DEF Serial
  <2>4. \A q \in Owner : stage'[q] \in {"rename", "confirm"} => q = o
    BY <2>2, <1>0, <1>a DEF At
  <2>5. Owns(disk', o)  BY <2>1, <2>2 DEF Owns
  <2> QED  BY <2>1, <2>2, <2>3, <2>4, <2>5, <1>0 DEF At, Serial, Guard
<1>4. ASSUME NEW o \in Owner, Confirm(o) PROVE Serial'
  <2>1. stage[o] = "confirm" /\ UNCHANGED <<disk, tmp>> /\ Owns(disk, o)
    BY <1>4 DEF Confirm, Serial
  <2>2. \A q \in Owner : stage[q] \notin Guard /\ renewer[q] = Off
    BY <2>1, <1>c DEF Serial
  <2>3. held[o[1]] = None  BY <2>2, <1>0 DEF Slots, Guard
  <2>4. /\ stage' = [q \in Owner |-> IF q = o THEN "held"
                            ELSE IF q = held[o[1]] THEN "drop" ELSE stage[q]]
        /\ renewer' = [renewer EXCEPT ![o] = 0]
    BY <1>4, <2>1 DEF Confirm
  <2>5. \A q \in Owner : stage'[q] = IF q = o THEN "held" ELSE stage[q]
    BY <2>3, <2>4
  <2>6. \A q \in Owner : q # o => stage[q] \notin {"write", "rename", "confirm"}
    BY <2>1 DEF Disturbance, Claiming
  <2>7. \A q \in Owner : renewer'[q] # Writing  BY <2>2, <2>4, <1>0
  <2>8. Owns(disk', o)  BY <2>1 DEF Owns
  <2> QED  BY <2>2, <2>5, <2>6, <2>7, <2>8 DEF Serial, Guard
<1>5. ASSUME NEW o \in Owner, Renew(o) PROVE Serial'
  <2>1. /\ stage[o] = "held" /\ UNCHANGED <<disk, stage>> /\ tmp' = Record(o)
        /\ renewer' = [renewer EXCEPT ![o] = Writing]
    BY <1>5 DEF Renew
  <2>2. \A q \in Owner : stage[q] \notin {"write", "rename", "confirm"}
    BY <2>1 DEF Serial, Guard
  <2>3. \A q \in Owner : renewer'[q] = Writing => q = o
    BY <2>1, <1>0, <1>c, <1>d DEF Guard
  <2>4. Owns(tmp', o)  BY <2>1, Records DEF Owns
  <2> QED  BY <2>1, <2>2, <2>3, <2>4 DEF Serial, Owns
<1>6. ASSUME NEW o \in Owner, RenewRename(o) PROVE Serial'
  <2>1. /\ renewer[o] = Writing /\ MoveTmp /\ UNCHANGED stage /\ Owns(tmp, o)
        /\ renewer' = [renewer EXCEPT ![o] = 0]
    BY <1>6 DEF RenewRename, Serial
  <2>2. stage[o] \in Guard  BY <2>1, <1>c
  <2>3. \A q \in Owner : stage[q] \notin {"write", "rename", "confirm"}
    BY <2>2 DEF Serial
  <2>4. \A q \in Owner : renewer'[q] # Writing  BY <2>1, <2>2, <1>0, <1>c, <1>d
  <2>5. Owns(disk', o)  BY <2>1 DEF MoveTmp, Owns
  <2> QED  BY <2>1, <2>2, <2>3, <2>4, <2>5, <1>d DEF Serial
<1>7. ASSUME NEW o \in Owner, Join(o) \/ CheckOwner(o) PROVE Serial'
  <2>1. UNCHANGED <<disk, tmp>> /\ stage[o] \in Guard
    BY <1>7 DEF Join, CheckOwner, Guard
  <2>2. \E s \in {"check", "remove", "unused"} : At(o, s)
    BY <1>7 DEF Join, CheckOwner
  <2>3. \A q \in Owner : renewer'[q] = Writing => renewer[q] = Writing
    BY <1>7, <1>0 DEF Join, CheckOwner
  <2> QED  BY <2>1, <2>2, <2>3, <1>0 DEF At, Serial, Guard, Owns
<1>8. ASSUME NEW o \in Owner, Remove(o) PROVE Serial'
  <2>1. stage[o] = "remove" /\ UNCHANGED <<tmp, renewer>> /\ At(o, "unused")
    BY <1>8 DEF Remove
  <2>2. \A q \in Owner : stage[q] \notin {"write", "rename", "confirm"}
    BY <2>1 DEF Serial, Guard
  <2>3. \A q \in Owner : q # o => stage[q] \notin Guard  BY <2>1, <1>d DEF Guard
  <2> QED  BY <2>1, <2>2, <2>3, <1>0 DEF At, Serial, Guard, Owns
<1>9. ASSUME NEW n \in Node, TryAcquire(n) PROVE Serial'
  <2>1. PICK o \in Of(n) : Unused(o) /\ At(o, "read")  BY <1>9, FreshLabel
  <2>2. UNCHANGED <<disk, tmp, renewer>>  BY <1>9, FreshLabel
  <2>3. o \in Owner  BY <2>1
  <2> QED  BY <2>1, <2>2, <2>3, <1>0 DEF At, Serial, Guard, Owns
<1>10. ASSUME NEW n \in Node, Resign(n) PROVE Serial'
  <2>1. /\ held[n] # None /\ At(held[n], "drop") /\ UNCHANGED <<disk, tmp, renewer>>
    BY <1>10 DEF Resign
  <2>2. held[n] \in Owner /\ stage[held[n]] \in Guard  BY <2>1, <1>0 DEF Slots, Guard
  <2> QED  BY <2>1, <2>2, <1>0 DEF At, Serial, Guard, Owns
<1>11. ASSUME NEW n \in Node, Crash(n) PROVE Serial'
  <2>1. /\ UNCHANGED <<disk, tmp>>
        /\ stage' = [o \in Owner |-> IF o[1] = n THEN "unused" ELSE stage[o]]
        /\ renewer' = [o \in Owner |-> IF o[1] = n THEN Off ELSE renewer[o]]
    BY <1>11 DEF Crash
  <2> QED  BY <2>1 DEF Serial, Guard, Owns
<1>12. CASE Tick
  <2>1. disk' = Older(disk) /\ tmp' = Older(tmp) /\ UNCHANGED stage  BY <1>12 DEF Tick
  <2>2. \A o \in Owner : /\ Owns(disk', o) <=> Owns(disk, o)
                         /\ Owns(tmp', o) <=> Owns(tmp, o)
    BY <2>1, Files, Records
  <2>3. \A o \in Owner : renewer'[o] = Writing => renewer[o] = Writing
    <3>1. ASSUME NEW r, r \in 0..(Step - 1) PROVE r + 1 # Writing
      BY <3>1, LeaseAssumption DEF Writing
    <3> QED  BY <1>12, <3>1 DEF Tick
  <2> QED  BY <2>1, <2>2, <2>3 DEF Serial
<1>13. CASE UNCHANGED vars  BY <1>13 DEF vars, Serial, Owns
<1> QED
  BY <1>1, <1>2, <1>3, <1>4, <1>5, <1>6, <1>7, <1>8, <1>9, <1>10, <1>11, <1>12, <1>13
  DEF Next, OwnerStep

(* lease.rs, leader.rs: for any number of processes and any lease, the     *)
(* process whose elector holds a guard owns the lease file, as long as     *)
(* claims came one at a time and no lease lapsed under its guard.          *)
THEOREM LeaderOwns == Spec => []LeaderOwnsLease
<1> USE Nones, Marks
<1>1. Init => Inv
  <2> SUFFICES ASSUME Init PROVE Inv  OBVIOUS
  <2>1. TypeOK  BY Zenon DEF Init, TypeOK
  <2>2. Slots  BY DEF Init, Slots
  <2>3. ~Disturbance /\ Serial
    BY DEF Init, Disturbance, Claiming, Serial, Guard, Owns
  <2> QED  BY <2>1, <2>2, <2>3 DEF Inv
<1>2. Inv /\ [Next]_vars => Inv'
  <2> SUFFICES ASSUME Inv, [Next]_vars PROVE Inv'  OBVIOUS
  <2>1. TypeOK' /\ Slots'  BY TypeStep, SlotStep DEF Inv
  <2>2. ASSUME ~disturbed' PROVE ~Disturbance' /\ Serial'
    <3>1. CASE Observe
      <4>1. ~disturbed /\ ~Disturbance'  BY <2>2, <3>1, Zenon DEF Observe
      <4> QED  BY <4>1, SerialStep DEF Inv
    <3>2. CASE UNCHANGED vars
      <4>1. ~disturbed /\ ~Disturbance  BY <2>2, <3>2 DEF vars, Inv
      <4>2. ~Disturbance'  BY <4>1, <3>2 DEF vars, Disturbance, Claiming, Guarding
      <4> QED  BY <4>1, <4>2, SerialStep DEF Inv
    <3> QED  BY <3>1, <3>2 DEF Next
  <2> QED  BY <2>1, <2>2 DEF Inv
<1>3. Inv => LeaderOwnsLease  BY DEF Inv, LeaderOwnsLease, Serial, Guard
<1> QED  BY <1>1, <1>2, <1>3, PTL DEF Spec

-------------------------------------------------------------------------------
(***************************************************************************)
(* FileLock and PgLock exclude, for any number of tasks and database       *)
(* sessions.                                                               *)
(***************************************************************************)
(* The file part: the sentinel is never unlinked, so every open descriptor *)
(* is of the file now under the name, and a lock of it is seen by all.     *)
FileInv ==
  /\ inode \in Nat /\ made \in Nat /\ fd \in [Locker -> Nat] /\ flocked \subseteq Locker
  /\ \A o \in Locker : fd[o] # 0 => fd[o] = inode
  /\ \A o \in flocked : fd[o] # 0
  /\ \A o, q \in flocked : o = q

GuardsOf(s) == {o \in guards : Session[o] = s}

(* The database part: one session at a time is in the lock, and it is in   *)
(* it at least as often as it has guards; dropped guards make it more.     *)
PgInv ==
  /\ guards \subseteq Locker /\ depth \in [Sessions -> Nat] /\ gone \subseteq Sessions
  /\ \A s, t \in Sessions : depth[s] > 0 /\ depth[t] > 0 => s = t
  /\ \A s \in Sessions \ gone : Cardinality(GuardsOf(s)) <= depth[s]

(* A step keeps the file part.                                             *)
LEMMA FileStep == FileInv /\ [LocksNext]_lockvars => FileInv'
<1> SUFFICES ASSUME FileInv, [LocksNext]_lockvars PROVE FileInv'
  OBVIOUS
<1> USE DEF FileInv
<1>1. ASSUME NEW o \in Locker, Open(o) PROVE FileInv'
  BY <1>1 DEF Open
<1>2. ASSUME NEW o \in Locker, Flock(o) PROVE FileInv'
  BY <1>2 DEF Flock
<1>3. ASSUME NEW o \in Locker, Unlock(o) PROVE FileInv'
  BY <1>3 DEF Unlock
<1>4. CASE UNCHANGED filevars
  BY <1>4 DEF filevars
<1> QED
  BY <1>1, <1>2, <1>3, <1>4 DEF LocksNext, lockvars, PgAcquire, PgRelease, PgDrop, PgClose

(* A step keeps the database part.                                         *)
LEMMA PgStep ==
  ASSUME PgInv, [LocksNext]_lockvars
  PROVE  PgInv'
<1> USE LocksAssumption DEF PgInv
<1>0. \A s \in Sessions : IsFiniteSet(GuardsOf(s)) /\ Cardinality(GuardsOf(s)) \in Nat
  BY FS_Subset, FS_CardinalityType DEF GuardsOf
<1>1. ASSUME NEW o \in Locker, PgAcquire(o) PROVE PgInv'
  <2>1. Session[o] \in Sessions
    BY DEF Sessions
  <2>2. GuardsOf(Session[o])' = GuardsOf(Session[o]) \cup {o} /\ o \notin GuardsOf(Session[o])
    BY <1>1 DEF PgAcquire, GuardsOf
  <2>3. Cardinality(GuardsOf(Session[o]))' = Cardinality(GuardsOf(Session[o])) + 1
    BY <1>0, <2>1, <2>2, FS_AddElement, Zenon
  <2>4. \A s \in Sessions \ {Session[o]} : GuardsOf(s)' = GuardsOf(s) /\ depth[s] = 0
    BY <1>1 DEF PgAcquire, GuardsOf
  <2> QED
    BY <1>0, <1>1, <2>1, <2>3, <2>4 DEF PgAcquire
<1>2. ASSUME NEW o \in Locker, PgRelease(o) PROVE PgInv'
  <2>1. Session[o] \in Sessions
    BY DEF Sessions
  <2>2. GuardsOf(Session[o])' = GuardsOf(Session[o]) \ {o} /\ o \in GuardsOf(Session[o])
    BY <1>2 DEF PgRelease, GuardsOf
  <2>3. Cardinality(GuardsOf(Session[o]))' = Cardinality(GuardsOf(Session[o])) - 1
    BY <1>0, <2>1, <2>2, FS_RemoveElement, Zenon
  <2>4. \A s \in Sessions \ {Session[o]} : GuardsOf(s)' = GuardsOf(s)
    BY <1>2 DEF PgRelease, GuardsOf
  <2>5. Cardinality(GuardsOf(Session[o])) # 0
    BY <1>0, <2>1, <2>2, FS_EmptySet
  <2>6. CASE Session[o] \in gone
    BY <1>0, <1>2, <2>4, <2>6 DEF PgRelease
  <2>7. CASE Session[o] \notin gone
    <3>1. depth[Session[o]] \in Nat \ {0}
      BY <1>0, <2>1, <2>5, <2>7
    <3>2. \A s \in Sessions : depth'[s] \in Nat /\ depth'[s] <= depth[s]
      BY <1>2, <2>7, <3>1 DEF PgRelease
    <3>3. \A s \in Sessions \ gone : Cardinality(GuardsOf(s))' <= depth'[s]
      BY <1>0, <1>2, <2>1, <2>3, <2>4, <2>7, <3>1 DEF PgRelease
    <3>4. depth' \in [Sessions -> Nat]
      BY <1>2, <2>7, <3>2, Zenon DEF PgRelease
    <3>5. \A s, t \in Sessions : depth'[s] > 0 /\ depth'[t] > 0 => s = t
      BY <3>2
    <3>6. guards' \subseteq Locker /\ gone' = gone
      BY <1>2 DEF PgRelease
    <3> QED  BY <3>3, <3>4, <3>5, <3>6
  <2> QED
    BY <2>6, <2>7
<1>3. ASSUME NEW o \in Locker, PgDrop(o) PROVE PgInv'
  <2>1. \A s \in Sessions : GuardsOf(s)' \subseteq GuardsOf(s)
    BY <1>3 DEF PgDrop, GuardsOf
  <2>2. ASSUME NEW s \in Sessions
        PROVE  /\ Cardinality(GuardsOf(s))' <= Cardinality(GuardsOf(s))
               /\ Cardinality(GuardsOf(s))' \in Nat
    BY <1>0, <2>1, FS_Subset, FS_CardinalityType
  <2>3. ASSUME NEW s \in Sessions \ gone PROVE Cardinality(GuardsOf(s))' <= depth[s]
    BY <1>0, <2>2
  <2> QED
    BY <1>3, <2>3 DEF PgDrop
<1>4. ASSUME NEW s \in Sessions, PgClose(s) PROVE PgInv'
  BY <1>4 DEF PgClose, GuardsOf
<1>5. CASE UNCHANGED pgvars
  BY <1>5 DEF pgvars, GuardsOf
<1> QED
  BY <1>1, <1>2, <1>3, <1>4, <1>5 DEF LocksNext, lockvars, Open, Flock, Unlock

(* At most one owner holds the file lock, and the guards of the advisory   *)
(* lock whose connection lives belong to one session.                      *)
THEOREM LocksExclude == LocksSpec => []OneLockHolder
<1>1. LocksInit => FileInv /\ PgInv
  <2> SUFFICES ASSUME LocksInit PROVE FileInv /\ PgInv
    OBVIOUS
  <2>1. FileInv  BY DEF LocksInit, FileInv
  <2>2. \A s \in Sessions : Cardinality(GuardsOf(s)) = 0
    BY FS_EmptySet DEF LocksInit, GuardsOf
  <2>3. PgInv  BY <2>2 DEF LocksInit, PgInv
  <2> QED  BY <2>1, <2>3
<1>2. PgInv /\ [LocksNext]_lockvars => PgInv'
  BY PgStep
<1>3. FileInv /\ PgInv => OneLockHolder
  <2> SUFFICES ASSUME FileInv, PgInv PROVE OneLockHolder
    OBVIOUS
  <2>1. ASSUME NEW o \in guards, Session[o] \notin gone PROVE depth[Session[o]] > 0
    <3>1. Session[o] \in Sessions /\ o \in GuardsOf(Session[o])
      BY DEF PgInv, Sessions, GuardsOf
    <3>2. IsFiniteSet(GuardsOf(Session[o]))
      BY LocksAssumption, FS_Subset DEF PgInv, GuardsOf
    <3>3. Cardinality(GuardsOf(Session[o])) \in Nat \ {0}
      BY <3>1, <3>2, FS_EmptySet, FS_CardinalityType
    <3> QED  BY <2>1, <3>1, <3>3 DEF PgInv
  <2> QED  BY <2>1 DEF OneLockHolder, FileInv, PgInv, Sessions
<1> QED  BY <1>1, <1>2, <1>3, FileStep, PTL DEF LocksSpec
===============================================================================
