--------------------------------- MODULE Locks --------------------------------
(***************************************************************************)
(* The two coordination locks without expiry, for one key: FileLock        *)
(* (lock.rs, flock on a sentinel file) and PgLock (pg_lock.rs, a session   *)
(* advisory lock of PostgreSQL).  Both try once and never wait.            *)
(***************************************************************************)
EXTENDS Naturals, FiniteSets

CONSTANTS
  Locker,       \* tasks that want the lock
  Session,     \* Session[o]: the database connection the task uses
  MaxInode,    \* bound: files created under the lock's name
  MaxDepth     \* bound: locks a session holds at once

ASSUME LocksAssumption == IsFiniteSet(Locker)

VARIABLES
  inode,       \* the file under the name, 0 if none
  made,        \* files made so far
  fd,          \* fd[o]: the file the task has open, 0 if none
  flocked,     \* tasks that hold the flock of their file
  guards,      \* tasks that hold a PgGuard
  depth,       \* depth[s]: how often the session holds the advisory lock
  gone         \* sessions whose connection is closed

filevars == <<inode, made, fd, flocked>>
pgvars == <<guards, depth, gone>>
lockvars == <<filevars, pgvars>>

Sessions == {Session[o] : o \in Locker}

LocksInit ==
  /\ inode = 0 /\ made = 0 /\ fd = [o \in Locker |-> 0] /\ flocked = {}
  /\ guards = {} /\ depth = [s \in Sessions |-> 0] /\ gone = {}

(* FileLock::acquire opens the file, making it if need be ...              *)
Open(o) ==
  /\ fd[o] = 0
  /\ (inode = 0) => made < MaxInode
  /\ inode' = IF inode = 0 THEN made + 1 ELSE inode
  /\ made' = IF inode = 0 THEN made + 1 ELSE made
  /\ fd' = [fd EXCEPT ![o] = inode']
  /\ UNCHANGED <<flocked, pgvars>>

(* ... and tries the lock; on contention the descriptor is closed.         *)
Flock(o) ==
  /\ fd[o] # 0 /\ o \notin flocked
  /\ IF \E q \in flocked : fd[q] = fd[o]
     THEN fd' = [fd EXCEPT ![o] = 0] /\ UNCHANGED flocked
     ELSE flocked' = flocked \cup {o} /\ UNCHANGED fd
  /\ UNCHANGED <<inode, made, pgvars>>

(* release, Drop, or the death of the process.  The sentinel stays; with   *)
(* the old bug it was unlinked.                                            *)
UnlockUnlinks(o) ==
  /\ o \in flocked /\ flocked' = flocked \ {o} /\ fd' = [fd EXCEPT ![o] = 0]
  /\ inode' = 0 /\ UNCHANGED <<made, pgvars>>
Unlock(o) ==
  /\ o \in flocked /\ flocked' = flocked \ {o} /\ fd' = [fd EXCEPT ![o] = 0]
  /\ UNCHANGED <<inode, made, pgvars>>

(* pg_try_advisory_lock: a session's own lock does not stop it, and counts. *)
PgAcquire(o) ==
  /\ o \notin guards /\ Session[o] \notin gone
  /\ depth[Session[o]] < MaxDepth
  /\ \A s \in Sessions \ {Session[o]} : depth[s] = 0
  /\ depth' = [depth EXCEPT ![Session[o]] = @ + 1]
  /\ guards' = guards \cup {o}
  /\ UNCHANGED <<gone, filevars>>

(* release: pg_advisory_unlock, whose failure on a dead connection is      *)
(* ignored.                                                                *)
PgRelease(o) ==
  /\ o \in guards /\ guards' = guards \ {o}
  /\ depth' = IF Session[o] \in gone THEN depth ELSE [depth EXCEPT ![Session[o]] = @ - 1]
  /\ UNCHANGED <<gone, filevars>>

(* A guard dropped without release leaves the session its lock.            *)
PgDrop(o) ==
  /\ o \in guards /\ guards' = guards \ {o}
  /\ UNCHANGED <<depth, gone, filevars>>

(* The connection closes: the server frees what the session held; the      *)
(* tasks that have its guards are not told.                                *)
PgClose(s) ==
  /\ s \notin gone /\ gone' = gone \cup {s}
  /\ depth' = [depth EXCEPT ![s] = 0]
  /\ UNCHANGED <<guards, filevars>>

LocksNext ==
  \/ \E o \in Locker : \/ Open(o) \/ Flock(o) \/ Unlock(o)
                      \/ PgAcquire(o) \/ PgRelease(o) \/ PgDrop(o)
  \/ \E s \in Sessions : PgClose(s)

LocksSpec == LocksInit /\ [][LocksNext]_lockvars

-------------------------------------------------------------------------------
(* One owner at a time holds the file lock, although opening the file and  *)
(* locking it are two steps and the holder may release between them; and   *)
(* the guards of the advisory lock whose connection lives belong to one    *)
(* session, however often it locked, released and dropped.                 *)
OneLockHolder ==
  /\ \A o, q \in flocked : o = q
  /\ \A o, q \in guards : Session[o] = Session[q] \/ {Session[o], Session[q]} \cap gone # {}
===============================================================================
