-------------------------------- MODULE DbBackup ------------------------------
(***************************************************************************)
(* db_backup.rs: every database is dumped in turn, the directory is        *)
(* rotated, and the task sleeps until the next day.  A dump is written to  *)
(* a temporary name and renamed, or, with a key, encrypted by age straight *)
(* into its final name.  Any step may fail, and the watchdog may crash and *)
(* start again, which begins a round at once.                              *)
(*                                                                         *)
(* A dump's name is its database's label and the time it was taken.        *)
(***************************************************************************)
EXTENDS Naturals, FiniteSets

CONSTANTS
  Uri,        \* the databases discovered
  Retain,     \* --db-backup-retain
  MaxStamp,   \* bound: the clock
  NoUri

ASSUME DbBackupAssumption == Retain \in Nat \ {0}

VARIABLES
  keyed,      \* --db-backup-key is set
  todo,       \* databases still to be dumped in this round
  dumping,    \* the database at hand, and what run_backup is doing
  dumps,      \* files with a final name: [db, stamp, whole]
  now,
  saved,      \* history: databases with a completed dump
  torn        \* history: a crash left a part of an encrypted dump

dbvars == <<keyed, todo, dumping, dumps, now, saved, torn>>

NoDump == [db |-> NoUri, at |-> "idle"]

BackupInit ==
  /\ keyed \in BOOLEAN /\ todo = Uri /\ dumping = NoDump
  /\ dumps = {} /\ now = 0 /\ saved = {} /\ torn = FALSE

(* The temporary file takes no name a rotation looks at.                   *)
pg_dump(u) ==
  /\ dumping = NoDump /\ u \in todo /\ now < MaxStamp
  /\ dumping' = [db |-> u, at |-> "dump"] /\ todo' = todo \ {u}
  /\ now' = now + 1
  /\ UNCHANGED <<keyed, dumps, saved, torn>>

File(whole) == [db |-> dumping.db, stamp |-> now, whole |-> whole]

(* rename: the dump gets its name when it is complete.  With a bug it is   *)
(* written under that name from the start.                                 *)
FinalizeEarly ==
  /\ dumping.at = "dump" /\ ~keyed
  /\ dumping' = [dumping EXCEPT !.at = "age"] /\ dumps' = dumps \cup {File(FALSE)}
  /\ UNCHANGED saved
Finalize ==
  /\ dumping.at = "dump" /\ ~keyed
  /\ dumping' = NoDump /\ dumps' = dumps \cup {File(TRUE)}
  /\ saved' = saved \cup {dumping.db}

(* age -o final_path.                                                      *)
AgeStarts ==
  /\ dumping.at = "dump" /\ keyed
  /\ dumping' = [dumping EXCEPT !.at = "age"] /\ dumps' = dumps \cup {File(FALSE)}
  /\ UNCHANGED saved

AgeEnds ==
  /\ dumping.at = "age"
  /\ dumping' = NoDump /\ dumps' = (dumps \ {File(FALSE)}) \cup {File(TRUE)}
  /\ saved' = saved \cup {dumping.db}

(* pg_dump, age or the rename fails: both files are removed.               *)
Fails ==
  /\ dumping # NoDump
  /\ dumping' = NoDump /\ dumps' = dumps \ {File(FALSE)}
  /\ UNCHANGED saved

run_backup ==
  /\ Finalize \/ AgeStarts \/ AgeEnds \/ Fails
  /\ UNCHANGED <<keyed, todo, now, torn>>

(* rotate: all but the newest dumps of each label go, whole or not.        *)
Newer(f) == {g \in dumps : g.db = f.db /\ g.stamp > f.stamp}
Excess == {f \in dumps : Cardinality(Newer(f)) >= Retain}

(* The end of a round, and the sleep until the next.                       *)
rotate ==
  /\ dumping = NoDump /\ todo = {} /\ now < MaxStamp
  /\ dumps' = dumps \ Excess /\ todo' = Uri
  /\ UNCHANGED <<keyed, dumping, now, saved, torn>>

BackupCrash ==
  /\ dumping' = NoDump /\ todo' = Uri
  /\ torn' = (torn \/ (keyed /\ dumping.at = "age"))
  /\ UNCHANGED <<keyed, dumps, now, saved>>

BackupNext == (\E u \in Uri : pg_dump(u)) \/ run_backup \/ rotate \/ BackupCrash

BackupSpec == BackupInit /\ [][BackupNext]_dbvars

-------------------------------------------------------------------------------
(* A database once backed up keeps a restorable dump on disk: failed dumps *)
(* and crashes never push the good ones out of the retention window.  A    *)
(* crash inside age is the exception: what it wrote counts as a dump.      *)
LastGoodKept ==
  torn \/ \A u \in saved : \E f \in dumps : f.db = u /\ f.whole
===============================================================================
