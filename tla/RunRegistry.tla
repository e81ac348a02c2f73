------------------------------ MODULE RunRegistry -----------------------------
(***************************************************************************)
(* The registry of runs of the MCP server (mcp.rs): insert_run admits a    *)
(* run under an id, evicting a finished run when the registry is full, and *)
(* remembers the ids it has used; every tool finds its run by id.  A run   *)
(* is the number of its insertion.                                         *)
(***************************************************************************)
EXTENDS Naturals, Sequences, SequencesExt

CONSTANTS
  RunId,
  MaxRuns,        \* MAX_RUNS
  Remembered,     \* MAX_REMEMBERED_RUN_IDS
  MaxInserts      \* bound: insertions

ASSUME RunRegistryAssumption == MaxRuns \in Nat \ {0} /\ Remembered \in Nat

VARIABLES
  runs,           \* the runs held, oldest first
  used_run_ids,
  finished,       \* runs whose fleet has stopped
  issued          \* history: the ids of all insertions, in order

regvars == <<runs, used_run_ids, finished, issued>>

RegistryInit == runs = <<>> /\ used_run_ids = <<>> /\ finished = {} /\ issued = <<>>

(* find_run: the first run under the id, 0 if none.                        *)
find_run(id) ==
  LET at == SelectInSeq(runs, LAMBDA r : issued[r] = id) IN
  IF at = 0 THEN 0 ELSE runs[at]

(* insert_run's victim: the first finished run.                            *)
Victim == SelectInSeq(runs, LAMBDA r : r \in finished)

(* With a bug, ids are forgotten with the runs they named.                 *)
UsedNow(id) == find_run(id) # 0
Used(id) == find_run(id) # 0 \/ Contains(used_run_ids, id)

insert_run(id) ==
  /\ Len(issued) < MaxInserts
  /\ ~Used(id)
  /\ Len(runs) >= MaxRuns => Victim # 0
  /\ issued' = Append(issued, id)
  /\ runs' = Append(IF Len(runs) >= MaxRuns THEN RemoveAt(runs, Victim) ELSE runs, Len(issued'))
  /\ used_run_ids' = LET u == Append(used_run_ids, id) IN
                     IF Len(u) > Remembered THEN Tail(u) ELSE u
  /\ UNCHANGED finished

(* mark_finished, when the run's supervisor returns.                       *)
mark_finished(r) ==
  /\ r \in DOMAIN issued \ finished
  /\ finished' = finished \cup {r}
  /\ UNCHANGED <<runs, used_run_ids, issued>>

RegistryNext ==
  \/ \E id \in RunId : insert_run(id)
  \/ \E r \in DOMAIN issued : mark_finished(r)

RegistrySpec == RegistryInit /\ [][RegistryNext]_regvars

-------------------------------------------------------------------------------
(* A caller that was given an id reaches the run it started, or, once that *)
(* run has finished, none: another run answers to the id only after so     *)
(* many insertions that the registry has forgotten it.                     *)
IdNamesItsRun ==
  \A r \in DOMAIN issued :
    LET f == find_run(issued[r]) IN
    f = r \/ (r \in finished /\ (f = 0 \/ f - r > Remembered))
===============================================================================
