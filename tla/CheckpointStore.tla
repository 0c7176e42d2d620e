--------------------------- MODULE CheckpointStore ---------------------------
(***************************************************************************)
(* CheckpointStore (app/runtime/checkpoint.py) with the integrity index of *)
(* the production composition, under the use the ExecutionCoordinator      *)
(* makes of it: every save carries the record's next generation, and what  *)
(* a constructor can load becomes the coordinator's records.  A save is    *)
(* synchronous, but it replaces two files one after the other: a crash or  *)
(* an OSError can come between them.                                       *)
(***************************************************************************)
EXTENDS Naturals, FiniteSets

CONSTANTS
  Ids,           \* execution ids
  MaxGen,        \* bound on generations
  MaxRuns,       \* bound on executions started under one id
  MaxCached,     \* max_cached_terminal
  MaxCrashes,    \* bound on process crashes
  MayFail,       \* can a write fail, or a payload name a secret?
  MayRollBack    \* can an old copy of a file come back (a restored backup)?

ASSUME StoreAssumption ==
  /\ IsFiniteSet(Ids)
  /\ MaxGen \in Nat \ {0} /\ MaxRuns \in Nat \ {0} /\ MaxCached \in Nat \ {0}
  /\ MaxCrashes \in Nat
  /\ MayFail \in BOOLEAN /\ MayRollBack \in BOOLEAN

VARIABLES
  proc,     \* the process: running, dead, or refusing to start
  client,   \* the checkpoint the coordinator last built for each record
  runs,     \* how many executions have been started under each id
  cache,    \* self._checkpoints
  anchor,   \* self._integrity_entries: the checkpoint expected in each file
  file,     \* <directory>/<execution_id>.json
  index,    \* checkpoint_integrity.json
  written,  \* every content a file has had
  rolled,   \* files replaced by an older copy
  acked,    \* the checkpoint of the latest save that returned normally
  crashes

vars == <<proc, client, runs, cache, anchor, file, index, written, rolled,
          acked, crashes>>
disks == <<file, index, written, rolled>>

(* A checkpoint: its generation, whether its status is terminal, and which *)
(* of the executions under this id it belongs to.                          *)
Checkpoint == [gen: 1..MaxGen, ended: BOOLEAN, run: 1..MaxRuns]
None       == [gen |-> 0, ended |-> FALSE, run |-> 0]
Maybe      == Checkpoint \cup {None}

TypeOK ==
  /\ proc \in {"up", "down", "refused"}
  /\ client \in [Ids -> Maybe] /\ cache \in [Ids -> Maybe]
  /\ file \in [Ids -> Maybe] /\ acked \in [Ids -> Maybe]
  /\ runs \in [Ids -> 0..MaxRuns]
  /\ anchor \in [Ids -> Maybe]
  /\ index \in [exists: BOOLEAN, entries: [Ids -> Maybe]]
  /\ written \in [Ids -> SUBSET Checkpoint]
  /\ rolled \subseteq Ids
  /\ crashes \in 0..MaxCrashes

Init ==
  /\ proc = "up"
  /\ client = [e \in Ids |-> None] /\ cache = [e \in Ids |-> None]
  /\ file = [e \in Ids |-> None] /\ acked = [e \in Ids |-> None]
  /\ runs = [e \in Ids |-> 0]
  /\ anchor = [e \in Ids |-> None]
  /\ index = [exists |-> FALSE, entries |-> [e \in Ids |-> None]]
  /\ written = [e \in Ids |-> {}]
  /\ rolled = {}
  /\ crashes = 0

-----------------------------------------------------------------------------
(* What save_checkpoint checks and what a successful load or save leaves *)

(* The checkpoints _save_checkpoint may build next for e: the first of a   *)
(* new execution, or the next generation of the record.                    *)
Builds(e) ==
  IF client[e] = None
  THEN {[gen |-> 1, ended |-> FALSE, run |-> runs[e] + 1]}
  ELSE {[client[e] EXCEPT !.gen = @ + 1, !.ended = end] :
          end \in {client[e].ended, TRUE}}

(* Mutant: only the cache is asked. *)
StaleByCache(e, c) == c.gen <= cache[e].gen

(* CheckpointStaleError *)
Stale(e, c) == c.gen <= cache[e].gen \/ c.gen <= anchor[e].gen

(* Mutant: an entry that exists is left as it is. *)
AnchoredOnce(e, c) ==
  [anchor EXCEPT ![e] = IF @ = None THEN c ELSE @]

(* The entries with the generation and digest of the file just written. *)
Anchored(e, c) == [anchor EXCEPT ![e] = c]

(* Mutant: the file is not compared with its entry. *)
AcceptsListed(entries, e) == file[e] # None /\ entries[e] # None

(* load_checkpoint accepts e's file: generation and digest are expected. *)
Accepts(entries, e) == file[e] # None /\ entries[e] = file[e]

(* _prune_cached_terminal: the caches it can leave, when the order of the  *)
(* dictionary is not known.                                                *)
Prunings(c, spare) ==
  LET ended  == {e \in Ids : c[e].ended}
      Excess == IF Cardinality(ended) > MaxCached
                THEN Cardinality(ended) - MaxCached ELSE 0
  IN  {[e \in Ids |-> IF e \in drop THEN None ELSE c[e]] :
         drop \in {d \in SUBSET (ended \ spare) : Cardinality(d) = Excess}}

-----------------------------------------------------------------------------
(* save_checkpoint, as _save_checkpoint calls it *)

Attempts(e, c) ==
  /\ proc = "up"
  /\ c \in Checkpoint
  /\ client' = [client EXCEPT ![e] = c]
  /\ runs' = [runs EXCEPT ![e] = IF c.run > @ THEN c.run ELSE @]

(* Mutant: the cache is a generation ahead. *)
CachedAhead(e, c) == [cache EXCEPT ![e] = [c EXCEPT !.gen = @ + 1]]

Cached(e, c) == [cache EXCEPT ![e] = c]

Replaces(e, c) ==
  /\ file' = [file EXCEPT ![e] = c]
  /\ written' = [written EXCEPT ![e] = @ \cup {c}]
  /\ rolled' = rolled \ {e}

Save(e) ==
  \E c \in Builds(e) :
    /\ Attempts(e, c) /\ ~Stale(e, c)
    /\ cache' \in Prunings(Cached(e, c), {e})
    /\ Replaces(e, c)
    /\ anchor' = Anchored(e, c)
    /\ index' = [exists |-> TRUE, entries |-> anchor']
    /\ acked' = [acked EXCEPT ![e] = c]
    /\ UNCHANGED <<proc, crashes>>

(* A CheckpointError, which _save_checkpoint swallows: the generation does *)
(* not supersede the known one, or a field is named like a secret.         *)
SaveRefused(e) ==
  \E c \in Builds(e) :
    /\ Attempts(e, c) /\ (Stale(e, c) \/ MayFail)
    /\ UNCHANGED <<proc, cache, anchor, disks, acked, crashes>>

(* An OSError before the checkpoint file is replaced. *)
FileWriteFails(e) ==
  \E c \in Builds(e) :
    /\ MayFail /\ Attempts(e, c) /\ ~Stale(e, c)
    /\ cache' = Cached(e, c)
    /\ UNCHANGED <<proc, anchor, disks, acked, crashes>>

(* An OSError of _save_integrity_index, before or after it replaced the    *)
(* index (secure_file runs last).                                          *)
IndexWriteFails(e) ==
  \E c \in Builds(e) :
    /\ MayFail /\ Attempts(e, c) /\ ~Stale(e, c)
    /\ cache' = Cached(e, c)
    /\ Replaces(e, c)
    /\ anchor' = Anchored(e, c)
    /\ index' \in {index, [exists |-> TRUE, entries |-> anchor']}
    /\ UNCHANGED <<proc, acked, crashes>>

-----------------------------------------------------------------------------
(* reconcile: every file is loaded again, past the cache. *)
Reconcile ==
  /\ proc = "up"
  /\ cache' \in Prunings([e \in Ids |-> IF Accepts(anchor, e) THEN file[e]
                                        ELSE cache[e]], {})
  /\ UNCHANGED <<proc, client, runs, anchor, disks, acked, crashes>>

(* The coordinator's _prune_terminal_records forgets an ended execution. *)
Forget(e) ==
  /\ proc = "up" /\ client[e].ended
  /\ client' = [client EXCEPT ![e] = None]
  /\ UNCHANGED <<proc, runs, cache, anchor, disks, acked, crashes>>

Dies ==
  /\ proc = "up" /\ crashes < MaxCrashes
  /\ proc' = "down"
  /\ crashes' = crashes + 1
  /\ cache' = [e \in Ids |-> None]
  /\ anchor' = [e \in Ids |-> None]
  /\ client' = [e \in Ids |-> None]

Crash ==
  /\ Dies
  /\ UNCHANGED <<runs, disks, acked>>

(* The process dies between the two os.replace calls of a save. *)
CrashInSave(e) ==
  \E c \in Builds(e) :
    /\ c \in Checkpoint /\ ~Stale(e, c)
    /\ Dies
    /\ Replaces(e, c)
    /\ runs' = [runs EXCEPT ![e] = IF c.run > @ THEN c.run ELSE @]
    /\ UNCHANGED <<index, acked>>

(* An older copy of a checkpoint file comes back while nothing runs. *)
OldFileReturns(e) ==
  /\ MayRollBack /\ proc = "down"
  /\ \E c \in written[e] :
       /\ c.gen < file[e].gen
       /\ file' = [file EXCEPT ![e] = c]
  /\ rolled' = rolled \cup {e}
  /\ UNCHANGED <<proc, client, runs, cache, anchor, index, written, acked,
                 crashes>>

(* _load_integrity_index refuses to start when files exist without index. *)
RefuseToStart ==
  /\ proc = "down"
  /\ ~index.exists /\ \E e \in Ids : file[e] # None
  /\ proc' = "refused"
  /\ UNCHANGED <<client, runs, cache, anchor, disks, acked, crashes>>

(* __init__, and list_checkpoints as _restore_checkpoints uses it: every   *)
(* file the index vouches for becomes a record again.                      *)
Restart ==
  /\ proc = "down"
  /\ index.exists \/ \A e \in Ids : file[e] = None
  /\ proc' = "up"
  /\ anchor' = index.entries
  /\ LET loaded == [e \in Ids |-> IF Accepts(index.entries, e) THEN file[e]
                                  ELSE None]
     IN  client' = loaded /\ cache' \in Prunings(loaded, {})
  /\ UNCHANGED <<runs, disks, acked, crashes>>

Next ==
  \/ \E e \in Ids : \/ Save(e) \/ SaveRefused(e) \/ FileWriteFails(e)
                    \/ IndexWriteFails(e) \/ CrashInSave(e)
                    \/ Forget(e) \/ OldFileReturns(e)
  \/ Reconcile \/ Crash \/ RefuseToStart \/ Restart

Spec == Init /\ [][Next]_vars

-----------------------------------------------------------------------------
(* Properties *)

(* What the store holds of an execution is never older than the latest     *)
(* save it acknowledged, even when an old file comes back: generations,    *)
(* index and digest of load_checkpoint.                                    *)
NeverServesOlder ==
  \A e \in Ids : cache[e] # None => cache[e].gen >= acked[e].gen

(* A save only ever replaces a file by a generation newer than the latest  *)
(* acknowledged one, whatever the cache has forgotten, however often the   *)
(* id was used and after any crash (the two CheckpointStaleError checks).  *)
AckedNotOverwritten ==
  [][\A e \in Ids \ rolled' :
       file'[e] # file[e] => file'[e].gen > acked[e].gen]_vars

(* While the latest save of a record is acknowledged, a restart would      *)
(* restore exactly that record, whatever failed for the other executions   *)
(* that share the index.                                                   *)
AckedIsDurable ==
  \A e \in Ids :
    proc = "up" /\ client[e] # None /\ client[e] = acked[e] =>
      Accepts(index.entries, e) /\ file[e] = acked[e]

(* The store's claim to be atomic: what a save acknowledged, this or a     *)
(* later checkpoint of it, is loadable in every later process.             *)
AckedSurvives ==
  \A e \in Ids \ rolled :
    proc = "up" /\ acked[e] # None => Accepts(anchor, e)

(* The files the program wrote itself never keep it from starting.         *)
NeverRefused == proc # "refused"

(* The durable checkpoint of a record is one of that very execution.       *)
RestoresThisRun ==
  \A e \in Ids : proc = "up" /\ client[e] # None => file[e].run = client[e].run

(* What a save acknowledged is neither lost, nor served older, nor         *)
(* overwritten, through failing writes, crashes, reused ids and old copies *)
(* of a file.                                                              *)
CheckpointSafe ==
  /\ [](/\ TypeOK /\ NeverServesOlder /\ AckedIsDurable)
  /\ AckedNotOverwritten
=============================================================================
