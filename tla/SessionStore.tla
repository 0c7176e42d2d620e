---------------------------- MODULE SessionStore ----------------------------
(***************************************************************************)
(* SessionManager (app/memory/session_manager.py): sessions in folders on  *)
(* disk, an index of them, and a bounded cache.  One lock is held over an  *)
(* operation, so operations do not interleave; an operation writes several *)
(* files, each of them atomically, and the process may die, or a write may *)
(* raise, between any two.                                                 *)
(***************************************************************************)
EXTENDS Naturals, Sequences, Functions

CONSTANTS
  Sessions,
  Principals,
  Default,      \* DEFAULT_LOCAL_PRINCIPAL_ID
  None,
  Events,       \* ids of history entries
  Keep,         \* max_history_entries
  CacheBound,   \* max_cached_sessions
  MaxTurn,      \* bound on next_turn_number
  MaxMishaps    \* bound on the crashes and the writes that raise

ASSUME SessionAssumption ==
  /\ Default \in Principals /\ None \notin Principals
  /\ Keep \in Nat \ {0} /\ CacheBound \in Nat \ {0} /\ MaxTurn \in Nat \ {0}
  /\ MaxMishaps \in Nat

VARIABLES
  metadata,   \* disk: the owner in metadata.json
  memory,     \* disk: session_memory.json
  archive,    \* disk: session_memory_archive.json
  indexFile,  \* disk: the index, session -> owner
  index,      \* SessionIndex._entries
  cache,      \* the cached sessions, least recently used first
  object,     \* the Session object of each cached session
  job,        \* the operation that holds the lock
  acked,      \* what append_history has returned for
  torn,       \* the sessions whose deletion was cut short
  shaken,     \* the sessions a write of which has raised
  mishaps

vars == <<metadata, memory, archive, indexFile, index, cache, object, job,
          acked, torn,
                 shaken, mishaps>>
disk == <<metadata, memory, archive, indexFile>>

Entry   == [id: Events, turn: 1..MaxTurn]
Absent  == [history |-> <<>>, next |-> 0]
Empty   == [history |-> <<>>, next |-> 1]
NoObject == [owner |-> None, memory |-> Absent]
Idle    == [kind |-> "none", on |-> {}, at |-> "idle", event |-> None,
            over |-> <<>>, owner |-> None, memory |-> Absent]
Files   == {"metadata", "memory", "archive"}

Owners  == Principals \cup {None}
Memory  == [history: Seq(Entry), next: 0..(MaxTurn + 1)]

TypeOK ==
  /\ metadata \in [Sessions -> Owners] /\ memory \in [Sessions -> Memory]
  /\ archive \in [Sessions -> Seq(Entry)]
  /\ indexFile \in [Sessions -> Owners] /\ index \in [Sessions -> Owners]
  /\ IsInjective(cache) /\ Range(cache) \subseteq Sessions
  /\ Len(cache) <= CacheBound
  /\ object \in [Sessions -> [owner: Owners, memory: Memory]]
  /\ job.kind \in {"none", "create", "append", "touch", "delete"}
  /\ job.on \subseteq Sessions
  /\ acked \subseteq Sessions \X Events /\ torn \subseteq Sessions
  /\ shaken \subseteq Sessions /\ mishaps \in 0..MaxMishaps

Init ==
  /\ metadata = [s \in Sessions |-> None]
  /\ memory = [s \in Sessions |-> Absent]
  /\ archive = [s \in Sessions |-> <<>>]
  /\ indexFile = [s \in Sessions |-> None] /\ index = indexFile
  /\ cache = <<>>
  /\ object = [s \in Sessions |-> NoObject]
  /\ job = Idle /\ acked = {} /\ torn = {} /\ shaken = {} /\ mishaps = 0

-----------------------------------------------------------------------------
Ids(history) == {history[i].id : i \in DOMAIN history}

(* The cache without a session, the others in their order.                 *)
Others(s) ==
  IF s \notin Range(cache) THEN cache
  ELSE LET place == CHOOSE i \in 1..Len(cache) : cache[i] = s
       IN  [i \in 1..(Len(cache) - 1) |->
              IF i < place THEN cache[i] ELSE cache[i + 1]]

(* Mutant: the cache is not bounded.                                       *)
CachedUnbounded(s) == Append(Others(s), s)

(* _cache_session, _bound_cache                                            *)
Cached(s) ==
  LET most == Append(Others(s), s)
  IN IF Len(most) > CacheBound THEN Tail(most) ELSE most

Objects(s, o) ==
  [x \in Sessions |-> IF x = s THEN o
                     ELSE IF x \in Range(Cached(s)) THEN object[x] ELSE NoObject]

(* _load_session_locked: the cached object, else what the files hold, with *)
(* a default for a file that is missing.                                   *)
Loadable(s) == s \in Range(cache) \/ index[s] # None
Loaded(s) ==
  IF s \in Range(cache) THEN object[s]
  ELSE [owner  |-> IF metadata[s] = None THEN Default ELSE metadata[s],
        memory |-> IF memory[s] = Absent THEN Empty ELSE memory[s]]

(* The start of _write_session and _rotate_history: the overflow is cut    *)
(* from the object before anything is written.                             *)
Overflow(history) ==
  IF Len(history) > Keep THEN SubSeq(history, 1, Len(history) - Keep) ELSE <<>>
Kept(history) ==
  SubSeq(history, Len(Overflow(history)) + 1, Len(history))
(* Mutant: rotation forgets the sidecar.                                   *)
WriteJobNoArchive(kind, s, e, o) ==
  [kind |-> kind, on |-> {s}, event |-> e, owner |-> o.owner,
   at |-> "metadata", over |-> <<>>,
   memory |-> [o.memory EXCEPT !.history = Kept(@)]]

WriteJob(kind, s, e, o) ==
  [kind |-> kind, on |-> {s}, event |-> e, owner |-> o.owner,
   at |-> IF Overflow(o.memory.history) = <<>> THEN "metadata" ELSE "archive",
   over |-> Overflow(o.memory.history),
   memory |-> [o.memory EXCEPT !.history = Kept(@)]]

(* create_session: the new object is cached once it is written.            *)
CreateSession(s, p) ==
  /\ job = Idle /\ index[s] = None
  /\ job' = WriteJob("create", s, None, [owner |-> p, memory |-> Empty])
  /\ UNCHANGED <<disk, index, cache, object, acked, torn,
                 shaken, mishaps>>

(* load_session: a foreign principal is refused after the load.            *)
LoadSession(s) ==
  /\ job = Idle /\ Loadable(s)
  /\ cache' = Cached(s) /\ object' = Objects(s, Loaded(s))
  /\ UNCHANGED <<disk, index, job, acked, torn,
                 shaken, mishaps>>

(* The cached object is changed in place, before it is written.            *)
Change(kind, s, e, o) ==
  LET w == WriteJob(kind, s, e, o)
  IN /\ job' = w
     /\ cache' = Cached(s)
     /\ object' = Objects(s, [owner |-> w.owner, memory |-> w.memory])

(* Mutant: the turn number is read off the length of the history.          *)
AppendHistoryByLength(s, e) ==
  /\ job = Idle /\ Loadable(s)
  /\ LET m == Loaded(s).memory IN
     /\ e \notin Ids(m.history) /\ m.next <= MaxTurn
     /\ Change("append", s, e,
               [owner |-> Loaded(s).owner,
                memory |-> [history |-> Append(m.history,
                              [id |-> e, turn |-> Len(m.history) + 1]),
                            next |-> m.next + 1]])
  /\ UNCHANGED <<disk, index, acked, torn,
                 shaken, mishaps>>

(* append_history; an id that is in the history is skipped.                *)
AppendHistory(s, e) ==
  /\ job = Idle /\ Loadable(s)
  /\ LET m == Loaded(s).memory IN
     IF e \in Ids(m.history)
     THEN /\ cache' = Cached(s) /\ object' = Objects(s, Loaded(s))
          /\ acked' = acked \cup {<<s, e>>}
          /\ UNCHANGED job
     ELSE /\ m.next <= MaxTurn
          /\ Change("append", s, e,
                    [owner |-> Loaded(s).owner,
                     memory |-> [history |-> Append(m.history,
                                                    [id |-> e, turn |-> m.next]),
                                 next |-> m.next + 1]])
          /\ UNCHANGED acked
  /\ UNCHANGED <<disk, index, torn, shaken, mishaps>>

(* update_metadata and save_session leave the history and the owner alone, *)
(* and write everything; add_memory_entry, which upserts a fact, likewise. *)
Touch(s) ==
  /\ job = Idle /\ Loadable(s)
  /\ Change("touch", s, None, Loaded(s))
  /\ UNCHANGED <<disk, index, acked, torn,
                 shaken, mishaps>>

AddMemoryEntry(s) == Touch(s)

-----------------------------------------------------------------------------
(* _write_session, one atomic file at a time.                              *)
Target == CHOOSE s \in job.on : TRUE

(* Mutant: the archive is overwritten, not extended.                       *)
WriteArchiveOver ==
  /\ job.at = "archive"
  /\ archive' = [archive EXCEPT ![Target] = job.over]
  /\ job' = [job EXCEPT !.at = "metadata"]
  /\ UNCHANGED <<metadata, memory, indexFile, index, cache, object, acked, torn,
                 shaken, mishaps>>

WriteArchive ==
  /\ job.at = "archive"
  /\ archive' = [archive EXCEPT ![Target] = @ \o job.over]
  /\ job' = [job EXCEPT !.at = "metadata"]
  /\ UNCHANGED <<metadata, memory, indexFile, index, cache, object, acked, torn,
                 shaken, mishaps>>
(* Mutant: a session is indexed before its memory is written.              *)
WriteMetadataIndexes ==
  /\ job.at = "metadata"
  /\ metadata' = [metadata EXCEPT ![Target] = job.owner]
  /\ index' = [index EXCEPT ![Target] = job.owner] /\ indexFile' = index'
  /\ job' = [job EXCEPT !.at = "memory"]
  /\ UNCHANGED <<memory, archive, cache, object, acked, torn,
                 shaken, mishaps>>

WriteMetadata ==
  /\ job.at = "metadata"
  /\ metadata' = [metadata EXCEPT ![Target] = job.owner]
  /\ job' = [job EXCEPT !.at = "memory"]
  /\ UNCHANGED <<memory, archive, indexFile, index, cache, object, acked, torn,
                 shaken, mishaps>>
WriteMemory ==
  /\ job.at = "memory"
  /\ memory' = [memory EXCEPT ![Target] = job.memory]
  /\ job' = [job EXCEPT !.at = "markdown"]
  /\ UNCHANGED <<metadata, archive, indexFile, index, cache, object, acked, torn,
                 shaken, mishaps>>
WriteMarkdown ==
  /\ job.at = "markdown"
  /\ job' = [job EXCEPT !.at = "index"]
  /\ UNCHANGED <<disk, index, cache, object, acked, torn,
                 shaken, mishaps>>

(* SessionIndex.upsert, _cache_session and the return of the operation.    *)
WriteIndex ==
  /\ job.at = "index"
  /\ index' = [index EXCEPT ![Target] = job.owner] /\ indexFile' = index'
  /\ cache' = Cached(Target)
  /\ object' = Objects(Target, [owner |-> job.owner, memory |-> job.memory])
  /\ acked' = IF job.kind = "append" THEN acked \cup {<<Target, job.event>>}
              ELSE acked
  /\ job' = Idle
  /\ UNCHANGED <<metadata, memory, archive, torn, shaken, mishaps>>

Mishap == mishaps < MaxMishaps /\ mishaps' = mishaps + 1

(* A write raises: upsert has changed the index in memory by then.         *)
WriteRaises ==
  /\ Mishap
  /\ job.at \in {"archive", "metadata", "memory", "markdown", "index"}
  /\ index' = IF job.at = "index" THEN [index EXCEPT ![Target] = job.owner]
              ELSE index
  /\ shaken' = shaken \cup job.on
  /\ job' = Idle
  /\ UNCHANGED <<disk, cache, object, acked, torn>>

-----------------------------------------------------------------------------
(* delete_session by the owner the index names, and delete_everything: the *)
(* folders, then the index, then the cache.                                *)
StartDelete(on) ==
  /\ job = Idle
  /\ job' = [Idle EXCEPT !.kind = "delete", !.on = on, !.at = "folder"]
  /\ acked' = {a \in acked : a[1] \notin on}
  /\ UNCHANGED <<disk, index, cache, object, torn, shaken, mishaps>>
DeleteSession(s, p) == index[s] = p /\ StartDelete({s})
DeleteEverything == StartDelete(Sessions)

(* rmtree removes a folder file by file, in no particular order.           *)
RemoveFile(s, file) ==
  /\ job.at = "folder" /\ s \in job.on
  /\ \/ /\ file = "metadata" /\ metadata[s] # None
        /\ metadata' = [metadata EXCEPT ![s] = None]
        /\ UNCHANGED <<memory, archive>>
     \/ /\ file = "memory" /\ memory[s] # Absent
        /\ memory' = [memory EXCEPT ![s] = Absent]
        /\ UNCHANGED <<metadata, archive>>
     \/ /\ file = "archive" /\ archive[s] # <<>>
        /\ archive' = [archive EXCEPT ![s] = <<>>]
        /\ UNCHANGED <<metadata, memory>>
  /\ UNCHANGED <<indexFile, index, cache, object, job, acked, torn,
                 shaken, mishaps>>

FoldersGone ==
  \A s \in job.on : metadata[s] = None /\ memory[s] = Absent /\ archive[s] = <<>>
WithoutJob == [s \in Sessions |-> IF s \in job.on THEN None ELSE index[s]]

(* Mutant: a deleted session stays cached.                                 *)
UnindexKeepsCache ==
  /\ job.at = "folder"
  /\ FoldersGone
  /\ index' = WithoutJob
  /\ indexFile' = index'
  /\ torn' = torn \ job.on /\ shaken' = shaken \ job.on
  /\ job' = Idle
  /\ UNCHANGED <<metadata, memory, archive, cache, object, acked, mishaps>>

(* SessionIndex.remove or clear, and the cache entries.                    *)
Unindex ==
  /\ job.at = "folder"
  /\ FoldersGone
  /\ index' = WithoutJob
  /\ indexFile' = index'
  /\ cache' = IF job.on = Sessions THEN <<>> ELSE Others(Target)
  /\ object' = [s \in Sessions |-> IF s \in job.on THEN NoObject ELSE object[s]]
  /\ torn' = torn \ job.on /\ shaken' = shaken \ job.on
  /\ job' = Idle
  /\ UNCHANGED <<metadata, memory, archive, acked, mishaps>>

(* rmtree raises, or the index cannot be saved.                            *)
DeleteRaises ==
  /\ Mishap
  /\ job.at = "folder"
  /\ index' = index \/ (FoldersGone /\ index' = WithoutJob)
  /\ torn' = torn \cup job.on
  /\ job' = Idle
  /\ UNCHANGED <<disk, cache, object, acked, shaken>>

(* The process dies and the next one reads the index.                      *)
Crash ==
  /\ Mishap
  /\ index' = indexFile /\ cache' = <<>> /\ job' = Idle
  /\ object' = [s \in Sessions |-> NoObject]
  /\ torn' = IF job.kind = "delete" THEN torn \cup job.on ELSE torn
  /\ UNCHANGED <<disk, acked, shaken>>

Next ==
  \/ \E s \in Sessions, p \in Principals :
       CreateSession(s, p) \/ DeleteSession(s, p)
  \/ \E s \in Sessions : LoadSession(s) \/ Touch(s) \/ AddMemoryEntry(s)
  \/ \E s \in Sessions, e \in Events : AppendHistory(s, e)
  \/ WriteArchive \/ WriteMetadata \/ WriteMemory \/ WriteMarkdown
  \/ WriteIndex \/ WriteRaises
  \/ DeleteEverything \/ Unindex \/ DeleteRaises
  \/ \E s \in Sessions, file \in Files : RemoveFile(s, file)
  \/ Crash

Spec == Init /\ [][Next]_vars

-----------------------------------------------------------------------------
Deleting(s) == job.kind = "delete" /\ s \in job.on
OnDisk(s) == Range(memory[s].history) \cup Range(archive[s])
Sound == Sessions \ (torn \cup shaken)

(* Between operations a cached object is what the files and the index say, *)
(* unless a write has raised: no reader is served a session that a restart *)
(* would not bring back.                                                   *)
CacheCoherent ==
  job = Idle =>
    \A s \in Range(cache) \cap Sound :
      /\ metadata[s] = object[s].owner /\ memory[s] = object[s].memory
      /\ indexFile[s] = object[s].owner

(* An entry append_history has returned for is in the history or in the    *)
(* archive on disk, whatever rotation, eviction and crash came after,      *)
(* unless a write has raised.                                              *)
AckedIsKept ==
  \A a \in acked : a[1] \in Sound => a[2] \in Ids(memory[a[1]].history)
                                              \cup Ids(archive[a[1]])

(* Two entries of a session never share a turn number, over evictions,     *)
(* rotations and crashes, unless a write has raised.                       *)
TurnsUnique ==
  \A s \in Sound : \A x, y \in OnDisk(s) :
    x.turn = y.turn => x = y

(* A restart finds the files of every session its index lists, failed      *)
(* writes or not.                                                          *)
IndexedHasFiles ==
  \A s \in Sessions \ torn :
    indexFile[s] # None /\ ~Deleting(s) =>
      metadata[s] = indexFile[s] /\ memory[s] # Absent

(* Entries move to the archive and are never deleted: only deleting the    *)
(* session takes an entry off the disk, unless a write has raised.         *)
NeverDeleted ==
  [][\A s \in Sound : ~Deleting(s) => OnDisk(s) \subseteq OnDisk(s)']_vars

(* The same over writes that raise, as the class comment has it.           *)
NeverDeletedEver ==
  [][\A s \in Sessions \ torn : ~Deleting(s) => OnDisk(s) \subseteq OnDisk(s)']_vars

(* A session's acknowledged turns are in its files under numbers of their  *)
(* own through rotation, eviction and crashes; cache and index agree with  *)
(* the files; and nothing but a deletion removes a turn.                   *)
SessionSafe ==
  /\ [](/\ TypeOK /\ CacheCoherent /\ AckedIsKept /\ TurnsUnique
        /\ IndexedHasFiles)
  /\ NeverDeleted
=============================================================================
