--------------------------- MODULE MemoryService ---------------------------
(***************************************************************************)
(* The long-term memory: MemoryController over MemoryManager, the context  *)
(* store it keeps in memory, the SQLite rows it is loaded from, the cache  *)
(* of recent memories and the cache of retrievals; the formation engine    *)
(* and the memory tool are their callers.  Every operation runs to its end *)
(* on the event loop; a row operation may raise, and the process may stop  *)
(* between any two operations.                                             *)
(***************************************************************************)
EXTENDS Integers, Sequences, FiniteSets

CONSTANTS
  MaxMemories,    \* the memories ever written; their number is their age
  Readers,        \* MemoryAccessContext: records of who, session and workspace
  Queries,
  MaxRecent,      \* MemoryCache max_memories
  MaxRetrievals,  \* MemoryCache max_retrievals
  TopRecent,      \* MemoryRetriever top_k_recent
  NoId            \* no session, no workspace

ASSUME MemoryAssumption ==
  /\ MaxMemories \in Nat \ {0} /\ MaxRecent \in Nat \ {0} /\ MaxRetrievals \in Nat \ {0}
  /\ TopRecent \in Nat \ {0} /\ NoId \notin Readers
  /\ \A c \in Readers : DOMAIN c = {"who", "session", "workspace"}

VARIABLES
  count,    \* memories written so far
  about,    \* the ownership and type of each
  text,     \* the context whose words the memory in the process holds
  row,      \* the same for its SQLite row, NoId where there is none
  live,     \* the memories of the ContextMemoryStore
  recent,   \* the keys of the recent-memory cache, in insertion order
  blank,    \* those of them that hold None
  found,    \* the retrieval cache, a sequence of keys with their answers
  gone,     \* memories whose deletion was acknowledged
  answer    \* the last answer to a reader

memoryVars == <<count, about, text, row, live, recent, blank, found, gone, answer>>
caches == <<recent, blank, found>>

Memories == 1..MaxMemories
Types == {"conversation", "preference", "knowledge", "system"}
Scopes == {"user", "session", "workspace", "system"}
Silence == [reader |-> NoId, items |-> {}]
Keys(q) == {q[n] : n \in DOMAIN q}
RecentKeys == Keys(recent)

MemoryTypeOK ==
  /\ count \in 0..MaxMemories
  /\ \A i \in 1..count : about[i].scope \in Scopes /\ about[i].type \in Types
  /\ live \cup gone \cup RecentKeys \subseteq 1..count
  /\ blank \subseteq RecentKeys
  /\ Len(recent) <= MaxRecent /\ Len(found) <= MaxRetrievals
  /\ Cardinality(RecentKeys) = Len(recent)
  /\ \A j \in 1..Len(found) : found[j].items \subseteq 1..count

MemoryInit ==
  /\ count = 0
  /\ about = [i \in Memories |-> [owner |-> NoId, scope |-> "system", type |-> "system",
                                  session |-> NoId, workspace |-> NoId]]
  /\ text = [i \in Memories |-> NoId] /\ row = [i \in Memories |-> NoId]
  /\ live = {} /\ recent = <<>> /\ blank = {} /\ found = <<>>
  /\ gone = {} /\ answer = Silence

-----------------------------------------------------------------------------
(* SecurityManager and MemoryWriter                                        *)

(* is_in_scope.  Profiles and clearance levels narrow it further, the same *)
(* way workspaces do.                                                      *)
InScope(i, c) ==
  /\ about[i].owner = c.who
  /\ CASE about[i].scope = "session"   -> c.session # NoId /\ about[i].session = c.session
       [] about[i].scope = "workspace" -> c.workspace # NoId /\ about[i].workspace = c.workspace
       [] about[i].scope = "system"    -> FALSE
       [] OTHER                        -> TRUE

(* _ownership, with the scope each write_* method asks for.                *)
ScopeOf(type, c) ==
  CASE type = "conversation" -> IF c.session # NoId THEN "session" ELSE "user"
    [] type = "knowledge"    -> IF c.workspace # NoId THEN "workspace" ELSE "user"
    [] type = "system"       -> "system"
    [] OTHER                 -> "user"
Ownership(type, c) ==
  LET scope == ScopeOf(type, c)
  IN  [owner |-> c.who, scope |-> scope, type |-> type,
       session |-> IF scope = "session" THEN c.session ELSE NoId,
       workspace |-> IF scope = "workspace" THEN c.workspace ELSE NoId]

(* Mutant: the caches have no limit.                                       *)
BoundedNever(q, max) == q

(* _BoundedDict: one insertion drops the oldest entry over the limit.      *)
Bounded(q, max) == IF Len(q) > max THEN Tail(q) ELSE q

(* store_recent_memory; a key already there keeps its place.               *)
Remembered(q, i) == IF i \in Keys(q) THEN q ELSE Bounded(Append(q, i), MaxRecent)

(* The same of each in turn.                                               *)
WithRecent(q, ids) ==
  LET upto[n \in 0..Len(ids)] == IF n = 0 THEN q ELSE Remembered(upto[n - 1], ids[n])
  IN  upto[Len(ids)]

(* Newest first, as get_recent_context and get_by_type sort.               *)
NewestFirst(S) ==
  [n \in 1..Cardinality(S) |-> CHOOSE i \in S : Cardinality({j \in S : j > i}) = n - 1]
Newest(q, n) == SubSeq(q, 1, IF Len(q) < n THEN Len(q) ELSE n)

-----------------------------------------------------------------------------
(* store_memory: the row first, then the context store; the writer then    *)
(* caches the memory and the controller forgets its retrievals.            *)
Store(type, c, keys) ==
  LET i == count + 1
  IN  /\ count < MaxMemories
      /\ count' = i
      /\ about' = [about EXCEPT ![i] = Ownership(type, c)]
      /\ text' = [text EXCEPT ![i] = c] /\ row' = [row EXCEPT ![i] = c]
      /\ live' = live \cup {i}
      /\ recent' = WithRecent(keys, <<i>>) /\ blank' = blank \cap Keys(recent')
      /\ found' = <<>>
      /\ answer' = Silence /\ UNCHANGED gone

(* write_conversation, write_document, write_workflow and write_tool keep  *)
(* what they are given; so do write_knowledge and write_system, and the    *)
(* memory tool's store, which reads the row back.                          *)
Write(type, c) == type # "preference" /\ Store(type, c, recent)

(* Mutant: the memory enters the process before its row is written.        *)
WriteFailsLate ==
  /\ count < MaxMemories /\ count' = count + 1 /\ live' = live \cup {count + 1}
  /\ answer' = Silence /\ UNCHANGED <<about, text, row, caches, gone>>

(* The row could not be written: nothing is kept.                          *)
WriteFails == answer' = Silence /\ UNCHANGED <<count, about, text, row, live, caches, gone>>

(* _find_existing_preferences: the owner's, from the cache, else from the  *)
(* store, which fills the cache.                                           *)
Preferences(S, c) ==
  {i \in S : about[i].type = "preference" /\ about[i].owner = c.who /\ about[i].scope = "user"}
ExistingPreferences(c) ==
  LET cached == Preferences(RecentKeys \ blank, c)
  IN  IF cached # {} THEN cached ELSE Preferences(live, c)

(* PreferenceResolver: NEW and CONTRADICT keep a new preference; REINFORCE *)
(* bumps the one it matches; UPDATE and REPLACE give it the new words,     *)
(* in the process only.                                                    *)
LookedUp(c) ==
  IF Preferences(RecentKeys \ blank, c) # {} THEN recent
  ELSE WithRecent(recent, NewestFirst(Preferences(live, c)))
WritePreference(c) == Store("preference", c, LookedUp(c))
RevisePreference(c, i, words) ==
  /\ i \in ExistingPreferences(c) /\ words \in {c, text[i]}
  /\ text' = [text EXCEPT ![i] = words]
  /\ live' = live \cup {i}
  /\ recent' = WithRecent(LookedUp(c), <<i>>) /\ blank' = blank \cap Keys(recent')
  /\ found' = <<>>
  /\ answer' = Silence /\ UNCHANGED <<count, about, row, gone>>

(* The formation engine finds a typed memory it already has in scope and   *)
(* reinforces it instead of writing another.                               *)
Reinforce(c, i) ==
  /\ i \in live /\ InScope(i, c) /\ about[i].type \notin {"conversation", "preference"}
  /\ answer' = Silence /\ UNCHANGED <<count, about, text, row, live, caches, gone>>

-----------------------------------------------------------------------------
(* MemoryRetriever                                                         *)

(* Mutant: the retrieval cache is partitioned by principal alone.          *)
CacheKeyShort(c, q) == <<c.who, q>>

CacheKey(c, q) == <<c.who, c.session, c.workspace, q>>
Hit(c, q) == {j \in 1..Len(found) : found[j].key = CacheKey(c, q)}

(* Eligibility is settled before anything is ranked.                       *)
Eligible(S, c) == {i \in S : InScope(i, c)}

(* The recent stage reads the newest of the cache, or fills it from the    *)
(* store; the semantic stage scores eligible memories only and the         *)
(* preference stage caches every preference, whoever owns it.              *)
RecentStage ==
  LET shown  == {n \in DOMAIN recent : recent[n] \notin blank}
      newest == {n \in shown : Cardinality({m \in shown : m > n}) < TopRecent}
  IN  IF shown # {} THEN [items |-> {recent[n] : n \in newest}, keys |-> recent]
      ELSE LET q == Newest(NewestFirst(live), TopRecent)
           IN  [items |-> Keys(q), keys |-> WithRecent(recent, q)]
AllPreferences == {i \in live : about[i].type = "preference"}

Retrieve(c, q, matches) ==
  /\ Hit(c, q) = {}
  /\ matches \subseteq Eligible(live, c)
  /\ LET first == RecentStage
         items == Eligible(first.items, c) \cup matches \cup Eligible(AllPreferences, c)
         loaded == WithRecent(first.keys, NewestFirst(matches))
         keys == WithRecent(loaded, NewestFirst(AllPreferences))
     IN  /\ recent' = keys
         /\ blank' = (blank \cap Keys(keys)) \ (matches \cup AllPreferences)
         /\ found' = Bounded(Append(found, [key |-> CacheKey(c, q), items |-> items]),
                             MaxRetrievals)
         /\ answer' = [reader |-> c, items |-> items]
  /\ UNCHANGED <<count, about, text, row, live, gone>>

RetrieveCached(c, q) ==
  /\ \E j \in Hit(c, q) : answer' = [reader |-> c, items |-> found[j].items]
  /\ UNCHANGED <<count, about, text, row, live, caches, gone>>

(* retrieve_recent: an explicit listing, and the memory tool's re-read of  *)
(* exact ids, past every cache.                                            *)
Browse(c) ==
  /\ answer' = [reader |-> c, items |-> Eligible(live, c)]
  /\ UNCHANGED <<count, about, text, row, live, caches, gone>>

-----------------------------------------------------------------------------
(* Mutant: a row outlives its memory.                                      *)
DeletedRowsKept(S) == row

(* delete_memory: the context store, then the row.                         *)
DeletedRows(S) == [i \in Memories |-> IF i \in S THEN NoId ELSE row[i]]

(* Mutant: the recent cache keeps what was deleted.                        *)
BlankedNot(S) == UNCHANGED <<recent, blank, found>>

(* The cache then holds None for them, and its retrievals stay.            *)
Blanked(S) ==
  /\ recent' = WithRecent(recent, NewestFirst(S))
  /\ blank' = (blank \cup S) \cap Keys(recent')
  /\ UNCHANGED found

(* What the memory tool deletes for a reader: one memory, those matching,  *)
(* those of a type or all, each only in the reader's scope.                *)
Delete(c, S) ==
  /\ S # {} /\ S \subseteq Eligible(live, c)
  /\ live' = live \ S /\ row' = DeletedRows(S)
  /\ Blanked(S)
  /\ gone' = gone \cup S
  /\ answer' = Silence /\ UNCHANGED <<count, about, text>>

(* The row could not be deleted: the memory has left the process, and the  *)
(* caller is told that it was not.                                         *)
DeleteFails(c, i) ==
  /\ i \in Eligible(live, c)
  /\ live' = live \ {i}
  /\ answer' = Silence /\ UNCHANGED <<count, about, text, row, caches, gone>>

(* expire_old_memories, for all owners; private and critical ones stay.    *)
Expire(S) ==
  /\ S # {} /\ S \subseteq live
  /\ live' = live \ S /\ row' = DeletedRows(S)
  /\ Blanked(S)
  /\ gone' = gone \cup S
  /\ answer' = Silence /\ UNCHANGED <<count, about, text>>

(* delete_all of the controller drops the caches too.                      *)
DeleteAll ==
  /\ live # {}
  /\ live' = live \ {i \in Memories : row[i] # NoId} /\ row' = [i \in Memories |-> NoId]
  /\ recent' = <<>> /\ blank' = {} /\ found' = <<>>
  /\ gone' = gone \cup {i \in Memories : row[i] # NoId}
  /\ answer' = Silence /\ UNCHANGED <<count, about, text>>

(* A new process: _load_persisted_memories, with the words of the rows.    *)
RestartMemory ==
  /\ live' = {i \in Memories : row[i] # NoId}
  /\ text' = [i \in Memories |-> IF row[i] # NoId THEN row[i] ELSE text[i]]
  /\ recent' = <<>> /\ blank' = {} /\ found' = <<>>
  /\ answer' = Silence /\ UNCHANGED <<count, about, row, gone>>

MemoryNext ==
  \/ \E c \in Readers, type \in Types : Write(type, c)
  \/ \E c \in Readers : WritePreference(c) \/ Browse(c)
  \/ \E c, w \in Readers, i \in Memories : RevisePreference(c, i, w)
  \/ \E c \in Readers, i \in Memories : Reinforce(c, i) \/ DeleteFails(c, i)
  \/ \E c \in Readers, q \in Queries : RetrieveCached(c, q)
  \/ \E c \in Readers, q \in Queries, matches \in SUBSET live : Retrieve(c, q, matches)
  \/ \E c \in Readers, S \in SUBSET live : Delete(c, S)
  \/ \E S \in SUBSET live : Expire(S)
  \/ WriteFails \/ DeleteAll \/ RestartMemory

-----------------------------------------------------------------------------
(* Whatever was cached for whom, a reader is served only memories of its   *)
(* own, of its own session and workspace, in words it wrote itself.        *)
ServedInScope ==
  \A i \in answer.items : /\ about[i].owner = answer.reader.who
                          /\ about[i].session \in {NoId, answer.reader.session}
                          /\ about[i].workspace \in {NoId, answer.reader.workspace}
                          /\ text[i].who = answer.reader.who

(* A memory reported deleted is in neither store, so that no restart, and  *)
(* no update of a memory someone still held, brings it back.               *)
DeletedStaysDeleted == \A i \in gone : i \notin live /\ row[i] = NoId

(* What the process knows is on disk: no restart loses a memory.           *)
LiveIsPersisted == \A i \in live : row[i] # NoId

(* The recent cache never shows a memory the store no longer has, except   *)
(* one whose row could not be deleted.                                     *)
RecentIsLive == \A i \in RecentKeys \ blank : i \in live \/ row[i] # NoId

(* "Permanently delete": no answer holds a memory reported deleted.        *)
DeletedIsNotServed == answer.items \cap gone = {}

(* "Persist update via MemoryManager": a restart keeps the words a memory  *)
(* was last given.                                                         *)
WordsArePersisted == \A i \in live : row[i] = text[i]

(* A retrieval serves only what lives and is in the scope of its caller,   *)
(* from whichever cache, and what was deleted stays deleted.               *)
MemorySafe ==
  /\ MemoryTypeOK /\ ServedInScope /\ DeletedStaysDeleted /\ LiveIsPersisted
  /\ RecentIsLive
=============================================================================
