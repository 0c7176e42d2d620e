------------------------- MODULE SessionStoreProofs -------------------------
(* Proofs about SessionStore, SkillLearning, Correspondence and               *)
(* MemoryService: that sessions survive rotation, eviction, crashes and       *)
(* writes that raise, for any number of sessions, entries and mishaps and any *)
(* bounds on the history and the cache, that learned skills keep their        *)
(* records right and stay retired, that what callers are told of outgoing     *)
(* messages is true of their copies, and that memories are served in scope,   *)
(* whatever was cached, deleted or lost.                                      *)
EXTENDS SessionStore, SkillLearning, Correspondence, MemoryService,
        FiniteSetTheorems, WellFoundedInduction, NaturalsInduction, TLAPS

-----------------------------------------------------------------------------
(* The inductive invariant, one session at a time                            *)

Live == [history: Seq(Entry), next: 1..(MaxTurn + 1)]
Steps == {"archive", "metadata", "memory", "markdown", "index"}
WriteJobs ==
  [kind: {"create", "append", "touch"}, on: {{s} : s \in Sessions}, at: Steps,
   event: Events \cup {None}, over: Seq(Entry), owner: Principals, memory: Live]
DeleteJobs ==
  [kind: {"delete"}, on: {{s} : s \in Sessions} \cup {Sessions}, at: {"folder"},
   event: {None}, over: {<<>>}, owner: {None}, memory: {Absent}]

Typed ==
  /\ metadata \in [Sessions -> Owners]
  /\ memory \in [Sessions -> Live \cup {Absent}]
  /\ archive \in [Sessions -> Seq(Entry)]
  /\ indexFile \in [Sessions -> Owners] /\ index \in [Sessions -> Owners]
  /\ object \in [Sessions -> [owner: Owners, memory: Live \cup {Absent}]]
  /\ job \in WriteJobs \cup DeleteJobs \cup {Idle}
  /\ job.kind = "append" => job.event \in Events
  /\ acked \subseteq Sessions \X Events /\ torn \subseteq Sessions
  /\ shaken \subseteq Sessions /\ mishaps \in 0..MaxMishaps

(* The cache lists sessions once, within its bound, each with an object.     *)
Listed ==
  /\ cache \in Seq(Sessions) /\ Len(cache) <= CacheBound
  /\ \A i, j \in 1..Len(cache) : cache[i] = cache[j] => i = j
  /\ \A s \in Range(cache) : object[s].owner # None /\ object[s].memory \in Live

Writing(s) == s \in job.on /\ job.kind # "delete"

(* Failed writes or not: what the index lists is on disk.                    *)
Filed(s) ==
  /\ index[s] # None => metadata[s] = index[s] /\ memory[s] # Absent
  /\ indexFile[s] # None => indexFile[s] = index[s]
  /\ s \in Range(cache) => index[s] # None /\ object[s].owner = index[s]
  /\ Writing(s) =>
       IF job.kind = "create"
       THEN /\ index[s] = None
            /\ job.at \in {"memory", "markdown", "index"} => metadata[s] = job.owner
            /\ job.at \in {"markdown", "index"} => memory[s] # Absent
       ELSE index[s] # None /\ job.owner = index[s]

(* What an unfinished write will make of a history: the old entries, those   *)
(* cut away in the archive by then, and at most one new entry with the next  *)
(* number.                                                                   *)
NewEntries(s) == Range(job.memory.history) \ Range(memory[s].history)
Continues(s) ==
  /\ Range(job.over) \subseteq Range(memory[s].history)
  /\ Range(memory[s].history) \subseteq Range(job.over) \cup Range(job.memory.history)
  /\ job.memory.next >= memory[s].next
  /\ \A x \in NewEntries(s) : x.turn = memory[s].next /\ job.memory.next > x.turn
  /\ \A x, y \in NewEntries(s) : x = y
  /\ job.at # "archive" => Range(job.over) \subseteq Range(archive[s])

(* No write of the session has raised: memory, index and files agree.        *)
Clean(s) ==
  /\ index[s] = indexFile[s]
  /\ index[s] = None => memory[s] \in {Absent, Empty} /\ archive[s] = <<>>
  /\ s \in Range(cache) /\ ~Writing(s) => object[s].memory = memory[s]
  /\ memory[s] # Absent => \A x \in OnDisk(s) : x.turn < memory[s].next
  /\ \A e \in Events : <<s, e>> \in acked =>
       \E x \in OnDisk(s) : x.id = e
  /\ Writing(s) =>
       /\ job.kind = "create" => job.over = <<>> /\ job.memory = Empty
       /\ job.kind # "create" /\ job.at \in {"archive", "metadata", "memory"} =>
            Continues(s)
       /\ job.at \in {"markdown", "index"} => memory[s] = job.memory
       /\ job.kind = "append" =>
            \E x \in Range(job.memory.history) : x.id = job.event

NumberedOnce(s) == \A x, y \in OnDisk(s) : x.turn = y.turn => x = y

(* A session that is being deleted has no entry that was promised.           *)
Stored(s) ==
  /\ s \notin torn /\ ~Deleting(s) => Filed(s)
  /\ s \in Sound => NumberedOnce(s) /\ (~Deleting(s) => Clean(s))
  /\ Deleting(s) => \A e \in Events : <<s, e>> \notin acked

SessionInv == Typed /\ Listed /\ \A s \in Sessions : Stored(s)

-----------------------------------------------------------------------------
(* Histories                                                                 *)

LEMMA RangeOfSeq ==
  ASSUME NEW S, NEW h \in Seq(S)
  PROVE  /\ Range(h) = {h[i] : i \in 1..Len(h)}
         /\ Range(h) \subseteq S
         /\ \A x \in Range(h) : \E i \in 1..Len(h) : h[i] = x
         /\ \A i \in 1..Len(h) : h[i] \in Range(h)
BY DEF Range

LEMMA RangeOfEmpty == Range(<<>>) = {}
BY DEF Range

LEMMA ConcatRange ==
  ASSUME NEW S, NEW g \in Seq(S), NEW h \in Seq(S)
  PROVE  /\ g \o h \in Seq(S) /\ Range(g \o h) = Range(g) \cup Range(h)
<1>1. /\ g \o h \in Seq(S) /\ Len(g \o h) = Len(g) + Len(h)
      /\ \A i \in 1..Len(g) : (g \o h)[i] = g[i]
      /\ \A i \in 1..Len(h) : (g \o h)[Len(g) + i] = h[i]
  OBVIOUS
<1>2. PICK all \in Seq(S) : all = g \o h  BY <1>1
<1>3. ASSUME NEW x \in Range(all) PROVE x \in Range(g) \cup Range(h)
  <2>1. PICK i \in 1..Len(all) : all[i] = x  BY <1>3, RangeOfSeq
  <2>2. CASE i <= Len(g)
    <3>1. i \in 1..Len(g) /\ all[i] = g[i]  BY <1>1, <1>2, <2>1, <2>2
    <3> QED  BY <2>1, <3>1, RangeOfSeq
  <2>3. CASE i > Len(g)
    <3>1. i - Len(g) \in 1..Len(h) /\ Len(g) + (i - Len(g)) = i
      BY <1>1, <1>2, <2>1, <2>3
    <3>2. all[i] = h[i - Len(g)]  BY <1>1, <1>2, <3>1
    <3> QED  BY <2>1, <3>1, <3>2, RangeOfSeq
  <2> QED  BY <2>1, <2>2, <2>3
<1>4. ASSUME NEW x \in Range(g) PROVE x \in Range(all)
  <2>1. PICK i \in 1..Len(g) : g[i] = x  BY <1>4, RangeOfSeq
  <2>2. i \in 1..Len(all) /\ all[i] = x  BY <1>1, <1>2, <2>1
  <2> QED  BY <2>2, RangeOfSeq
<1>5. ASSUME NEW x \in Range(h) PROVE x \in Range(all)
  <2>1. PICK i \in 1..Len(h) : h[i] = x  BY <1>5, RangeOfSeq
  <2>2. Len(g) + i \in 1..Len(all) /\ all[Len(g) + i] = x  BY <1>1, <1>2, <2>1
  <2> QED  BY <2>2, RangeOfSeq
<1> QED  BY <1>1, <1>2, <1>3, <1>4, <1>5

(* Rotation parts a history in two; the newest entry is kept.                *)
LEMMA RotationParts ==
  ASSUME NEW h \in Seq(Entry)
  PROVE  /\ Overflow(h) \in Seq(Entry) /\ Kept(h) \in Seq(Entry)
         /\ Range(Overflow(h)) \cup Range(Kept(h)) = Range(h)
         /\ Len(h) > 0 => h[Len(h)] \in Range(Kept(h))
         /\ \A x \in Range(Overflow(h)) : \E i \in 1..(Len(h) - 1) : h[i] = x
<1>1. PICK k \in 0..Len(h) :
        /\ Overflow(h) = SubSeq(h, 1, k) /\ (k > 0 => k < Len(h))
        /\ Len(h) > 0 => k < Len(h)
  <2>1. CASE Len(h) > Keep
    <3>1. Len(h) - Keep \in 0..Len(h) /\ Len(h) - Keep < Len(h)
      BY <2>1, SessionAssumption
    <3> QED  BY <2>1, <3>1 DEF Overflow
  <2>2. CASE ~(Len(h) > Keep)
    <3>1. Overflow(h) = <<>> /\ SubSeq(h, 1, 0) = <<>>  BY <2>2 DEF Overflow
    <3> QED  BY <3>1
  <2> QED  BY <2>1, <2>2
<1>2. PICK o \in Seq(Entry) :
        /\ o = Overflow(h) /\ Len(o) = k /\ \A i \in 1..k : o[i] = h[i]
  BY <1>1
<1>3. PICK m \in Seq(Entry) :
        /\ m = Kept(h) /\ Len(m) = Len(h) - k
        /\ \A i \in 1..(Len(h) - k) : m[i] = h[k + i]
  <2>1. Kept(h) = SubSeq(h, k + 1, Len(h))  BY <1>2 DEF Kept
  <2>2. /\ SubSeq(h, k + 1, Len(h)) \in Seq(Entry)
        /\ Len(SubSeq(h, k + 1, Len(h))) = Len(h) - k
        /\ \A i \in 1..(Len(h) - k) : SubSeq(h, k + 1, Len(h))[i] = h[k + i]
    OBVIOUS
  <2> QED  BY <2>1, <2>2
<1>4. ASSUME NEW x \in Range(o)
      PROVE  x \in Range(h) /\ \E i \in 1..(Len(h) - 1) : h[i] = x
  <2>1. PICK i \in 1..Len(o) : o[i] = x  BY <1>4, RangeOfSeq
  <2>2. i \in 1..k /\ h[i] = x /\ i \in 1..(Len(h) - 1) /\ i \in 1..Len(h)
    BY <1>1, <1>2, <2>1
  <2> QED  BY <2>2, RangeOfSeq
<1>5. ASSUME NEW x \in Range(m) PROVE x \in Range(h)
  <2>1. PICK i \in 1..Len(m) : m[i] = x  BY <1>5, RangeOfSeq
  <2>2. k + i \in 1..Len(h) /\ h[k + i] = x  BY <1>3, <2>1
  <2> QED  BY <2>2, RangeOfSeq
<1>6. ASSUME NEW i \in 1..Len(h), i > k PROVE h[i] \in Range(m)
  <2>1. i - k \in 1..Len(m) /\ k + (i - k) = i  BY <1>3, <1>6
  <2>2. m[i - k] = h[i]  BY <1>3, <2>1
  <2> QED  BY <2>1, <2>2, RangeOfSeq
<1>7. ASSUME NEW x \in Range(h) PROVE x \in Range(o) \cup Range(m)
  <2>1. PICK i \in 1..Len(h) : h[i] = x  BY <1>7, RangeOfSeq
  <2>2. CASE i > k  BY <1>6, <2>1, <2>2
  <2>3. CASE i <= k
    <3>1. i \in 1..Len(o) /\ o[i] = x  BY <1>2, <2>1, <2>3
    <3> QED  BY <3>1, RangeOfSeq
  <2> QED  BY <2>1, <2>2, <2>3
<1>8. Len(h) > 0 => h[Len(h)] \in Range(m)  BY <1>1, <1>6
<1> QED  BY <1>2, <1>3, <1>4, <1>5, <1>7, <1>8

-----------------------------------------------------------------------------
(* The cache                                                                 *)

LEMMA OthersParts ==
  ASSUME cache \in Seq(Sessions), NEW s \in Sessions,
         \A i, j \in 1..Len(cache) : cache[i] = cache[j] => i = j
  PROVE  /\ Others(s) \in Seq(Sessions)
         /\ Len(Others(s)) <= Len(cache)
         /\ \A i, j \in 1..Len(Others(s)) : Others(s)[i] = Others(s)[j] => i = j
         /\ Range(Others(s)) \subseteq Range(cache) \ {s}
<1>1. CASE s \notin Range(cache)  BY <1>1 DEF Others
<1>2. CASE s \in Range(cache)
  <2>1. PICK place \in 1..Len(cache) :
          /\ cache[place] = s
          /\ place = CHOOSE i \in 1..Len(cache) : cache[i] = s
    BY <1>2, RangeOfSeq
  <2> DEFINE rest == [i \in 1..(Len(cache) - 1) |->
                        IF i < place THEN cache[i] ELSE cache[i + 1]]
             from(i) == IF i < place THEN i ELSE i + 1
  <2>2. Others(s) = rest  BY <1>2, <2>1 DEF Others
  <2>3. /\ rest \in Seq(Sessions) /\ Len(rest) = Len(cache) - 1
        /\ \A i \in 1..(Len(cache) - 1) :
             rest[i] = IF i < place THEN cache[i] ELSE cache[i + 1]
    BY <2>1
  <2> HIDE DEF rest
  <2>4. \A i \in 1..Len(rest) :
          /\ from(i) \in 1..Len(cache) /\ from(i) # place
          /\ rest[i] = cache[from(i)]
    BY <2>1, <2>3
  <2>5. \A i, j \in 1..Len(rest) : from(i) = from(j) => i = j
    BY <2>1, <2>3
  <2> HIDE DEF from
  <2>6. \A i, j \in 1..Len(rest) : rest[i] = rest[j] => i = j
    BY <2>4, <2>5
  <2>7. ASSUME NEW x \in Range(rest) PROVE x \in Range(cache) \ {s}
    <3>1. PICK i \in 1..Len(rest) : rest[i] = x  BY <2>3, <2>7, RangeOfSeq
    <3>2. x = cache[from(i)] /\ x # s  BY <2>1, <2>4, <3>1
    <3> QED  BY <2>4, <3>2, RangeOfSeq
  <2> QED  BY <2>2, <2>3, <2>6, <2>7
<1> QED  BY <1>1, <1>2

LEMMA CachedParts ==
  ASSUME Listed, NEW s \in Sessions
  PROVE  /\ Cached(s) \in Seq(Sessions) /\ Len(Cached(s)) <= CacheBound
         /\ \A i, j \in 1..Len(Cached(s)) : Cached(s)[i] = Cached(s)[j] => i = j
         /\ s \in Range(Cached(s)) /\ Range(Cached(s)) \subseteq Range(cache) \cup {s}
<1> DEFINE rest == Others(s)
           all  == Append(rest, s)
<1>1. /\ cache \in Seq(Sessions) /\ Len(cache) <= CacheBound
      /\ \A i, j \in 1..Len(cache) : cache[i] = cache[j] => i = j
      /\ CacheBound \in Nat \ {0}
  BY SessionAssumption DEF Listed
<1>2. /\ rest \in Seq(Sessions) /\ Len(rest) <= Len(cache)
      /\ \A i, j \in 1..Len(rest) : rest[i] = rest[j] => i = j
      /\ Range(rest) \subseteq Range(cache) \ {s}
  BY <1>1, OthersParts
<1> HIDE DEF rest
<1>3. \A i \in 1..Len(rest) : rest[i] \in Range(cache) /\ rest[i] # s
  BY <1>2, RangeOfSeq
<1>4. /\ all \in Seq(Sessions) /\ Len(all) = Len(rest) + 1 /\ all[Len(all)] = s
      /\ \A i \in 1..Len(rest) : all[i] = rest[i]
  BY <1>2
<1> HIDE DEF all
<1>5. \A i, j \in 1..Len(all) : all[i] = all[j] => i = j
  BY <1>2, <1>3, <1>4
<1>6. \A i \in 1..Len(all) : all[i] \in Range(cache) \cup {s}
  BY <1>2, <1>3, <1>4
<1>7. CASE Len(all) > CacheBound
  <2>1. Cached(s) = Tail(all)  BY <1>7 DEF Cached, all, rest
  <2>0. Len(all) \in Nat /\ Len(all) > 0 /\ all # <<>>
    BY <1>1, <1>4, <1>7
  <2>2. PICK q \in Seq(Sessions) :
          /\ q = Tail(all) /\ Len(q) = Len(all) - 1
          /\ \A i \in 1..(Len(all) - 1) : q[i] = all[i + 1]
    <3>1. /\ Tail(all) \in Seq(Sessions) /\ Len(Tail(all)) = Len(all) - 1
          /\ \A i \in 1..(Len(all) - 1) : Tail(all)[i] = all[i + 1]
      BY <1>4, <2>0
    <3> QED  BY <3>1
  <2>3. Len(all) - 1 \in 1..Len(q) /\ q[Len(all) - 1] = s
    BY <1>1, <1>2, <1>4, <1>7, <2>2
  <2>4. \A i, j \in 1..Len(q) : q[i] = q[j] => i = j
    BY <1>4, <1>5, <2>2
  <2>5. \A i \in 1..Len(q) : q[i] \in Range(cache) \cup {s}  BY <1>4, <1>6, <2>2
  <2>6. s \in Range(q) /\ Range(q) \subseteq Range(cache) \cup {s}
    BY <2>3, <2>5, RangeOfSeq
  <2>7. Len(q) <= CacheBound  BY <1>1, <1>2, <1>4, <2>2
  <2> QED  BY <2>1, <2>2, <2>4, <2>6, <2>7
<1>8. CASE Len(all) <= CacheBound
  <2>1. ~(Len(all) > CacheBound)  BY <1>1, <1>2, <1>4, <1>8
  <2>2. Cached(s) = all  BY <2>1 DEF Cached, all, rest
  <2>3. s \in Range(all) /\ Range(all) \subseteq Range(cache) \cup {s}
    <3>1. Len(all) \in 1..Len(all)  BY <1>2, <1>4
    <3> QED  BY <1>4, <1>6, <3>1, RangeOfSeq
  <2> QED  BY <1>4, <1>5, <1>8, <2>2, <2>3
<1> QED  BY <1>1, <1>2, <1>4, <1>7, <1>8

(* A session that is cached is the newest; of the others some are evicted.   *)
LEMMA CachesOne ==
  ASSUME Typed, Listed, NEW s \in Sessions, NEW o,
         o \in [owner: Principals, memory: Live],
         cache' = Cached(s), object' = Objects(s, o)
  PROVE  /\ Listed' /\ s \in Range(cache')
         /\ object' \in [Sessions -> [owner: Owners, memory: Live \cup {Absent}]]
         /\ object'[s] = o
         /\ \A x \in Sessions \ {s} :
              x \in Range(cache') => x \in Range(cache) /\ object'[x] = object[x]
<1>1. /\ cache' \in Seq(Sessions) /\ Len(cache') <= CacheBound
      /\ \A i, j \in 1..Len(cache') : cache'[i] = cache'[j] => i = j
      /\ s \in Range(cache') /\ Range(cache') \subseteq Range(cache) \cup {s}
  BY CachedParts
<1>2. object' = [x \in Sessions |-> IF x = s THEN o
                   ELSE IF x \in Range(cache') THEN object[x] ELSE NoObject]
  BY DEF Objects
<1>3. /\ NoObject \in [owner: Owners, memory: Live \cup {Absent}]
      /\ o \in [owner: Owners, memory: Live \cup {Absent}]
      /\ object \in [Sessions -> [owner: Owners, memory: Live \cup {Absent}]]
  BY DEF NoObject, Owners, Typed
<1>4. /\ object' \in [Sessions -> [owner: Owners, memory: Live \cup {Absent}]]
      /\ object'[s] = o
      /\ \A x \in Sessions \ {s} : x \in Range(cache') => object'[x] = object[x]
  BY <1>2, <1>3
<1>5. \A x \in Range(cache') : object'[x].owner # None /\ object'[x].memory \in Live
  <2> SUFFICES ASSUME NEW x \in Range(cache')
               PROVE  object'[x].owner # None /\ object'[x].memory \in Live
    OBVIOUS
  <2>1. CASE x = s  BY <1>4, <2>1, SessionAssumption
  <2>2. CASE x # s
    <3>1. x \in Range(cache) /\ x \in Sessions /\ object'[x] = object[x]
      BY <1>1, <1>4, <2>2, RangeOfSeq
    <3> QED  BY <3>1 DEF Listed
  <2> QED  BY <2>1, <2>2
<1> QED  BY <1>1, <1>4, <1>5 DEF Listed

-----------------------------------------------------------------------------
(* Jobs                                                                      *)

LEMMA IdleParts ==
  /\ Idle.kind = "none" /\ Idle.on = {} /\ Idle.at = "idle"
  /\ \A s : s \notin Idle.on
BY DEF Idle

LEMMA JobParts ==
  ASSUME Typed
  PROVE  /\ job.at \in Steps => job \in WriteJobs
         /\ job.at = "folder" => job \in DeleteJobs
         /\ job.kind = "delete" => job.at = "folder"
         /\ job.at = "idle" => job = Idle
         /\ job \in WriteJobs =>
              /\ job.kind # "delete" /\ job.owner \in Principals
              /\ job.memory \in Live /\ job.over \in Seq(Entry)
         /\ job \in DeleteJobs => job.kind = "delete"
<1>1. job \in WriteJobs \/ job \in DeleteJobs \/ job = Idle  BY DEF Typed
<1>2. job \in WriteJobs =>
        /\ job.kind \in {"create", "append", "touch"} /\ job.at \in Steps
        /\ job.owner \in Principals /\ job.memory \in Live /\ job.over \in Seq(Entry)
  BY DEF WriteJobs
<1>3. job \in DeleteJobs => job.kind = "delete" /\ job.at = "folder"
  BY DEF DeleteJobs
<1> QED  BY <1>1, <1>2, <1>3, IdleParts DEF Steps

LEMMA TargetParts ==
  ASSUME Typed, job.at \in Steps
  PROVE  \E t \in Sessions : Target = t /\ job.on = {t}
<1>1. PICK t \in Sessions : job.on = {t}  BY JobParts DEF WriteJobs
<1> QED  BY <1>1 DEF Target

-----------------------------------------------------------------------------
(* A session a step does not touch, but for its place in the cache and in    *)
(* the saved index                                                           *)

Near(x) ==
  /\ metadata'[x] = metadata[x] /\ memory'[x] = memory[x] /\ archive'[x] = archive[x]
  /\ index'[x] = index[x] /\ indexFile'[x] \in {indexFile[x], index[x]}
  /\ x \in Range(cache') => x \in Range(cache) /\ object'[x] = object[x]
  /\ \A e \in Events : <<x, e>> \in acked' => <<x, e>> \in acked
  /\ x \in torn' <=> x \in torn
  /\ x \in shaken' <=> x \in shaken
  /\ IF x \in job.on THEN job' = job ELSE x \notin job'.on

(* What a step does right by a session.                                      *)
Goes(x) ==
  /\ Stored(x)'
  /\ x \in Sound /\ ~Deleting(x) => OnDisk(x) \subseteq OnDisk(x)'

LEMMA NearGoes ==
  ASSUME NEW x \in Sessions, Stored(x), Near(x)
  PROVE  Goes(x)
<1>1. /\ metadata'[x] = metadata[x] /\ memory'[x] = memory[x]
      /\ archive'[x] = archive[x]
      /\ index'[x] = index[x] /\ indexFile'[x] \in {indexFile[x], index[x]}
      /\ x \in Range(cache') => x \in Range(cache) /\ object'[x] = object[x]
      /\ \A e \in Events : <<x, e>> \in acked' => <<x, e>> \in acked
      /\ x \in torn' <=> x \in torn
      /\ x \in shaken' <=> x \in shaken
  BY Zenon DEF Near
<1>2. OnDisk(x)' = OnDisk(x) /\ (x \in Sound' <=> x \in Sound)
  BY <1>1 DEF OnDisk, Sound
<1>3. CASE x \in job.on
  <2>1. job' = job  BY <1>3 DEF Near
  <2>2. /\ Deleting(x)' <=> Deleting(x)
        /\ Writing(x)' <=> Writing(x)
    BY <2>1 DEF Deleting, Writing
  <2>3. Filed(x) => Filed(x)'  BY <1>1, <2>1, <2>2 DEF Filed
  <2>4. Continues(x) => Continues(x)'
    BY <1>1, <2>1 DEF Continues, NewEntries
  <2>5. Clean(x) => Clean(x)'
    BY <1>1, <1>2, <2>1, <2>2, <2>4 DEF Clean
  <2> QED  BY <1>1, <1>2, <2>2, <2>3, <2>5 DEF Goes, Stored, NumberedOnce
<1>4. CASE x \notin job.on
  <2>1. x \notin job'.on  BY <1>4 DEF Near
  <2>2. ~Deleting(x) /\ ~Deleting(x)' /\ ~Writing(x) /\ ~Writing(x)'
    BY <1>4, <2>1 DEF Deleting, Writing
  <2>3. Filed(x) => Filed(x)'  BY <1>1, <2>2 DEF Filed
  <2>4. Clean(x) => Clean(x)'  BY <1>1, <1>2, <2>2 DEF Clean
  <2> QED  BY <1>1, <1>2, <2>2, <2>3, <2>4 DEF Goes, Stored, NumberedOnce
<1> QED  BY <1>3, <1>4

-----------------------------------------------------------------------------
(* Loading                                                                   *)

Moves == Typed' /\ Listed' /\ \A x \in Sessions : Goes(x)

LEMMA LoadedParts ==
  ASSUME SessionInv, job = Idle, NEW s \in Sessions, Loadable(s)
  PROVE  /\ Loaded(s) \in [owner: Principals, memory: Live]
         /\ s \notin torn => index[s] # None /\ Loaded(s).owner = index[s]
         /\ s \in Sound => Loaded(s).memory = memory[s]
<1>1. Typed /\ Listed /\ Stored(s) /\ ~Deleting(s) /\ ~Writing(s)
  BY IdleParts DEF SessionInv, Deleting, Writing
<1>2. /\ metadata[s] \in Owners /\ memory[s] \in Live \cup {Absent}
      /\ index[s] \in Owners
      /\ object[s] \in [owner: Owners, memory: Live \cup {Absent}]
      /\ \A o \in Owners : o # None => o \in Principals
  BY <1>1 DEF Typed, Owners
<1>3. Empty \in Live /\ Absent \notin Live
  BY SessionAssumption DEF Empty, Absent, Live
<1>4. CASE s \in Range(cache)
  <2>1. Loaded(s) = object[s]  BY <1>4 DEF Loaded
  <2>2. object[s].owner # None /\ object[s].memory \in Live
    BY <1>1, <1>4 DEF Listed
  <2>3. s \notin torn => index[s] # None /\ object[s].owner = index[s]
    BY <1>1, <1>4 DEF Stored, Filed
  <2>4. s \in Sound => object[s].memory = memory[s]
    BY <1>1, <1>4 DEF Stored, Clean
  <2> QED  BY <1>2, <2>1, <2>2, <2>3, <2>4
<1>5. CASE s \notin Range(cache)
  <2>1. index[s] # None  BY <1>5 DEF Loadable
  <2>2. Loaded(s) = [owner  |-> IF metadata[s] = None THEN Default ELSE metadata[s],
                     memory |-> IF memory[s] = Absent THEN Empty ELSE memory[s]]
    BY <1>5 DEF Loaded
  <2>3. Loaded(s) \in [owner: Principals, memory: Live]
    BY <1>2, <1>3, <2>2, SessionAssumption
  <2>4. s \notin torn => metadata[s] = index[s] /\ memory[s] # Absent
    BY <1>1, <2>1 DEF Stored, Filed
  <2>5. s \in Sound => s \notin torn  BY DEF Sound
  <2> QED  BY <2>1, <2>2, <2>3, <2>4, <2>5
<1> QED  BY <1>4, <1>5

(* The new object of a session that is loaded or written is as the index     *)
(* and, unless the session is being written, the memory file have it.        *)
LEMMA LoadMoves ==
  ASSUME SessionInv, NEW s \in Sessions, LoadSession(s)
  PROVE  Moves
<1>1. /\ Typed /\ Listed /\ job = Idle /\ Loadable(s)
      /\ \A x \in Sessions : Stored(x)
  BY DEF SessionInv, LoadSession
<1>2. PICK o \in [owner: Principals, memory: Live] :
        /\ o = Loaded(s)
        /\ s \notin torn => index[s] # None /\ o.owner = index[s]
        /\ s \in Sound => o.memory = memory[s]
  BY <1>1, LoadedParts
<1>3. /\ cache' = Cached(s) /\ object' = Objects(s, o)
      /\ metadata' = metadata /\ memory' = memory /\ archive' = archive
      /\ indexFile' = indexFile /\ index' = index /\ job' = job
      /\ acked' = acked /\ torn' = torn /\ shaken' = shaken /\ mishaps' = mishaps
  BY <1>2 DEF LoadSession, disk
<1>4. /\ Listed' /\ s \in Range(cache')
      /\ object' \in [Sessions -> [owner: Owners, memory: Live \cup {Absent}]]
      /\ object'[s] = o
      /\ \A x \in Sessions \ {s} :
           x \in Range(cache') => x \in Range(cache) /\ object'[x] = object[x]
  BY <1>1, <1>3, CachesOne
<1>5. Typed'  BY <1>1, <1>3, <1>4 DEF Typed
<1>6. ASSUME NEW x \in Sessions, x # s PROVE Goes(x)
  <2>1. Near(x)  BY <1>3, <1>4, <1>6 DEF Near
  <2> QED  BY <1>1, <2>1, NearGoes
<1>7. Goes(s)
  <2>1. /\ ~Deleting(s) /\ ~Writing(s) /\ ~Deleting(s)' /\ ~Writing(s)'
        /\ s \in Sound' <=> s \in Sound
        /\ OnDisk(s)' = OnDisk(s)
    BY <1>1, <1>3, IdleParts DEF Deleting, Writing, Sound, OnDisk
  <2>2. s \notin torn => Filed(s)'
    BY <1>1, <1>2, <1>3, <1>4, <2>1 DEF Stored, Filed
  <2>3. s \in Sound => Clean(s)'
    BY <1>1, <1>2, <1>3, <1>4, <2>1 DEF Stored, Clean
  <2> QED  BY <1>1, <1>3, <2>1, <2>2, <2>3 DEF Goes, Stored, NumberedOnce
<1> QED  BY <1>4, <1>5, <1>6, <1>7 DEF Moves

-----------------------------------------------------------------------------
(* Operations that begin to write                                            *)

LEMMA CreateMoves ==
  ASSUME SessionInv, NEW s \in Sessions, NEW p \in Principals, CreateSession(s, p)
  PROVE  Moves
<1>1. /\ Typed /\ Listed /\ job = Idle /\ index[s] = None
      /\ \A x \in Sessions : Stored(x)
  BY DEF SessionInv, CreateSession
<1>2. Overflow(<<>>) = <<>> /\ Kept(<<>>) = <<>>
  BY SessionAssumption DEF Overflow, Kept
<1>3. job' = [kind |-> "create", on |-> {s}, event |-> None, owner |-> p,
              at |-> "metadata", over |-> <<>>, memory |-> Empty]
  BY <1>2 DEF CreateSession, WriteJob, Empty
<1>4. /\ cache' = cache /\ object' = object
      /\ metadata' = metadata /\ memory' = memory /\ archive' = archive
      /\ indexFile' = indexFile /\ index' = index
      /\ acked' = acked /\ torn' = torn /\ shaken' = shaken /\ mishaps' = mishaps
  BY DEF CreateSession, disk
<1>5. Typed'
  <2>1. job' \in WriteJobs /\ job'.kind # "append"
    BY <1>3, SessionAssumption DEF WriteJobs, Steps, Live, Empty
  <2> QED  BY <1>1, <1>4, <2>1 DEF Typed
<1>6. Listed'  BY <1>1, <1>4 DEF Listed
<1>7. ASSUME NEW x \in Sessions, x # s PROVE Goes(x)
  <2>1. Near(x)  BY <1>1, <1>3, <1>4, <1>7, IdleParts DEF Near
  <2> QED  BY <1>1, <2>1, NearGoes
<1>8. Goes(s)
  <2>1. /\ ~Deleting(s) /\ ~Writing(s) /\ ~Deleting(s)' /\ Writing(s)'
        /\ s \in Sound' <=> s \in Sound
        /\ OnDisk(s)' = OnDisk(s)
    BY <1>1, <1>3, <1>4, IdleParts DEF Deleting, Writing, Sound, OnDisk
  <2>2. s \notin torn => Filed(s)'
    BY <1>1, <1>3, <1>4, <2>1 DEF Stored, Filed
  <2>3. s \in Sound => Clean(s)'
    BY <1>1, <1>3, <1>4, <2>1 DEF Stored, Clean
  <2> QED  BY <1>1, <1>4, <2>1, <2>2, <2>3 DEF Goes, Stored, NumberedOnce
<1> QED  BY <1>5, <1>6, <1>7, <1>8 DEF Moves

(* An operation that changes the cached object and writes it: its memory is  *)
(* the loaded one, with one entry appended under the next number or not.     *)
Grows(old, new) ==
  /\ Range(old.history) \subseteq Range(new.history) /\ new.next >= old.next
  /\ \A x \in Range(new.history) \ Range(old.history) :
       x.turn = old.next /\ new.next > x.turn
  /\ \A x, y \in Range(new.history) \ Range(old.history) : x = y
  /\ \A i \in 1..(Len(new.history) - 1) : new.history[i] \in Range(old.history)

LEMMA ChangeMoves ==
  ASSUME SessionInv, job = Idle, NEW s \in Sessions, Loadable(s),
         NEW kind \in {"append", "touch"}, NEW e \in Events \cup {None},
         kind = "append" => e \in Events,
         NEW o \in [owner: Principals, memory: Live],
         o.owner = Loaded(s).owner,
         Grows(Loaded(s).memory, o.memory),
         kind = "append" =>
           /\ Len(o.memory.history) > 0
           /\ o.memory.history[Len(o.memory.history)].id = e,
         Change(kind, s, e, o),
         UNCHANGED <<disk, index, acked, torn, shaken, mishaps>>
  PROVE  Moves
<1>1. /\ Typed /\ Listed /\ \A x \in Sessions : Stored(x)
  BY DEF SessionInv
<1>2. PICK old \in [owner: Principals, memory: Live] :
        /\ old = Loaded(s)
        /\ s \notin torn => index[s] # None /\ old.owner = index[s]
        /\ s \in Sound => old.memory = memory[s]
  BY <1>1, LoadedParts
<1>3. PICK over \in Seq(Entry), kept \in Seq(Entry) :
        /\ over = Overflow(o.memory.history) /\ kept = Kept(o.memory.history)
        /\ Range(over) \cup Range(kept) = Range(o.memory.history)
        /\ Len(o.memory.history) > 0 =>
             o.memory.history[Len(o.memory.history)] \in Range(kept)
        /\ \A x \in Range(over) :
             \E i \in 1..(Len(o.memory.history) - 1) : o.memory.history[i] = x
  <2>1. o.memory.history \in Seq(Entry)  BY DEF Live
  <2> QED  BY <2>1, RotationParts
<1>4. PICK m \in Live : m = [o.memory EXCEPT !.history = kept] /\ m.history = kept
                        /\ m.next = o.memory.next
  <2>1. /\ [o.memory EXCEPT !.history = kept] = [history |-> kept, next |-> o.memory.next]
        /\ o.memory.next \in 1..(MaxTurn + 1)
    BY DEF Live
  <2>2. [history |-> kept, next |-> o.memory.next] \in Live  BY <2>1 DEF Live
  <2> QED  BY <2>1, <2>2
<1>5. job' = [kind |-> kind, on |-> {s}, event |-> e, owner |-> o.owner,
              at |-> IF over = <<>> THEN "metadata" ELSE "archive",
              over |-> over, memory |-> m]
  BY <1>3, <1>4 DEF Change, WriteJob
<1>6. PICK w \in [owner: Principals, memory: Live] :
        w = [owner |-> o.owner, memory |-> m]
  BY <1>4
<1>7. /\ cache' = Cached(s) /\ object' = Objects(s, w)
      /\ metadata' = metadata /\ memory' = memory /\ archive' = archive
      /\ indexFile' = indexFile /\ index' = index
      /\ acked' = acked /\ torn' = torn /\ shaken' = shaken /\ mishaps' = mishaps
  <2>1. WriteJob(kind, s, e, o).owner = o.owner /\ WriteJob(kind, s, e, o).memory = m
    BY <1>3, <1>4 DEF WriteJob
  <2> QED  BY <1>6, <2>1 DEF Change, disk
<1>8. /\ Listed' /\ s \in Range(cache')
      /\ object' \in [Sessions -> [owner: Owners, memory: Live \cup {Absent}]]
      /\ object'[s] = w
      /\ \A x \in Sessions \ {s} :
           x \in Range(cache') => x \in Range(cache) /\ object'[x] = object[x]
  BY <1>1, <1>7, CachesOne
<1>9. Typed'
  <2>1. job' \in WriteJobs  BY <1>3, <1>4, <1>5 DEF WriteJobs, Steps
  <2>2. job'.kind = "append" => job'.event \in Events  BY <1>5
  <2> QED  BY <1>1, <1>7, <1>8, <2>1, <2>2 DEF Typed
<1>10. ASSUME NEW x \in Sessions, x # s PROVE Goes(x)
  <2>1. Near(x)  BY <1>5, <1>7, <1>8, <1>10, IdleParts DEF Near
  <2> QED  BY <1>1, <2>1, NearGoes
<1>11. Goes(s)
  <2>1. /\ ~Deleting(s) /\ ~Writing(s) /\ ~Deleting(s)' /\ Writing(s)'
        /\ s \in Sound' <=> s \in Sound
        /\ OnDisk(s)' = OnDisk(s)
    BY <1>1, <1>5, <1>7, IdleParts DEF Deleting, Writing, Sound, OnDisk
  <2>2. s \notin torn => Filed(s)'
    BY <1>1, <1>2, <1>5, <1>6, <1>7, <1>8, <2>1 DEF Stored, Filed
  <2>3. ASSUME s \in Sound PROVE Clean(s)'
    <3>1. s \notin torn /\ old.memory = memory[s] /\ Clean(s) /\ index[s] # None
      BY <1>1, <1>2, <2>1, <2>3 DEF Stored, Sound
    <3>2. Grows(memory[s], o.memory)
      BY <1>2, <3>1
    <3>3. Continues(s)'
      <4>1. Range(over) \subseteq Range(memory[s].history)
        BY <1>3, <3>2 DEF Grows
      <4>2. Range(memory[s].history) \subseteq Range(over) \cup Range(kept)
        BY <1>3, <3>2 DEF Grows
      <4>3. NewEntries(s)' \subseteq Range(o.memory.history) \ Range(memory[s].history)
        BY <1>3, <1>4, <1>5, <1>7 DEF NewEntries
      <4>4. over = <<>> => Range(over) \subseteq Range(archive[s])
        BY RangeOfEmpty
      <4>5. job'.at # "archive" => over = <<>>  BY <1>5
      <4> QED
        BY <1>4, <1>5, <1>7, <3>2, <4>1, <4>2, <4>3, <4>4, <4>5 DEF Continues, Grows
    <3>4. kind = "append" => \E x \in Range(job'.memory.history) : x.id = job'.event
      BY <1>3, <1>4, <1>5
    <3>5. job'.kind = kind /\ job'.at \in {"archive", "metadata"}  BY <1>5
    <3> QED  BY <1>7, <2>1, <3>1, <3>3, <3>4, <3>5 DEF Clean
  <2> QED  BY <1>1, <1>7, <2>1, <2>2, <2>3 DEF Goes, Stored, NumberedOnce
<1> QED  BY <1>8, <1>9, <1>10, <1>11 DEF Moves

LEMMA TouchMoves ==
  ASSUME SessionInv, NEW s \in Sessions, Touch(s)
  PROVE  Moves
<1>1. /\ job = Idle /\ Loadable(s) /\ Change("touch", s, None, Loaded(s))
      /\ UNCHANGED <<disk, index, acked, torn, shaken, mishaps>>
  BY DEF Touch
<1>2. PICK o \in [owner: Principals, memory: Live] : o = Loaded(s)
  BY <1>1, LoadedParts
<1>3. Grows(Loaded(s).memory, o.memory)
  <2>1. o.memory.next \in Nat /\ o.memory.history \in Seq(Entry)
    BY SessionAssumption DEF Live
  <2>2. \A i \in 1..(Len(o.memory.history) - 1) :
          o.memory.history[i] \in Range(o.memory.history)
    BY <2>1, RangeOfSeq
  <2> QED  BY <1>2, <2>1, <2>2 DEF Grows
<1>4. Change("touch", s, None, o)  BY <1>1, <1>2 DEF Change
<1> QED  BY <1>1, <1>2, <1>3, <1>4, ChangeMoves

LEMMA AppendMoves ==
  ASSUME SessionInv, NEW s \in Sessions, NEW e \in Events, AppendHistory(s, e)
  PROVE  Moves
<1>1. /\ Typed /\ Listed /\ job = Idle /\ Loadable(s)
      /\ \A x \in Sessions : Stored(x)
  BY DEF SessionInv, AppendHistory
<1>2. PICK old \in [owner: Principals, memory: Live] :
        /\ old = Loaded(s)
        /\ s \notin torn => index[s] # None /\ old.owner = index[s]
        /\ s \in Sound => old.memory = memory[s]
  BY <1>1, LoadedParts
<1>3. /\ old.memory.history \in Seq(Entry) /\ old.memory.next \in 1..(MaxTurn + 1)
      /\ MaxTurn \in Nat
  BY SessionAssumption DEF Live
<1>4. CASE e \in Ids(old.memory.history)
  <2>1. /\ cache' = Cached(s) /\ object' = Objects(s, old)
        /\ acked' = acked \cup {<<s, e>>}
        /\ metadata' = metadata /\ memory' = memory /\ archive' = archive
        /\ indexFile' = indexFile /\ index' = index /\ job' = job
        /\ torn' = torn /\ shaken' = shaken /\ mishaps' = mishaps
    BY <1>2, <1>4 DEF AppendHistory, disk
  <2>2. /\ Listed' /\ s \in Range(cache')
        /\ object' \in [Sessions -> [owner: Owners, memory: Live \cup {Absent}]]
        /\ object'[s] = old
        /\ \A x \in Sessions \ {s} :
             x \in Range(cache') => x \in Range(cache) /\ object'[x] = object[x]
    BY <1>1, <2>1, CachesOne
  <2>3. Typed'  BY <1>1, <2>1, <2>2 DEF Typed
  <2>4. ASSUME NEW x \in Sessions, x # s PROVE Goes(x)
    <3>1. Near(x)  BY <2>1, <2>2, <2>4 DEF Near
    <3> QED  BY <1>1, <3>1, NearGoes
  <2>5. Goes(s)
    <3>1. /\ ~Deleting(s) /\ ~Writing(s) /\ ~Deleting(s)' /\ ~Writing(s)'
          /\ s \in Sound' <=> s \in Sound
          /\ OnDisk(s)' = OnDisk(s)
      BY <1>1, <2>1, IdleParts DEF Deleting, Writing, Sound, OnDisk
    <3>2. s \notin torn => Filed(s)'
      BY <1>1, <1>2, <2>1, <2>2, <3>1 DEF Stored, Filed
    <3>3. ASSUME s \in Sound PROVE Clean(s)'
      <4>1. Clean(s) /\ old.memory = memory[s]  BY <1>1, <1>2, <3>1, <3>3 DEF Stored
      <4>2. \E x \in OnDisk(s) : x.id = e
        <5>1. PICK i \in 1..Len(old.memory.history) : old.memory.history[i].id = e
          BY <1>3, <1>4 DEF Ids
        <5>2. old.memory.history[i] \in Range(old.memory.history)
          BY <1>3, RangeOfSeq
        <5> QED  BY <4>1, <5>1, <5>2 DEF OnDisk
      <4>3. \A d \in Events : <<s, d>> \in acked' =>
              \E x \in OnDisk(s) : x.id = d
        BY <2>1, <4>1, <4>2 DEF Clean
      <4> QED  BY <2>1, <2>2, <3>1, <4>1, <4>3 DEF Clean
    <3> QED  BY <1>1, <2>1, <3>1, <3>2, <3>3 DEF Goes, Stored, NumberedOnce
  <2> QED  BY <2>2, <2>3, <2>4, <2>5 DEF Moves
<1>5. CASE e \notin Ids(old.memory.history)
  <2>1. old.memory.next <= MaxTurn  BY <1>2, <1>5 DEF AppendHistory
  <2>2. PICK new \in Entry : new = [id |-> e, turn |-> old.memory.next]
    <3>1. [id |-> e, turn |-> old.memory.next] \in Entry  BY <1>3, <2>1 DEF Entry
    <3> QED  BY <3>1
  <2>3. PICK h \in Seq(Entry) :
          /\ h = Append(old.memory.history, new) /\ Len(h) = Len(old.memory.history) + 1
          /\ h[Len(h)] = new
          /\ \A i \in 1..Len(old.memory.history) : h[i] = old.memory.history[i]
    <3> DEFINE longer == Append(old.memory.history, new)
    <3>1. /\ longer \in Seq(Entry) /\ Len(longer) = Len(old.memory.history) + 1
          /\ longer[Len(longer)] = new
          /\ \A i \in 1..Len(old.memory.history) : longer[i] = old.memory.history[i]
      BY <1>3
    <3> HIDE DEF longer
    <3>2. \E h \in Seq(Entry) :
            /\ h = longer /\ Len(h) = Len(old.memory.history) + 1
            /\ h[Len(h)] = new
            /\ \A i \in 1..Len(old.memory.history) : h[i] = old.memory.history[i]
      BY <3>1
    <3> QED  BY <3>2 DEF longer
  <2>4. PICK m \in Live :
          m = [history |-> h, next |-> old.memory.next + 1]
    <3>1. [history |-> h, next |-> old.memory.next + 1] \in Live
      BY <1>3, <2>1 DEF Live
    <3> QED  BY <3>1
  <2>5. PICK o \in [owner: Principals, memory: Live] :
          o = [owner |-> old.owner, memory |-> m]
    OBVIOUS
  <2>6. Change("append", s, e, o)
    BY <1>2, <1>5, <2>2, <2>3, <2>4, <2>5 DEF AppendHistory
  <2>7. UNCHANGED <<disk, index, acked, torn, shaken, mishaps>>
    BY <1>2, <1>5 DEF AppendHistory
  <2>8. Grows(old.memory, o.memory)
    <3>1. \A x \in Range(h) : x \in Range(old.memory.history) \/ x = new
      <4> TAKE x \in Range(h)
      <4>1. PICK i \in 1..Len(h) : h[i] = x  BY RangeOfSeq
      <4>2. CASE i = Len(h)  BY <2>3, <4>1, <4>2
      <4>3. CASE i # Len(h)
        <5>1. i \in 1..Len(old.memory.history)  BY <1>3, <2>3, <4>3
        <5> QED  BY <1>3, <2>3, <4>1, <5>1, RangeOfSeq
      <4> QED  BY <4>2, <4>3
    <3>2. Range(old.memory.history) \subseteq Range(h)
      <4> SUFFICES ASSUME NEW x \in Range(old.memory.history) PROVE x \in Range(h)
        OBVIOUS
      <4>1. PICK i \in 1..Len(old.memory.history) : old.memory.history[i] = x
        BY <1>3, RangeOfSeq
      <4>2. i \in 1..Len(h) /\ h[i] = x  BY <1>3, <2>3, <4>1
      <4> QED  BY <4>2, RangeOfSeq
    <3>3. \A i \in 1..(Len(h) - 1) : h[i] \in Range(old.memory.history)
      BY <1>3, <2>3, RangeOfSeq
    <3>4. /\ m.history = h /\ o.memory = m /\ new.turn = old.memory.next
          /\ m.next > old.memory.next /\ m.next >= old.memory.next
          /\ m.next > new.turn
      BY <1>3, <2>2, <2>4, <2>5
    <3> QED  BY <3>1, <3>2, <3>3, <3>4 DEF Grows
  <2>9. Len(o.memory.history) > 0 /\ o.memory.history[Len(o.memory.history)].id = e
    BY <1>3, <2>2, <2>3, <2>4, <2>5
  <2> QED  BY <1>1, <1>2, <2>5, <2>6, <2>7, <2>8, <2>9, ChangeMoves
<1> QED  BY <1>4, <1>5

-----------------------------------------------------------------------------
(* Writing, one file after the other                                         *)

LEMMA WriteArchiveMoves ==
  ASSUME SessionInv, WriteArchive
  PROVE  Moves
<1>1. /\ Typed /\ Listed /\ job.at = "archive" /\ \A x \in Sessions : Stored(x)
      /\ metadata' = metadata /\ memory' = memory
      /\ cache' = cache /\ object' = object
      /\ indexFile' = indexFile /\ index' = index
      /\ acked' = acked /\ torn' = torn /\ shaken' = shaken /\ mishaps' = mishaps
  BY DEF SessionInv, WriteArchive
<1>2. job.at \in Steps /\ job \in WriteJobs /\ job.over \in Seq(Entry)
      /\ job.kind # "delete"
  BY <1>1, JobParts DEF Steps
<1>3. PICK t \in Sessions : Target = t /\ job.on = {t}  BY <1>1, <1>2, TargetParts
<1>4. /\ archive' = [archive EXCEPT ![t] = archive[t] \o job.over]
      /\ job' = [job EXCEPT !.at = "metadata"]
  BY <1>3 DEF WriteArchive
<1>5. archive[t] \in Seq(Entry)  BY <1>1 DEF Typed
<1>6. PICK longer \in Seq(Entry) :
        /\ longer = archive[t] \o job.over
        /\ Range(longer) = Range(archive[t]) \cup Range(job.over)
  BY <1>2, <1>5, ConcatRange
<1>7. /\ archive'[t] = longer /\ archive' \in [Sessions -> Seq(Entry)]
      /\ \A x \in Sessions \ {t} : archive'[x] = archive[x]
  BY <1>1, <1>4, <1>6 DEF Typed
<1>8. /\ job' \in WriteJobs /\ job'.at = "metadata"
      /\ job'.kind = job.kind /\ job'.on = job.on /\ job'.event = job.event
      /\ job'.over = job.over /\ job'.owner = job.owner /\ job'.memory = job.memory
  BY <1>2, <1>4 DEF WriteJobs, Steps
<1>9. Typed'  BY <1>1, <1>7, <1>8 DEF Typed
<1>10. Listed'  BY <1>1 DEF Listed
<1>11. ASSUME NEW x \in Sessions, x # t PROVE Goes(x)
  <2>1. Near(x)  BY <1>1, <1>3, <1>7, <1>8, <1>11 DEF Near
  <2> QED  BY <1>1, <2>1, NearGoes
<1>12. Goes(t)
  <2>1. /\ ~Deleting(t) /\ Writing(t) /\ ~Deleting(t)' /\ Writing(t)'
        /\ t \in Sound' <=> t \in Sound
    BY <1>1, <1>2, <1>3, <1>8 DEF Deleting, Writing, Sound
  <2>2. t \notin torn => Filed(t)'
    BY <1>1, <1>8, <2>1 DEF Stored, Filed
  <2>3. ASSUME t \in Sound PROVE Clean(t)' /\ OnDisk(t)' = OnDisk(t)
    <3>1. t \notin torn /\ Clean(t) /\ Filed(t)
      BY <1>1, <2>1, <2>3 DEF Stored, Sound
    <3>2. CASE job.kind = "create"
      <4>1. job.over = <<>> /\ job.memory = Empty /\ index[t] = None
            /\ archive[t] = <<>>
        BY <2>1, <3>1, <3>2 DEF Clean, Filed
      <4>2. longer = <<>>  BY <1>6, <4>1
      <4>3. OnDisk(t)' = OnDisk(t)  BY <1>1, <1>7, <4>1, <4>2 DEF OnDisk
      <4> QED  BY <1>1, <1>7, <1>8, <2>1, <3>1, <3>2, <4>1, <4>2, <4>3 DEF Clean
    <3>3. CASE job.kind # "create"
      <4>1. Continues(t)  BY <1>1, <2>1, <3>1, <3>3 DEF Clean
      <4>2. OnDisk(t)' = OnDisk(t)  BY <1>1, <1>6, <1>7, <4>1 DEF OnDisk, Continues
      <4>3. Continues(t)'
        BY <1>1, <1>6, <1>7, <1>8, <4>1 DEF Continues, NewEntries
      <4>4. index[t] # None  BY <2>1, <3>1, <3>3 DEF Filed
      <4> QED  BY <1>1, <1>8, <2>1, <3>1, <3>3, <4>2, <4>3, <4>4 DEF Clean
    <3> QED  BY <3>2, <3>3
  <2> QED  BY <1>1, <2>1, <2>2, <2>3 DEF Goes, Stored, NumberedOnce
<1> QED  BY <1>9, <1>10, <1>11, <1>12 DEF Moves

LEMMA WriteMetadataMoves ==
  ASSUME SessionInv, WriteMetadata
  PROVE  Moves
<1>1. /\ Typed /\ Listed /\ job.at = "metadata" /\ \A x \in Sessions : Stored(x)
      /\ memory' = memory /\ archive' = archive
      /\ cache' = cache /\ object' = object
      /\ indexFile' = indexFile /\ index' = index
      /\ acked' = acked /\ torn' = torn /\ shaken' = shaken /\ mishaps' = mishaps
  BY DEF SessionInv, WriteMetadata
<1>2. /\ job.at \in Steps /\ job \in WriteJobs /\ job.owner \in Principals
      /\ job.kind # "delete"
  BY <1>1, JobParts DEF Steps
<1>3. PICK t \in Sessions : Target = t /\ job.on = {t}  BY <1>1, <1>2, TargetParts
<1>4. /\ metadata' = [metadata EXCEPT ![t] = job.owner]
      /\ job' = [job EXCEPT !.at = "memory"]
  BY <1>3 DEF WriteMetadata
<1>5. /\ metadata'[t] = job.owner /\ metadata' \in [Sessions -> Owners]
      /\ \A x \in Sessions \ {t} : metadata'[x] = metadata[x]
  BY <1>1, <1>2, <1>4 DEF Typed, Owners
<1>6. /\ job' \in WriteJobs /\ job'.at = "memory"
      /\ job'.kind = job.kind /\ job'.on = job.on /\ job'.event = job.event
      /\ job'.over = job.over /\ job'.owner = job.owner /\ job'.memory = job.memory
  BY <1>2, <1>4 DEF WriteJobs, Steps
<1>7. Typed'  BY <1>1, <1>5, <1>6 DEF Typed
<1>8. Listed'  BY <1>1 DEF Listed
<1>9. ASSUME NEW x \in Sessions, x # t PROVE Goes(x)
  <2>1. Near(x)  BY <1>1, <1>3, <1>5, <1>6, <1>9 DEF Near
  <2> QED  BY <1>1, <2>1, NearGoes
<1>10. Goes(t)
  <2>1. /\ ~Deleting(t) /\ Writing(t) /\ ~Deleting(t)' /\ Writing(t)'
        /\ t \in Sound' <=> t \in Sound
        /\ OnDisk(t)' = OnDisk(t)
    BY <1>1, <1>2, <1>3, <1>6 DEF Deleting, Writing, Sound, OnDisk
  <2>2. t \notin torn => Filed(t)'
    BY <1>1, <1>5, <1>6, <2>1 DEF Stored, Filed
  <2>3. Continues(t) => Continues(t)'
    BY <1>1, <1>6 DEF Continues, NewEntries
  <2>4. t \in Sound => Clean(t)'
    BY <1>1, <1>6, <2>1, <2>3 DEF Stored, Clean
  <2> QED  BY <1>1, <2>1, <2>2, <2>4 DEF Goes, Stored, NumberedOnce
<1> QED  BY <1>7, <1>8, <1>9, <1>10 DEF Moves

LEMMA WriteMarkdownMoves ==
  ASSUME SessionInv, WriteMarkdown
  PROVE  Moves
<1>1. /\ Typed /\ Listed /\ job.at = "markdown" /\ \A x \in Sessions : Stored(x)
      /\ metadata' = metadata /\ memory' = memory /\ archive' = archive
      /\ cache' = cache /\ object' = object
      /\ indexFile' = indexFile /\ index' = index
      /\ acked' = acked /\ torn' = torn /\ shaken' = shaken /\ mishaps' = mishaps
      /\ job' = [job EXCEPT !.at = "index"]
  BY DEF SessionInv, WriteMarkdown, disk
<1>2. /\ job.at \in Steps /\ job \in WriteJobs /\ job.kind # "delete"
  BY <1>1, JobParts DEF Steps
<1>3. PICK t \in Sessions : job.on = {t}  BY <1>1, <1>2, TargetParts
<1>4. /\ job' \in WriteJobs /\ job'.at = "index"
      /\ job'.kind = job.kind /\ job'.on = job.on /\ job'.event = job.event
      /\ job'.over = job.over /\ job'.owner = job.owner /\ job'.memory = job.memory
  BY <1>1, <1>2 DEF WriteJobs, Steps
<1>5. Typed'  BY <1>1, <1>4 DEF Typed
<1>6. Listed'  BY <1>1 DEF Listed
<1>7. ASSUME NEW x \in Sessions, x # t PROVE Goes(x)
  <2>1. Near(x)  BY <1>1, <1>3, <1>4, <1>7 DEF Near
  <2> QED  BY <1>1, <2>1, NearGoes
<1>8. Goes(t)
  <2>1. /\ ~Deleting(t) /\ Writing(t) /\ ~Deleting(t)' /\ Writing(t)'
        /\ t \in Sound' <=> t \in Sound
        /\ OnDisk(t)' = OnDisk(t)
    BY <1>1, <1>2, <1>3, <1>4 DEF Deleting, Writing, Sound, OnDisk
  <2>2. t \notin torn => Filed(t)'
    BY <1>1, <1>4, <2>1 DEF Stored, Filed
  <2>3. t \in Sound => Clean(t)'
    BY <1>1, <1>4, <2>1 DEF Stored, Clean
  <2> QED  BY <1>1, <2>1, <2>2, <2>3 DEF Goes, Stored, NumberedOnce
<1> QED  BY <1>5, <1>6, <1>7, <1>8 DEF Moves

(* The entries of the old memory are in the new one or in the archive, and   *)
(* the one new entry has a number above all of them.                         *)
LEMMA WriteMemoryMoves ==
  ASSUME SessionInv, WriteMemory
  PROVE  Moves
<1>1. /\ Typed /\ Listed /\ job.at = "memory" /\ \A x \in Sessions : Stored(x)
      /\ metadata' = metadata /\ archive' = archive
      /\ cache' = cache /\ object' = object
      /\ indexFile' = indexFile /\ index' = index
      /\ acked' = acked /\ torn' = torn /\ shaken' = shaken /\ mishaps' = mishaps
  BY DEF SessionInv, WriteMemory
<1>2. /\ job.at \in Steps /\ job \in WriteJobs /\ job.memory \in Live
      /\ job.kind # "delete"
  BY <1>1, JobParts DEF Steps
<1>3. PICK t \in Sessions : Target = t /\ job.on = {t}  BY <1>1, <1>2, TargetParts
<1>4. /\ memory' = [memory EXCEPT ![t] = job.memory]
      /\ job' = [job EXCEPT !.at = "markdown"]
  BY <1>3 DEF WriteMemory
<1>5. /\ memory'[t] = job.memory /\ memory' \in [Sessions -> Live \cup {Absent}]
      /\ \A x \in Sessions \ {t} : memory'[x] = memory[x]
  BY <1>1, <1>2, <1>4 DEF Typed
<1>6. /\ job' \in WriteJobs /\ job'.at = "markdown"
      /\ job'.kind = job.kind /\ job'.on = job.on /\ job'.event = job.event
      /\ job'.over = job.over /\ job'.owner = job.owner /\ job'.memory = job.memory
  BY <1>2, <1>4 DEF WriteJobs, Steps
<1>7. Typed'  BY <1>1, <1>5, <1>6 DEF Typed
<1>8. Listed'  BY <1>1 DEF Listed
<1>9. ASSUME NEW x \in Sessions, x # t PROVE Goes(x)
  <2>1. Near(x)  BY <1>1, <1>3, <1>5, <1>6, <1>9 DEF Near
  <2> QED  BY <1>1, <2>1, NearGoes
<1>10. Goes(t)
  <2>1. /\ ~Deleting(t) /\ Writing(t) /\ ~Deleting(t)' /\ Writing(t)'
        /\ t \in Sound' <=> t \in Sound
    BY <1>1, <1>2, <1>3, <1>6 DEF Deleting, Writing, Sound
  <2>2. job.memory # Absent
    BY <1>2, SessionAssumption DEF Live, Absent
  <2>3. t \notin torn => Filed(t)'
    BY <1>1, <1>5, <1>6, <2>1, <2>2 DEF Stored, Filed
  <2>4. ASSUME t \in Sound
        PROVE  Clean(t)' /\ NumberedOnce(t)' /\ OnDisk(t) \subseteq OnDisk(t)'
    <3>1. t \notin torn /\ Clean(t) /\ Filed(t) /\ NumberedOnce(t)
      BY <1>1, <2>1, <2>4 DEF Stored, Sound
    <3>2. CASE job.kind = "create"
      <4>1. /\ job.memory = Empty /\ index[t] = None /\ archive[t] = <<>>
            /\ memory[t] \in {Absent, Empty}
        BY <2>1, <3>1, <3>2 DEF Clean, Filed
      <4>2. OnDisk(t)' = {} /\ OnDisk(t) = {}
        BY <1>1, <1>5, <4>1, RangeOfEmpty DEF OnDisk, Absent, Empty
      <4>3. \A e \in Events : <<t, e>> \notin acked  BY <3>1, <4>2 DEF Clean
      <4> QED
        BY <1>1, <1>5, <1>6, <2>1, <3>1, <3>2, <4>1, <4>2, <4>3
        DEF Clean, NumberedOnce
    <3>3. CASE job.kind # "create"
      <4>1. Continues(t)  BY <1>1, <2>1, <3>1, <3>3 DEF Clean
      <4>2. index[t] # None /\ memory[t] # Absent  BY <2>1, <3>1, <3>3 DEF Filed
      <4>3. memory[t].next \in Nat /\ job.memory.next \in Nat
        BY <1>1, <1>2, <4>2, SessionAssumption DEF Typed, Live
      <4>4. OnDisk(t) = Range(memory[t].history) \cup Range(archive[t])
            /\ OnDisk(t)' = Range(job.memory.history) \cup Range(archive[t])
        BY <1>1, <1>5 DEF OnDisk
      <4>5. OnDisk(t) \subseteq OnDisk(t)'
            /\ \A x \in OnDisk(t)' : x \in OnDisk(t) \/ x \in NewEntries(t)
        BY <1>1, <4>1, <4>4 DEF Continues, NewEntries
      <4>6. \A x \in OnDisk(t) : x.turn \in Nat /\ x.turn < memory[t].next
        <5>1. OnDisk(t) \subseteq Entry
          <6>1. memory[t].history \in Seq(Entry) /\ archive[t] \in Seq(Entry)
            BY <1>1, <4>2 DEF Typed, Live
          <6> QED  BY <4>4, <6>1, RangeOfSeq
        <5> QED  BY <3>1, <4>2, <5>1, SessionAssumption DEF Clean, Entry
      <4>7. /\ \A x \in NewEntries(t) :
                 x.turn = memory[t].next /\ job.memory.next > x.turn
            /\ \A x, y \in NewEntries(t) : x = y
            /\ job.memory.next >= memory[t].next
        BY <4>1 DEF Continues
      <4>8. \A x \in OnDisk(t)' : x.turn < memory'[t].next
        BY <1>5, <4>3, <4>5, <4>6, <4>7
      <4>9. NumberedOnce(t)'
        <5>1. \A x, y \in OnDisk(t)' : x.turn = y.turn => x = y
          BY <3>1, <4>3, <4>5, <4>6, <4>7 DEF NumberedOnce
        <5> QED  BY <5>1 DEF NumberedOnce
      <4>10. \A e \in Events : <<t, e>> \in acked' =>
               \E x \in OnDisk(t)' : x.id = e
        BY <1>1, <3>1, <4>5 DEF Clean
      <4> QED
        BY <1>1, <1>5, <1>6, <2>1, <3>1, <3>3, <4>2, <4>5, <4>8, <4>9, <4>10 DEF Clean
    <3> QED  BY <3>2, <3>3
  <2> QED  BY <1>1, <2>1, <2>3, <2>4 DEF Goes, Stored
<1> QED  BY <1>7, <1>8, <1>9, <1>10 DEF Moves

LEMMA WriteIndexMoves ==
  ASSUME SessionInv, WriteIndex
  PROVE  Moves
<1>1. /\ Typed /\ Listed /\ job.at = "index" /\ \A x \in Sessions : Stored(x)
      /\ metadata' = metadata /\ memory' = memory /\ archive' = archive
      /\ torn' = torn /\ shaken' = shaken /\ mishaps' = mishaps
      /\ indexFile' = index' /\ job' = Idle
  BY DEF SessionInv, WriteIndex
<1>2. /\ job.at \in Steps /\ job \in WriteJobs /\ job.owner \in Principals
      /\ job.memory \in Live /\ job.kind # "delete"
  BY <1>1, JobParts DEF Steps
<1>3. PICK t \in Sessions : Target = t /\ job.on = {t}  BY <1>1, <1>2, TargetParts
<1>4. PICK o \in [owner: Principals, memory: Live] :
        o = [owner |-> job.owner, memory |-> job.memory]
  BY <1>2
<1>5. /\ index' = [index EXCEPT ![t] = job.owner]
      /\ cache' = Cached(t) /\ object' = Objects(t, o)
      /\ acked' = IF job.kind = "append" THEN acked \cup {<<t, job.event>>} ELSE acked
  BY <1>3, <1>4 DEF WriteIndex
<1>6. /\ Listed' /\ t \in Range(cache')
      /\ object' \in [Sessions -> [owner: Owners, memory: Live \cup {Absent}]]
      /\ object'[t] = o
      /\ \A x \in Sessions \ {t} :
           x \in Range(cache') => x \in Range(cache) /\ object'[x] = object[x]
  BY <1>1, <1>4, <1>5, CachesOne
<1>7. /\ index'[t] = job.owner /\ index' \in [Sessions -> Owners]
      /\ \A x \in Sessions \ {t} : index'[x] = index[x]
  BY <1>1, <1>2, <1>5 DEF Typed, Owners
<1>8. /\ acked' \subseteq Sessions \X Events
      /\ \A x \in Sessions, e \in Events :
           <<x, e>> \in acked' =>
             <<x, e>> \in acked \/ (x = t /\ job.kind = "append" /\ e = job.event)
  BY <1>1, <1>5 DEF Typed
<1>9. Typed'
  BY <1>1, <1>6, <1>7, <1>8, IdleParts DEF Typed
<1>10. ASSUME NEW x \in Sessions, x # t PROVE Goes(x)
  <2>1. Near(x)  BY <1>1, <1>3, <1>6, <1>7, <1>8, <1>10, IdleParts DEF Near
  <2> QED  BY <1>1, <2>1, NearGoes
<1>11. Goes(t)
  <2>1. /\ ~Deleting(t) /\ Writing(t) /\ ~Deleting(t)' /\ ~Writing(t)'
        /\ t \in Sound' <=> t \in Sound
        /\ OnDisk(t)' = OnDisk(t)
    BY <1>1, <1>2, <1>3, IdleParts DEF Deleting, Writing, Sound, OnDisk
  <2>2. ASSUME t \notin torn
        PROVE  metadata[t] = job.owner /\ memory[t] # Absent
    BY <1>1, <1>2, <2>1, <2>2, SessionAssumption DEF Stored, Filed
  <2>3. t \notin torn => Filed(t)'
    <3>1. object'[t].owner = job.owner /\ job.owner # None
      BY <1>2, <1>4, <1>6, SessionAssumption
    <3>2. index'[t] = job.owner /\ indexFile'[t] = job.owner  BY <1>1, <1>7
    <3>3. metadata'[t] = metadata[t] /\ memory'[t] = memory[t]  BY <1>1
    <3> QED  BY <2>1, <2>2, <3>1, <3>2, <3>3 DEF Filed
  <2>4. ASSUME t \in Sound PROVE Clean(t)'
    <3>1. t \notin torn /\ Clean(t)  BY <1>1, <2>1, <2>4 DEF Stored, Sound
    <3>2. memory[t] = job.memory  BY <1>1, <2>1, <3>1 DEF Clean
    <3>3. \A e \in Events : <<t, e>> \in acked' =>
            \E x \in OnDisk(t) : x.id = e
      <4> SUFFICES ASSUME NEW e \in Events, <<t, e>> \in acked'
                   PROVE  \E x \in OnDisk(t) : x.id = e
        OBVIOUS
      <4>1. CASE <<t, e>> \in acked  BY <3>1, <4>1 DEF Clean
      <4>2. CASE job.kind = "append" /\ e = job.event
        <5>1. \E x \in Range(job.memory.history) : x.id = e
          BY <2>1, <3>1, <4>2 DEF Clean
        <5> QED  BY <3>2, <5>1 DEF OnDisk
      <4> QED  BY <1>8, <4>1, <4>2
    <3>4. index'[t] # None /\ object'[t].memory = memory[t]
      BY <1>2, <1>4, <1>6, <1>7, <3>2, SessionAssumption
    <3> QED  BY <1>1, <2>1, <3>1, <3>3, <3>4 DEF Clean
  <2> QED  BY <1>1, <2>1, <2>3, <2>4 DEF Goes, Stored, NumberedOnce
<1> QED  BY <1>6, <1>9, <1>10, <1>11 DEF Moves

LEMMA WriteRaisesMoves ==
  ASSUME SessionInv, WriteRaises
  PROVE  Moves
<1>1. /\ Typed /\ Listed /\ job.at \in Steps /\ \A x \in Sessions : Stored(x)
      /\ metadata' = metadata /\ memory' = memory /\ archive' = archive
      /\ indexFile' = indexFile /\ cache' = cache /\ object' = object
      /\ acked' = acked /\ torn' = torn /\ shaken' = shaken \cup job.on
      /\ job' = Idle
      /\ mishaps < MaxMishaps /\ mishaps' = mishaps + 1
  BY DEF SessionInv, WriteRaises, Mishap, Steps, disk
<1>2. /\ job \in WriteJobs /\ job.owner \in Principals /\ job.kind # "delete"
  BY <1>1, JobParts
<1>3. PICK t \in Sessions : Target = t /\ job.on = {t}  BY <1>1, TargetParts
<1>4. index' = IF job.at = "index" THEN [index EXCEPT ![t] = job.owner] ELSE index
  BY <1>3 DEF WriteRaises
<1>5. /\ index'[t] = IF job.at = "index" THEN job.owner ELSE index[t]
      /\ index' \in [Sessions -> Owners]
      /\ \A x \in Sessions \ {t} : index'[x] = index[x]
  BY <1>1, <1>2, <1>4 DEF Typed, Owners
<1>6. Typed'
  BY <1>1, <1>3, <1>5, IdleParts, SessionAssumption DEF Typed
<1>7. Listed'  BY <1>1 DEF Listed
<1>8. ASSUME NEW x \in Sessions, x # t PROVE Goes(x)
  <2>1. Near(x)  BY <1>1, <1>3, <1>5, <1>8, IdleParts DEF Near
  <2> QED  BY <1>1, <2>1, NearGoes
<1>9. Goes(t)
  <2>1. /\ ~Deleting(t) /\ Writing(t) /\ ~Deleting(t)' /\ ~Writing(t)'
        /\ t \notin Sound' /\ OnDisk(t)' = OnDisk(t)
    BY <1>1, <1>2, <1>3, IdleParts DEF Deleting, Writing, Sound, OnDisk
  <2>2. ASSUME t \notin torn PROVE Filed(t)'
    <3>1. Filed(t)  BY <1>1, <2>1, <2>2 DEF Stored
    <3>2. CASE job.at # "index"
      BY <1>1, <1>5, <2>1, <3>1, <3>2 DEF Filed
    <3>3. CASE job.at = "index"
      <4>1. metadata[t] = job.owner /\ memory[t] # Absent /\ index'[t] = job.owner
        BY <1>2, <1>5, <2>1, <3>1, <3>3, SessionAssumption DEF Filed
      <4>2. indexFile[t] # None \/ t \in Range(cache) => index[t] = job.owner
        BY <2>1, <3>1 DEF Filed
      <4> QED  BY <1>1, <2>1, <3>1, <4>1, <4>2 DEF Filed
    <3> QED  BY <3>2, <3>3
  <2> QED  BY <1>1, <2>1, <2>2 DEF Goes, Stored
<1> QED  BY <1>6, <1>7, <1>8, <1>9 DEF Moves

-----------------------------------------------------------------------------
(* Deletion, crash                                                           *)

LEMMA StartDeleteMoves ==
  ASSUME SessionInv, NEW on \in {{s} : s \in Sessions} \cup {Sessions}, StartDelete(on)
  PROVE  Moves
<1>1. /\ Typed /\ Listed /\ job = Idle /\ \A x \in Sessions : Stored(x)
      /\ metadata' = metadata /\ memory' = memory /\ archive' = archive
      /\ indexFile' = indexFile /\ index' = index
      /\ cache' = cache /\ object' = object
      /\ torn' = torn /\ shaken' = shaken /\ mishaps' = mishaps
      /\ acked' = {a \in acked : a[1] \notin on}
  BY DEF SessionInv, StartDelete, disk
<1>2. job' = [kind |-> "delete", on |-> on, at |-> "folder", event |-> None,
              over |-> <<>>, owner |-> None, memory |-> Absent]
  BY DEF StartDelete, Idle
<1>3. job' \in DeleteJobs /\ job'.kind = "delete" /\ job'.on = on
  BY <1>2 DEF DeleteJobs
<1>4. Typed'  BY <1>1, <1>3 DEF Typed
<1>5. Listed'  BY <1>1 DEF Listed
<1>6. ASSUME NEW x \in Sessions, x \notin on PROVE Goes(x)
  <2>1. Near(x)  BY <1>1, <1>3, <1>6, IdleParts DEF Near
  <2> QED  BY <1>1, <2>1, NearGoes
<1>7. ASSUME NEW x \in Sessions, x \in on PROVE Goes(x)
  <2>1. /\ ~Deleting(x) /\ Deleting(x)'
        /\ x \in Sound' <=> x \in Sound
        /\ OnDisk(x)' = OnDisk(x)
    BY <1>1, <1>3, <1>7, IdleParts DEF Deleting, Sound, OnDisk
  <2>2. \A e \in Events : <<x, e>> \notin acked'
    BY <1>1, <1>7
  <2> QED  BY <1>1, <2>1, <2>2 DEF Goes, Stored, NumberedOnce
<1> QED  BY <1>4, <1>5, <1>6, <1>7 DEF Moves

LEMMA RemoveFileMoves ==
  ASSUME SessionInv, NEW s \in Sessions, NEW file \in Files, RemoveFile(s, file)
  PROVE  Moves
<1>1. /\ Typed /\ Listed /\ job.at = "folder" /\ s \in job.on
      /\ \A x \in Sessions : Stored(x)
      /\ indexFile' = indexFile /\ index' = index
      /\ cache' = cache /\ object' = object /\ job' = job
      /\ acked' = acked /\ torn' = torn /\ shaken' = shaken /\ mishaps' = mishaps
  BY DEF SessionInv, RemoveFile
<1>2. Deleting(s) /\ Deleting(s)'
  BY <1>1, JobParts DEF Deleting
<1>3. /\ \/ metadata' = metadata \/ metadata' = [metadata EXCEPT ![s] = None]
      /\ \/ memory' = memory \/ memory' = [memory EXCEPT ![s] = Absent]
      /\ \/ archive' = archive \/ archive' = [archive EXCEPT ![s] = <<>>]
  BY DEF RemoveFile
<1>4. /\ metadata' \in [Sessions -> Owners]
      /\ memory' \in [Sessions -> Live \cup {Absent}]
      /\ archive' \in [Sessions -> Seq(Entry)]
      /\ \A x \in Sessions \ {s} : /\ metadata'[x] = metadata[x]
                                   /\ memory'[x] = memory[x] /\ archive'[x] = archive[x]
      /\ memory'[s] \in {memory[s], Absent} /\ archive'[s] \in {archive[s], <<>>}
  <2>1. metadata' \in [Sessions -> Owners]
        /\ \A x \in Sessions \ {s} : metadata'[x] = metadata[x]
    BY <1>1, <1>3 DEF Typed, Owners
  <2>2. /\ memory' \in [Sessions -> Live \cup {Absent}]
        /\ \A x \in Sessions \ {s} : memory'[x] = memory[x]
        /\ memory'[s] \in {memory[s], Absent}
    BY <1>1, <1>3 DEF Typed
  <2>3. /\ archive' \in [Sessions -> Seq(Entry)]
        /\ \A x \in Sessions \ {s} : archive'[x] = archive[x]
        /\ archive'[s] \in {archive[s], <<>>}
    <3>1. <<>> \in Seq(Entry)  OBVIOUS
    <3> QED  BY <1>1, <1>3, <3>1 DEF Typed
  <2> QED  BY <2>1, <2>2, <2>3
<1>5. Typed'  BY <1>1, <1>4 DEF Typed
<1>6. Listed'  BY <1>1 DEF Listed
<1>7. ASSUME NEW x \in Sessions, x # s PROVE Goes(x)
  <2>1. Near(x)
    <3>1. IF x \in job.on THEN job' = job ELSE x \notin job'.on  BY <1>1
    <3> QED  BY <1>1, <1>4, <1>7, <3>1 DEF Near
  <2> QED  BY <1>1, <2>1, NearGoes
<1>8. Goes(s)
  <2>1. OnDisk(s)' \subseteq OnDisk(s)
    BY <1>4, RangeOfEmpty DEF OnDisk, Absent
  <2>2. s \in Sound' <=> s \in Sound  BY <1>1 DEF Sound
  <2> QED  BY <1>1, <1>2, <2>1, <2>2 DEF Goes, Stored, NumberedOnce
<1> QED  BY <1>5, <1>6, <1>7, <1>8 DEF Moves

LEMMA DeleteJobParts ==
  ASSUME Typed, job.at = "folder"
  PROVE  /\ job.kind = "delete" /\ job.on \subseteq Sessions
         /\ job.on # Sessions => \E t \in Sessions : job.on = {t} /\ Target = t
<1>1. job \in DeleteJobs /\ job.kind = "delete"  BY JobParts
<1>2. job.on = Sessions \/ \E t \in Sessions : job.on = {t}
  BY <1>1 DEF DeleteJobs
<1> QED  BY <1>1, <1>2 DEF Target

LEMMA UnindexMoves ==
  ASSUME SessionInv, Unindex
  PROVE  Moves
<1>1. /\ Typed /\ Listed /\ job.at = "folder" /\ FoldersGone
      /\ \A x \in Sessions : Stored(x)
      /\ metadata' = metadata /\ memory' = memory /\ archive' = archive
      /\ index' = WithoutJob /\ indexFile' = index'
      /\ torn' = torn \ job.on /\ shaken' = shaken \ job.on
      /\ job' = Idle /\ acked' = acked /\ mishaps' = mishaps
      /\ object' = [s \in Sessions |-> IF s \in job.on THEN NoObject ELSE object[s]]
      /\ cache' = IF job.on = Sessions THEN <<>> ELSE Others(Target)
  BY DEF SessionInv, Unindex
<1>2. job.kind = "delete" /\ job.on \subseteq Sessions  BY <1>1, DeleteJobParts
<1>3. /\ cache' \in Seq(Sessions) /\ Len(cache') <= CacheBound
      /\ \A i, j \in 1..Len(cache') : cache'[i] = cache'[j] => i = j
      /\ Range(cache') \subseteq Range(cache) \ job.on
  <2>1. CASE job.on = Sessions
    <3>1. cache' = <<>> /\ Len(cache') = 0 /\ Range(cache') = {}
      BY <1>1, <2>1, RangeOfEmpty
    <3> QED  BY <3>1, SessionAssumption
  <2>2. CASE job.on # Sessions
    <3>1. PICK t \in Sessions : job.on = {t} /\ Target = t
      BY <1>1, <2>2, DeleteJobParts
    <3>2. /\ cache \in Seq(Sessions) /\ Len(cache) <= CacheBound
          /\ \A i, j \in 1..Len(cache) : cache[i] = cache[j] => i = j
      BY <1>1 DEF Listed
    <3>3. PICK q \in Seq(Sessions) :
            /\ q = Others(t) /\ Len(q) <= Len(cache)
            /\ \A i, j \in 1..Len(q) : q[i] = q[j] => i = j
            /\ Range(q) \subseteq Range(cache) \ {t}
      BY <3>2, OthersParts
    <3>4. cache' = q  BY <1>1, <2>2, <3>1, <3>3
    <3>5. Len(q) <= CacheBound  BY <3>2, <3>3, SessionAssumption
    <3> QED  BY <3>1, <3>3, <3>4, <3>5
  <2> QED  BY <2>1, <2>2
<1>4. /\ object' \in [Sessions -> [owner: Owners, memory: Live \cup {Absent}]]
      /\ \A x \in Sessions \ job.on : object'[x] = object[x]
  BY <1>1 DEF Typed, NoObject, Owners
<1>5. /\ index' \in [Sessions -> Owners]
      /\ \A x \in Sessions : index'[x] = IF x \in job.on THEN None ELSE index[x]
  BY <1>1 DEF Typed, WithoutJob, Owners
<1>6. Typed'  BY <1>1, <1>4, <1>5, IdleParts DEF Typed
<1>7. Listed'
  <2>1. \A x \in Range(cache') : object'[x].owner # None /\ object'[x].memory \in Live
    <3> TAKE x \in Range(cache')
    <3>1. x \in Sessions \ job.on /\ x \in Range(cache)  BY <1>3, RangeOfSeq
    <3> QED  BY <1>1, <1>4, <3>1 DEF Listed
  <2> QED  BY <1>3, <2>1 DEF Listed
<1>8. ASSUME NEW x \in Sessions, x \notin job.on PROVE Goes(x)
  <2>1. Near(x)  BY <1>1, <1>3, <1>4, <1>5, <1>8, IdleParts DEF Near
  <2> QED  BY <1>1, <2>1, NearGoes
<1>9. ASSUME NEW x \in Sessions, x \in job.on PROVE Goes(x)
  <2>1. /\ Deleting(x) /\ ~Deleting(x)' /\ ~Writing(x)'
        /\ metadata[x] = None /\ memory[x] = Absent /\ archive[x] = <<>>
    BY <1>1, <1>2, <1>9, IdleParts DEF Deleting, Writing, FoldersGone
  <2>2. /\ index'[x] = None /\ indexFile'[x] = None /\ x \notin Range(cache')
    BY <1>1, <1>3, <1>5, <1>9
  <2>3. OnDisk(x)' = {}  BY <1>1, <2>1, RangeOfEmpty DEF OnDisk, Absent
  <2>4. \A e \in Events : <<x, e>> \notin acked'  BY <1>1, <2>1 DEF Stored
  <2>5. Filed(x)'  BY <2>1, <2>2 DEF Filed
  <2>6. Clean(x)'  BY <1>1, <2>1, <2>2, <2>3, <2>4 DEF Clean
  <2> QED  BY <2>1, <2>3, <2>5, <2>6 DEF Goes, Stored, NumberedOnce
<1> QED  BY <1>6, <1>7, <1>8, <1>9 DEF Moves

LEMMA DeleteRaisesMoves ==
  ASSUME SessionInv, DeleteRaises
  PROVE  Moves
<1>1. /\ Typed /\ Listed /\ job.at = "folder" /\ \A x \in Sessions : Stored(x)
      /\ metadata' = metadata /\ memory' = memory /\ archive' = archive
      /\ indexFile' = indexFile /\ cache' = cache /\ object' = object
      /\ acked' = acked /\ shaken' = shaken /\ torn' = torn \cup job.on
      /\ job' = Idle /\ mishaps < MaxMishaps /\ mishaps' = mishaps + 1
      /\ index' = index \/ index' = WithoutJob
  BY DEF SessionInv, DeleteRaises, Mishap, disk
<1>2. job.kind = "delete" /\ job.on \subseteq Sessions  BY <1>1, DeleteJobParts
<1>3. /\ index' \in [Sessions -> Owners]
      /\ \A x \in Sessions \ job.on : index'[x] = index[x]
  BY <1>1 DEF Typed, WithoutJob, Owners
<1>4. Typed'
  BY <1>1, <1>2, <1>3, IdleParts, SessionAssumption DEF Typed
<1>5. Listed'  BY <1>1 DEF Listed
<1>6. ASSUME NEW x \in Sessions, x \notin job.on PROVE Goes(x)
  <2>1. Near(x)  BY <1>1, <1>3, <1>6, IdleParts DEF Near
  <2> QED  BY <1>1, <2>1, NearGoes
<1>7. ASSUME NEW x \in Sessions, x \in job.on PROVE Goes(x)
  <2>1. Deleting(x) /\ ~Deleting(x)' /\ x \in torn' /\ x \notin Sound'
    BY <1>1, <1>2, <1>7, IdleParts DEF Deleting, Sound
  <2> QED  BY <2>1 DEF Goes, Stored
<1> QED  BY <1>4, <1>5, <1>6, <1>7 DEF Moves

LEMMA CrashMoves ==
  ASSUME SessionInv, Crash
  PROVE  Moves
<1>1. /\ Typed /\ Listed /\ \A x \in Sessions : Stored(x)
      /\ metadata' = metadata /\ memory' = memory /\ archive' = archive
      /\ indexFile' = indexFile /\ index' = indexFile /\ cache' = <<>>
      /\ object' = [s \in Sessions |-> NoObject]
      /\ acked' = acked /\ shaken' = shaken /\ job' = Idle
      /\ mishaps < MaxMishaps /\ mishaps' = mishaps + 1
      /\ torn' = IF job.kind = "delete" THEN torn \cup job.on ELSE torn
  BY DEF SessionInv, Crash, Mishap, disk
<1>2. job.kind = "delete" => job.on \subseteq Sessions
  BY <1>1, JobParts, DeleteJobParts
<1>3. Typed'
  <2>1. torn' \subseteq Sessions  BY <1>1, <1>2 DEF Typed
  <2>2. object' \in [Sessions -> [owner: Owners, memory: Live \cup {Absent}]]
    BY <1>1 DEF NoObject, Owners
  <2> QED  BY <1>1, <2>1, <2>2, IdleParts, SessionAssumption DEF Typed
<1>4. Range(cache') = {} /\ Len(cache') = 0 /\ cache' \in Seq(Sessions)
  BY <1>1, RangeOfEmpty
<1>5. Listed'  BY <1>4, SessionAssumption DEF Listed
<1>6. ASSUME NEW x \in Sessions PROVE Goes(x)
  <2>1. /\ ~Deleting(x)' /\ ~Writing(x)' /\ OnDisk(x)' = OnDisk(x)
        /\ x \notin torn' => ~Deleting(x) /\ x \notin torn
        /\ x \in Sound' => x \in Sound
    BY <1>1, IdleParts DEF Deleting, Writing, OnDisk, Sound
  <2>2. x \notin torn' => Filed(x)'
    BY <1>1, <1>4, <2>1 DEF Stored, Filed
  <2>3. ASSUME x \in Sound' PROVE Clean(x)'
    <3>1. Clean(x) /\ x \notin torn'
      BY <1>1, <2>1, <2>3 DEF Stored, Sound
    <3> QED  BY <1>1, <1>4, <2>1, <3>1 DEF Clean
  <2> QED  BY <1>1, <2>1, <2>2, <2>3 DEF Goes, Stored, NumberedOnce
<1> QED  BY <1>3, <1>5, <1>6 DEF Moves

-----------------------------------------------------------------------------
(* Theorems                                                                  *)

LEMMA Start == Init => SessionInv
<1> SUFFICES ASSUME Init PROVE SessionInv  OBVIOUS
<1>1. /\ metadata = [s \in Sessions |-> None] /\ memory = [s \in Sessions |-> Absent]
      /\ archive = [s \in Sessions |-> <<>>]
      /\ indexFile = [s \in Sessions |-> None] /\ index = [s \in Sessions |-> None]
      /\ cache = <<>> /\ object = [s \in Sessions |-> NoObject]
      /\ job = Idle /\ acked = {} /\ torn = {} /\ shaken = {} /\ mishaps = 0
  BY DEF Init
<1>2. Typed
  <2>1. 0 \in 0..MaxMishaps  BY SessionAssumption
  <2>2. <<>> \in Seq(Entry)  OBVIOUS
  <2> QED  BY <1>1, <2>1, <2>2, IdleParts DEF Typed, Owners, NoObject
<1>3. Listed
  <2>1. Range(cache) = {} /\ Len(cache) = 0 /\ cache \in Seq(Sessions)
    BY <1>1, RangeOfEmpty
  <2> QED  BY <2>1, SessionAssumption DEF Listed
<1>4. ASSUME NEW s \in Sessions PROVE Stored(s)
  <2>1. /\ ~Deleting(s) /\ ~Writing(s) /\ s \notin Range(cache)
        /\ memory[s] = Absent /\ archive[s] = <<>>
        /\ index[s] = None /\ indexFile[s] = None
    BY <1>1, IdleParts, RangeOfEmpty DEF Deleting, Writing
  <2>2. OnDisk(s) = {}  BY <2>1, RangeOfEmpty DEF OnDisk, Absent
  <2>3. Filed(s)  BY <2>1 DEF Filed
  <2>4. Clean(s)  BY <1>1, <2>1, <2>2 DEF Clean
  <2> QED  BY <2>1, <2>2, <2>3, <2>4 DEF Stored, NumberedOnce
<1> QED  BY <1>2, <1>3, <1>4 DEF SessionInv

LEMMA Step == SessionInv /\ [Next]_vars => Moves
<1> SUFFICES ASSUME SessionInv, [Next]_vars PROVE Moves  OBVIOUS
<1>1. ASSUME NEW s \in Sessions, NEW p \in Principals, CreateSession(s, p)
      PROVE  Moves
  BY <1>1, CreateMoves
<1>2. ASSUME NEW s \in Sessions, NEW p \in Principals, DeleteSession(s, p)
      PROVE  Moves
  BY <1>2, StartDeleteMoves DEF DeleteSession
<1>3. ASSUME NEW s \in Sessions, LoadSession(s) \/ Touch(s) \/ AddMemoryEntry(s)
      PROVE  Moves
  BY <1>3, LoadMoves, TouchMoves DEF AddMemoryEntry
<1>4. ASSUME NEW s \in Sessions, NEW e \in Events, AppendHistory(s, e) PROVE Moves
  BY <1>4, AppendMoves
<1>5. CASE WriteArchive \/ WriteMetadata \/ WriteMemory \/ WriteMarkdown
  BY <1>5, WriteArchiveMoves, WriteMetadataMoves, WriteMemoryMoves, WriteMarkdownMoves
<1>6. CASE WriteIndex \/ WriteRaises  BY <1>6, WriteIndexMoves, WriteRaisesMoves
<1>7. CASE DeleteEverything  BY <1>7, StartDeleteMoves DEF DeleteEverything
<1>8. CASE Unindex \/ DeleteRaises  BY <1>8, UnindexMoves, DeleteRaisesMoves
<1>9. ASSUME NEW s \in Sessions, NEW file \in Files, RemoveFile(s, file) PROVE Moves
  BY <1>9, RemoveFileMoves
<1>10. CASE Crash  BY <1>10, CrashMoves
<1>11. CASE UNCHANGED vars
  <2>1. /\ metadata' = metadata /\ memory' = memory /\ archive' = archive
        /\ indexFile' = indexFile /\ index' = index /\ cache' = cache
        /\ object' = object /\ job' = job /\ acked' = acked /\ torn' = torn
        /\ shaken' = shaken /\ mishaps' = mishaps
    BY <1>11 DEF vars
  <2>2. Typed' /\ Listed'  BY <2>1 DEF SessionInv, Typed, Listed
  <2>3. ASSUME NEW x \in Sessions PROVE Goes(x)
    <3>1. Near(x)  BY <2>1 DEF Near
    <3> QED  BY <3>1, NearGoes DEF SessionInv
  <2> QED  BY <2>2, <2>3 DEF Moves
<1> QED
  BY <1>1, <1>2, <1>3, <1>4, <1>5, <1>6, <1>7, <1>8, <1>9, <1>10, <1>11 DEF Next

(* What is in memory, in the index and in the files agrees as far as the     *)
(* running operation has come.                                               *)
THEOREM SessionInvariance == Spec => []SessionInv
<1>1. SessionInv /\ [Next]_vars => SessionInv'
  BY Step DEF Moves, Goes, SessionInv
<1> QED  BY <1>1, Start, PTL DEF Spec

LEMMA Promises ==
  SessionInv => TypeOK /\ CacheCoherent /\ AckedIsKept /\ TurnsUnique /\ IndexedHasFiles
<1> SUFFICES ASSUME SessionInv
             PROVE  TypeOK /\ CacheCoherent /\ AckedIsKept /\ TurnsUnique /\ IndexedHasFiles
  OBVIOUS
<1>1. Typed /\ Listed /\ \A s \in Sessions : Stored(s)  BY DEF SessionInv
<1>2. TypeOK
  <2>1. IsInjective(cache) /\ Range(cache) \subseteq Sessions /\ Len(cache) <= CacheBound
    <3>1. cache \in Seq(Sessions)  BY <1>1 DEF Listed
    <3> QED  BY <1>1, <3>1, RangeOfSeq DEF Listed, IsInjective
  <2>2. Live \cup {Absent} \subseteq Memory
    <3>1. 0 \in 0..(MaxTurn + 1) /\ 1..(MaxTurn + 1) \subseteq 0..(MaxTurn + 1)
      BY SessionAssumption
    <3>2. <<>> \in Seq(Entry)  OBVIOUS
    <3>3. Absent \in Memory  BY <3>1, <3>2 DEF Absent, Memory
    <3>4. Live \subseteq Memory  BY <3>1 DEF Live, Memory
    <3> QED  BY <3>3, <3>4
  <2>3. /\ memory \in [Sessions -> Memory]
        /\ object \in [Sessions -> [owner: Owners, memory: Memory]]
    BY <1>1, <2>2 DEF Typed
  <2>4. job.kind \in {"none", "create", "append", "touch", "delete"}
        /\ job.on \subseteq Sessions
    BY <1>1, IdleParts DEF Typed, WriteJobs, DeleteJobs
  <2> QED  BY <1>1, <2>1, <2>3, <2>4 DEF TypeOK, Typed
<1>3. CacheCoherent
  <2> SUFFICES ASSUME job = Idle, NEW s \in Range(cache) \cap Sound
               PROVE  /\ metadata[s] = object[s].owner /\ memory[s] = object[s].memory
                      /\ indexFile[s] = object[s].owner
    BY DEF CacheCoherent
  <2>1. s \in Sessions /\ s \notin torn /\ ~Deleting(s) /\ ~Writing(s)
    BY IdleParts DEF Sound, Deleting, Writing
  <2>2. Filed(s) /\ Clean(s)  BY <1>1, <2>1 DEF Stored
  <2> QED  BY <2>1, <2>2 DEF Filed, Clean
<1>4. AckedIsKept
  <2> SUFFICES ASSUME NEW a \in acked, a[1] \in Sound
               PROVE  a[2] \in Ids(memory[a[1]].history) \cup Ids(archive[a[1]])
    BY DEF AckedIsKept
  <2>1. PICK s \in Sessions, e \in Events : a = <<s, e>>  BY <1>1 DEF Typed
  <2>2. ~Deleting(s) /\ Clean(s)  BY <1>1, <2>1 DEF Stored
  <2>3. PICK x \in OnDisk(s) : x.id = e  BY <2>1, <2>2 DEF Clean
  <2> QED  BY <2>1, <2>3 DEF OnDisk, Ids, Range
<1>5. TurnsUnique
  <2> SUFFICES ASSUME NEW s \in Sound PROVE NumberedOnce(s)
    BY DEF TurnsUnique, NumberedOnce
  <2> QED  BY <1>1 DEF Sound, Stored
<1>6. IndexedHasFiles
  BY <1>1 DEF IndexedHasFiles, Stored, Filed
<1> QED  BY <1>2, <1>3, <1>4, <1>5, <1>6

(* An acknowledged turn stays in its session's files under a number of its   *)
(* own, cache and index agree with the files, and only a deletion takes a    *)
(* turn away, for any number of sessions, turns, crashes and failed writes.  *)
THEOREM SessionIsSafe == Spec => SessionSafe
<1>1. SessionInv /\ [Next]_vars =>
        [\A s \in Sound : ~Deleting(s) => OnDisk(s) \subseteq OnDisk(s)']_vars
  BY Step DEF Moves, Goes, Sound
<1>2. Spec => []SessionInv  BY SessionInvariance
<1>3. Spec => NeverDeleted
  BY <1>1, <1>2, PTL DEF Spec, NeverDeleted
<1> QED  BY <1>2, <1>3, Promises, PTL DEF SessionSafe

-----------------------------------------------------------------------------
(* Skills: for any patterns, reports and number of records, and however    *)
(* learning, use, decay, merging and retirement follow each other.         *)

Levels == {"LOW", "MEDIUM", "HIGH"}
SkillRecords ==
  [name : Patterns, conf : Levels, life : {"active", "deprecated", "archived"},
   uses : Nat, wins : Nat, losses : Nat, rate : Nat \X Nat, old : BOOLEAN,
   used : BOOLEAN, clean : {TRUE}]

(* A record counts right and is trusted only as an active one.             *)
Fit(k) ==
  /\ k \in SkillRecords /\ k.uses <= MaxUses
  /\ k.rate = SuccessRate(k)
  /\ IsActive(k) => k.conf # "LOW"

(* What becomes of a record does not bring it back.                        *)
NotBack(k, m) ==
  k.life # "active" =>
    m.life = "archived" \/ (k.life = "deprecated" /\ m.life = "deprecated")

SkillInv ==
  /\ skills \in [SkillIds -> SkillRecords \cup {NoSkill}]
  /\ \A id \in SkillIds : Known(id) => Fit(skills[id]) /\ id \in indexed
  /\ OneRecordPerPattern
  /\ injected \subseteq SkillIds

(* The step that RetiredStaysRetired allows.                               *)
StaysRetired ==
  \A id \in SkillIds :
    Known(id) /\ skills[id].life # "active" =>
      \/ skills'[id] = NoSkill
      \/ skills'[id].life = "archived"
      \/ skills[id].life = "deprecated" /\ skills'[id].life = "deprecated"

(* Each record is kept, made fitter or removed.                            *)
LEMMA RecordsKeep ==
  ASSUME SkillInv, skills' \in [SkillIds -> SkillRecords \cup {NoSkill}],
         \A id \in SkillIds : Known(id)' =>
           /\ Known(id) /\ Fit(skills'[id]) /\ skills'[id].name = skills[id].name
           /\ NotBack(skills[id], skills'[id]) /\ id \in indexed',
         injected' \subseteq SkillIds
  PROVE  SkillInv' /\ StaysRetired
<1>1. \A id \in SkillIds : Known(id)' => Fit(skills'[id]) /\ id \in indexed'
  OBVIOUS
<1>2. OneRecordPerPattern'  BY DEF SkillInv, OneRecordPerPattern
<1>3. StaysRetired  BY DEF StaysRetired, NotBack, Known
<1> QED  BY <1>1, <1>2, <1>3 DEF SkillInv, Fit, SuccessRate, IsActive

(* One record changes.                                                     *)
LEMMA RecordKeeps ==
  ASSUME SkillInv, NEW id \in SkillIds, Known(id), NEW m,
         Fit(m), m.name = skills[id].name, NotBack(skills[id], m),
         skills' = [skills EXCEPT ![id] = m], indexed \subseteq indexed',
         injected' \subseteq SkillIds
  PROVE  SkillInv' /\ StaysRetired
<1>1. m \in SkillRecords  BY DEF Fit
<1>2. skills' \in [SkillIds -> SkillRecords \cup {NoSkill}]  BY <1>1 DEF SkillInv
<1>3. \A i \in SkillIds : skills'[i] = IF i = id THEN m ELSE skills[i]
  BY DEF SkillInv
<1>4. ASSUME NEW i \in SkillIds, Known(i)'
      PROVE  /\ Known(i) /\ Fit(skills'[i]) /\ skills'[i].name = skills[i].name
             /\ NotBack(skills[i], skills'[i]) /\ i \in indexed'
  <2>1. CASE i = id  BY <2>1, <1>3 DEF SkillInv
  <2>2. CASE i # id
    <3>1. skills'[i] = skills[i] /\ Known(i)  BY <2>2, <1>3, <1>4 DEF Known
    <3>2. Fit(skills[i]) /\ i \in indexed  BY <3>1 DEF SkillInv
    <3>3. skills[i].life \in {"active", "deprecated", "archived"}
      BY <3>2 DEF Fit, SkillRecords
    <3> QED  BY <3>1, <3>2, <3>3 DEF NotBack
  <2> QED  BY <2>1, <2>2
<1> QED  BY <1>2, <1>4, RecordsKeep

(* The operations on a record.                                             *)
LEMMA KnownIs ==
  ASSUME SkillInv, NEW id \in SkillIds, Known(id)
  PROVE  Fit(skills[id]) /\ skills[id] \in SkillRecords
BY DEF SkillInv, Fit

LEMMA DeprecatedFits ==
  ASSUME NEW k \in SkillRecords, k.uses <= MaxUses, k.rate = SuccessRate(k),
         IsActive(k) => k.conf \in Levels
  PROVE  LET d == Deprecated(k) IN
         /\ Fit(d) /\ d.name = k.name /\ NotBack(k, d)
<1>1. CASE k.life = "archived"
  BY <1>1 DEF Deprecated, Fit, IsActive, NotBack
<1>2. CASE k.life # "archived"
  <2> DEFINE d == [k EXCEPT !.life = "deprecated"]
  <2>1. /\ d \in SkillRecords /\ d.life = "deprecated" /\ d.name = k.name
        /\ d.uses = k.uses /\ d.rate = k.rate /\ d.wins = k.wins /\ d.losses = k.losses
    BY DEF SkillRecords
  <2>2. Deprecated(k) = d  BY <1>2 DEF Deprecated
  <2>3. k.life \in {"active", "deprecated"}  BY <1>2 DEF SkillRecords
  <2> HIDE DEF d
  <2> QED  BY <2>1, <2>2, <2>3 DEF Fit, IsActive, NotBack, SuccessRate
<1> QED  BY <1>1, <1>2

LEMMA OperationsFit ==
  ASSUME NEW k, Fit(k)
  PROVE  /\ LET m == Merged(k) IN
            Capped(m) => Fit(m) /\ m.name = k.name /\ NotBack(k, m)
         /\ LET m == WithSuccess(k) IN
            Fit(m) /\ m.name = k.name /\ NotBack(k, m)
         /\ LET m == [k EXCEPT !.uses = @ + 1, !.used = TRUE] IN
            Capped(m) => Fit(m) /\ m.name = k.name /\ NotBack(k, m)
         /\ LET m == [k EXCEPT !.losses = @ + 1, !.rate = <<k.wins, k.wins + k.losses + 1>>] IN
            Fit(m) /\ m.name = k.name /\ m.life = k.life /\ NotBack(k, m)
         /\ LET m == [k EXCEPT !.life = "archived"] IN
            Fit(m) /\ m.name = k.name /\ NotBack(k, m)
<1>0. /\ k \in SkillRecords /\ k.uses <= MaxUses /\ k.rate = SuccessRate(k)
      /\ IsActive(k) => k.conf # "LOW"
  BY DEF Fit
<1>1. k.life \in {"active", "deprecated", "archived"}  BY <1>0 DEF SkillRecords
<1>a. /\ k.wins + 1 \in Nat /\ k.losses + 1 \in Nat /\ SuccessRate(k) \in Nat \X Nat
      /\ <<k.wins + 1, k.wins + k.losses + 1>> \in Nat \X Nat
      /\ <<k.wins, k.wins + k.losses + 1>> \in Nat \X Nat
  BY <1>0 DEF SkillRecords, SuccessRate
<1>2. ASSUME NEW m, m = Merged(k), Capped(m)
      PROVE  Fit(m) /\ m.name = k.name /\ NotBack(k, m)
  <2>1. /\ m \in SkillRecords /\ m.name = k.name /\ m.life = k.life /\ m.conf = k.conf
        /\ m.wins = k.wins /\ m.losses = k.losses /\ m.rate = SuccessRate(k)
    <3>1. PICK u \in Nat : u = k.uses + 1  BY <1>0 DEF SkillRecords
    <3>2. PICK q \in Nat \X Nat : q = SuccessRate(k)  BY <1>a
    <3>3. m = [k EXCEPT !.uses = u, !.rate = q]  BY <1>2, <3>1, <3>2 DEF Merged
    <3> QED  BY <1>0, <3>2, <3>3 DEF SkillRecords
  <2> QED  BY <1>0, <1>1, <1>2, <2>1 DEF Fit, Capped, SuccessRate, IsActive, NotBack
<1>3. ASSUME NEW m, m = WithSuccess(k)
      PROVE  Fit(m) /\ m.name = k.name /\ NotBack(k, m)
  <2>1. /\ m \in SkillRecords /\ m.name = k.name /\ m.life = k.life /\ m.conf = k.conf
        /\ m.wins = k.wins + 1 /\ m.losses = k.losses /\ m.uses = k.uses
        /\ m.rate = <<k.wins + 1, k.wins + k.losses + 1>>
    <3>1. PICK u \in Nat : u = k.wins + 1  BY <1>a
    <3>2. PICK q \in Nat \X Nat : q = <<k.wins + 1, k.wins + k.losses + 1>>  BY <1>a
    <3>3. m = [k EXCEPT !.wins = u, !.rate = q]  BY <1>3, <3>1, <3>2 DEF WithSuccess
    <3> QED  BY <1>0, <3>1, <3>2, <3>3 DEF SkillRecords
  <2>2. k.wins + k.losses + 1 = m.wins + m.losses  BY <1>0, <2>1 DEF SkillRecords
  <2>3. m.rate = SuccessRate(m)  BY <2>1, <2>2 DEF SuccessRate
  <2> QED  BY <1>0, <1>1, <2>1, <2>3 DEF Fit, IsActive, NotBack
<1>4. ASSUME NEW m, m = [k EXCEPT !.uses = @ + 1, !.used = TRUE], Capped(m)
      PROVE  Fit(m) /\ m.name = k.name /\ NotBack(k, m)
  <2>1. /\ m \in SkillRecords /\ m.name = k.name /\ m.life = k.life /\ m.conf = k.conf
        /\ m.wins = k.wins /\ m.losses = k.losses /\ m.rate = k.rate
    <3>1. PICK u \in Nat : u = k.uses + 1  BY <1>0 DEF SkillRecords
    <3>2. m = [k EXCEPT !.uses = u, !.used = TRUE]  BY <1>4, <3>1
    <3> QED  BY <1>0, <3>2 DEF SkillRecords
  <2> QED  BY <1>0, <1>1, <1>4, <2>1 DEF Fit, Capped, SuccessRate, IsActive, NotBack
<1>5. ASSUME NEW m, m = [k EXCEPT !.losses = @ + 1,
                                  !.rate = <<k.wins, k.wins + k.losses + 1>>]
      PROVE  Fit(m) /\ m.name = k.name /\ m.life = k.life /\ NotBack(k, m)
  <2>1. /\ m \in SkillRecords /\ m.name = k.name /\ m.life = k.life /\ m.conf = k.conf
        /\ m.wins = k.wins /\ m.losses = k.losses + 1 /\ m.uses = k.uses
        /\ m.rate = <<k.wins, k.wins + k.losses + 1>>
    <3>1. PICK u \in Nat : u = k.losses + 1  BY <1>a
    <3>2. PICK q \in Nat \X Nat : q = <<k.wins, k.wins + k.losses + 1>>  BY <1>a
    <3>3. m = [k EXCEPT !.losses = u, !.rate = q]  BY <1>5, <3>1, <3>2
    <3> QED  BY <1>0, <3>1, <3>2, <3>3 DEF SkillRecords
  <2>2. k.wins + k.losses + 1 = m.wins + m.losses  BY <1>0, <2>1 DEF SkillRecords
  <2>3. m.rate = SuccessRate(m)  BY <2>1, <2>2 DEF SuccessRate
  <2> QED  BY <1>0, <1>1, <2>1, <2>3 DEF Fit, IsActive, NotBack
<1>6. ASSUME NEW m, m = [k EXCEPT !.life = "archived"]
      PROVE  Fit(m) /\ m.name = k.name /\ NotBack(k, m)
  <2>1. /\ m \in SkillRecords /\ m.name = k.name /\ m.life = "archived"
        /\ m.wins = k.wins /\ m.losses = k.losses /\ m.rate = k.rate /\ m.uses = k.uses
    BY <1>0, <1>6 DEF SkillRecords
  <2> QED  BY <1>0, <2>1 DEF Fit, SuccessRate, IsActive, NotBack
<1> QED  BY <1>2, <1>3, <1>4, <1>5, <1>6

(* Confidence falls by one level, and a record that reaches the lowest is  *)
(* retired.                                                                *)
LEMMA DecayedFits ==
  ASSUME NEW k, Fit(k)
  PROVE  Fit(Decayed(k)) /\ Decayed(k).name = k.name /\ NotBack(k, Decayed(k))
<1>0. /\ k \in SkillRecords /\ k.uses <= MaxUses /\ k.rate = SuccessRate(k)
      /\ IsActive(k) => k.conf # "LOW"
  BY DEF Fit
<1>1. k.life \in {"active", "deprecated", "archived"} /\ k.conf \in Levels
  BY <1>0 DEF SkillRecords
<1>2. CASE ~IsActive(k) \/ k.used \/ ~k.old
  <2>1. Decayed(k) = k  BY <1>2 DEF Decayed
  <2> QED  BY <2>1, <1>1 DEF NotBack
<1>3. CASE ~(~IsActive(k) \/ k.used \/ ~k.old)
  <2> DEFINE lower == IF Rank(k.conf) > 1 THEN Confidences[Rank(k.conf) - 1] ELSE k.conf
  <2>1. lower \in Levels
    <3>1. Rank(k.conf) \in 1..3
      <4>1. \E n \in 1..3 : Confidences[n] = k.conf
        <5>1. Confidences[1] = "LOW" /\ Confidences[2] = "MEDIUM" /\ Confidences[3] = "HIGH"
          BY DEF Confidences
        <5>2. 1 \in 1..3 /\ 2 \in 1..3 /\ 3 \in 1..3  OBVIOUS
        <5> QED  BY <5>1, <5>2, <1>1 DEF Levels
      <4> QED  BY <4>1 DEF Rank
    <3>2. \A n \in 1..3 : Confidences[n] \in Levels
      <4>1. \A n \in 1..3 : n = 1 \/ n = 2 \/ n = 3  OBVIOUS
      <4>2. Confidences[1] = "LOW" /\ Confidences[2] = "MEDIUM" /\ Confidences[3] = "HIGH"
        BY DEF Confidences
      <4> QED  BY <4>1, <4>2 DEF Levels
    <3>3. Rank(k.conf) > 1 => Rank(k.conf) - 1 \in 1..3  BY <3>1
    <3> QED  BY <1>1, <3>2, <3>3
  <2>2. PICK c \in Levels : c = lower  BY <2>1
  <2> DEFINE d == [k EXCEPT !.conf = c]
  <2>3. LowerConfidence(k) = d  BY <2>2 DEF LowerConfidence
  <2>4. /\ d \in SkillRecords /\ d.conf = c /\ d.name = k.name /\ d.life = k.life
        /\ d.uses = k.uses /\ d.rate = k.rate /\ d.wins = k.wins /\ d.losses = k.losses
    BY <1>0 DEF SkillRecords
  <2>5. d.rate = SuccessRate(d) /\ d.uses <= MaxUses
    BY <1>0, <2>4 DEF SuccessRate
  <2>6. Decayed(k) = IF d.conf = "LOW" THEN Deprecated(d) ELSE d
    BY <1>3, <2>3 DEF Decayed
  <2> HIDE DEF d
  <2>7. k.life = "active"  BY <1>3 DEF IsActive
  <2>8. CASE c = "LOW"
    <3>1. Fit(Deprecated(d)) /\ Deprecated(d).name = d.name  BY <2>4, <2>5, DeprecatedFits
    <3> QED  BY <2>4, <2>6, <2>7, <2>8, <3>1 DEF NotBack
  <2>9. CASE c # "LOW"
    BY <2>4, <2>5, <2>6, <2>7, <2>9 DEF Fit, NotBack
  <2> QED  BY <2>8, <2>9
<1> QED  BY <1>2, <1>3

LEMMA MaintenanceKeeps ==
  ASSUME SkillInv, RunMaintenance \/ Age
  PROVE  SkillInv' /\ StaysRetired
<1>1. indexed' = indexed /\ injected' = {}
  BY DEF RunMaintenance, Age, Returns
<1>2. ASSUME NEW id \in SkillIds
      PROVE  IF Known(id)
               THEN /\ Fit(skills'[id]) /\ skills'[id].name = skills[id].name
                    /\ NotBack(skills[id], skills'[id])
               ELSE skills'[id] = NoSkill
  <2>1. CASE RunMaintenance
    <3>1. skills'[id] = IF Known(id) THEN Decayed(skills[id]) ELSE NoSkill
      BY <2>1 DEF RunMaintenance
    <3> QED  BY <3>1, KnownIs, DecayedFits
  <2>2. CASE Age
    <3>1. skills'[id] = IF Known(id) THEN [skills[id] EXCEPT !.old = TRUE] ELSE NoSkill
      BY <2>2 DEF Age
    <3>2. ASSUME NEW k, Fit(k)
          PROVE  LET m == [k EXCEPT !.old = TRUE] IN
                 Fit(m) /\ m.name = k.name /\ NotBack(k, m)
      <4> DEFINE m == [k EXCEPT !.old = TRUE]
      <4>1. /\ m \in SkillRecords /\ m.name = k.name /\ m.life = k.life
            /\ m.conf = k.conf /\ m.uses = k.uses /\ m.rate = k.rate
            /\ m.wins = k.wins /\ m.losses = k.losses
        BY <3>2 DEF Fit, SkillRecords
      <4>2. k.life \in {"active", "deprecated", "archived"}
        BY <3>2 DEF Fit, SkillRecords
      <4> HIDE DEF m
      <4>3. Fit(m) /\ m.name = k.name /\ NotBack(k, m)
        BY <3>2, <4>1, <4>2 DEF Fit, SuccessRate, IsActive, NotBack
      <4> QED  BY <4>3 DEF m
    <3> QED  BY <3>1, <3>2, KnownIs
  <2> QED  BY <2>1, <2>2
<1>3. skills' \in [SkillIds -> SkillRecords \cup {NoSkill}]
  <2>1. \A id \in SkillIds : skills'[id] \in SkillRecords \cup {NoSkill}
    BY <1>2 DEF Fit
  <2>2. \/ skills' = [id \in SkillIds |-> IF Known(id) THEN Decayed(skills[id]) ELSE NoSkill]
        \/ skills' = [id \in SkillIds |-> IF Known(id) THEN [skills[id] EXCEPT !.old = TRUE]
                                          ELSE NoSkill]
    BY DEF RunMaintenance, Age
  <2> QED  BY <2>1, <2>2
<1>4. \A id \in SkillIds : Known(id)' => Known(id)  BY <1>2 DEF Known
<1>5. \A id \in SkillIds : Known(id) => id \in indexed  BY DEF SkillInv
<1> QED  BY <1>1, <1>2, <1>3, <1>4, <1>5, RecordsKeep

LEMMA DeleteKeeps ==
  ASSUME SkillInv, NEW id \in SkillIds, DeleteSkill(id)
  PROVE  SkillInv' /\ StaysRetired
<1>1. /\ skills' = [skills EXCEPT ![id] = NoSkill] /\ indexed' = indexed \ {id}
      /\ injected' = {}
  BY DEF DeleteSkill, Returns
<1>2. skills' \in [SkillIds -> SkillRecords \cup {NoSkill}]  BY <1>1 DEF SkillInv
<1>3. ASSUME NEW i \in SkillIds, Known(i)'
      PROVE  /\ Known(i) /\ Fit(skills'[i]) /\ skills'[i].name = skills[i].name
             /\ NotBack(skills[i], skills'[i]) /\ i \in indexed'
  <2>1. i # id  BY <1>1, <1>3 DEF Known, SkillInv
  <2>2. skills'[i] = skills[i] /\ Known(i)  BY <1>1, <1>3, <2>1 DEF Known, SkillInv
  <2>3. Fit(skills[i]) /\ i \in indexed  BY <2>2 DEF SkillInv
  <2>4. skills[i].life \in {"active", "deprecated", "archived"}
    BY <2>3 DEF Fit, SkillRecords
  <2> QED  BY <1>1, <2>1, <2>2, <2>3, <2>4 DEF NotBack
<1> QED  BY <1>1, <1>2, <1>3, RecordsKeep

(* The records of a pattern are put together into one.                     *)
LEMMA MergeKeeps ==
  ASSUME SkillInv, NEW a \in SkillIds, NEW b \in SkillIds, Known(a), Known(b),
         MergeSkills(a, b)
  PROVE  SkillInv' /\ StaysRetired
<1>1. PICK k \in SkillRecords : k = skills[a] /\ Fit(k)  BY KnownIs
<1>2. PICK d \in SkillRecords : d = skills[b] /\ Fit(d)  BY KnownIs
<1>3. PICK w \in Nat : w = k.wins + d.wins  BY DEF SkillRecords
<1>4. PICK l \in Nat : l = k.losses + d.losses  BY DEF SkillRecords
<1>5. PICK u \in Nat : u = k.uses + d.uses  BY DEF SkillRecords
<1>6. PICK q \in Nat \X Nat : q = <<w, w + l>>
  <2>1. <<w, w + l>> \in Nat \X Nat  OBVIOUS
  <2> QED  BY <2>1
<1>7. PICK c \in Levels :
        /\ c = IF Rank(d.conf) > Rank(k.conf) THEN d.conf ELSE k.conf
  BY DEF SkillRecords
<1>8. PICK o \in BOOLEAN : o = (k.old \/ d.old)  OBVIOUS
<1> DEFINE m == [k EXCEPT !.wins = w, !.losses = l, !.uses = u, !.rate = q, !.conf = c,
                          !.old = o]
<1>9. /\ a # b /\ Capped(m) /\ skills' = [skills EXCEPT ![a] = m, ![b] = NoSkill]
      /\ indexed' = indexed /\ injected' = {}
  <2>1. q = <<k.wins + d.wins, k.wins + d.wins + k.losses + d.losses>>
    <3>1. /\ k.wins \in Nat /\ d.wins \in Nat /\ k.losses \in Nat /\ d.losses \in Nat
      BY DEF SkillRecords
    <3>2. w + l = k.wins + d.wins + k.losses + d.losses  BY <1>3, <1>4, <3>1
    <3> QED  BY <1>3, <1>6, <3>2
  <2>2. m = [skills[a] EXCEPT
               !.wins = @ + skills[b].wins, !.losses = @ + skills[b].losses,
               !.uses = @ + skills[b].uses,
               !.rate = <<skills[a].wins + skills[b].wins,
                          skills[a].wins + skills[b].wins + skills[a].losses
                            + skills[b].losses>>,
               !.conf = IF Rank(skills[b].conf) > Rank(skills[a].conf) THEN skills[b].conf
                        ELSE skills[a].conf,
               !.old = skills[a].old \/ skills[b].old]
    BY <1>1, <1>2, <1>3, <1>4, <1>5, <1>7, <1>8, <2>1
  <2> HIDE DEF m
  <2> QED  BY <1>1, <1>2, <2>2 DEF MergeSkills, Returns
<1>10. /\ m \in SkillRecords /\ m.name = k.name /\ m.life = k.life /\ m.conf = c
       /\ m.uses = u /\ m.rate = q /\ m.wins = w /\ m.losses = l
  BY DEF SkillRecords
<1>11. k.life \in {"active", "deprecated", "archived"}  BY DEF SkillRecords
<1>12. c # "LOW" \/ ~IsActive(k)
  <2>1. CASE Rank(d.conf) > Rank(k.conf)
    <3> SUFFICES ASSUME c = "LOW", IsActive(k) PROVE FALSE
      OBVIOUS
    <3>1. d.conf = "LOW"  BY <1>7, <2>1
    <3>2. Rank("LOW") = 1
      <4>1. Confidences[1] = "LOW" /\ Confidences[2] = "MEDIUM" /\ Confidences[3] = "HIGH"
        BY DEF Confidences
      <4>2. \A n \in 1..3 : n = 1 \/ n = 2 \/ n = 3  OBVIOUS
      <4>3. \A n \in 1..3 : Confidences[n] = "LOW" <=> n = 1  BY <4>1, <4>2
      <4>4. 1 \in 1..3  OBVIOUS
      <4> QED  BY <4>3, <4>4 DEF Rank
    <3>3. Rank(k.conf) \in 1..3
      <4>1. k.conf \in Levels  BY DEF SkillRecords
      <4>2. Confidences[1] = "LOW" /\ Confidences[2] = "MEDIUM" /\ Confidences[3] = "HIGH"
        BY DEF Confidences
      <4>3. 1 \in 1..3 /\ 2 \in 1..3 /\ 3 \in 1..3  OBVIOUS
      <4>4. \E n \in 1..3 : Confidences[n] = k.conf  BY <4>1, <4>2, <4>3 DEF Levels
      <4> QED  BY <4>4 DEF Rank
    <3> QED  BY <2>1, <3>1, <3>2, <3>3
  <2>2. CASE ~(Rank(d.conf) > Rank(k.conf))
    BY <1>1, <1>7, <2>2 DEF Fit
  <2> QED  BY <2>1, <2>2
<1> HIDE DEF m
<1>13. Fit(m) /\ NotBack(k, m)
  <2>1. u <= MaxUses  BY <1>9, <1>10 DEF Capped
  <2>2. m.rate = SuccessRate(m)  BY <1>6, <1>10 DEF SuccessRate
  <2> QED  BY <2>1, <2>2, <1>10, <1>11, <1>12 DEF Fit, IsActive, NotBack
<1>14. skills' \in [SkillIds -> SkillRecords \cup {NoSkill}]
  BY <1>9, <1>10 DEF SkillInv
<1>15. ASSUME NEW i \in SkillIds, Known(i)'
       PROVE  /\ Known(i) /\ Fit(skills'[i]) /\ skills'[i].name = skills[i].name
              /\ NotBack(skills[i], skills'[i]) /\ i \in indexed'
  <2>1. i # b  BY <1>9, <1>15 DEF Known, SkillInv
  <2>2. CASE i = a
    <3>1. skills'[i] = m  BY <1>9, <2>1, <2>2 DEF SkillInv
    <3> QED  BY <1>1, <1>9, <1>10, <1>13, <2>2, <3>1 DEF SkillInv
  <2>3. CASE i # a
    <3>1. skills'[i] = skills[i] /\ Known(i)
      BY <1>9, <1>15, <2>1, <2>3 DEF Known, SkillInv
    <3>2. Fit(skills[i]) /\ i \in indexed  BY <3>1 DEF SkillInv
    <3>3. skills[i].life \in {"active", "deprecated", "archived"}
      BY <3>2 DEF Fit, SkillRecords
    <3> QED  BY <1>9, <3>1, <3>2, <3>3 DEF NotBack
  <2> QED  BY <2>2, <2>3
<1> QED  BY <1>9, <1>14, <1>15, RecordsKeep

(* What is learned is new, or is added to the one record there is.         *)
LEMMA Least ==
  ASSUME NEW S \in SUBSET Nat, S # {}
  PROVE  \E n \in S : \A m \in S : n <= m
<1>1. IsWellFoundedOn(OpToRel(<, Nat), Nat)  BY NatLessThanWellFounded
<1>2. PICK n \in S : \A m \in S : <<m, n>> \notin OpToRel(<, Nat)
  BY <1>1, WFMin
<1>3. \A m \in S : ~(m < n)  BY <1>2 DEF OpToRel
<1> QED  BY <1>3

LEMMA NewFits ==
  ASSUME NEW r \in Reports, NEW p \in Candidates(r)
  PROVE  p \in Patterns /\ Fit(NewSkill(p, r)) /\ NewSkill(p, r).name = p
<1>1. p \in SuccessfulPatterns(r) /\ ConfidenceFor(r.groups[p]) # "LOW"
  BY DEF Candidates
<1>2. p \in Patterns /\ r.success /\ r.errors = {}
  BY <1>1 DEF SuccessfulPatterns
<1>3. PICK n \in Nat : n = r.groups[p]  BY <1>2, SkillsAssumption
<1>4. PICK c \in Levels : c = ConfidenceFor(n)
  <2>1. n >= 4 \/ n \in 2..3 \/ ~(n >= 4 \/ n \in 2..3)  OBVIOUS
  <2>2. ~(n >= 4 /\ n \in 2..3)  OBVIOUS
  <2> QED  BY <2>1, <2>2 DEF ConfidenceFor, Levels
<1>5. PICK b \in {TRUE} : b = (r.success /\ r.errors = {})  BY <1>2
<1> DEFINE k == [name |-> p, conf |-> c, life |-> "active", uses |-> 0, wins |-> 0,
                 losses |-> 0, rate |-> <<0, 0>>, old |-> FALSE, used |-> FALSE,
                 clean |-> b]
<1>6. NewSkill(p, r) = k  BY <1>3, <1>4, <1>5 DEF NewSkill
<1>7. k \in SkillRecords  BY <1>2 DEF SkillRecords
<1>8. k.uses <= MaxUses /\ k.rate = SuccessRate(k) /\ k.conf # "LOW"
  BY <1>1, <1>3, <1>4, SkillsAssumption DEF SuccessRate
<1> QED  BY <1>2, <1>6, <1>7, <1>8 DEF Fit

LEMMA LearnKeeps ==
  ASSUME SkillInv, NEW r \in Reports, LearnFrom(r)
  PROVE  SkillInv' /\ StaysRetired
<1>0. injected' = {}  BY DEF LearnFrom, Returns
<1>1. CASE UNCHANGED <<skills, indexed>>
  <2>1. \A id \in SkillIds : Known(id) =>
          /\ Fit(skills[id]) /\ id \in indexed
          /\ skills[id].life \in {"active", "deprecated", "archived"}
    BY DEF SkillInv, Fit, SkillRecords
  <2> QED  BY <1>0, <1>1, <2>1, RecordsKeep DEF SkillInv, Known, NotBack
<1>2. ASSUME NEW p \in Candidates(r), SaveSkill(p, r)
      PROVE  SkillInv' /\ StaysRetired
  <2>0. p \in Patterns /\ Fit(NewSkill(p, r)) /\ NewSkill(p, r).name = p
    BY NewFits
  <2>1. CASE FindDuplicate(p) # {}
    <3>1. PICK id \in SkillIds : id \in FindDuplicate(p) /\ Known(id)
      BY <2>1 DEF FindDuplicate
    <3>2. \A other \in FindDuplicate(p) : other = id
      BY <3>1 DEF FindDuplicate, SkillInv, OneRecordPerPattern
    <3>3. FirstOf(FindDuplicate(p)) = id
      <4>1. id <= id  BY <3>1, SkillsAssumption DEF SkillIds
      <4> QED  BY <3>1, <3>2, <4>1 DEF FirstOf
    <3>4. /\ Capped(Merged(skills[id]))
          /\ skills' = [skills EXCEPT ![id] = Merged(skills[id])]
          /\ indexed' = indexed \cup {id}
      BY <1>2, <2>1, <3>3 DEF SaveSkill, IndexedWith
    <3>5. PICK k : k = skills[id] /\ Fit(k)  BY <3>1, KnownIs
    <3>6. PICK m : m = Merged(k)  OBVIOUS
    <3>7. Fit(m) /\ m.name = k.name /\ NotBack(k, m)
      BY <3>4, <3>5, <3>6, OperationsFit
    <3> QED  BY <1>0, <3>1, <3>4, <3>5, <3>6, <3>7, RecordKeeps
  <2>2. CASE FindDuplicate(p) = {}
    <3>1. /\ Free # {}
          /\ skills' = [skills EXCEPT ![FirstOf(Free)] = NewSkill(p, r)]
          /\ indexed' = indexed \cup {FirstOf(Free)}
      BY <1>2, <2>2 DEF SaveSkill, IndexedWith
    <3>2. PICK id : id = FirstOf(Free)  OBVIOUS
    <3>3. id \in SkillIds /\ ~Known(id)
      <4>1. Free \in SUBSET Nat  BY DEF Free, SkillIds
      <4>2. \E n \in Free : \A m \in Free : n <= m  BY <3>1, <4>1, Least
      <4>3. id \in Free  BY <3>2, <4>2 DEF FirstOf
      <4> QED  BY <4>3 DEF Free
    <3>4. PICK m \in SkillRecords : m = NewSkill(p, r) /\ Fit(m) /\ m.name = p
      BY <2>0 DEF Fit
    <3>5. skills' \in [SkillIds -> SkillRecords \cup {NoSkill}]
          /\ \A i \in SkillIds : skills'[i] = IF i = id THEN m ELSE skills[i]
      BY <3>1, <3>2, <3>3, <3>4 DEF SkillInv
    <3>6. \A i \in SkillIds : i # id => (Known(i)' <=> Known(i))
      BY <3>5 DEF Known
    <3>7. \A i \in SkillIds : Known(i) => skills[i].name # p
      BY <2>2 DEF FindDuplicate
    <3>8. \A i \in SkillIds : Known(i)' => Fit(skills'[i]) /\ i \in indexed'
      BY <3>1, <3>2, <3>4, <3>5, <3>6 DEF SkillInv
    <3>9. OneRecordPerPattern'
      <4> SUFFICES ASSUME NEW a \in SkillIds, NEW b \in SkillIds, Known(a)', Known(b)',
                          skills'[a].name = skills'[b].name, a # b
                   PROVE  FALSE
        BY DEF OneRecordPerPattern
      <4>1. CASE a # id /\ b # id
        BY <4>1, <3>5, <3>6 DEF SkillInv, OneRecordPerPattern
      <4>2. CASE a = id  BY <4>2, <3>4, <3>5, <3>6, <3>7
      <4>3. CASE b = id  BY <4>3, <3>4, <3>5, <3>6, <3>7
      <4> QED  BY <4>1, <4>2, <4>3
    <3>10. StaysRetired
      <4> SUFFICES ASSUME NEW i \in SkillIds, Known(i), skills[i].life # "active"
                   PROVE  \/ skills'[i] = NoSkill
                          \/ skills'[i].life = "archived"
                          \/ skills[i].life = "deprecated" /\ skills'[i].life = "deprecated"
        BY DEF StaysRetired
      <4>1. skills'[i] = skills[i]  BY <3>3, <3>5
      <4>2. skills[i].life \in {"active", "deprecated", "archived"}
        BY DEF SkillInv, Fit, SkillRecords
      <4> QED  BY <4>1, <4>2
    <3>11. injected' \subseteq SkillIds  BY <1>0
    <3> QED
      BY <3>5, <3>8, <3>9, <3>10, <3>11 DEF SkillInv, Fit, SuccessRate, IsActive
  <2> QED  BY <2>1, <2>2
<1> QED  BY <1>1, <1>2 DEF LearnFrom

(* What is counted or decided about one record.                            *)
LEMMA ChangeKeeps ==
  ASSUME SkillInv, NEW id \in SkillIds, Known(id),
         RecordUse(id) \/ RecordSuccess(id) \/ RecordFailure(id) \/ DeprecateSkill(id)
           \/ ArchiveSkill(id)
  PROVE  SkillInv' /\ StaysRetired
<1>1. PICK k : k = skills[id] /\ Fit(k)  BY KnownIs
<1>2. \E m : /\ Fit(m) /\ m.name = k.name /\ NotBack(k, m)
             /\ skills' = [skills EXCEPT ![id] = m] /\ indexed' = indexed
             /\ injected' = {}
  <2>1. CASE RecordUse(id)
    <3>1. PICK m : m = [k EXCEPT !.uses = @ + 1, !.used = TRUE]  OBVIOUS
    <3>2. Changes(id, m)  BY <1>1, <2>1, <3>1 DEF RecordUse
    <3>3. Fit(m) /\ m.name = k.name /\ NotBack(k, m)
      BY <1>1, <3>1, <3>2, OperationsFit DEF Changes
    <3> QED  BY <3>2, <3>3 DEF Changes, Returns
  <2>2. CASE RecordSuccess(id)
    <3>1. PICK m : m = WithSuccess(k)  OBVIOUS
    <3>2. Fit(m) /\ m.name = k.name /\ NotBack(k, m)  BY <1>1, <3>1, OperationsFit
    <3> QED  BY <1>1, <2>2, <3>1, <3>2 DEF RecordSuccess, Changes, Returns
  <2>3. CASE RecordFailure(id)
    <3>1. PICK f : f = [k EXCEPT !.losses = @ + 1,
                                 !.rate = <<k.wins, k.wins + k.losses + 1>>]
      OBVIOUS
    <3>2. Fit(f) /\ f.name = k.name /\ f.life = k.life /\ NotBack(k, f)
      BY <1>1, <3>1, OperationsFit
    <3>3. /\ Fit(Deprecated(f)) /\ Deprecated(f).name = f.name /\ NotBack(f, Deprecated(f))
      BY <3>2, DeprecatedFits DEF Fit, SkillRecords
    <3>4. PICK m : m = IF Poor(f) THEN Deprecated(f) ELSE f  OBVIOUS
    <3>5. Fit(m) /\ m.name = k.name /\ NotBack(k, m)
      BY <3>2, <3>3, <3>4 DEF NotBack
    <3> QED  BY <1>1, <2>3, <3>1, <3>4, <3>5 DEF RecordFailure, Changes, Returns
  <2>4. CASE DeprecateSkill(id)
    <3>1. PICK m : m = Deprecated(k)  OBVIOUS
    <3>2. Fit(m) /\ m.name = k.name /\ NotBack(k, m)
      BY <1>1, <3>1, DeprecatedFits DEF Fit, SkillRecords
    <3> QED  BY <1>1, <2>4, <3>1, <3>2 DEF DeprecateSkill, Changes, Returns
  <2>5. CASE ArchiveSkill(id)
    <3>1. PICK m : m = [k EXCEPT !.life = "archived"]  OBVIOUS
    <3>2. Fit(m) /\ m.name = k.name /\ NotBack(k, m)  BY <1>1, <3>1, OperationsFit
    <3> QED  BY <1>1, <2>5, <3>1, <3>2 DEF ArchiveSkill, Changes, Returns
  <2> QED  BY <2>1, <2>2, <2>3, <2>4, <2>5
<1> QED  BY <1>1, <1>2, RecordKeeps

-----------------------------------------------------------------------------
(* The planner ranks every active record: there is one for each place.     *)

Ahead(S, s, x) == {b \in S : s[b] > s[x] \/ (s[b] = s[x] /\ b < x)}

LEMMA RankedAll ==
  ASSUME NEW S, IsFiniteSet(S), NEW s \in [S -> Int], S \subseteq Nat
  PROVE  \A n \in 1..Cardinality(S) :
           \E x \in S : Cardinality(Ahead(S, s, x)) = n - 1
<1> DEFINE Before(a, b) == s[a] > s[b] \/ (s[a] = s[b] /\ a < b)
           Better(x) == {b \in S : Before(b, x)}
           f == [x \in S |-> Cardinality(Better(x)) + 1]
<1>1. PICK c \in Nat : c = Cardinality(S)  BY FS_CardinalityType
<1>2. ASSUME NEW x \in S
      PROVE  /\ IsFiniteSet(Better(x)) /\ Cardinality(Better(x)) \in Nat
             /\ Cardinality(Better(x)) + 1 \in 1..c
  <2>1. x \notin Better(x)  OBVIOUS
  <2>2. IsFiniteSet(S \ {x}) /\ Cardinality(S \ {x}) = c - 1
    BY <1>1, FS_RemoveElement
  <2>3. Better(x) \in SUBSET (S \ {x})  BY <2>1
  <2>4. IsFiniteSet(Better(x)) /\ Cardinality(Better(x)) <= c - 1
    BY <2>2, <2>3, FS_Subset
  <2>5. Cardinality(Better(x)) \in Nat  BY <2>4, FS_CardinalityType
  <2> QED  BY <2>4, <2>5
<1>3. ASSUME NEW x \in S, NEW y \in S, Before(x, y)
      PROVE  f[x] # f[y]
  <2>1. x \in Better(y) /\ x \notin Better(x)  BY <1>3
  <2>2. Better(x) \in SUBSET (Better(y) \ {x})
    <3>1. \A b \in S : Before(b, x) => Before(b, y)
      <4> TAKE b \in S
      <4>1. s[b] \in Int /\ s[x] \in Int /\ s[y] \in Int
            /\ b \in Nat /\ x \in Nat /\ y \in Nat
        OBVIOUS
      <4> QED  BY <1>3, <4>1
    <3> QED  BY <2>1, <3>1
  <2>3. IsFiniteSet(Better(y) \ {x}) /\ Cardinality(Better(y) \ {x}) = Cardinality(Better(y)) - 1
    BY <1>2, <2>1, FS_RemoveElement
  <2>4. Cardinality(Better(x)) <= Cardinality(Better(y)) - 1
    BY <2>2, <2>3, FS_Subset
  <2>5. Cardinality(Better(x)) \in Nat /\ Cardinality(Better(y)) \in Nat  BY <1>2
  <2> HIDE DEF Better
  <2> QED  BY <2>4, <2>5
<1> HIDE DEF Better
<1>4. f \in [S -> 1..c]  BY <1>2
<1>5. \A x, y \in S : f[x] = f[y] => x = y
  <2> SUFFICES ASSUME NEW x \in S, NEW y \in S, x # y PROVE f[x] # f[y]
    OBVIOUS
  <2>1. s[x] \in Int /\ s[y] \in Int /\ x \in Nat /\ y \in Nat  OBVIOUS
  <2>2. Before(x, y) \/ Before(y, x)  BY <2>1
  <2> QED  BY <1>3, <2>2
<1>6. f \in Injection(S, 1..c)  BY <1>4, <1>5 DEF Injection, IsInjective
<1>7. IsFiniteSet(1..c) /\ Cardinality(1..c) = c
  <2>1. c = 0 \/ c >= 1  BY <1>1
  <2> QED  BY <2>1, <1>1, FS_Interval
<1>8. f \in Surjection(S, 1..c)  BY <1>1, <1>6, <1>7, FS_Injection
<1>9. ASSUME NEW n \in 1..c
      PROVE  \E x \in S : Cardinality(Better(x)) = n - 1
  <2>1. PICK x \in S : f[x] = n  BY <1>8 DEF Surjection
  <2>2. Cardinality(Better(x)) + 1 = n /\ Cardinality(Better(x)) \in Nat
    BY <1>2, <2>1
  <2> QED  BY <2>2
<1>10. \A x \in S : Ahead(S, s, x) = Better(x)  BY DEF Ahead, Better
<1> QED  BY <1>1, <1>9, <1>10

LEMMA ScoreIs == ASSUME NEW k \in SkillRecords PROVE Score(k) \in Int
<1>1. k.wins \in Nat /\ k.losses \in Nat /\ k.uses \in Nat /\ k.conf \in Levels
  BY DEF SkillRecords
<1>2. \A a \in Nat, b \in Nat \ {0} : a \div b \in Int  OBVIOUS
<1>3. PICK x \in Int :
        x = IF k.wins + k.losses > 0 THEN (20 * k.wins) \div (k.wins + k.losses) ELSE 10
  <2>1. CASE k.wins + k.losses > 0
    <3>1. 20 * k.wins \in Nat /\ k.wins + k.losses \in Nat \ {0}  BY <1>1, <2>1
    <3> QED  BY <1>2, <2>1, <3>1
  <2>2. CASE ~(k.wins + k.losses > 0)  BY <2>2
  <2> QED  BY <2>1, <2>2
<1>4. PICK y \in Int :
        y = CASE k.conf = "HIGH" -> 15 [] k.conf = "MEDIUM" -> 5 [] OTHER -> 0
  BY <1>1 DEF Levels
<1>5. Score(k) = x + y + k.uses  BY <1>3, <1>4 DEF Score
<1> QED  BY <1>1, <1>5

LEMMA InjectableIs == SkillInv => Injectable \subseteq SkillIds
<1> SUFFICES ASSUME SkillInv PROVE Injectable \subseteq SkillIds
  OBVIOUS
<1> DEFINE active == {id \in SkillIds : Known(id) /\ IsActive(skills[id])}
           Best(x) == {b \in active :
                          \/ Score(skills[b]) > Score(skills[x])
                          \/ Score(skills[b]) = Score(skills[x]) /\ b < x}
<1>1. active \subseteq SkillIds /\ SkillIds \subseteq Nat  BY DEF SkillIds
<1>2. IsFiniteSet(SkillIds)  BY SkillsAssumption, FS_Interval DEF SkillIds
<1>3. IsFiniteSet(active)  BY <1>1, <1>2, FS_Subset
<1>4. \A id \in active : Score(skills[id]) \in Int  BY ScoreIs, KnownIs
<1>5. Relevant = [n \in 1..Cardinality(active) |->
                    CHOOSE id \in active : Cardinality(Best(id)) = n - 1]
  BY DEF Relevant
<1> HIDE DEF active
<1>6. \A n \in 1..Cardinality(active) :
        \E x \in active : Cardinality(Best(x)) = n - 1
  <2>1. PICK s \in [active -> Int] : \A id \in active : s[id] = Score(skills[id])
    <3>1. [id \in active |-> Score(skills[id])] \in [active -> Int]  BY <1>4
    <3> QED  BY <3>1
  <2>2. PICK A : A = active /\ IsFiniteSet(A) /\ A \subseteq Nat  BY <1>1, <1>3
  <2>3. \A n \in 1..Cardinality(A) :
          \E x \in A : Cardinality(Ahead(A, s, x)) = n - 1
    BY <2>1, <2>2, RankedAll
  <2>4. \A x \in A : Ahead(A, s, x) = Best(x)
    BY <2>1, <2>2 DEF Ahead
  <2> HIDE DEF Best
  <2> QED  BY <2>2, <2>3, <2>4
<1> HIDE DEF Best
<1>7. \A n \in DOMAIN Relevant : Relevant[n] \in active  BY <1>5, <1>6
<1> QED  BY <1>1, <1>7 DEF Injectable

LEMMA PlanKeeps ==
  ASSUME SkillInv, UNCHANGED <<skills, indexed>>, injected' \subseteq SkillIds
  PROVE  SkillInv' /\ StaysRetired
<1>1. \A id \in SkillIds : Known(id) =>
        /\ Fit(skills[id]) /\ id \in indexed
        /\ skills[id].life \in {"active", "deprecated", "archived"}
  BY DEF SkillInv, Fit, SkillRecords
<1> QED  BY <1>1, RecordsKeep DEF SkillInv, Known, NotBack

(* Every step of the store keeps its records right and the retired ones    *)
(* retired.                                                                *)
LEMMA SkillStep ==
  ASSUME SkillInv, [SkillsNext]_skillVars
  PROVE  SkillInv' /\ StaysRetired
<1>1. ASSUME NEW r \in Reports, LearnFrom(r) PROVE SkillInv' /\ StaysRetired
  BY <1>1, LearnKeeps
<1>2. ASSUME NEW id \in SkillIds, Known(id),
             \/ RecordUse(id) \/ RecordSuccess(id) \/ RecordFailure(id)
             \/ DeprecateSkill(id) \/ ArchiveSkill(id) \/ DeleteSkill(id)
      PROVE  SkillInv' /\ StaysRetired
  BY <1>2, ChangeKeeps, DeleteKeeps
<1>3. ASSUME NEW a \in SkillIds, NEW b \in SkillIds, Known(a), Known(b),
             MergeSkills(a, b)
      PROVE  SkillInv' /\ StaysRetired
  BY <1>3, MergeKeeps
<1>4. CASE RunMaintenance  BY <1>4, MaintenanceKeeps
<1>5. CASE Age  BY <1>5, MaintenanceKeeps
<1>6. CASE PlanWithSkills
  <2>1. injected' = Injectable /\ UNCHANGED <<skills, indexed>>
    BY <1>6 DEF PlanWithSkills, Returns
  <2> QED  BY <2>1, InjectableIs, PlanKeeps
<1>7. CASE UNCHANGED skillVars
  BY <1>7, PlanKeeps DEF skillVars, SkillInv
<1> QED  BY <1>1, <1>2, <1>3, <1>4, <1>5, <1>6, <1>7 DEF SkillsNext

(* Whatever is learned, used, merged and retired, the store's records      *)
(* satisfy SkillInv.                                                       *)
THEOREM SkillInvariance == SkillsInit /\ [][SkillsNext]_skillVars => []SkillInv
<1>1. SkillsInit => SkillInv
  <2> SUFFICES ASSUME SkillsInit PROVE SkillInv
    OBVIOUS
  <2>1. \A id \in SkillIds : ~Known(id)  BY DEF SkillsInit, Known
  <2> QED  BY <2>1 DEF SkillsInit, SkillInv, OneRecordPerPattern
<1> QED  BY <1>1, SkillStep, PTL

(* SkillsSafe, for any patterns, reports and number of records: one record *)
(* per pattern, seen in a plan that succeeded, with the rate of its own    *)
(* counts, active only with more than low confidence, and never brought    *)
(* back from retirement by learning, merging, decay or use.                *)
THEOREM SkillsAreSafe == SkillsInit /\ [][SkillsNext]_skillVars => SkillsSafe
<1>1. SkillInv => /\ SkillsTypeOK /\ RateIsCurrent /\ LearnedFromSuccess
                  /\ OneRecordPerPattern /\ ActiveIsConfident
  <2> SUFFICES ASSUME SkillInv
               PROVE  /\ SkillsTypeOK /\ RateIsCurrent /\ LearnedFromSuccess
                      /\ OneRecordPerPattern /\ ActiveIsConfident
    OBVIOUS
  <2>1. ASSUME NEW id \in SkillIds, Known(id)
        PROVE  /\ skills[id].name \in Patterns
               /\ skills[id].life \in {"active", "deprecated", "archived"}
               /\ skills[id].uses \in 0..MaxUses /\ id \in indexed
               /\ skills[id].rate = SuccessRate(skills[id]) /\ skills[id].clean
               /\ IsActive(skills[id]) => skills[id].conf # "LOW"
    <3>1. PICK k \in SkillRecords : k = skills[id] /\ Fit(k)  BY <2>1, KnownIs
    <3>2. k.uses \in Nat /\ k.uses <= MaxUses /\ k.clean = TRUE
      BY <3>1 DEF Fit, SkillRecords
    <3>3. /\ k.name \in Patterns /\ k.life \in {"active", "deprecated", "archived"}
          /\ k.rate = SuccessRate(k) /\ (IsActive(k) => k.conf # "LOW")
      BY <3>1 DEF Fit, SkillRecords
    <3>4. k.uses \in 0..MaxUses  BY <3>2, SkillsAssumption
    <3>5. id \in indexed  BY <2>1 DEF SkillInv
    <3> QED  BY <3>1, <3>2, <3>3, <3>4, <3>5, Zenon
  <2> QED
    BY <2>1 DEF SkillInv, SkillsTypeOK, RateIsCurrent, LearnedFromSuccess,
                ActiveIsConfident
<1>2. SkillInv /\ [SkillsNext]_skillVars => [StaysRetired]_skillVars
  BY SkillStep
<1> QED  BY <1>1, <1>2, SkillInvariance, PTL DEF SkillsSafe, RetiredStaysRetired, StaysRetired

-----------------------------------------------------------------------------
(* Outgoing messages: for any finite set of letters, any people, attempts  *)
(* and bound of the history, and whatever servers and the database do.     *)

LetterRecords ==
  [stage : Stages, road : {"none", "manager", "email", "local"},
   provider : Channels \cup {"none", "unknown"}, agreed : BOOLEAN,
   to : SUBSET People, ready : BOOLEAN, attempts : Nat, sure : Nat,
   doubtful : Nat, verdict : Verdicts]

Unsubmitted == {"refused", "pending", "unavailable", "invalid", "drafted", "simulated"}

(* The attempts pay for the copies, and copies are for the addressees.     *)
Counts(d, a) ==
  /\ d.attempts <= MaxAttempts /\ d.sure <= 1 /\ d.sure + d.doubtful <= d.attempts
  /\ \A p \in People :
       /\ a[p] <= d.sure + d.doubtful
       /\ a[p] > 0 => d.agreed /\ p \in d.to /\ d.provider = "smtp"

(* How far a letter is tells what can have left for it.                    *)
StageOK(d) ==
  /\ d.stage = "new" => d = NewLetter
  /\ d.stage = "sending" =>
       /\ d.road \in {"manager", "email"} /\ d.agreed /\ d.verdict = "none"
       /\ d.sure = 0 /\ d.attempts < MaxAttempts
       /\ d.road = "email" => d.attempts = 0 /\ d.provider = "smtp"
  /\ d.stage = "abandoned" =>
       d.road = "email" /\ d.agreed /\ d.verdict = "failed" /\ d.provider = "smtp"
  /\ d.road = "email" => d.attempts <= 1

(* What the caller was told is true of the copies, and stays so.           *)
Truthful(d, a) ==
  /\ d.verdict \in Unsubmitted =>
       d.stage = "over" /\ \A p \in People : a[p] = 0
  /\ d.verdict \in {"sent", "accepted"} =>
       d.stage = "over" /\ (d.provider = "smtp" => \A p \in d.to : a[p] >= 1)

LetterSound(d, a) ==
  /\ d \in LetterRecords /\ a \in [People -> Nat]
  /\ Counts(d, a) /\ StageOK(d) /\ Truthful(d, a)

LettersOK ==
  /\ letters \in [Letters -> LetterRecords] /\ arrived \in [Letters -> [People -> Nat]]
  /\ \A l \in Letters : LetterSound(letters[l], arrived[l])

(* The letters of which the manager has told the outcome.                  *)
Told == {l \in Letters : letters[l].road = "manager" /\ letters[l].stage = "over"}

(* The numbers and rows of the first process are of its entries alone.     *)
FirstTrail ==
  /\ rowseq = Cardinality(Told)
  /\ \A i \in DOMAIN entries : entries[i].row \in 1..rowseq /\ entries[i].letter \in Told
  /\ \A i, j \in DOMAIN entries : i # j =>
       entries[i].letter # entries[j].letter /\ entries[i].row # entries[j].row
  /\ ~rowFault =>
       /\ DOMAIN auditRows = {entries[i].row : i \in DOMAIN entries}
       /\ \A i \in DOMAIN entries : auditRows[entries[i].row] = entries[i].letter

HistoryOK ==
  /\ entries \in Seq([row : Nat, letter : Letters]) /\ Len(entries) <= MaxEntries
  /\ rowseq \in Nat /\ rowseq <= Cardinality(Told)
  /\ starts \in Nat /\ rowFault \in BOOLEAN
  /\ IsFiniteSet(DOMAIN auditRows)
  /\ \A r \in DOMAIN auditRows : r \in Nat /\ auditRows[r] \in Letters
  /\ starts = 0 => FirstTrail

OutboxInv == LettersOK /\ HistoryOK

-----------------------------------------------------------------------------
(* One letter changes.                                                     *)
LEMMA LetterKeeps ==
  ASSUME LettersOK, NEW l \in Letters, NEW d, NEW a, LetterSound(d, a),
         letters' = [letters EXCEPT ![l] = d], arrived' = [arrived EXCEPT ![l] = a]
  PROVE  /\ LettersOK'
         /\ Told' = IF d.road = "manager" /\ d.stage = "over"
                      THEN Told \cup {l} ELSE Told \ {l}
<1>1. d \in LetterRecords /\ a \in [People -> Nat]  BY DEF LetterSound
<1>2. letters' \in [Letters -> LetterRecords] /\ arrived' \in [Letters -> [People -> Nat]]
  BY <1>1 DEF LettersOK
<1>3. \A m \in Letters : /\ letters'[m] = IF m = l THEN d ELSE letters[m]
                         /\ arrived'[m] = IF m = l THEN a ELSE arrived[m]
  BY DEF LettersOK
<1>4. \A m \in Letters : LetterSound(letters'[m], arrived'[m])
  BY <1>3 DEF LettersOK
<1>5. LettersOK'
  BY <1>2, <1>4
     DEF LettersOK, LetterSound, Counts, StageOK, Truthful, NewLetter, LetterRecords
<1>6. Told' = IF d.road = "manager" /\ d.stage = "over" THEN Told \cup {l} ELSE Told \ {l}
  BY <1>3 DEF Told
<1> QED  BY <1>5, <1>6

(* The history does not change, nor what it is about.                      *)
LEMMA HistoryStays ==
  ASSUME HistoryOK, Told' = Told,
         UNCHANGED <<entries, rowseq, auditRows, starts, rowFault>>
  PROVE  HistoryOK'
BY DEF HistoryOK, FirstTrail

(* Only a letter whose outcome is new gets an entry.                       *)
LEMMA LetterOnly ==
  ASSUME OutboxInv, NEW l \in Letters, NEW d, NEW a, LetterSound(d, a),
         letters' = [letters EXCEPT ![l] = d], arrived' = [arrived EXCEPT ![l] = a],
         l \notin Told, d.road # "manager" \/ d.stage # "over",
         UNCHANGED <<entries, rowseq, auditRows, starts, rowFault>>
  PROVE  OutboxInv'
<1>1. LettersOK' /\ Told' = Told  BY LetterKeeps DEF OutboxInv
<1> QED  BY <1>1, HistoryStays DEF OutboxInv

-----------------------------------------------------------------------------
(* The history.                                                            *)

LEMMA ToldCounts ==
  IsFiniteSet(Told) /\ Cardinality(Told) \in Nat
<1>1. Told \subseteq Letters  BY DEF Told
<1> QED  BY <1>1, OutboxAssumption, FS_Subset, FS_CardinalityType

LEMMA SequenceFacts ==
  ASSUME NEW S, NEW s \in Seq(S), NEW x \in S
  PROVE  /\ Append(s, x) \in Seq(S) /\ Len(Append(s, x)) = Len(s) + 1
         /\ \A i \in 1..Len(s) : Append(s, x)[i] = s[i]
         /\ Append(s, x)[Len(s) + 1] = x
OBVIOUS

LEMMA TailFacts ==
  ASSUME NEW S, NEW s \in Seq(S), Len(s) > 0
  PROVE  /\ Tail(s) \in Seq(S) /\ Len(Tail(s)) = Len(s) - 1 /\ Head(s) = s[1]
         /\ \A i \in 1..(Len(s) - 1) : Tail(s)[i] = s[i + 1]
OBVIOUS

LEMMA EntryKeeps ==
  ASSUME HistoryOK, NEW l \in Letters, l \notin Told, Told' = Told \cup {l},
         Records(l), starts' = starts
  PROVE  HistoryOK'
<1>1. IsFiniteSet(Told) /\ Cardinality(Told) \in Nat  BY ToldCounts
<1>2. Cardinality(Told') = Cardinality(Told) + 1
  BY <1>1, FS_AddElement
<1>3. PICK num \in Nat : num = rowseq + 1  BY DEF HistoryOK
<1> DEFINE TrailEntry == [row : Nat, letter : Letters]
<1>4. PICK x \in TrailEntry : x = [row |-> num, letter |-> l]  OBVIOUS
<1> DEFINE Written(w) == IF w THEN [r \in DOMAIN auditRows \cup {num} |->
                                       IF r = num THEN l ELSE auditRows[r]]
                               ELSE auditRows
<1>5. PICK kept \in Seq(TrailEntry) :
        /\ kept = Append(entries, x) /\ Len(kept) = Len(entries) + 1
        /\ \A i \in 1..Len(entries) : kept[i] = entries[i]
        /\ kept[Len(entries) + 1] = x
  <2> HIDE DEF TrailEntry
  <2>1. PICK old \in Seq(TrailEntry) : old = entries  BY DEF HistoryOK, TrailEntry
  <2>2. /\ Append(old, x) \in Seq(TrailEntry) /\ Len(Append(old, x)) = Len(old) + 1
        /\ \A i \in 1..Len(old) : Append(old, x)[i] = old[i]
        /\ Append(old, x)[Len(old) + 1] = x
    BY SequenceFacts
  <2> QED  BY <2>1, <2>2
<1>6. PICK wrote \in BOOLEAN, deleted \in BOOLEAN :
        /\ auditRows' = [r \in DOMAIN Written(wrote) \
                            (IF deleted THEN PrunedRow(kept) ELSE {}) |-> Written(wrote)[r]]
        /\ rowFault' = (rowFault \/ ~wrote \/ ~deleted)
  <2>1. kept = Append(entries, [row |-> rowseq + 1, letter |-> l])  BY <1>3, <1>4, <1>5
  <2> HIDE DEF TrailEntry
  <2> QED  BY <1>3, <2>1 DEF Records
<1>w. PICK written : written = Written(wrote)  OBVIOUS
<1>7. rowseq' = num /\ entries' = Pruned(kept)
  BY <1>3, <1>4, <1>5 DEF Records
<1>8. /\ entries' \in Seq(TrailEntry) /\ Len(entries') <= MaxEntries
      /\ \/ /\ PrunedRow(kept) = {} /\ entries' = kept
         \/ /\ PrunedRow(kept) = {kept[1].row} /\ Len(entries') = Len(kept) - 1
            /\ \A i \in 1..Len(entries') : entries'[i] = kept[i + 1]
  <2>1. Len(kept) \in Nat /\ Len(entries) \in Nat /\ Len(entries) <= MaxEntries
        /\ MaxEntries \in Nat
    BY OutboxAssumption DEF HistoryOK
  <2>2. CASE Len(kept) > MaxEntries
    <3>1. entries' = Tail(kept) /\ PrunedRow(kept) = {Head(kept).row}
      BY <1>7, <2>2 DEF Pruned, PrunedRow
    <3> QED  BY <1>5, <2>1, <2>2, <3>1, TailFacts
  <2>3. CASE ~(Len(kept) > MaxEntries)
    BY <1>7, <2>1, <2>3 DEF Pruned, PrunedRow
  <2> QED  BY <2>2, <2>3
<1>9. /\ IsFiniteSet(DOMAIN auditRows')
      /\ \A r \in DOMAIN auditRows' : r \in Nat /\ auditRows'[r] \in Letters
  <2>1. IsFiniteSet(DOMAIN auditRows \cup {num})
    BY FS_AddElement DEF HistoryOK
  <2>2. DOMAIN auditRows' \subseteq DOMAIN auditRows \cup {num}
    BY <1>6, <1>w
  <2>3. IsFiniteSet(DOMAIN auditRows')  BY <2>1, <2>2, FS_Subset
  <2>4. \A r \in DOMAIN written : r \in Nat /\ written[r] \in Letters
    BY <1>w DEF HistoryOK
  <2> QED  BY <1>6, <1>w, <2>3, <2>4
<1>10. rowseq' \in Nat /\ rowseq' <= Cardinality(Told')
  BY <1>1, <1>2, <1>3, <1>7 DEF HistoryOK
<1>11. rowFault' \in BOOLEAN  BY <1>6 DEF HistoryOK
<1>12. ASSUME starts = 0 PROVE FirstTrail'
  <2>1. /\ rowseq = Cardinality(Told) /\ num = rowseq + 1
        /\ \A i \in 1..Len(entries) :
             entries[i].row \in 1..rowseq /\ entries[i].letter \in Told
        /\ \A i, j \in 1..Len(entries) : i # j =>
             entries[i].letter # entries[j].letter /\ entries[i].row # entries[j].row
    BY <1>3, <1>12 DEF HistoryOK, FirstTrail
  <2>2. Len(entries) \in Nat  BY DEF HistoryOK
  <2>a. \A i \in 1..Len(kept) : i \in 1..Len(entries) \/ i = Len(entries) + 1
    BY <1>5, <2>2
  <2>b. /\ kept[Len(entries) + 1].row = num /\ kept[Len(entries) + 1].letter = l
        /\ rowseq \in Nat /\ num \notin 1..rowseq
    BY <1>3, <1>4, <1>5 DEF HistoryOK
  <2>c. /\ \A i \in 1..Len(entries) : kept[i] = entries[i]
        /\ Len(kept) = Len(entries) + 1 /\ 1..rowseq \subseteq 1..num /\ num \in 1..num
    BY <1>3, <1>5, <2>b
  <2>3. \A i \in 1..Len(kept) : kept[i].row \in 1..num /\ kept[i].letter \in Told'
    BY <2>1, <2>a, <2>b, <2>c
  <2>4. ASSUME NEW i \in 1..Len(kept), NEW j \in 1..Len(kept), i # j
        PROVE  kept[i].letter # kept[j].letter /\ kept[i].row # kept[j].row
    <3>1. CASE i \in 1..Len(entries) /\ j \in 1..Len(entries)
      BY <2>1, <2>4, <2>c, <3>1
    <3>2. CASE i = Len(entries) + 1 /\ j \in 1..Len(entries)
      BY <2>1, <2>b, <2>c, <3>2
    <3>3. CASE j = Len(entries) + 1 /\ i \in 1..Len(entries)
      BY <2>1, <2>b, <2>c, <3>3
    <3> QED  BY <2>4, <2>a, <3>1, <3>2, <3>3
  <2>5. ASSUME NEW i \in 1..Len(entries')
        PROVE  \E k \in 1..Len(kept) :
                 /\ entries'[i] = kept[k] /\ (kept[k].row \notin PrunedRow(kept))
                 /\ k = IF PrunedRow(kept) = {} THEN i ELSE i + 1
    <3>1. CASE PrunedRow(kept) = {} /\ entries' = kept  BY <3>1
    <3>2. CASE /\ PrunedRow(kept) = {kept[1].row} /\ Len(entries') = Len(kept) - 1
               /\ \A k \in 1..Len(entries') : entries'[k] = kept[k + 1]
      <4>1. i + 1 \in 1..Len(kept) /\ 1 \in 1..Len(kept) /\ i + 1 # 1
        BY <1>5, <2>2, <3>2
      <4>2. kept[i + 1].row # kept[1].row  BY <2>4, <4>1
      <4>3. entries'[i] = kept[i + 1]  BY <3>2
      <4>4. PrunedRow(kept) # {}  BY <3>2
      <4>5. kept[i + 1].row \notin PrunedRow(kept)  BY <3>2, <4>2
      <4> QED  BY <4>1, <4>3, <4>4, <4>5
    <3> QED  BY <1>8, <3>1, <3>2
  <2>6. ASSUME NEW i \in 1..Len(entries'), NEW j \in 1..Len(entries'), i # j
        PROVE  entries'[i].letter # entries'[j].letter /\ entries'[i].row # entries'[j].row
    <3>1. PICK k \in 1..Len(kept) :
            entries'[i] = kept[k] /\ k = IF PrunedRow(kept) = {} THEN i ELSE i + 1
      BY <2>5
    <3>2. PICK m \in 1..Len(kept) :
            entries'[j] = kept[m] /\ m = IF PrunedRow(kept) = {} THEN j ELSE j + 1
      BY <2>5
    <3>3. i \in Int /\ j \in Int  BY <1>8
    <3>4. k # m  BY <2>6, <3>1, <3>2, <3>3
    <3> QED  BY <2>4, <3>1, <3>2, <3>4
  <2>7. ASSUME ~rowFault'
        PROVE  /\ DOMAIN auditRows' = {entries'[i].row : i \in 1..Len(entries')}
               /\ \A i \in 1..Len(entries') : auditRows'[entries'[i].row] = entries'[i].letter
    <3>1. wrote /\ deleted /\ ~rowFault  BY <1>6, <2>7
    <3>2. /\ DOMAIN auditRows = {entries[i].row : i \in 1..Len(entries)}
          /\ \A i \in 1..Len(entries) : auditRows[entries[i].row] = entries[i].letter
      BY <1>12, <3>1 DEF HistoryOK, FirstTrail
    <3>3. DOMAIN written = {kept[i].row : i \in 1..Len(kept)}
      <4>1. DOMAIN written = DOMAIN auditRows \cup {num}  BY <1>w, <3>1
      <4>2. \A i \in 1..Len(entries) : i \in 1..Len(kept)  BY <1>5, <2>2
      <4>3. Len(entries) + 1 \in 1..Len(kept)  BY <1>5, <2>2
      <4>4. ASSUME NEW r \in DOMAIN written PROVE \E i \in 1..Len(kept) : r = kept[i].row
        <5>1. CASE r = num  BY <2>b, <2>c, <4>3, <5>1
        <5>2. CASE r \in DOMAIN auditRows
          <6>1. PICK i \in 1..Len(entries) : r = entries[i].row  BY <3>2, <5>2
          <6>2. r = kept[i].row /\ i \in 1..Len(kept)  BY <2>c, <4>2, <6>1
          <6> QED  BY <6>2
        <5> QED  BY <4>1, <4>4, <5>1, <5>2
      <4>5. ASSUME NEW i \in 1..Len(kept) PROVE kept[i].row \in DOMAIN written
        <5>1. CASE i = Len(entries) + 1  BY <2>b, <4>1, <5>1
        <5>2. CASE i \in 1..Len(entries)
          <6>1. kept[i].row = entries[i].row  BY <2>c, <5>2
          <6>2. entries[i].row \in DOMAIN auditRows  BY <3>2, <5>2
          <6> QED  BY <4>1, <6>1, <6>2
        <5> QED  BY <2>a, <5>1, <5>2
      <4> QED  BY <4>4, <4>5
    <3>4. ASSUME NEW i \in 1..Len(kept) PROVE written[kept[i].row] = kept[i].letter
      <4>1. \A r \in DOMAIN auditRows \cup {num} :
              written[r] = IF r = num THEN l ELSE auditRows[r]
        BY <1>w, <3>1
      <4>2. CASE i \in 1..Len(entries)
        <5>1. entries[i].row \in DOMAIN auditRows /\ entries[i].row # num
          BY <2>1, <2>b, <3>2, <4>2
        <5>2. written[entries[i].row] = auditRows[entries[i].row]  BY <4>1, <5>1
        <5> QED  BY <2>c, <3>2, <4>2, <5>2
      <4>3. CASE i = Len(entries) + 1
        <5>1. written[num] = l  BY <4>1
        <5> QED  BY <2>b, <4>3, <5>1
      <4> QED  BY <2>a, <4>2, <4>3
    <3>5. /\ DOMAIN auditRows' = DOMAIN written \ PrunedRow(kept)
          /\ \A r \in DOMAIN auditRows' : auditRows'[r] = written[r]
      BY <1>6, <1>w, <3>1
    <3>6. ASSUME NEW r \in DOMAIN auditRows'
          PROVE  \E i \in 1..Len(entries') : r = entries'[i].row
      <4>1. PICK k \in 1..Len(kept) : r = kept[k].row /\ r \notin PrunedRow(kept)
        BY <3>3, <3>5
      <4>2. CASE PrunedRow(kept) = {} /\ entries' = kept  BY <4>1, <4>2
      <4>3. CASE /\ PrunedRow(kept) = {kept[1].row} /\ Len(entries') = Len(kept) - 1
                 /\ \A i \in 1..Len(entries') : entries'[i] = kept[i + 1]
        <5>1. k # 1  BY <4>1, <4>3
        <5>2. k - 1 \in 1..Len(entries') /\ (k - 1) + 1 = k
          BY <1>5, <2>2, <4>3, <5>1
        <5>3. entries'[k - 1] = kept[k]  BY <4>3, <5>2
        <5> QED  BY <4>1, <5>2, <5>3
      <4> QED  BY <1>8, <4>2, <4>3
    <3>7. ASSUME NEW i \in 1..Len(entries')
          PROVE  /\ entries'[i].row \in DOMAIN auditRows'
                 /\ auditRows'[entries'[i].row] = entries'[i].letter
      <4>1. PICK k \in 1..Len(kept) :
              entries'[i] = kept[k] /\ kept[k].row \notin PrunedRow(kept)
        BY <2>5
      <4>2. kept[k].row \in DOMAIN auditRows'  BY <3>3, <3>5, <4>1
      <4> QED  BY <3>4, <3>5, <4>1, <4>2
    <3> QED  BY <3>6, <3>7
  <2>8. DOMAIN entries' = 1..Len(entries')  BY <1>8
  <2>9. rowseq' = Cardinality(Told')  BY <1>2, <1>7, <2>1
  <2>10. \A i \in 1..Len(entries') : entries'[i].row \in 1..rowseq' /\ entries'[i].letter \in Told'
    BY <1>7, <2>3, <2>5
  <2> QED  BY <2>6, <2>7, <2>8, <2>9, <2>10 DEF FirstTrail
<1> QED  BY <1>8, <1>9, <1>10, <1>11, <1>12 DEF HistoryOK

(* The outcome of a letter is told and recorded.                           *)
LEMMA LetterRecorded ==
  ASSUME OutboxInv, NEW l \in Letters, NEW d, NEW a, LetterSound(d, a),
         letters' = [letters EXCEPT ![l] = d], arrived' = [arrived EXCEPT ![l] = a],
         l \notin Told, d.road = "manager", d.stage = "over", Records(l),
         starts' = starts
  PROVE  OutboxInv'
<1>1. LettersOK' /\ Told' = Told \cup {l}  BY LetterKeeps DEF OutboxInv
<1> QED  BY <1>1, EntryKeeps DEF OutboxInv

-----------------------------------------------------------------------------
(* The letters.                                                            *)

LEMMA LetterIs ==
  ASSUME LettersOK, NEW l \in Letters
  PROVE  LetterSound(letters[l], arrived[l]) /\ letters[l] \in LetterRecords
BY DEF LettersOK

LEMMA SameCopies ==
  ASSUME LettersOK, NEW l \in Letters, UNCHANGED arrived
  PROVE  arrived' = [arrived EXCEPT ![l] = arrived[l]]
BY DEF LettersOK

(* Nothing has left for a new letter.                                      *)
LEMMA NewIs ==
  ASSUME LettersOK, NEW l \in Letters, letters[l].stage = "new"
  PROVE  /\ letters[l] = NewLetter /\ arrived[l] \in [People -> Nat]
         /\ \A p \in People : arrived[l][p] = 0
         /\ l \notin Told
<1>1. letters[l] = NewLetter  BY LetterIs DEF LetterSound, StageOK
<1>2. /\ letters[l].sure = 0 /\ letters[l].doubtful = 0  BY <1>1 DEF NewLetter
<1>3. \A p \in People : arrived[l][p] \in Nat /\ arrived[l][p] <= 0
  BY <1>2, LetterIs DEF LetterSound, Counts
<1> QED  BY <1>1, <1>3, LetterIs DEF LetterSound, Told

LEMMA UntriedIsSound ==
  ASSUME NEW d \in LetterRecords, NEW a \in [People -> Nat],
         \A p \in People : a[p] = 0,
         d.attempts = 0 /\ d.sure = 0 /\ d.doubtful = 0, StageOK(d),
         d.verdict \in Unsubmitted => d.stage = "over",
         d.verdict \in {"sent", "accepted"} => d.stage = "over" /\ d.provider # "smtp"
  PROVE  LetterSound(d, a)
BY OutboxAssumption DEF LetterSound, Counts, Truthful

LEMMA OverIs ==
  ASSUME NEW d \in LetterRecords, NEW v \in Verdicts
  PROVE  LET e == Over(d, v) IN
         /\ e \in LetterRecords /\ e.stage = "over" /\ e.verdict = v
         /\ e.road = d.road /\ e.provider = d.provider /\ e.agreed = d.agreed
         /\ e.to = d.to /\ e.ready = d.ready /\ e.attempts = d.attempts
         /\ e.sure = d.sure /\ e.doubtful = d.doubtful
<1>1. "over" \in Stages  BY DEF Stages
<1> QED  BY <1>1 DEF Over, LetterRecords

LEMMA StageIs ==
  ASSUME NEW d \in LetterRecords, NEW s \in Stages
  PROVE  LET e == [d EXCEPT !.stage = s] IN
         /\ e \in LetterRecords /\ e.stage = s /\ e.verdict = d.verdict
         /\ e.road = d.road /\ e.provider = d.provider /\ e.agreed = d.agreed
         /\ e.to = d.to /\ e.ready = d.ready /\ e.attempts = d.attempts
         /\ e.sure = d.sure /\ e.doubtful = d.doubtful
BY DEF LetterRecords

LEMMA NewLetterIs ==
  NewLetter \in LetterRecords
BY DEF NewLetter, LetterRecords, Stages, Verdicts

(* A new letter is addressed.                                              *)
Addressed(road, provider, g, r, to) ==
  [NewLetter EXCEPT !.road = road, !.provider = provider, !.agreed = g, !.ready = r,
                    !.to = to]

LEMMA AddressedIs ==
  ASSUME NEW road \in {"manager", "email"}, NEW provider \in Channels \cup {"unknown"},
         NEW g \in BOOLEAN, NEW r \in BOOLEAN, NEW to \in SUBSET People
  PROVE  LET n == Addressed(road, provider, g, r, to) IN
         /\ n \in LetterRecords /\ n.road = road /\ n.provider = provider
         /\ n.agreed = g /\ n.ready = r /\ n.to = to /\ n.attempts = 0 /\ n.sure = 0
         /\ n.doubtful = 0 /\ n.verdict = "none"
<1>1. PICK d \in LetterRecords :
        /\ d = NewLetter /\ d.attempts = 0 /\ d.sure = 0 /\ d.doubtful = 0
        /\ d.verdict = "none"
  BY NewLetterIs DEF NewLetter
<1> DEFINE n == [d EXCEPT !.road = road, !.provider = provider, !.agreed = g,
                   !.ready = r, !.to = to]
<1>2. /\ n \in LetterRecords /\ n.road = road /\ n.provider = provider
      /\ n.agreed = g /\ n.ready = r /\ n.to = to /\ n.attempts = 0 /\ n.sure = 0
      /\ n.doubtful = 0 /\ n.verdict = "none"
  BY <1>1 DEF LetterRecords
<1>3. Addressed(road, provider, g, r, to) = n  BY <1>1 DEF Addressed
<1> HIDE DEF n
<1> QED  BY <1>2, <1>3

LEMMA ManagerKeeps ==
  ASSUME OutboxInv, NEW l \in Letters, ManagerSends(l)
  PROVE  OutboxInv'
<1>1. /\ letters[l].stage = "new" /\ letters[l] = NewLetter /\ l \notin Told
      /\ arrived[l] \in [People -> Nat] /\ \A p \in People : arrived[l][p] = 0
  BY NewIs DEF ManagerSends, OutboxInv
<1>2. PICK provider \in Channels \cup {"unknown"}, needs \in BOOLEAN,
           approved \in BOOLEAN, valid \in BOOLEAN, ready \in BOOLEAN,
           person \in People :
        LET d == [letters[l] EXCEPT !.road = "manager", !.provider = provider,
                    !.agreed = ~needs \/ approved, !.ready = ready, !.to = {person}]
        IN  IF Refused(needs, approved, provider, valid)
              THEN letters' = [letters EXCEPT ![l] = Over(d, "refused")] /\ Records(l)
              ELSE /\ letters' = [letters EXCEPT ![l] = [d EXCEPT !.stage = "sending"]]
                   /\ UNCHANGED <<entries, rowseq, auditRows, rowFault>>
  BY DEF ManagerSends
<1>3. PICK g \in BOOLEAN : g = (~needs \/ approved)  OBVIOUS
<1>4. PICK n \in LetterRecords :
        /\ n = [letters[l] EXCEPT !.road = "manager", !.provider = provider,
                  !.agreed = g, !.ready = ready, !.to = {person}]
        /\ n.road = "manager" /\ n.agreed = g /\ n.attempts = 0 /\ n.sure = 0
        /\ n.doubtful = 0 /\ n.verdict = "none"
  <2>1. PICK to \in SUBSET People : to = {person}  OBVIOUS
  <2>2. PICK n : n = Addressed("manager", provider, g, ready, to)  OBVIOUS
  <2>3. /\ n \in LetterRecords /\ n.road = "manager" /\ n.agreed = g /\ n.attempts = 0
        /\ n.sure = 0 /\ n.doubtful = 0 /\ n.verdict = "none"
    BY <2>2, AddressedIs
  <2>4. n = [letters[l] EXCEPT !.road = "manager", !.provider = provider,
               !.agreed = g, !.ready = ready, !.to = {person}]
    BY <1>1, <2>1, <2>2 DEF Addressed
  <2> QED  BY <2>3, <2>4
<1>5. arrived' = [arrived EXCEPT ![l] = arrived[l]] /\ starts' = starts
  BY SameCopies DEF ManagerSends, OutboxInv
<1>6. IF Refused(needs, approved, provider, valid)
        THEN letters' = [letters EXCEPT ![l] = Over(n, "refused")] /\ Records(l)
        ELSE /\ letters' = [letters EXCEPT ![l] = [n EXCEPT !.stage = "sending"]]
             /\ UNCHANGED <<entries, rowseq, auditRows, rowFault>>
  BY <1>2, <1>3, <1>4
<1>7. CASE Refused(needs, approved, provider, valid)
  <2>1. PICK v \in Verdicts : v = "refused"  BY DEF Verdicts
  <2>2. PICK d : d = Over(n, v)  OBVIOUS
  <2>c. /\ d \in LetterRecords /\ d.stage = "over" /\ d.verdict = v /\ d.road = n.road
        /\ d.provider = n.provider /\ d.attempts = n.attempts /\ d.sure = n.sure
        /\ d.doubtful = n.doubtful
    BY <2>1, <2>2, OverIs
  <2>a. /\ d \in LetterRecords /\ d.stage = "over" /\ d.road = "manager"
        /\ d.verdict = "refused" /\ d.attempts = 0 /\ d.sure = 0 /\ d.doubtful = 0
    BY <1>4, <2>1, <2>c
  <2>3. StageOK(d)  BY <2>2, <2>a DEF StageOK
  <2>4. LetterSound(d, arrived[l])  BY <1>1, <2>2, <2>a, <2>3, UntriedIsSound
  <2> QED  BY <1>1, <1>5, <1>6, <1>7, <2>1, <2>2, <2>a, <2>4, LetterRecorded
<1>8. CASE ~Refused(needs, approved, provider, valid)
  <2>1. "sending" \in Stages  BY DEF Stages
  <2>2. PICK d : d = [n EXCEPT !.stage = "sending"]  OBVIOUS
  <2>c. /\ d \in LetterRecords /\ d.stage = "sending" /\ d.verdict = n.verdict
        /\ d.road = n.road /\ d.provider = n.provider /\ d.agreed = n.agreed
        /\ d.attempts = n.attempts /\ d.sure = n.sure /\ d.doubtful = n.doubtful
    BY <2>1, <2>2, StageIs
  <2>a. /\ d \in LetterRecords /\ d.stage = "sending"
        /\ d.road = "manager" /\ d.agreed = g
        /\ d.verdict = "none" /\ d.attempts = 0 /\ d.sure = 0 /\ d.doubtful = 0
    BY <1>4, <2>c
  <2>3. d.agreed  BY <1>3, <1>8, <2>a, Zenon DEF Refused
  <2>b. /\ d.stage = "sending" /\ d.road = "manager" /\ d.verdict = "none"
        /\ d.attempts = 0 /\ d.sure = 0
    BY <2>a
  <2>4. StageOK(d)  BY <2>b, <2>3, OutboxAssumption DEF StageOK
  <2>5. LetterSound(d, arrived[l])  BY <1>1, <2>2, <2>a, <2>4, UntriedIsSound DEF Unsubmitted
  <2> QED  BY <1>1, <1>5, <1>6, <1>8, <2>2, <2>a, <2>5, LetterOnly
<1> QED  BY <1>7, <1>8

LEMMA EmailKeeps ==
  ASSUME OutboxInv, NEW l \in Letters, EmailSends(l)
  PROVE  OutboxInv'
<1>1. /\ letters[l].stage = "new" /\ letters[l] = NewLetter /\ l \notin Told
      /\ arrived[l] \in [People -> Nat] /\ \A p \in People : arrived[l][p] = 0
  BY NewIs DEF EmailSends, OutboxInv
<1>2. PICK switchedOn \in BOOLEAN, verified \in BOOLEAN, body \in BOOLEAN,
           to \in SUBSET People :
        LET d == [letters[l] EXCEPT !.road = "email", !.provider = "smtp",
                    !.agreed = TRUE, !.ready = IsReady(switchedOn, verified), !.to = to]
        IN  letters' = [letters EXCEPT ![l] =
              CASE ~d.ready        -> Over(d, "unavailable")
                [] ~Valid(to, body) -> Over(d, "invalid")
                [] OTHER            -> [d EXCEPT !.stage = "sending"]]
  BY DEF EmailSends
<1>3. PICK r \in BOOLEAN : r = IsReady(switchedOn, verified)  BY DEF IsReady
<1>4. PICK n \in LetterRecords :
        /\ n = [letters[l] EXCEPT !.road = "email", !.provider = "smtp",
                  !.agreed = TRUE, !.ready = r, !.to = to]
        /\ n.road = "email" /\ n.provider = "smtp" /\ n.agreed = TRUE /\ n.ready = r
        /\ n.attempts = 0 /\ n.sure = 0 /\ n.doubtful = 0 /\ n.verdict = "none"
  <2>5. PICK road \in {"manager", "email"} : road = "email"  OBVIOUS
  <2>6. PICK provider \in Channels \cup {"unknown"} : provider = "smtp"  BY DEF Channels
  <2>7. PICK g \in BOOLEAN : g = TRUE  OBVIOUS
  <2>1. PICK n : n = Addressed(road, provider, g, r, to)  OBVIOUS
  <2>3. /\ n \in LetterRecords /\ n.road = "email" /\ n.provider = "smtp"
        /\ n.agreed = TRUE /\ n.ready = r
        /\ n.attempts = 0 /\ n.sure = 0 /\ n.doubtful = 0 /\ n.verdict = "none"
    <3>1. /\ n \in LetterRecords /\ n.road = road /\ n.provider = provider
          /\ n.agreed = g /\ n.ready = r
          /\ n.attempts = 0 /\ n.sure = 0 /\ n.doubtful = 0 /\ n.verdict = "none"
      BY <2>1, AddressedIs
    <3> QED  BY <2>5, <2>6, <2>7, <3>1
  <2>4. n = [letters[l] EXCEPT !.road = "email", !.provider = "smtp",
               !.agreed = TRUE, !.ready = r, !.to = to]
    BY <1>1, <2>1, <2>5, <2>6, <2>7 DEF Addressed
  <2> QED  BY <2>3, <2>4
<1>5. /\ arrived' = [arrived EXCEPT ![l] = arrived[l]]
      /\ UNCHANGED <<entries, rowseq, auditRows, starts, rowFault>>
  BY SameCopies DEF EmailSends, OutboxInv
<1>6. \/ \E v \in {"unavailable", "invalid"} : letters' = [letters EXCEPT ![l] = Over(n, v)]
      \/ letters' = [letters EXCEPT ![l] = [n EXCEPT !.stage = "sending"]]
  <2>1. letters' = [letters EXCEPT ![l] =
              CASE ~n.ready        -> Over(n, "unavailable")
                [] ~Valid(to, body) -> Over(n, "invalid")
                [] OTHER            -> [n EXCEPT !.stage = "sending"]]
    BY <1>2, <1>3, <1>4
  <2>2. PICK w \in BOOLEAN : w = Valid(to, body)  BY DEF Valid
  <2>3. CASE r /\ w
    <3>1. letters' = [letters EXCEPT ![l] = [n EXCEPT !.stage = "sending"]]
      BY <1>4, <2>1, <2>2, <2>3
    <3> QED  BY <3>1
  <2>4. CASE ~r /\ w
    <3>1. letters' = [letters EXCEPT ![l] = Over(n, "unavailable")]
      BY <1>4, <2>1, <2>2, <2>4
    <3> QED  BY <3>1
  <2>5. CASE ~w
    <3>1. \/ letters' = [letters EXCEPT ![l] = Over(n, "unavailable")]
          \/ letters' = [letters EXCEPT ![l] = Over(n, "invalid")]
      BY <1>4, <2>1, <2>2, <2>5
    <3> QED  BY <3>1
  <2> QED  BY <2>3, <2>4, <2>5
<1>7. ASSUME NEW v \in {"unavailable", "invalid"},
             letters' = [letters EXCEPT ![l] = Over(n, v)]
      PROVE  OutboxInv'
  <2>1. v \in Verdicts /\ v \in Unsubmitted  BY DEF Verdicts, Unsubmitted
  <2>2. PICK d : d = Over(n, v)  OBVIOUS
  <2>c. /\ d \in LetterRecords /\ d.stage = "over" /\ d.verdict = v /\ d.road = n.road
        /\ d.provider = n.provider /\ d.attempts = n.attempts /\ d.sure = n.sure
        /\ d.doubtful = n.doubtful
    BY <2>1, <2>2, OverIs
  <2>a. /\ d \in LetterRecords /\ d.stage = "over" /\ d.road = "email"
        /\ d.verdict = v /\ d.attempts = 0 /\ d.sure = 0 /\ d.doubtful = 0
    BY <1>4, <2>1, <2>c
  <2>3. StageOK(d)  BY <2>2, <2>a DEF StageOK
  <2>4. LetterSound(d, arrived[l])  BY <1>1, <2>2, <2>a, <2>3, UntriedIsSound
  <2> QED  BY <1>1, <1>5, <1>7, <2>2, <2>a, <2>4, LetterOnly
<1>8. ASSUME letters' = [letters EXCEPT ![l] = [n EXCEPT !.stage = "sending"]]
      PROVE  OutboxInv'
  <2>1. "sending" \in Stages  BY DEF Stages
  <2>2. PICK d : d = [n EXCEPT !.stage = "sending"]  OBVIOUS
  <2>c. /\ d \in LetterRecords /\ d.stage = "sending" /\ d.verdict = n.verdict
        /\ d.road = n.road /\ d.provider = n.provider /\ d.agreed = n.agreed
        /\ d.attempts = n.attempts /\ d.sure = n.sure /\ d.doubtful = n.doubtful
    BY <2>1, <2>2, StageIs
  <2>a. /\ d \in LetterRecords /\ d.stage = "sending"
        /\ d.road = "email" /\ d.agreed = TRUE /\ d.provider = "smtp"
        /\ d.verdict = "none" /\ d.attempts = 0 /\ d.sure = 0 /\ d.doubtful = 0
    BY <1>4, <2>c
  <2>3. StageOK(d)  BY <2>2, <2>a, OutboxAssumption DEF StageOK
  <2>4. LetterSound(d, arrived[l])  BY <1>1, <2>2, <2>a, <2>3, UntriedIsSound DEF Unsubmitted
  <2> QED  BY <1>1, <1>5, <1>8, <2>2, <2>a, <2>4, LetterOnly
<1> QED  BY <1>6, <1>7, <1>8

LEMMA LocalKeeps ==
  ASSUME OutboxInv, NEW l \in Letters, Drafts(l) \/ Messages(l) \/ Notifies(l)
  PROVE  OutboxInv'
<1>1. /\ letters[l].stage = "new" /\ letters[l] = NewLetter /\ l \notin Told
      /\ arrived[l] \in [People -> Nat] /\ \A p \in People : arrived[l][p] = 0
  BY NewIs DEF Drafts, Messages, Notifies, OutboxInv
<1>2. PICK n \in LetterRecords :
        /\ n = [letters[l] EXCEPT !.road = "local"] /\ n.road = "local"
        /\ n.provider = "none" /\ n.attempts = 0 /\ n.sure = 0 /\ n.doubtful = 0
  <2>1. PICK d \in LetterRecords :
          /\ d = NewLetter /\ d.attempts = 0 /\ d.sure = 0 /\ d.doubtful = 0
          /\ d.provider = "none"
    BY NewLetterIs DEF NewLetter
  <2> DEFINE n == [d EXCEPT !.road = "local"]
  <2>2. /\ n \in LetterRecords /\ n.road = "local" /\ n.provider = "none"
        /\ n.attempts = 0 /\ n.sure = 0 /\ n.doubtful = 0
    BY <2>1 DEF LetterRecords
  <2> QED  BY <1>1, <2>1, <2>2
<1>3. PICK v \in {"drafted", "simulated", "sent"} :
        letters' = [letters EXCEPT ![l] = Over(n, v)]
  BY <1>2 DEF Drafts, Messages, Notifies
<1>4. /\ arrived' = [arrived EXCEPT ![l] = arrived[l]]
      /\ UNCHANGED <<entries, rowseq, auditRows, starts, rowFault>>
  BY SameCopies DEF Drafts, Messages, Notifies, OutboxInv
<1>5. v \in Verdicts  BY DEF Verdicts
<1>6. PICK d : d = Over(n, v)  OBVIOUS
<1>a. /\ d \in LetterRecords /\ d.stage = "over" /\ d.road = "local" /\ d.provider = "none"
      /\ d.attempts = 0 /\ d.sure = 0 /\ d.doubtful = 0
  BY <1>6, <1>2, <1>5, OverIs
<1>7. StageOK(d)  BY <1>6, <1>a DEF StageOK
<1>8. LetterSound(d, arrived[l])  BY <1>1, <1>6, <1>a, <1>7, UntriedIsSound
<1> QED  BY <1>1, <1>3, <1>4, <1>6, <1>a, <1>8, LetterOnly

(* A submission: what the client counts, and the copies the server took.   *)
Copies(a, people) == [p \in People |-> a[p] + IF p \in people THEN 1 ELSE 0]

LEMMA TriedIs ==
  ASSUME NEW d \in LetterRecords, NEW o
  PROVE  LET e == Tried(d, o) IN
         /\ e \in LetterRecords /\ e.stage = d.stage /\ e.verdict = d.verdict
         /\ e.road = d.road /\ e.provider = d.provider /\ e.agreed = d.agreed
         /\ e.to = d.to /\ e.attempts = d.attempts + 1
         /\ Accepted(o, d.to) => e.sure = d.sure + 1 /\ e.doubtful = d.doubtful
         /\ ~Accepted(o, d.to) =>
              /\ e.sure = d.sure
              /\ e.doubtful = d.doubtful + (IF o.took # {} THEN 1 ELSE 0)
<1>1. d.attempts \in Nat /\ d.sure \in Nat /\ d.doubtful \in Nat  BY DEF LetterRecords
<1>2. PICK n \in Nat : n = d.attempts + 1  BY <1>1
<1>3. PICK s \in Nat : s = d.sure + (IF Accepted(o, d.to) THEN 1 ELSE 0)  BY <1>1
<1>4. PICK u \in Nat :
        u = d.doubtful + (IF o.took # {} /\ ~Accepted(o, d.to) THEN 1 ELSE 0)
  BY <1>1
<1> DEFINE e == [d EXCEPT !.attempts = n, !.sure = s, !.doubtful = u]
<1>5. Tried(d, o) = e  BY <1>2, <1>3, <1>4 DEF Tried
<1>6. /\ e \in LetterRecords /\ e.stage = d.stage /\ e.verdict = d.verdict
      /\ e.road = d.road /\ e.provider = d.provider /\ e.agreed = d.agreed
      /\ e.to = d.to /\ e.attempts = n /\ e.sure = s /\ e.doubtful = u
  BY DEF LetterRecords
<1> HIDE DEF e
<1> QED  BY <1>1, <1>2, <1>3, <1>4, <1>5, <1>6

LEMMA TriedCounts ==
  ASSUME NEW d \in LetterRecords, NEW a \in [People -> Nat], Counts(d, a),
         d.sure = 0, d.agreed, d.attempts < MaxAttempts,
         NEW o, o.took \subseteq d.to, o.took # {} => d.provider = "smtp",
         NEW e \in LetterRecords, e.attempts = d.attempts + 1,
         e.provider = d.provider, e.to = d.to, e.agreed,
         Accepted(o, d.to) => e.sure = d.sure + 1 /\ e.doubtful = d.doubtful,
         ~Accepted(o, d.to) =>
           /\ e.sure = d.sure
           /\ e.doubtful = d.doubtful + (IF o.took # {} THEN 1 ELSE 0),
         NEW b, b = Copies(a, o.took)
  PROVE  /\ b \in [People -> Nat] /\ Counts(e, b)
         /\ Accepted(o, d.to) => \A p \in e.to : b[p] >= 1
         /\ o.took = {} => \A p \in People : b[p] = a[p]
<1>1. /\ d.attempts \in Nat /\ d.sure \in Nat /\ d.doubtful \in Nat /\ d.to \subseteq People
  BY DEF LetterRecords
<1>2. /\ b \in [People -> Nat]
      /\ \A p \in People : b[p] = IF p \in o.took THEN a[p] + 1 ELSE a[p]
  BY DEF Copies
<1>3. /\ e.attempts <= MaxAttempts /\ e.sure <= 1 /\ e.sure + e.doubtful <= e.attempts
      /\ d.sure + d.doubtful <= e.sure + e.doubtful
      /\ o.took # {} => e.sure + e.doubtful = d.sure + d.doubtful + 1
  <2>1. d.sure + d.doubtful <= d.attempts  BY DEF Counts
  <2>2. d.attempts + 1 <= MaxAttempts  BY <1>1, OutboxAssumption
  <2>3. CASE Accepted(o, d.to)  BY <1>1, <2>1, <2>2, <2>3
  <2>4. CASE ~Accepted(o, d.to)  BY <1>1, <2>1, <2>2, <2>4
  <2> QED  BY <2>3, <2>4
<1>4. e.sure \in Nat /\ e.doubtful \in Nat  BY DEF LetterRecords
<1>5. ASSUME NEW p \in People
      PROVE  /\ b[p] <= e.sure + e.doubtful
             /\ b[p] > 0 => p \in e.to /\ e.provider = "smtp"
  <2>1. /\ a[p] \in Nat /\ a[p] <= d.sure + d.doubtful
        /\ a[p] > 0 => p \in d.to /\ d.provider = "smtp"
    BY DEF Counts
  <2>2. CASE p \in o.took  BY <1>1, <1>2, <1>3, <1>4, <2>1, <2>2
  <2>3. CASE p \notin o.took  BY <1>1, <1>2, <1>3, <1>4, <2>1, <2>3
  <2> QED  BY <2>2, <2>3
<1>6. Counts(e, b)  BY <1>3, <1>5 DEF Counts
<1>7. Accepted(o, d.to) => \A p \in e.to : b[p] >= 1
  <2> SUFFICES ASSUME Accepted(o, d.to), NEW p \in e.to PROVE b[p] >= 1
    OBVIOUS
  <2>1. p \in o.took /\ p \in People  BY <1>1 DEF Accepted
  <2>2. a[p] \in Nat  BY <2>1
  <2> QED  BY <1>2, <2>1, <2>2
<1>8. o.took = {} => \A p \in People : b[p] = a[p]  BY <1>2
<1> QED  BY <1>2, <1>6, <1>7, <1>8

LEMMA TookIs ==
  ASSUME LettersOK, NEW l \in Letters, NEW people, Took(l, people)
  PROVE  arrived' = [arrived EXCEPT ![l] = Copies(arrived[l], people)]
BY DEF Took, Copies, LettersOK

(* What can come out of a submission.                                      *)
LEMMA OutcomeIs ==
  ASSUME NEW d \in LetterRecords,
         NEW o \in ServerOutcomes(d.to) \cup {NoSubmission}
  PROVE  o.took \subseteq d.to
BY DEF ServerOutcomes, NoSubmission

LEMMA AttemptKeeps ==
  ASSUME OutboxInv, NEW l \in Letters, Attempts(l)
  PROVE  OutboxInv'
<1>1. PICK d \in LetterRecords :
        d = letters[l] /\ LetterSound(d, arrived[l]) /\ d.stage = "sending" /\ d.road = "manager"
  BY LetterIs DEF OutboxInv, Attempts
<1>2. PICK o \in IF d.provider = "smtp" THEN SmtpOutcomes(d) ELSE {NoSubmission} :
        LET status == CASE d.provider = "smtp" -> SmtpStatus(d, o)
                        [] d.provider = "stub" -> StubStatus
                        [] OTHER -> DesktopStatus
            after == Tried(d, o)
        IN  /\ Took(l, o.took)
            /\ IF Resent(status) /\ MayTryAgain(d)
                 THEN /\ letters' = [letters EXCEPT ![l] = after]
                      /\ UNCHANGED <<entries, rowseq, auditRows, rowFault>>
                 ELSE /\ letters' = [letters EXCEPT ![l] = Over(after, status)]
                      /\ Records(l)
  BY <1>1 DEF Attempts
<1>3. o \in ServerOutcomes(d.to) \cup {NoSubmission}  BY <1>2 DEF SmtpOutcomes
<1>4. o.took # {} => d.provider = "smtp"  BY <1>2 DEF NoSubmission
<1>5. PICK status : status = CASE d.provider = "smtp" -> SmtpStatus(d, o)
                               [] d.provider = "stub" -> StubStatus
                               [] OTHER -> DesktopStatus
  OBVIOUS
<1>6. /\ d.provider = "smtp" => status = IF Accepted(o, d.to) THEN "sent" ELSE "failed"
      /\ d.provider = "stub" => status = "pending"
      /\ d.provider \notin {"smtp", "stub"} => status = "sent"
  BY <1>5 DEF SmtpStatus, StubStatus, DesktopStatus
<1>7. PICK e : e = Tried(d, o)  OBVIOUS
<1>8. /\ e \in LetterRecords /\ e.stage = d.stage /\ e.verdict = d.verdict
      /\ e.road = d.road /\ e.provider = d.provider /\ e.agreed = d.agreed
      /\ e.to = d.to /\ e.attempts = d.attempts + 1
      /\ Accepted(o, d.to) => e.sure = d.sure + 1 /\ e.doubtful = d.doubtful
      /\ ~Accepted(o, d.to) =>
           /\ e.sure = d.sure
           /\ e.doubtful = d.doubtful + (IF o.took # {} THEN 1 ELSE 0)
  BY <1>7, TriedIs
<1>9. PICK a \in [People -> Nat] : a = arrived[l]  BY LetterIs DEF OutboxInv, LetterSound
<1>10. PICK b : b = Copies(a, o.took)  OBVIOUS
<1>11. arrived' = [arrived EXCEPT ![l] = b] /\ starts' = starts
  BY <1>2, <1>9, <1>10, TookIs DEF OutboxInv, Attempts
<1>12. /\ Counts(d, a) /\ d.sure = 0 /\ d.attempts < MaxAttempts /\ d.verdict = "none"
  BY <1>1, <1>9 DEF LetterSound, StageOK
<1>13. d.agreed  BY <1>1 DEF LetterSound, StageOK
<1>14. e.agreed  BY <1>8, <1>13, Zenon
<1>15. /\ b \in [People -> Nat] /\ Counts(e, b)
       /\ Accepted(o, d.to) => \A p \in e.to : b[p] >= 1
       /\ o.took = {} => \A p \in People : b[p] = a[p]
  BY <1>3, <1>4, <1>8, <1>10, <1>12, <1>13, <1>14, OutcomeIs, TriedCounts
<1>16. l \notin Told  BY <1>1 DEF Told
<1>17. CASE Resent(status) /\ MayTryAgain(d)
  <2>1. letters' = [letters EXCEPT ![l] = e]
        /\ UNCHANGED <<entries, rowseq, auditRows, rowFault>>
    BY <1>2, <1>5, <1>7, <1>17
  <2>2. d.provider = "smtp" /\ ~Accepted(o, d.to)
    BY <1>6, <1>17 DEF Resent
  <2>3. e.sure = 0 /\ e.attempts < MaxAttempts
    BY <1>8, <1>12, <1>17, <2>2 DEF MayTryAgain
  <2>4. e.stage = "sending" /\ e.road = "manager" /\ e.verdict = "none"
    BY <1>1, <1>8, <1>12
  <2>5. StageOK(e)  BY <1>14, <2>3, <2>4 DEF StageOK
  <2>6. LetterSound(e, b)  BY <1>8, <1>15, <2>4, <2>5 DEF LetterSound, Truthful, Unsubmitted
  <2> QED  BY <1>11, <1>16, <2>1, <2>4, <2>6, LetterOnly
<1>18. CASE ~(Resent(status) /\ MayTryAgain(d))
  <2>1. PICK f : f = Over(e, status)  OBVIOUS
  <2>2. letters' = [letters EXCEPT ![l] = f] /\ Records(l)
    BY <1>2, <1>5, <1>7, <1>18, <2>1
  <2>3. status \in Verdicts /\ status \in {"sent", "failed", "pending"}
    BY <1>6 DEF Verdicts
  <2>4. /\ f \in LetterRecords /\ f.stage = "over" /\ f.verdict = status
        /\ f.road = e.road /\ f.provider = e.provider /\ f.agreed = e.agreed
        /\ f.to = e.to /\ f.attempts = e.attempts /\ f.sure = e.sure
        /\ f.doubtful = e.doubtful
    BY <1>8, <2>1, <2>3, OverIs
  <2>5. Counts(f, b)
    <3>1. f.agreed  BY <1>14, <2>4, Zenon
    <3> QED  BY <1>15, <2>4, <3>1 DEF Counts
  <2>6. f.road = "manager"  BY <1>1, <1>8, <2>4
  <2>7. StageOK(f)  BY <2>4, <2>6 DEF StageOK
  <2>8. Truthful(f, b)
    <3>1. f.verdict \in Unsubmitted => f.provider # "smtp"
      BY <1>6, <1>8, <2>4 DEF Unsubmitted
    <3>2. f.verdict \in Unsubmitted => \A p \in People : b[p] = 0
      BY <1>15, <2>5, <3>1 DEF Counts
    <3>3. f.verdict \in {"sent", "accepted"} /\ f.provider = "smtp" =>
            \A p \in f.to : b[p] >= 1
      BY <1>6, <1>8, <1>15, <2>4
    <3> QED  BY <2>4, <3>2, <3>3 DEF Truthful
  <2>9. LetterSound(f, b)  BY <1>15, <2>4, <2>5, <2>7, <2>8 DEF LetterSound
  <2> QED  BY <1>11, <1>16, <2>2, <2>4, <2>6, <2>9, LetterRecorded
<1> QED  BY <1>17, <1>18

LEMMA DeliveryKeeps ==
  ASSUME OutboxInv, NEW l \in Letters, Delivers(l)
  PROVE  OutboxInv'
<1>1. PICK d \in LetterRecords :
        /\ d = letters[l] /\ LetterSound(d, arrived[l]) /\ d.stage \in {"sending", "abandoned"}
        /\ d.road = "email" /\ d.attempts = 0
  BY LetterIs DEF OutboxInv, Delivers
<1>2. PICK o \in ServerOutcomes(d.to) :
        /\ Took(l, o.took)
        /\ letters' = [letters EXCEPT ![l] =
             IF d.stage = "abandoned" THEN Tried(d, o)
             ELSE Over(Tried(d, o),
                       IF Accepted(o, d.to) THEN "accepted" ELSE "unknown")]
  BY <1>1 DEF Delivers
<1>3. /\ Counts(d, arrived[l]) /\ StageOK(d)  BY <1>1 DEF LetterSound
<1>4. d.agreed  BY <1>1, <1>3 DEF StageOK
<1>5. /\ d.provider = "smtp" /\ d.sure = 0 /\ d.attempts < MaxAttempts
      /\ d.stage = "abandoned" => d.verdict = "failed"
  <2>1. d.sure \in Nat /\ d.doubtful \in Nat /\ d.sure + d.doubtful <= 0
    BY <1>1, <1>3 DEF LetterRecords, Counts
  <2> QED  BY <1>1, <1>3, <2>1, OutboxAssumption DEF StageOK
<1>6. PICK e : e = Tried(d, o)  OBVIOUS
<1>7. /\ e \in LetterRecords /\ e.stage = d.stage /\ e.verdict = d.verdict
      /\ e.road = d.road /\ e.provider = d.provider /\ e.agreed = d.agreed
      /\ e.to = d.to /\ e.attempts = d.attempts + 1
      /\ Accepted(o, d.to) => e.sure = d.sure + 1 /\ e.doubtful = d.doubtful
      /\ ~Accepted(o, d.to) =>
           /\ e.sure = d.sure
           /\ e.doubtful = d.doubtful + (IF o.took # {} THEN 1 ELSE 0)
  BY <1>6, TriedIs
<1>8. PICK a \in [People -> Nat] : a = arrived[l]  BY LetterIs DEF OutboxInv, LetterSound
<1>9. PICK b : b = Copies(a, o.took)  OBVIOUS
<1>10. arrived' = [arrived EXCEPT ![l] = b]
       /\ UNCHANGED <<entries, rowseq, auditRows, starts, rowFault>>
  BY <1>2, <1>8, <1>9, TookIs DEF OutboxInv, Delivers
<1>11. e.agreed  BY <1>4, <1>7, Zenon
<1>12. /\ b \in [People -> Nat] /\ Counts(e, b)
       /\ Accepted(o, d.to) => \A p \in e.to : b[p] >= 1
  <2>1. o.took \subseteq d.to  BY OutcomeIs
  <2> QED  BY <1>3, <1>4, <1>5, <1>7, <1>8, <1>9, <1>11, <2>1, TriedCounts
<1>13. /\ e.road = "email" /\ e.attempts = 1 /\ e.provider = "smtp"
       /\ l \notin Told
  BY <1>1, <1>5, <1>7 DEF Told
<1>14. CASE d.stage = "abandoned"
  <2>1. letters' = [letters EXCEPT ![l] = e]  BY <1>2, <1>6, <1>14
  <2>2. e.stage = "abandoned" /\ e.verdict = "failed"  BY <1>5, <1>7, <1>14
  <2>3. StageOK(e)  BY <1>11, <1>13, <2>2 DEF StageOK
  <2>4. LetterSound(e, b)  BY <1>7, <1>12, <2>2, <2>3 DEF LetterSound, Truthful, Unsubmitted
  <2> QED  BY <1>10, <1>13, <2>1, <2>4, LetterOnly
<1>15. CASE d.stage # "abandoned"
  <2>1. PICK v \in Verdicts : v = IF Accepted(o, d.to) THEN "accepted" ELSE "unknown"
    BY DEF Verdicts
  <2>2. PICK f : f = Over(e, v)  OBVIOUS
  <2>3. letters' = [letters EXCEPT ![l] = f]  BY <1>2, <1>6, <1>15, <2>1, <2>2
  <2>4. /\ f \in LetterRecords /\ f.stage = "over" /\ f.verdict = v
        /\ f.road = e.road /\ f.provider = e.provider /\ f.agreed = e.agreed
        /\ f.to = e.to /\ f.attempts = e.attempts /\ f.sure = e.sure
        /\ f.doubtful = e.doubtful
    BY <1>7, <2>2, OverIs
  <2>5. Counts(f, b)
    <3>1. f.agreed  BY <1>11, <2>4, Zenon
    <3> QED  BY <1>12, <2>4, <3>1 DEF Counts
  <2>6. f.road = "email" /\ f.attempts = 1  BY <1>13, <2>4
  <2>7. StageOK(f)  BY <2>4, <2>6 DEF StageOK
  <2>8. Truthful(f, b)  BY <1>12, <2>1, <2>4 DEF Truthful, Unsubmitted
  <2>9. LetterSound(f, b)  BY <1>12, <2>4, <2>5, <2>7, <2>8 DEF LetterSound
  <2> QED  BY <1>10, <1>13, <2>3, <2>6, <2>9, LetterOnly
<1> QED  BY <1>14, <1>15

LEMMA AbandonKeeps ==
  ASSUME OutboxInv, NEW l \in Letters, Abandons(l)
  PROVE  OutboxInv'
<1>1. PICK d \in LetterRecords :
        d = letters[l] /\ LetterSound(d, arrived[l]) /\ d.stage = "sending" /\ d.road = "email"
  BY LetterIs DEF OutboxInv, Abandons
<1>2. PICK s \in Stages : s = "abandoned"  BY DEF Stages
<1>3. PICK v \in Verdicts : v = "failed"  BY DEF Verdicts
<1>4. PICK e : e = [d EXCEPT !.stage = s, !.verdict = v]  OBVIOUS
<1>5. letters' = [letters EXCEPT ![l] = e]
  BY <1>1, <1>2, <1>3, <1>4 DEF Abandons, OutboxInv, LettersOK
<1>6. /\ e \in LetterRecords /\ e.stage = s /\ e.verdict = v
      /\ e.road = d.road /\ e.provider = d.provider /\ e.agreed = d.agreed
      /\ e.to = d.to /\ e.attempts = d.attempts /\ e.sure = d.sure
      /\ e.doubtful = d.doubtful
  BY <1>4 DEF LetterRecords
<1>7. d.agreed  BY <1>1 DEF LetterSound, StageOK
<1>8. e.agreed  BY <1>6, <1>7, Zenon
<1>9. /\ d.provider = "smtp" /\ d.attempts = 0
  BY <1>1 DEF LetterSound, StageOK
<1>10. StageOK(e)  BY <1>1, <1>2, <1>3, <1>6, <1>8, <1>9 DEF StageOK
<1>11. Counts(e, arrived[l])  BY <1>1, <1>6, <1>8 DEF LetterSound, Counts
<1>12. Truthful(e, arrived[l])  BY <1>3, <1>6 DEF Truthful, Unsubmitted
<1>13. LetterSound(e, arrived[l])  BY <1>1, <1>6, <1>10, <1>11, <1>12 DEF LetterSound
<1>14. /\ arrived' = [arrived EXCEPT ![l] = arrived[l]]
       /\ UNCHANGED <<entries, rowseq, auditRows, starts, rowFault>>
  BY SameCopies DEF Abandons, OutboxInv
<1>15. l \notin Told /\ e.road # "manager"  BY <1>1, <1>6 DEF Told
<1> QED  BY <1>5, <1>13, <1>14, <1>15, LetterOnly

-----------------------------------------------------------------------------
(* What a new process finds.                                               *)

LEMMA RestoredIs ==
  ASSUME HistoryOK
  PROVE  /\ Restored \in Seq([row : Nat, letter : Letters])
         /\ Len(Restored) <= MaxEntries
<1>1. PICK R : /\ R = DOMAIN auditRows /\ IsFiniteSet(R) /\ R \subseteq Nat
               /\ \A r \in R : auditRows[r] \in Letters
  BY DEF HistoryOK
<1>2. PICK all \in Nat : all = Cardinality(R)  BY <1>1, FS_CardinalityType
<1>3. \A n \in 1..all : \E x \in R : Cardinality({q \in R : q < x}) = n - 1
  <2>1. PICK s \in [R -> Int] : \A r \in R : s[r] = 0
    <3>1. [r \in R |-> 0] \in [R -> Int]  OBVIOUS
    <3> QED  BY <3>1
  <2>2. \A n \in 1..Cardinality(R) : \E x \in R : Cardinality(Ahead(R, s, x)) = n - 1
    BY <1>1, RankedAll
  <2>3. \A x \in R : Ahead(R, s, x) = {q \in R : q < x}  BY <1>1, <2>1 DEF Ahead
  <2> QED  BY <1>2, <2>2, <2>3
<1>4. \A n \in 1..all : RowAt(n) \in R
  <2> TAKE n \in 1..all
  <2>1. RowAt(n) = CHOOSE r \in R : Cardinality({q \in R : q < r}) = n - 1
    BY <1>1 DEF RowAt
  <2> QED  BY <1>3, <2>1
<1>5. PICK lost \in Nat : /\ lost = IF all > MaxEntries THEN all - MaxEntries ELSE 0
                          /\ lost <= all /\ all - lost <= MaxEntries
  BY <1>2, OutboxAssumption
<1>6. PICK m \in Nat : m = all - lost  BY <1>2, <1>5
<1>7. Restored = [i \in 1..m |-> [row |-> RowAt(lost + i),
                                  letter |-> auditRows[RowAt(lost + i)]]]
  BY <1>1, <1>2, <1>5, <1>6 DEF Restored
<1>8. \A i \in 1..m : lost + i \in 1..all  BY <1>2, <1>5, <1>6
<1>9. \A i \in 1..m : [row |-> RowAt(lost + i), letter |-> auditRows[RowAt(lost + i)]]
                        \in [row : Nat, letter : Letters]
  <2> TAKE i \in 1..m
  <2>1. PICK r : r = RowAt(lost + i) /\ r \in R  BY <1>4, <1>8
  <2>2. r \in Nat /\ auditRows[r] \in Letters  BY <1>1, <2>1
  <2> QED  BY <2>1, <2>2
<1>10. Restored \in [1..m -> [row : Nat, letter : Letters]]  BY <1>7, <1>9
<1>11. ASSUME NEW S, NEW f \in [1..m -> S] PROVE f \in Seq(S) /\ Len(f) = m
  OBVIOUS
<1>12. Restored \in Seq([row : Nat, letter : Letters]) /\ Len(Restored) = m
  <2>0. PICK S : S = [row : Nat, letter : Letters]  OBVIOUS
  <2>1. PICK f \in [1..m -> S] : f = Restored  BY <1>10, <2>0
  <2>2. f \in Seq(S) /\ Len(f) = m  BY <1>11
  <2> QED  BY <2>0, <2>1, <2>2
<1> QED  BY <1>5, <1>6, <1>12

LEMMA RestartKeeps ==
  ASSUME OutboxInv, Restarts
  PROVE  OutboxInv'
<1>1. \A l \in Letters :
        /\ letters'[l] = IF letters[l].stage \in {"sending", "abandoned"}
                           THEN Over(letters[l], "lost") ELSE letters[l]
        /\ arrived'[l] = arrived[l]
  BY DEF Restarts
<1>2. ASSUME NEW l \in Letters
      PROVE  letters'[l] \in LetterRecords /\ LetterSound(letters'[l], arrived'[l])
  <2>1. PICK d \in LetterRecords : d = letters[l] /\ LetterSound(d, arrived[l])
    BY LetterIs DEF OutboxInv
  <2>2. CASE d.stage \notin {"sending", "abandoned"}  BY <1>1, <2>1, <2>2
  <2>3. CASE d.stage \in {"sending", "abandoned"}
    <3>1. PICK v \in Verdicts : v = "lost"  BY DEF Verdicts
    <3>2. PICK e : e = Over(d, v)  OBVIOUS
    <3>3. letters'[l] = e  BY <1>1, <2>1, <2>3, <3>1, <3>2
    <3>4. /\ e \in LetterRecords /\ e.stage = "over" /\ e.verdict = v
          /\ e.road = d.road /\ e.provider = d.provider /\ e.agreed = d.agreed
          /\ e.to = d.to /\ e.attempts = d.attempts /\ e.sure = d.sure
          /\ e.doubtful = d.doubtful
      BY <3>2, OverIs
    <3>5. d.agreed  BY <2>1, <2>3 DEF LetterSound, StageOK
    <3>6. e.agreed  BY <3>4, <3>5, Zenon
    <3>7. Counts(e, arrived[l])  BY <2>1, <3>4, <3>6 DEF LetterSound, Counts
    <3>8. StageOK(e)  BY <2>1, <3>4 DEF LetterSound, StageOK
    <3>9. Truthful(e, arrived[l])  BY <3>1, <3>4 DEF Truthful, Unsubmitted
    <3>10. LetterSound(e, arrived[l])  BY <2>1, <3>4, <3>7, <3>8, <3>9 DEF LetterSound
    <3> QED  BY <1>1, <3>3, <3>4, <3>10
  <2> QED  BY <2>2, <2>3
<1>3. LettersOK'
  <2>1. letters' \in [Letters -> LetterRecords]
    <3>1. letters' = [l \in Letters |-> letters'[l]]  BY DEF Restarts
    <3> QED  BY <1>2, <3>1
  <2>2. arrived' \in [Letters -> [People -> Nat]]  BY DEF Restarts, OutboxInv, LettersOK
  <2> QED
    BY <1>2, <2>1, <2>2
       DEF LettersOK, LetterSound, Counts, StageOK, Truthful, NewLetter, LetterRecords
<1>4. IsFiniteSet(Told') /\ Cardinality(Told') \in Nat
  <2>1. Told' \subseteq Letters  BY DEF Told
  <2> QED  BY <2>1, OutboxAssumption, FS_Subset, FS_CardinalityType
<1>5. HistoryOK'
  <2>1. /\ entries' = Restored /\ rowseq' = 0 /\ starts' = starts + 1
        /\ UNCHANGED <<auditRows, rowFault>>
    BY DEF Restarts
  <2>2. starts' \in Nat /\ starts' # 0  BY <2>1 DEF OutboxInv, HistoryOK
  <2> QED  BY <1>4, <2>1, <2>2, RestoredIs DEF OutboxInv, HistoryOK
<1> QED  BY <1>3, <1>5 DEF OutboxInv

LEMMA ClearKeeps ==
  ASSUME OutboxInv, HistoryClears
  PROVE  OutboxInv'
<1>1. LettersOK' /\ Told' = Told
  BY DEF OutboxInv, HistoryClears, LettersOK, Told
<1>2. PICK cleared \in BOOLEAN :
        /\ auditRows' = IF cleared THEN <<>> ELSE auditRows
        /\ rowFault' = (rowFault \/ ~cleared)
  BY DEF HistoryClears
<1>3. entries' = <<>> /\ rowseq' = rowseq /\ starts' = starts
  BY DEF HistoryClears
<1>4. DOMAIN <<>> = {} /\ IsFiniteSet({})  BY FS_EmptySet
<1>5. /\ IsFiniteSet(DOMAIN auditRows')
      /\ \A r \in DOMAIN auditRows' : r \in Nat /\ auditRows'[r] \in Letters
  BY <1>2, <1>4 DEF OutboxInv, HistoryOK
<1>6. starts = 0 => FirstTrail'
  <2>1. rowFault' \/ DOMAIN auditRows' = {}  BY <1>2, <1>4
  <2>2. DOMAIN entries' = {}  BY <1>3, <1>4
  <2> QED  BY <1>1, <1>3, <2>1, <2>2 DEF OutboxInv, HistoryOK, FirstTrail
<1>7. rowFault' \in BOOLEAN  BY <1>2
<1>8. entries' \in Seq([row : Nat, letter : Letters]) /\ Len(entries') <= MaxEntries
  BY <1>3, OutboxAssumption
<1> QED  BY <1>1, <1>3, <1>5, <1>6, <1>7, <1>8 DEF OutboxInv, HistoryOK

LEMMA OutboxStep ==
  ASSUME OutboxInv, [OutboxNext]_outboxVars
  PROVE  OutboxInv'
<1>1. CASE Restarts  BY <1>1, RestartKeeps
<1>2. CASE HistoryClears  BY <1>2, ClearKeeps
<1>3. ASSUME NEW l \in Letters,
             \/ ManagerSends(l) \/ Attempts(l) \/ EmailSends(l) \/ Delivers(l)
             \/ Abandons(l) \/ Drafts(l) \/ Messages(l) \/ Notifies(l)
      PROVE  OutboxInv'
  BY <1>3, ManagerKeeps, AttemptKeeps, EmailKeeps, DeliveryKeeps, AbandonKeeps, LocalKeeps
<1>4. CASE UNCHANGED outboxVars
  <2>1. LettersOK' /\ Told' = Told
    BY <1>4 DEF OutboxInv, outboxVars, LettersOK, Told
  <2> QED  BY <1>4, <2>1, HistoryStays DEF OutboxInv, outboxVars
<1> QED  BY <1>1, <1>2, <1>3, <1>4 DEF OutboxNext

(* However letters are sent, attempted, abandoned and lost in a restart,   *)
(* and whatever the database refuses, the letters and the history satisfy  *)
(* OutboxInv.                                                              *)
THEOREM OutboxInvariance == OutboxInit /\ [][OutboxNext]_outboxVars => []OutboxInv
<1>1. OutboxInit => OutboxInv
  <2> SUFFICES ASSUME OutboxInit PROVE OutboxInv
    OBVIOUS
  <2>1. PICK d \in LetterRecords :
          /\ d = NewLetter /\ d.attempts = 0 /\ d.sure = 0 /\ d.doubtful = 0
          /\ d.verdict = "none" /\ d.stage = "new" /\ d.road = "none"
    BY NewLetterIs DEF NewLetter
  <2>2. PICK a \in [People -> Nat] : a = [p \in People |-> 0] /\ \A p \in People : a[p] = 0
    <3>1. [p \in People |-> 0] \in [People -> Nat]  OBVIOUS
    <3> QED  BY <3>1
  <2>3. StageOK(d)  BY <2>1 DEF StageOK
  <2>4. LetterSound(d, a)  BY <2>1, <2>2, <2>3, UntriedIsSound DEF Unsubmitted
  <2>5. letters = [l \in Letters |-> d] /\ arrived = [l \in Letters |-> a]
    BY <2>1, <2>2 DEF OutboxInit
  <2>6. LettersOK  BY <2>4, <2>5 DEF LettersOK
  <2>7. Told = {}  BY <2>1, <2>5 DEF Told
  <2>8. Cardinality(Told) = 0  BY <2>7, FS_EmptySet
  <2>9. DOMAIN <<>> = {} /\ IsFiniteSet({})  BY FS_EmptySet
  <2>10. /\ DOMAIN entries = {} /\ DOMAIN auditRows = {} /\ rowseq = 0 /\ starts = 0
    BY <2>9 DEF OutboxInit
  <2>11. FirstTrail  BY <2>8, <2>10 DEF FirstTrail
  <2>12. entries \in Seq([row : Nat, letter : Letters]) /\ Len(entries) <= MaxEntries
    BY OutboxAssumption DEF OutboxInit
  <2>13. rowFault \in BOOLEAN  BY DEF OutboxInit
  <2> QED
    BY <2>6, <2>8, <2>9, <2>10, <2>11, <2>12, <2>13 DEF OutboxInv, HistoryOK
<1> QED  BY <1>1, OutboxStep, PTL

(* OutboxSafe, for any finite set of letters, any people, number of        *)
(* attempts and bound of the history: what was refused, drafted or only    *)
(* simulated never arrives, what arrives was agreed to and addressed, an   *)
(* accepted letter reaches everybody, every further copy belongs to an     *)
(* attempt with an unknown outcome, and the history of the manager tells   *)
(* each of its outcomes once.                                              *)
THEOREM OutboxIsSafe == OutboxInit /\ [][OutboxNext]_outboxVars => []OutboxSafe
<1>1. OutboxInv => OutboxSafe
  <2> SUFFICES ASSUME OutboxInv PROVE OutboxSafe
    OBVIOUS
  <2>1. ASSUME NEW l \in Letters
        PROVE  /\ letters[l].stage \in Stages /\ letters[l].verdict \in Verdicts
               /\ letters[l].to \subseteq People /\ letters[l].attempts \in 0..MaxAttempts
               /\ letters[l].sure <= 1
               /\ \A p \in People :
                    /\ arrived[l][p] \in 0..MaxAttempts
                    /\ arrived[l][p] <= letters[l].doubtful + letters[l].sure
                    /\ letters[l].road = "email" => arrived[l][p] <= 1
    <3>1. PICK d \in LetterRecords, a \in [People -> Nat] :
            d = letters[l] /\ a = arrived[l] /\ LetterSound(d, a)
      BY LetterIs DEF OutboxInv, LetterSound
    <3>2. /\ d.attempts \in Nat /\ d.sure \in Nat /\ d.doubtful \in Nat
          /\ d.stage \in Stages /\ d.verdict \in Verdicts /\ d.to \subseteq People
      BY DEF LetterRecords
    <3>3. /\ d.attempts <= MaxAttempts /\ d.sure <= 1 /\ d.sure + d.doubtful <= d.attempts
          /\ \A p \in People : a[p] <= d.sure + d.doubtful
          /\ d.road = "email" => d.attempts <= 1
      BY <3>1 DEF LetterSound, Counts, StageOK
    <3>4. \A p \in People : /\ a[p] \in Nat /\ a[p] <= d.attempts
                            /\ a[p] <= d.doubtful + d.sure
      BY <3>2, <3>3
    <3> QED  BY <3>1, <3>2, <3>3, <3>4, OutboxAssumption
  <2>2. OutboxTypeOK
    <3>1. arrived \in [Letters -> [People -> 0..MaxAttempts]]
      BY <2>1 DEF OutboxInv, LettersOK
    <3>2. /\ \A i \in DOMAIN entries : entries[i].letter \in Letters
          /\ Len(entries) <= MaxEntries
      <4>0. PICK S : S = [row : Nat, letter : Letters]  OBVIOUS
      <4>1. PICK q \in Seq(S) : q = entries  BY <4>0 DEF OutboxInv, HistoryOK
      <4>2. \A i \in DOMAIN q : q[i] \in S  OBVIOUS
      <4>3. \A x \in S : x.letter \in Letters  BY <4>0
      <4> QED  BY <4>1, <4>2, <4>3 DEF OutboxInv, HistoryOK
    <3>3. rowseq \in 0..Cardinality(Letters)
      <4>1. Told \subseteq Letters  BY DEF Told
      <4>2. /\ Cardinality(Told) <= Cardinality(Letters) /\ Cardinality(Letters) \in Nat
            /\ Cardinality(Told) \in Nat
        BY <4>1, OutboxAssumption, FS_Subset, FS_CardinalityType
      <4> QED  BY <4>2 DEF OutboxInv, HistoryOK
    <3> QED  BY <2>1, <3>1, <3>2, <3>3 DEF OutboxTypeOK
  <2>3. UnsubmittedNeverArrives
    BY LetterIs DEF OutboxInv, LetterSound, Truthful, Unsubmitted, UnsubmittedNeverArrives
  <2>4. OnlyAgreedArrives
    BY LetterIs DEF OutboxInv, LetterSound, Counts, OnlyAgreedArrives
  <2>5. AcceptedReachesAll
    BY LetterIs DEF OutboxInv, LetterSound, Truthful, AcceptedReachesAll
  <2>6. CopiesAreExcused  BY <2>1 DEF CopiesAreExcused
  <2>7. TrailIsComplete
    BY DEF OutboxInv, HistoryOK, FirstTrail, Told, TrailIsComplete
  <2> QED  BY <2>2, <2>3, <2>4, <2>5, <2>6, <2>7 DEF OutboxSafe
<1> QED  BY <1>1, OutboxInvariance, PTL

-----------------------------------------------------------------------------
(* The memories: who may see what, and what is where.                        *)

Recents(S) ==
  {q \in Seq(S) : /\ Len(q) <= MaxRecent
                  /\ \A m, n \in 1..Len(q) : q[m] = q[n] => m = n}

Abouts ==
  [owner : {c.who : c \in Readers} \cup {NoId}, scope : Scopes, type : Types,
   session : {c.session : c \in Readers} \cup {NoId},
   workspace : {c.workspace : c \in Readers} \cup {NoId}]

(* A memory is of the one who wrote it, in the process and on disk, and names *)
(* a session or a workspace only where its scope is one.                      *)
Owned(i) ==
  /\ about[i].scope # "session" => about[i].session = NoId
  /\ about[i].scope # "workspace" => about[i].workspace = NoId
  /\ text[i] \in Readers /\ text[i].who = about[i].owner
  /\ row[i] # NoId => row[i].who = about[i].owner

(* A cached retrieval holds what anybody who finds it by its key may see.     *)
Retrievals ==
  {e \in [key : {CacheKey(c, q) : c \in Readers, q \in Queries}, items : SUBSET (1..count)] :
     \A i \in e.items : /\ about[i].owner = e.key[1]
                        /\ about[i].session \in {NoId, e.key[2]}
                        /\ about[i].workspace \in {NoId, e.key[3]}}

MemoryInv ==
  /\ count \in 0..MaxMemories /\ about \in [Memories -> Abouts]
  /\ text \in [Memories -> Readers \cup {NoId}] /\ row \in [Memories -> Readers \cup {NoId}]
  /\ \A i \in 1..count : Owned(i)
  /\ \A i \in Memories : row[i] # NoId => i \in 1..count
  /\ live \cup gone \subseteq 1..count
  /\ DeletedStaysDeleted /\ LiveIsPersisted /\ RecentIsLive
  /\ recent \in Recents(1..count) /\ blank \subseteq RecentKeys
  /\ found \in Seq(Retrievals) /\ Len(found) <= MaxRetrievals
  /\ ServedInScope

-----------------------------------------------------------------------------
(* The bounded caches.                                                       *)

LEMMA SeqIs ==
  ASSUME NEW S, NEW q \in Seq(S)
  PROVE  /\ Len(q) \in Nat /\ DOMAIN q = 1..Len(q) /\ \A n \in 1..Len(q) : q[n] \in S
         /\ Keys(q) \subseteq S /\ q \in Seq(Keys(q))
<1>1. Len(q) \in Nat /\ DOMAIN q = 1..Len(q) /\ \A n \in 1..Len(q) : q[n] \in S
  OBVIOUS
<1>2. Keys(q) \subseteq S  BY <1>1 DEF Keys
<1>3. \A n \in 1..Len(q) : q[n] \in Keys(q)  BY <1>1 DEF Keys
<1>4. q \in Seq(Keys(q))
  <2>1. PICK T : T = Keys(q)  OBVIOUS
  <2>2. q \in [1..Len(q) -> T]  BY <1>1, <1>3, <2>1
  <2>3. q \in Seq(T)  BY <1>1, <2>2
  <2> QED  BY <2>1, <2>3
<1> QED  BY <1>1, <1>2, <1>4

LEMMA SeqWider ==
  ASSUME NEW S, NEW T, S \subseteq T, NEW q \in Seq(S)
  PROVE  q \in Seq(T)
<1>1. Len(q) \in Nat /\ q \in [1..Len(q) -> T]  OBVIOUS
<1> QED  BY <1>1

LEMMA BoundedIs ==
  ASSUME NEW S, NEW p \in Seq(S), NEW max \in Nat \ {0}, Len(p) <= max + 1
  PROVE  /\ Bounded(p, max) \in Seq(S) /\ Len(Bounded(p, max)) <= max
         /\ \E d \in {0, 1} : \A n \in 1..Len(Bounded(p, max)) :
              Bounded(p, max)[n] = p[n + d] /\ n + d \in 1..Len(p)
<1>1. Len(p) \in Nat  OBVIOUS
<1>2. CASE Len(p) > max
  <2>1. Tail(p) \in Seq(S) /\ Len(Tail(p)) = Len(p) - 1
        /\ \A n \in 1..Len(Tail(p)) : Tail(p)[n] = p[n + 1]
    BY <1>2
  <2>2. \A n \in 1..Len(Tail(p)) : n + 1 \in 1..Len(p)  BY <1>1, <2>1
  <2>3. Bounded(p, max) = Tail(p)  BY <1>2 DEF Bounded
  <2>4. Len(Tail(p)) <= max  BY <1>1, <2>1
  <2> QED  BY <2>1, <2>2, <2>3, <2>4
<1>3. CASE ~(Len(p) > max)
  <2>1. \A n \in 1..Len(p) : p[n] = p[n + 0] /\ n + 0 \in 1..Len(p)  OBVIOUS
  <2>2. Len(p) <= max  BY <1>1, <1>3
  <2>3. Bounded(p, max) = p  BY <1>3 DEF Bounded
  <2> QED  BY <2>1, <2>2, <2>3
<1> QED  BY <1>2, <1>3

LEMMA RememberedIs ==
  ASSUME NEW S, NEW q \in Recents(S), NEW i \in S
  PROVE  Remembered(q, i) \in Recents(S)
<1>1. q \in Seq(S) /\ Len(q) <= MaxRecent /\ MaxRecent \in Nat \ {0}
      /\ \A m, n \in 1..Len(q) : q[m] = q[n] => m = n
  BY MemoryAssumption DEF Recents
<1>2. CASE i \in Keys(q)  BY <1>2 DEF Remembered
<1>3. CASE i \notin Keys(q)
  <2>1. PICK p : p = Append(q, i)  OBVIOUS
  <2>2. Len(q) \in Nat /\ Len(p) = Len(q) + 1 /\ p[Len(p)] = i
        /\ \A n \in 1..Len(q) : p[n] = q[n]
    BY <1>1, <2>1
  <2>3. \A n \in 1..Len(q) : q[n] # i  BY <1>1, <1>3, SeqIs DEF Keys
  <2>4. \A m, n \in 1..Len(p) : p[m] = p[n] => m = n
    <3>1. SUFFICES ASSUME NEW m \in 1..Len(p), NEW n \in 1..Len(p), p[m] = p[n], m < n
                   PROVE  FALSE
      BY <2>2
    <3>2. m \in 1..Len(q)  BY <2>2, <3>1
    <3>3. CASE n = Len(p)  BY <2>2, <2>3, <3>1, <3>2, <3>3
    <3>4. CASE n # Len(p)
      <4>1. n \in 1..Len(q)  BY <2>2, <3>1, <3>4
      <4> QED  BY <1>1, <2>2, <3>1, <3>2, <4>1
    <3> QED  BY <3>3, <3>4
  <2>5. PICK r : r = Bounded(p, MaxRecent)  OBVIOUS
  <2>6. /\ r \in Seq(S) /\ Len(r) <= MaxRecent
        /\ \E d \in {0, 1} : \A n \in 1..Len(r) : r[n] = p[n + d] /\ n + d \in 1..Len(p)
    <3>1. Append(q, i) \in Seq(S)  BY <1>1
    <3>2. p \in Seq(S) /\ Len(p) <= MaxRecent + 1  BY <1>1, <2>1, <2>2, <3>1
    <3> QED  BY <1>1, <2>5, <3>2, BoundedIs
  <2>7. PICK d \in {0, 1} : \A n \in 1..Len(r) : r[n] = p[n + d] /\ n + d \in 1..Len(p)
    BY <2>6
  <2>8. ASSUME NEW m \in 1..Len(r), NEW n \in 1..Len(r), r[m] = r[n] PROVE m = n
    <3>1. m + d = n + d  BY <2>4, <2>7, <2>8
    <3>2. Len(r) \in Nat  BY <2>6
    <3> QED  BY <3>1, <3>2
  <2>9. r \in Recents(S)  BY <2>6, <2>8 DEF Recents
  <2> QED  BY <1>3, <2>1, <2>5, <2>9 DEF Remembered
<1> QED  BY <1>2, <1>3

LEMMA LeastOf ==
  ASSUME NEW S \in SUBSET Nat, S # {}
  PROVE  \E n \in S : \A m \in S : n <= m
<1>1. IsWellFoundedOn(OpToRel(<, Nat), Nat)  BY NatLessThanWellFounded
<1>2. PICK n \in S : \A m \in S : <<m, n>> \notin OpToRel(<, Nat)
  BY <1>1, WFMin
<1>3. \A m \in S : ~(m < n)  BY <1>2 DEF OpToRel
<1> QED  BY <1>3

(* Remembering one after the other: the recursion has a value at every       *)
(* step, by the first place where it would not.                              *)
LEMMA WithRecentKept ==
  ASSUME NEW S, NEW q \in Recents(S), NEW ids \in Seq(S)
  PROVE  WithRecent(q, ids) \in Recents(S)
<1>1. PICK N \in Nat : N = Len(ids) /\ \A n \in 1..N : ids[n] \in S  OBVIOUS
<1> DEFINE Good(n) == \E g \in [0..n -> Recents(S)] :
                        /\ g[0] = q
                        /\ \A m \in 1..n : g[m] = Remembered(g[m - 1], ids[m])
<1>2. ASSUME NEW n \in 0..N, ~Good(n) PROVE FALSE
  <2> DEFINE Bad == {m \in 0..N : ~Good(m)}
  <2>1. PICK b \in Bad : \A m \in Bad : b <= m
    <3>1. n \in Bad /\ Bad \in SUBSET Nat  BY <1>1, <1>2
    <3> HIDE DEF Bad
    <3> QED  BY <3>1, LeastOf
  <2>2. b \in 0..N /\ ~Good(b)  BY <2>1
  <2>3. CASE b = 0
    <3>1. [m \in 0..0 |-> q] \in [0..0 -> Recents(S)]  OBVIOUS
    <3>2. 1..0 = {}  OBVIOUS
    <3>3. [m \in 0..0 |-> q][0] = q  OBVIOUS
    <3>4. Good(0)  BY <3>1, <3>2, <3>3
    <3> QED  BY <2>2, <2>3, <3>4
  <2>4. CASE b # 0
    <3>1. b - 1 \in 0..N /\ b - 1 < b /\ b \in 1..N  BY <1>1, <2>2, <2>4
    <3>2. b - 1 \notin Bad
      <4>1. ~(b <= b - 1)  BY <1>1, <2>2
      <4> HIDE DEF Bad
      <4> QED  BY <2>1, <4>1
    <3>3. Good(b - 1)  BY <3>1, <3>2
    <3>4. PICK g \in [0..(b - 1) -> Recents(S)] :
            /\ g[0] = q
            /\ \A m \in 1..(b - 1) : g[m] = Remembered(g[m - 1], ids[m])
      BY <3>3
    <3>5. PICK v \in Recents(S) : v = Remembered(g[b - 1], ids[b])
      <4>1. g[b - 1] \in Recents(S) /\ ids[b] \in S  BY <1>1, <3>1, <3>4
      <4> QED  BY <4>1, RememberedIs
    <3>6. PICK h : h = [m \in 0..b |-> IF m = b THEN v ELSE g[m]]  OBVIOUS
    <3>7. h \in [0..b -> Recents(S)] /\ h[0] = q
      BY <2>2, <3>1, <3>4, <3>5, <3>6
    <3>8. ASSUME NEW m \in 1..b PROVE h[m] = Remembered(h[m - 1], ids[m])
      <4>1. m \in 0..b /\ m - 1 \in 0..b /\ m - 1 # b /\ m - 1 \in 0..(b - 1)  BY <3>1, <3>8
      <4>2. h[m - 1] = g[m - 1]  BY <3>6, <4>1
      <4>3. CASE m = b  BY <3>5, <3>6, <4>1, <4>2, <4>3
      <4>4. CASE m # b
        <5>1. m \in 1..(b - 1)  BY <3>1, <3>8, <4>4
        <5>2. h[m] = g[m]  BY <3>6, <4>1, <4>4
        <5> QED  BY <3>4, <4>2, <5>1, <5>2
      <4> QED  BY <4>3, <4>4
    <3>9. Good(b)  BY <3>7, <3>8
    <3> QED  BY <2>2, <3>9
  <2> QED  BY <2>3, <2>4
<1>3. Good(N)  BY <1>1, <1>2
<1>4. PICK g \in [0..N -> Recents(S)] :
        g[0] = q /\ \A m \in 1..N : g[m] = Remembered(g[m - 1], ids[m])
  BY <1>3
<1> HIDE DEF Good
<1>5. g = [n \in 0..N |-> IF n = 0 THEN q ELSE Remembered(g[n - 1], ids[n])]
  <2>1. ASSUME NEW n \in 0..N
        PROVE  g[n] = IF n = 0 THEN q ELSE Remembered(g[n - 1], ids[n])
    <3>1. n = 0 \/ n \in 1..N  BY <1>1, <2>1
    <3> QED  BY <1>4, <3>1
  <2> QED  BY <1>4, <2>1
<1>6. \E u : /\ u = [n \in 0..Len(ids) |->
                        IF n = 0 THEN q ELSE Remembered(u[n - 1], ids[n])]
             /\ WithRecent(q, ids) = u[Len(ids)]
  <2>1. \E u : u = [n \in 0..Len(ids) |->
                      IF n = 0 THEN q ELSE Remembered(u[n - 1], ids[n])]
    BY <1>1, <1>5
  <2> QED  BY <2>1, Zenon DEF WithRecent
<1>7. PICK u : /\ u = [n \in 0..N |-> IF n = 0 THEN q ELSE Remembered(u[n - 1], ids[n])]
               /\ WithRecent(q, ids) = u[N]
  BY <1>1, <1>6
<1>8. /\ u[0] = q
      /\ \A n \in 1..N : u[n] = Remembered(u[n - 1], ids[n])
  <2>1. \A n \in 0..N : u[n] = IF n = 0 THEN q ELSE Remembered(u[n - 1], ids[n])
    BY <1>7, Zenon
  <2>2. 0 \in 0..N  BY <1>1
  <2>3. \A n \in 1..N : n \in 0..N /\ n # 0  BY <1>1
  <2> QED  BY <2>1, <2>2, <2>3
<1>9. \A n \in 0..N : u[n] \in Recents(S)
  <2> DEFINE Bad == {m \in 0..N : u[m] \notin Recents(S)}
  <2>1. SUFFICES ASSUME Bad # {} PROVE FALSE  OBVIOUS
  <2>2. PICK b \in Bad : \A m \in Bad : b <= m
    <3>1. Bad \in SUBSET Nat  BY <1>1
    <3> HIDE DEF Bad
    <3> QED  BY <2>1, <3>1, LeastOf
  <2>3. b \in 0..N /\ u[b] \notin Recents(S)  BY <2>2
  <2>4. b # 0  BY <1>8, <2>3
  <2>5. b - 1 \in 0..N /\ b - 1 < b /\ b \in 1..N  BY <1>1, <2>3, <2>4
  <2>6. u[b - 1] \in Recents(S)  BY <2>2, <2>5
  <2>7. Remembered(u[b - 1], ids[b]) \in Recents(S)  BY <1>1, <2>5, <2>6, RememberedIs
  <2> QED  BY <1>8, <2>3, <2>5, <2>7
<1>10. N \in 0..N  BY <1>1
<1> QED  BY <1>7, <1>9, <1>10

LEMMA WithRecentIs ==
  ASSUME NEW S, NEW q \in Recents(S), NEW ids \in Seq(S)
  PROVE  /\ WithRecent(q, ids) \in Recents(S)
         /\ Keys(WithRecent(q, ids)) \subseteq Keys(q) \cup Keys(ids)
<1>1. WithRecent(q, ids) \in Recents(S)  BY WithRecentKept
<1>2. PICK T : T = Keys(q) \cup Keys(ids)  OBVIOUS
<1>3. q \in Seq(T) /\ ids \in Seq(T)
  <2>1. q \in Seq(S)  BY DEF Recents
  <2>2. q \in Seq(Keys(q)) /\ ids \in Seq(Keys(ids))  BY <2>1, SeqIs
  <2>3. Keys(q) \subseteq T /\ Keys(ids) \subseteq T  BY <1>2
  <2> QED  BY <2>2, <2>3, SeqWider
<1>4. q \in Recents(T)  BY <1>3 DEF Recents
<1>5. WithRecent(q, ids) \in Recents(T)  BY <1>3, <1>4, WithRecentKept
<1>6. WithRecent(q, ids) \in Seq(T)  BY <1>5 DEF Recents
<1>7. Keys(WithRecent(q, ids)) \subseteq T  BY <1>6, SeqIs
<1> QED  BY <1>1, <1>2, <1>7

LEMMA NewestFirstIs ==
  ASSUME NEW S \in SUBSET Nat, IsFiniteSet(S)
  PROVE  NewestFirst(S) \in Seq(S) /\ Keys(NewestFirst(S)) \subseteq S
<1>1. PICK c \in Nat : c = Cardinality(S)  BY FS_CardinalityType
<1>2. PICK s \in [S -> Int] : \A i \in S : s[i] = i
  <2>1. [i \in S |-> i] \in [S -> Int]  OBVIOUS
  <2> QED  BY <2>1
<1>3. ASSUME NEW n \in 1..c
      PROVE  \E i \in S : Cardinality({j \in S : j > i}) = n - 1
  <2>1. PICK i \in S : Cardinality(Ahead(S, s, i)) = n - 1
    BY <1>1, <1>2, <1>3, RankedAll
  <2>2. Ahead(S, s, i) = {j \in S : j > i}
    <3>1. \A j \in S : s[j] = j /\ s[i] = i /\ j \in Nat /\ i \in Nat  BY <1>2
    <3>2. \A j \in S : (s[j] > s[i] \/ (s[j] = s[i] /\ j < i)) <=> j > i  BY <3>1
    <3> QED  BY <3>2 DEF Ahead
  <2> QED  BY <2>1, <2>2
<1>4. \A n \in 1..c : (CHOOSE i \in S : Cardinality({j \in S : j > i}) = n - 1) \in S
  BY <1>3
<1>5. NewestFirst(S) \in [1..c -> S]  BY <1>1, <1>4 DEF NewestFirst
<1>6. NewestFirst(S) \in Seq(S)
  <2>1. PICK r \in [1..c -> S] : r = NewestFirst(S)  BY <1>5
  <2>2. r \in Seq(S)  OBVIOUS
  <2> QED  BY <2>1, <2>2
<1> QED  BY <1>6, SeqIs

LEMMA NewestIs ==
  ASSUME NEW S, NEW q \in Seq(S), NEW n \in Nat
  PROVE  Newest(q, n) \in Seq(S) /\ Keys(Newest(q, n)) \subseteq Keys(q)
<1>1. PICK m \in 0..Len(q) : m = IF Len(q) < n THEN Len(q) ELSE n
  <2>1. Len(q) \in Nat  OBVIOUS
  <2> QED  BY <2>1
<1>2. PICK r : r = SubSeq(q, 1, m)  OBVIOUS
<1>3. r \in Seq(S) /\ Len(r) = m /\ \A k \in 1..m : r[k] = q[k]
  BY <1>1, <1>2
<1>4. \A k \in 1..Len(r) : k \in 1..Len(q)  BY <1>1, <1>3
<1>5. DOMAIN r = 1..Len(r) /\ DOMAIN q = 1..Len(q)  BY <1>3
<1>6. Keys(r) \subseteq Keys(q)  BY <1>3, <1>4, <1>5 DEF Keys
<1> QED  BY <1>1, <1>2, <1>3, <1>6 DEF Newest

LEMMA SmallSets ==
  ASSUME NEW n \in Nat, NEW T \in SUBSET (1..n)
  PROVE  IsFiniteSet(T) /\ T \in SUBSET Nat
<1>1. IsFiniteSet(1..n)  BY FS_Interval
<1>2. IsFiniteSet(T)  BY <1>1, FS_Subset
<1>3. T \in SUBSET Nat  OBVIOUS
<1> QED  BY <1>2, <1>3

LEMMA RememberedAll ==
  ASSUME NEW n \in Nat, NEW q \in Recents(1..n), NEW T \in SUBSET (1..n)
  PROVE  /\ NewestFirst(T) \in Seq(1..n) /\ Keys(NewestFirst(T)) \subseteq T
         /\ WithRecent(q, NewestFirst(T)) \in Recents(1..n)
         /\ Keys(WithRecent(q, NewestFirst(T))) \subseteq Keys(q) \cup T
<1>1. PICK r : r = NewestFirst(T)  OBVIOUS
<1>2. r \in Seq(T) /\ Keys(r) \subseteq T  BY <1>1, SmallSets, NewestFirstIs
<1>3. r \in Seq(1..n)  BY <1>2, SeqWider
<1>4. /\ WithRecent(q, r) \in Recents(1..n)
      /\ Keys(WithRecent(q, r)) \subseteq Keys(q) \cup Keys(r)
  BY <1>3, WithRecentIs
<1> QED  BY <1>1, <1>2, <1>3, <1>4

LEMMA RememberedOne ==
  ASSUME NEW S, NEW q \in Recents(S), NEW i \in S
  PROVE  /\ WithRecent(q, <<i>>) \in Recents(S)
         /\ Keys(WithRecent(q, <<i>>)) \subseteq Keys(q) \cup {i}
<1>1. PICK r : r = <<i>>  OBVIOUS
<1>2. r \in Seq(S) /\ DOMAIN r = 1..1 /\ r[1] = i  BY <1>1
<1>3. Keys(r) \subseteq {i}  BY <1>2 DEF Keys
<1>4. /\ WithRecent(q, r) \in Recents(S)
      /\ Keys(WithRecent(q, r)) \subseteq Keys(q) \cup Keys(r)
  BY <1>2, WithRecentIs
<1> QED  BY <1>1, <1>3, <1>4

LEMMA KeptWider ==
  ASSUME NEW S, NEW T, S \subseteq T, NEW q \in Recents(S)
  PROVE  q \in Recents(T) /\ Keys(q) \subseteq S
<1>1. q \in Seq(S)  BY DEF Recents
<1>2. q \in Seq(T) /\ Keys(q) \subseteq S  BY <1>1, SeqWider, SeqIs
<1> QED  BY <1>2 DEF Recents

LEMMA KeptKeys ==
  ASSUME NEW S, NEW q \in Recents(S)
  PROVE  Keys(q) \subseteq S
BY SeqIs DEF Recents

-----------------------------------------------------------------------------
(* What each operation keeps.                                                *)

(* The parts of the invariant: the memories, their cache and the answers.    *)
MemoriesOK ==
  /\ count \in 0..MaxMemories /\ about \in [Memories -> Abouts]
  /\ text \in [Memories -> Readers \cup {NoId}] /\ row \in [Memories -> Readers \cup {NoId}]
  /\ \A i \in 1..count : Owned(i)
  /\ \A i \in Memories : row[i] # NoId => i \in 1..count
  /\ live \cup gone \subseteq 1..count
  /\ DeletedStaysDeleted /\ LiveIsPersisted
RecentOK ==
  /\ RecentIsLive /\ recent \in Recents(1..count) /\ blank \subseteq RecentKeys
FoundOK == found \in Seq(Retrievals) /\ Len(found) <= MaxRetrievals

LEMMA MemoryParts ==
  /\ MemoryInv <=> MemoriesOK /\ RecentOK /\ FoundOK /\ ServedInScope
  /\ MemoryInv' <=> MemoriesOK' /\ RecentOK' /\ FoundOK' /\ ServedInScope'
BY DEF MemoryInv, MemoriesOK, RecentOK, FoundOK

LEMMA Nothing ==
  /\ found' = <<>> => FoundOK'
  /\ answer' = Silence => ServedInScope'
  /\ UNCHANGED <<count, about, found>> /\ FoundOK => FoundOK'
  /\ UNCHANGED <<count, live, row, recent, blank>> /\ RecentOK => RecentOK'
  /\ UNCHANGED <<count, about, text, row, live, gone>> /\ MemoriesOK => MemoriesOK'
<1>1. found' = <<>> => FoundOK'
  <2>1. \A S : <<>> \in Seq(S) /\ Len(<<>>) = 0  OBVIOUS
  <2> QED  BY <2>1, MemoryAssumption DEF FoundOK
<1>2. answer' = Silence => ServedInScope'  BY DEF ServedInScope, Silence
<1>3. UNCHANGED <<count, about, found>> /\ FoundOK => FoundOK'  BY DEF FoundOK, Retrievals
<1>4. UNCHANGED <<count, live, row, recent, blank>> /\ RecentOK => RecentOK'
  BY DEF RecentOK, RecentIsLive, RecentKeys
<1>5. UNCHANGED <<count, about, text, row, live, gone>> /\ MemoriesOK => MemoriesOK'
  BY DEF MemoriesOK, Owned, DeletedStaysDeleted, LiveIsPersisted
<1> QED  BY <1>1, <1>2, <1>3, <1>4, <1>5

LEMMA OwnershipIs ==
  ASSUME NEW c \in Readers, NEW type \in Types
  PROVE  /\ Ownership(type, c) \in Abouts /\ Ownership(type, c).owner = c.who
         /\ Ownership(type, c).scope # "session" => Ownership(type, c).session = NoId
         /\ Ownership(type, c).scope # "workspace" => Ownership(type, c).workspace = NoId
<1>1. PICK s \in Scopes : s = ScopeOf(type, c)
  BY DEF Types, Scopes, ScopeOf
<1>2. PICK x : x = IF s = "session" THEN c.session ELSE NoId  OBVIOUS
<1>3. PICK y : y = IF s = "workspace" THEN c.workspace ELSE NoId  OBVIOUS
<1>4. Ownership(type, c)
        = [owner |-> c.who, scope |-> s, type |-> type, session |-> x, workspace |-> y]
  BY <1>1, <1>2, <1>3 DEF Ownership
<1>5. /\ c.who \in {r.who : r \in Readers} \cup {NoId}
      /\ x \in {r.session : r \in Readers} \cup {NoId}
      /\ y \in {r.workspace : r \in Readers} \cup {NoId}
  BY <1>2, <1>3
<1> QED  BY <1>1, <1>2, <1>3, <1>4, <1>5 DEF Abouts

(* A new memory, whichever keys were remembered before it.                   *)
LEMMA StoreKeeps ==
  ASSUME MemoryInv, NEW c \in Readers, NEW type \in Types,
         NEW keys \in Recents(1..count), Keys(keys) \subseteq RecentKeys \cup live,
         Store(type, c, keys)
  PROVE  MemoryInv'
<1>0. MemoriesOK /\ RecentOK /\ FoundOK  BY MemoryParts
<1>1. PICK i \in Memories : i = count + 1 /\ count \in Nat /\ i \notin 1..count
  BY <1>0, MemoryAssumption DEF MemoriesOK, Store, Memories
<1>2. PICK o : o = Ownership(type, c)  OBVIOUS
<1>3. /\ o \in Abouts /\ o.owner = c.who
      /\ o.scope # "session" => o.session = NoId
      /\ o.scope # "workspace" => o.workspace = NoId
  BY <1>2, OwnershipIs
<1>4. /\ count' = i /\ about' = [about EXCEPT ![i] = o] /\ text' = [text EXCEPT ![i] = c]
      /\ row' = [row EXCEPT ![i] = c] /\ live' = live \cup {i}
      /\ recent' = WithRecent(keys, <<i>>) /\ blank' = blank \cap Keys(recent')
      /\ found' = <<>> /\ answer' = Silence /\ gone' = gone
  BY <1>1, <1>2 DEF Store
<1>5. /\ 1..count' = (1..count) \cup {i} /\ c # NoId /\ 1..count \subseteq Memories
      /\ count' \in 0..MaxMemories
  BY <1>0, <1>1, <1>4, MemoryAssumption DEF MemoriesOK, Memories
<1>6. MemoriesOK'
  <2>1. /\ about' \in [Memories -> Abouts] /\ about'[i] = o
        /\ text' \in [Memories -> Readers \cup {NoId}] /\ text'[i] = c
        /\ row' \in [Memories -> Readers \cup {NoId}] /\ row'[i] = c
        /\ \A j \in Memories \ {i} :
             about'[j] = about[j] /\ text'[j] = text[j] /\ row'[j] = row[j]
    BY <1>0, <1>3, <1>4 DEF MemoriesOK
  <2>2. ASSUME NEW j \in 1..count' PROVE Owned(j)'
    <3>1. CASE j = i  BY <1>3, <2>1, <3>1 DEF Owned
    <3>2. CASE j # i
      <4>1. j \in 1..count /\ j \in Memories \ {i}  BY <1>5, <3>2
      <4> QED  BY <1>0, <2>1, <4>1 DEF MemoriesOK, Owned
    <3> QED  BY <3>1, <3>2
  <2>3. \A j \in Memories : row'[j] # NoId => j \in 1..count'
    BY <1>0, <1>5, <2>1 DEF MemoriesOK
  <2>4. live' \cup gone' \subseteq 1..count'  BY <1>0, <1>4, <1>5 DEF MemoriesOK
  <2>5. \A j \in live \cup gone : j \in Memories \ {i}
    BY <1>0, <1>1, <1>5 DEF MemoriesOK
  <2>6. DeletedStaysDeleted'  BY <1>0, <1>4, <2>1, <2>5 DEF MemoriesOK, DeletedStaysDeleted
  <2>7. LiveIsPersisted'  BY <1>0, <1>4, <1>5, <2>1, <2>5 DEF MemoriesOK, LiveIsPersisted
  <2> QED  BY <1>5, <2>1, <2>2, <2>3, <2>4, <2>6, <2>7 DEF MemoriesOK
<1>7. RecentOK'
  <2>1. PICK S : S = 1..count'  OBVIOUS
  <2>2. keys \in Recents(S) /\ i \in S /\ Keys(keys) \subseteq 1..count
    <3>1. PICK R : R = 1..count  OBVIOUS
    <3>2. keys \in Recents(R) /\ R \subseteq S /\ i \in S  BY <1>4, <1>5, <2>1, <3>1
    <3>3. keys \in Recents(S) /\ Keys(keys) \subseteq R  BY <3>2, KeptWider
    <3> QED  BY <3>1, <3>2, <3>3
  <2>3. PICK r : r = WithRecent(keys, <<i>>)  OBVIOUS
  <2>4. r \in Recents(S) /\ Keys(r) \subseteq Keys(keys) \cup {i}
    BY <2>2, <2>3, RememberedOne
  <2>5. recent' = r  BY <1>4, <2>3
  <2>6. ASSUME NEW j \in Keys(recent') \ blank' PROVE j \in live' \/ row'[j] # NoId
    <3>1. j \notin blank /\ j \in RecentKeys \cup live \cup {i}
      BY <1>4, <2>4, <2>5, <2>6
    <3>2. CASE j \in live \cup {i}  BY <1>4, <3>2
    <3>3. CASE j \in RecentKeys /\ j \notin live \cup {i}
      <4>1. row[j] # NoId  BY <1>0, <3>1, <3>3 DEF RecentOK, RecentIsLive
      <4>2. j \in Memories
        <5>1. j \in 1..count  BY <1>0, <3>3, KeptWider DEF RecentOK, RecentKeys
        <5> QED  BY <1>5, <5>1
      <4>3. row'[j] = row[j]  BY <1>0, <1>4, <3>3, <4>2 DEF MemoriesOK
      <4> QED  BY <4>1, <4>3
    <3> QED  BY <3>1, <3>2, <3>3
  <2>7. RecentIsLive'  BY <2>6 DEF RecentIsLive, RecentKeys
  <2> QED  BY <1>4, <2>1, <2>4, <2>5, <2>7 DEF RecentOK, RecentKeys
<1> QED  BY <1>4, <1>6, <1>7, Nothing, MemoryParts

LEMMA LookedUpIs ==
  ASSUME MemoryInv, NEW c \in Readers
  PROVE  /\ LookedUp(c) \in Recents(1..count)
         /\ Keys(LookedUp(c)) \subseteq RecentKeys \cup live
         /\ \A i \in ExistingPreferences(c) :
              i \in 1..count /\ row[i] # NoId /\ about[i].owner = c.who
<1>0. MemoriesOK /\ RecentOK  BY MemoryParts
<1>1. PICK n \in Nat : n = count  BY <1>0, MemoryAssumption DEF MemoriesOK
<1>2. PICK T : T = Preferences(live, c)  OBVIOUS
<1>3. T \subseteq live /\ live \subseteq 1..n
  BY <1>0, <1>1, <1>2 DEF MemoriesOK, Preferences
<1>4. PICK q : q = recent  OBVIOUS
<1>5. q \in Recents(1..n) /\ Keys(q) = RecentKeys
  BY <1>0, <1>1, <1>4 DEF RecentOK, RecentKeys
<1>6. /\ WithRecent(q, NewestFirst(T)) \in Recents(1..n)
      /\ Keys(WithRecent(q, NewestFirst(T))) \subseteq Keys(q) \cup T
  BY <1>3, <1>5, RememberedAll
<1>7. LookedUp(c) \in {q, WithRecent(q, NewestFirst(T))}
  BY <1>2, <1>4 DEF LookedUp
<1>8. ASSUME NEW i \in ExistingPreferences(c)
      PROVE  i \in 1..count /\ row[i] # NoId /\ about[i].owner = c.who
  <2>1. /\ i \in (RecentKeys \ blank) \cup live
        /\ about[i].owner = c.who
    BY <1>8 DEF ExistingPreferences, Preferences
  <2>2. i \in live \/ row[i] # NoId
    BY <1>0, <2>1 DEF RecentOK, RecentIsLive
  <2>3. row[i] # NoId  BY <1>0, <2>2 DEF MemoriesOK, LiveIsPersisted
  <2>4. i \in 1..n
    <3>1. Keys(q) \subseteq 1..n  BY <1>5, KeptKeys
    <3> QED  BY <1>3, <1>5, <2>1, <3>1
  <2> QED  BY <1>1, <2>1, <2>3, <2>4
<1> QED  BY <1>1, <1>3, <1>5, <1>6, <1>7, <1>8

LEMMA WriteKeeps ==
  ASSUME MemoryInv, NEW c \in Readers, NEW type \in Types, Write(type, c)
  PROVE  MemoryInv'
<1>1. Store(type, c, recent)  BY DEF Write
<1>2. PICK keys : keys = recent  OBVIOUS
<1>3. keys \in Recents(1..count) /\ Keys(keys) \subseteq RecentKeys \cup live
  BY <1>2 DEF MemoryInv, RecentKeys
<1>4. Store(type, c, keys)  BY <1>1, <1>2
<1> QED  BY <1>3, <1>4, StoreKeeps

LEMMA WritePreferenceKeeps ==
  ASSUME MemoryInv, NEW c \in Readers, WritePreference(c)
  PROVE  MemoryInv'
<1>1. Store("preference", c, LookedUp(c))  BY DEF WritePreference
<1>2. PICK keys : keys = LookedUp(c)  OBVIOUS
<1>3. keys \in Recents(1..count) /\ Keys(keys) \subseteq RecentKeys \cup live
  BY <1>2, LookedUpIs
<1>4. Store("preference", c, keys) /\ "preference" \in Types  BY <1>1, <1>2 DEF Types
<1> QED  BY <1>3, <1>4, StoreKeeps

LEMMA RevisePreferenceKeeps ==
  ASSUME MemoryInv, NEW c \in Readers, NEW i \in Memories, NEW words \in Readers,
         RevisePreference(c, i, words)
  PROVE  MemoryInv'
<1>0. MemoriesOK /\ RecentOK /\ FoundOK  BY MemoryParts
<1>1. /\ i \in ExistingPreferences(c) /\ words \in {c, text[i]}
      /\ text' = [text EXCEPT ![i] = words] /\ live' = live \cup {i}
      /\ recent' = WithRecent(LookedUp(c), <<i>>) /\ blank' = blank \cap Keys(recent')
      /\ found' = <<>> /\ answer' = Silence
      /\ count' = count /\ about' = about /\ row' = row /\ gone' = gone
  BY DEF RevisePreference
<1>2. i \in 1..count /\ row[i] # NoId /\ about[i].owner = c.who
  BY <1>1, LookedUpIs
<1>3. MemoriesOK'
  <2>1. /\ text' \in [Memories -> Readers \cup {NoId}]
        /\ text'[i] = words /\ \A j \in Memories \ {i} : text'[j] = text[j]
    BY <1>0, <1>1 DEF MemoriesOK
  <2>2. words.who = about[i].owner  BY <1>0, <1>1, <1>2 DEF MemoriesOK, Owned
  <2>3. 1..count \subseteq Memories  BY <1>0, MemoryAssumption DEF MemoriesOK, Memories
  <2>4. ASSUME NEW j \in 1..count PROVE Owned(j)'
    BY <1>0, <1>1, <2>1, <2>2, <2>3 DEF MemoriesOK, Owned
  <2>5. i \notin gone  BY <1>0, <1>2 DEF MemoriesOK, DeletedStaysDeleted
  <2>6. DeletedStaysDeleted'  BY <1>0, <1>1, <2>5 DEF MemoriesOK, DeletedStaysDeleted
  <2>7. LiveIsPersisted'  BY <1>0, <1>1, <1>2 DEF MemoriesOK, LiveIsPersisted
  <2> QED  BY <1>0, <1>1, <1>2, <2>1, <2>4, <2>6, <2>7 DEF MemoriesOK
<1>4. RecentOK'
  <2>1. PICK keys : keys = LookedUp(c)  OBVIOUS
  <2>2. PICK S : S = 1..count  OBVIOUS
  <2>3. keys \in Recents(S) /\ i \in S /\ Keys(keys) \subseteq RecentKeys \cup live
    BY <1>2, <2>1, <2>2, LookedUpIs
  <2>4. PICK r : r = WithRecent(keys, <<i>>)  OBVIOUS
  <2>5. r \in Recents(S) /\ Keys(r) \subseteq Keys(keys) \cup {i}
    BY <2>3, <2>4, RememberedOne
  <2>6. recent' = r  BY <1>1, <2>1, <2>4
  <2>7. RecentIsLive'
    BY <1>0, <1>1, <2>3, <2>5, <2>6 DEF RecentOK, RecentIsLive, RecentKeys
  <2> QED  BY <1>1, <2>2, <2>5, <2>6, <2>7 DEF RecentOK, RecentKeys
<1> QED  BY <1>1, <1>3, <1>4, Nothing, MemoryParts

(* What is deleted or expires: its row goes, its key stays, blank.           *)
LEMMA BlankedKeeps ==
  ASSUME MemoryInv, NEW T \in SUBSET live,
         live' = live \ T, row' = DeletedRows(T), Blanked(T), gone' = gone \cup T,
         answer' = Silence, UNCHANGED <<count, about, text>>
  PROVE  MemoryInv'
<1>0. MemoriesOK /\ RecentOK /\ FoundOK  BY MemoryParts
<1>1. /\ row' = [j \in Memories |-> IF j \in T THEN NoId ELSE row[j]]
      /\ 1..count \subseteq Memories /\ T \subseteq 1..count
  BY <1>0, MemoryAssumption DEF MemoriesOK, Memories, DeletedRows
<1>2. MemoriesOK'
  <2>1. row' \in [Memories -> Readers \cup {NoId}]  BY <1>0, <1>1 DEF MemoriesOK
  <2>2. \A j \in 1..count : Owned(j)'  BY <1>0, <1>1 DEF MemoriesOK, Owned
  <2>3. \A j \in Memories : row'[j] # NoId => j \in 1..count  BY <1>0, <1>1 DEF MemoriesOK
  <2>4. DeletedStaysDeleted'  BY <1>0, <1>1 DEF MemoriesOK, DeletedStaysDeleted
  <2>5. LiveIsPersisted'  BY <1>0, <1>1 DEF MemoriesOK, LiveIsPersisted
  <2>6. live' \cup gone' \subseteq 1..count  BY <1>0, <1>1 DEF MemoriesOK
  <2> QED  BY <1>0, <2>1, <2>2, <2>3, <2>4, <2>5, <2>6 DEF MemoriesOK
<1>3. RecentOK'
  <2>1. PICK n \in Nat : n = count  BY <1>0, MemoryAssumption DEF MemoriesOK
  <2>2. PICK q : q = recent  OBVIOUS
  <2>3. PICK R : R = T  OBVIOUS
  <2>4. q \in Recents(1..n) /\ R \in SUBSET (1..n) /\ Keys(q) = RecentKeys
    BY <1>0, <1>1, <2>1, <2>2, <2>3 DEF RecentOK, RecentKeys
  <2>5. PICK r : r = WithRecent(q, NewestFirst(R))  OBVIOUS
  <2>6. r \in Recents(1..n) /\ Keys(r) \subseteq Keys(q) \cup R
    BY <2>4, <2>5, RememberedAll
  <2>7. recent' = r /\ blank' = (blank \cup R) \cap Keys(r)
    BY <2>2, <2>3, <2>5 DEF Blanked
  <2>8. ASSUME NEW j \in Keys(r) \ blank' PROVE j \in live' \/ row'[j] # NoId
    <3>1. j \notin blank /\ j \notin R /\ j \in RecentKeys  BY <2>4, <2>6, <2>7, <2>8
    <3>2. j \in live \/ row[j] # NoId  BY <1>0, <3>1 DEF RecentOK, RecentIsLive
    <3>3. j \in Memories
      <4>1. j \in 1..n  BY <2>4, <3>1, KeptKeys
      <4> QED  BY <1>1, <2>1, <4>1
    <3> QED  BY <1>1, <2>3, <3>1, <3>2, <3>3
  <2>9. RecentIsLive'  BY <2>7, <2>8 DEF RecentIsLive, RecentKeys
  <2> QED  BY <2>1, <2>6, <2>7, <2>9 DEF RecentOK, RecentKeys
<1>4. found' = found  BY DEF Blanked
<1> QED  BY <1>0, <1>2, <1>3, <1>4, Nothing, MemoryParts

LEMMA DeleteFailsKeeps ==
  ASSUME MemoryInv, NEW c \in Readers, NEW i \in Memories, DeleteFails(c, i)
  PROVE  MemoryInv'
<1>0. MemoriesOK /\ RecentOK /\ FoundOK  BY MemoryParts
<1>1. /\ i \in live /\ live' = live \ {i} /\ answer' = Silence
      /\ count' = count /\ about' = about /\ text' = text /\ row' = row /\ gone' = gone
      /\ recent' = recent /\ blank' = blank /\ found' = found
  BY DEF DeleteFails, Eligible, caches
<1>2. MemoriesOK'
  <2>1. DeletedStaysDeleted' /\ LiveIsPersisted' /\ live' \cup gone' \subseteq 1..count
    BY <1>0, <1>1 DEF MemoriesOK, DeletedStaysDeleted, LiveIsPersisted
  <2>2. \A j \in 1..count : Owned(j)'  BY <1>0, <1>1 DEF MemoriesOK, Owned
  <2> QED  BY <1>0, <1>1, <2>1, <2>2 DEF MemoriesOK
<1>3. RecentOK'
  <2>1. row[i] # NoId  BY <1>0, <1>1 DEF MemoriesOK, LiveIsPersisted
  <2>2. RecentIsLive'  BY <1>0, <1>1, <2>1 DEF RecentOK, RecentIsLive, RecentKeys
  <2> QED  BY <1>0, <1>1, <2>2 DEF RecentOK, RecentKeys
<1> QED  BY <1>0, <1>1, <1>2, <1>3, Nothing, MemoryParts

LEMMA EmptyCache ==
  recent' = <<>> /\ blank' = {} => RecentOK'
<1>1. \A S : <<>> \in Recents(S)
  <2>1. \A S : <<>> \in Seq(S) /\ Len(<<>>) = 0  OBVIOUS
  <2> QED  BY <2>1, MemoryAssumption DEF Recents
<1>2. Keys(<<>>) = {}  BY DEF Keys
<1> QED  BY <1>1, <1>2 DEF RecentOK, RecentIsLive, RecentKeys

LEMMA DeleteAllKeeps ==
  ASSUME MemoryInv, DeleteAll
  PROVE  MemoryInv'
<1>0. MemoriesOK /\ RecentOK /\ FoundOK  BY MemoryParts
<1> DEFINE R == {j \in Memories : row[j] # NoId}
<1>1. /\ live' = live \ R /\ row' = [j \in Memories |-> NoId] /\ gone' = gone \cup R
      /\ recent' = <<>> /\ blank' = {} /\ found' = <<>> /\ answer' = Silence
      /\ count' = count /\ about' = about /\ text' = text
  BY DEF DeleteAll
<1>2. /\ 1..count \subseteq Memories /\ R \subseteq 1..count /\ live \subseteq R
      /\ gone \subseteq 1..count
  BY <1>0, MemoryAssumption DEF MemoriesOK, Memories, LiveIsPersisted
<1>3. live' = {}  BY <1>1, <1>2
<1>4. MemoriesOK'
  <2>1. /\ row' \in [Memories -> Readers \cup {NoId}]
        /\ \A j \in Memories : row'[j] = NoId
    BY <1>1
  <2>2. \A j \in 1..count : Owned(j)'  BY <1>0, <1>1, <1>2, <2>1 DEF MemoriesOK, Owned
  <2>3. live' \cup gone' \subseteq 1..count  BY <1>1, <1>2, <1>3
  <2>4. DeletedStaysDeleted' /\ LiveIsPersisted'
    BY <1>2, <1>1, <1>3, <2>1, <2>3 DEF DeletedStaysDeleted, LiveIsPersisted
  <2> QED  BY <1>0, <1>1, <2>1, <2>2, <2>3, <2>4 DEF MemoriesOK
<1> QED  BY <1>1, <1>4, EmptyCache, Nothing, MemoryParts

LEMMA RestartMemoryKeeps ==
  ASSUME MemoryInv, RestartMemory
  PROVE  MemoryInv'
<1>0. MemoriesOK /\ RecentOK /\ FoundOK  BY MemoryParts
<1>1. /\ live' = {j \in Memories : row[j] # NoId}
      /\ text' = [j \in Memories |-> IF row[j] # NoId THEN row[j] ELSE text[j]]
      /\ recent' = <<>> /\ blank' = {} /\ found' = <<>> /\ answer' = Silence
      /\ count' = count /\ about' = about /\ row' = row /\ gone' = gone
  BY DEF RestartMemory
<1>2. 1..count \subseteq Memories  BY <1>0, MemoryAssumption DEF MemoriesOK, Memories
<1>3. MemoriesOK'
  <2>1. /\ text' \in [Memories -> Readers \cup {NoId}]
        /\ \A j \in Memories : text'[j] = IF row[j] # NoId THEN row[j] ELSE text[j]
    BY <1>0, <1>1 DEF MemoriesOK
  <2>2. ASSUME NEW j \in 1..count PROVE Owned(j)'
    <3>1. Owned(j) /\ j \in Memories /\ row[j] \in Readers \cup {NoId}
      BY <1>0, <1>2 DEF MemoriesOK
    <3> QED  BY <1>1, <2>1, <3>1 DEF Owned
  <2>3. live' \cup gone' \subseteq 1..count  BY <1>0, <1>1 DEF MemoriesOK
  <2>4. DeletedStaysDeleted' /\ LiveIsPersisted'
    BY <1>0, <1>1 DEF MemoriesOK, DeletedStaysDeleted, LiveIsPersisted
  <2> QED  BY <1>0, <1>1, <2>1, <2>2, <2>3, <2>4 DEF MemoriesOK
<1> QED  BY <1>1, <1>3, EmptyCache, Nothing, MemoryParts

(* What is in scope is the reader's, of its session and of its workspace.    *)
LEMMA ScopeFits ==
  ASSUME MemoriesOK, NEW c \in Readers, NEW i \in 1..count, InScope(i, c)
  PROVE  /\ about[i].owner = c.who /\ text[i].who = c.who
         /\ about[i].session \in {NoId, c.session}
         /\ about[i].workspace \in {NoId, c.workspace}
<1>1. Owned(i) /\ about[i].owner = c.who  BY DEF MemoriesOK, InScope
<1>2. about[i].scope = "session" => about[i].session = c.session  BY DEF InScope
<1>3. about[i].scope = "workspace" => about[i].workspace = c.workspace  BY DEF InScope
<1> QED  BY <1>1, <1>2, <1>3 DEF Owned

LEMMA RecentStageIs ==
  ASSUME MemoryInv
  PROVE  /\ RecentStage.items \subseteq 1..count
         /\ RecentStage.keys \in Recents(1..count)
         /\ Keys(RecentStage.keys) \subseteq RecentKeys \cup live
<1>0. MemoriesOK /\ RecentOK  BY MemoryParts
<1>1. PICK n \in Nat : n = count  BY <1>0, MemoryAssumption DEF MemoriesOK
<1>2. PICK q : q = recent  OBVIOUS
<1>3. PICK T : T = live  OBVIOUS
<1>4. q \in Recents(1..n) /\ Keys(q) = RecentKeys /\ T \in SUBSET (1..n)
  BY <1>0, <1>1, <1>2, <1>3 DEF MemoriesOK, RecentOK, RecentKeys
<1>5. PICK p : p = Newest(NewestFirst(T), TopRecent)  OBVIOUS
<1>6. p \in Seq(1..n) /\ Keys(p) \subseteq T
  <2>1. PICK r : r = NewestFirst(T)  OBVIOUS
  <2>2. r \in Seq(1..n) /\ Keys(r) \subseteq T  BY <1>4, <2>1, RememberedAll
  <2>3. TopRecent \in Nat  BY MemoryAssumption
  <2>4. Newest(r, TopRecent) \in Seq(1..n) /\ Keys(Newest(r, TopRecent)) \subseteq Keys(r)
    BY <2>2, <2>3, NewestIs
  <2> QED  BY <1>5, <2>1, <2>2, <2>4
<1>7. WithRecent(q, p) \in Recents(1..n) /\ Keys(WithRecent(q, p)) \subseteq Keys(q) \cup Keys(p)
  BY <1>4, <1>6, WithRecentIs
<1>8. Keys(q) \subseteq 1..n  BY <1>4, KeptKeys
<1>9. PICK shown : shown = {m \in DOMAIN q : q[m] \notin blank}  OBVIOUS
<1>10. PICK newest : newest = {m \in shown : Cardinality({k \in shown : k > m}) < TopRecent}
  OBVIOUS
<1>11. {q[m] : m \in newest} \subseteq Keys(q)  BY <1>9, <1>10 DEF Keys
<1>12. RecentStage = IF shown # {} THEN [items |-> {q[m] : m \in newest}, keys |-> q]
                     ELSE [items |-> Keys(p), keys |-> WithRecent(q, p)]
  BY <1>2, <1>3, <1>5, <1>9, <1>10 DEF RecentStage
<1>13. CASE shown # {}
  <2>1. RecentStage.items = {q[m] : m \in newest} /\ RecentStage.keys = q
    BY <1>12, <1>13
  <2> QED  BY <1>1, <1>4, <1>8, <1>11, <2>1
<1>14. CASE shown = {}
  <2>1. RecentStage.items = Keys(p) /\ RecentStage.keys = WithRecent(q, p)
    BY <1>12, <1>14
  <2> QED  BY <1>1, <1>3, <1>4, <1>6, <1>7, <2>1
<1> QED  BY <1>13, <1>14

LEMMA RetrieveKeeps ==
  ASSUME MemoryInv, NEW c \in Readers, NEW q \in Queries, NEW matches \in SUBSET live,
         Retrieve(c, q, matches)
  PROVE  MemoryInv'
<1>0. MemoriesOK /\ RecentOK /\ FoundOK  BY MemoryParts
<1>1. PICK n \in Nat : n = count  BY <1>0, MemoryAssumption DEF MemoriesOK
<1>2. PICK stage : stage = RecentStage  OBVIOUS
<1>3. PICK P : P = AllPreferences  OBVIOUS
<1>4. PICK M : M = matches  OBVIOUS
<1>5. PICK items : items = Eligible(stage.items, c) \cup M \cup Eligible(P, c)  OBVIOUS
<1>6. PICK loaded : loaded = WithRecent(stage.keys, NewestFirst(M))  OBVIOUS
<1>7. PICK keys : keys = WithRecent(loaded, NewestFirst(P))  OBVIOUS
<1>8. PICK e : e = [key |-> CacheKey(c, q), items |-> items]  OBVIOUS
<1>9. /\ M \subseteq Eligible(live, c)
      /\ recent' = keys /\ blank' = (blank \cap Keys(keys)) \ (M \cup P)
      /\ found' = Bounded(Append(found, e), MaxRetrievals)
      /\ answer' = [reader |-> c, items |-> items]
      /\ count' = count /\ about' = about /\ text' = text /\ row' = row
      /\ live' = live /\ gone' = gone
  BY <1>2, <1>3, <1>4, <1>5, <1>6, <1>7, <1>8 DEF Retrieve
<1>10. /\ stage.items \subseteq 1..n /\ stage.keys \in Recents(1..n)
       /\ Keys(stage.keys) \subseteq RecentKeys \cup live
  BY <1>1, <1>2, RecentStageIs
<1>11. P \in SUBSET (1..n) /\ M \in SUBSET (1..n) /\ P \subseteq live /\ M \subseteq live
  BY <1>0, <1>1, <1>3, <1>4 DEF MemoriesOK, AllPreferences
<1>12. /\ keys \in Recents(1..n) /\ Keys(keys) \subseteq RecentKeys \cup live
  <2>1. loaded \in Recents(1..n) /\ Keys(loaded) \subseteq Keys(stage.keys) \cup M
    BY <1>6, <1>10, <1>11, RememberedAll
  <2>2. keys \in Recents(1..n) /\ Keys(keys) \subseteq Keys(loaded) \cup P
    BY <1>7, <1>11, <2>1, RememberedAll
  <2> QED  BY <1>10, <1>11, <2>1, <2>2
<1>13. items \subseteq 1..n /\ \A i \in items : InScope(i, c)
  BY <1>5, <1>9, <1>10, <1>11 DEF Eligible
<1>14. \A i \in items : /\ about[i].owner = c.who /\ text[i].who = c.who
                        /\ about[i].session \in {NoId, c.session}
                        /\ about[i].workspace \in {NoId, c.workspace}
  BY <1>0, <1>1, <1>13, ScopeFits
<1>15. FoundOK'
  <2>1. PICK R : R = Retrievals  OBVIOUS
  <2>2. e \in R
    <3>1. CacheKey(c, q) = <<c.who, c.session, c.workspace, q>>  BY DEF CacheKey
    <3>2. e.key = CacheKey(c, q) /\ e.items = items  BY <1>8
    <3>3. e.key[1] = c.who /\ e.key[2] = c.session /\ e.key[3] = c.workspace
      BY <3>1, <3>2
    <3>4. e \in [key : {CacheKey(d, p) : d \in Readers, p \in Queries}, items : SUBSET (1..n)]
      BY <1>8, <1>13
    <3> QED  BY <1>1, <1>14, <2>1, <3>2, <3>3, <3>4 DEF Retrievals
  <2>3. PICK f : f = found  OBVIOUS
  <2>4. f \in Seq(R) /\ Len(f) <= MaxRetrievals  BY <1>0, <2>1, <2>3 DEF FoundOK
  <2>5. Append(f, e) \in Seq(R) /\ Len(Append(f, e)) = Len(f) + 1 /\ Len(f) \in Nat
    BY <2>2, <2>4
  <2>6. MaxRetrievals \in Nat \ {0}  BY MemoryAssumption
  <2>7. Len(Append(f, e)) <= MaxRetrievals + 1  BY <2>4, <2>5, <2>6
  <2>8. /\ Bounded(Append(f, e), MaxRetrievals) \in Seq(R)
        /\ Len(Bounded(Append(f, e), MaxRetrievals)) <= MaxRetrievals
    BY <2>5, <2>6, <2>7, BoundedIs
  <2>9. Retrievals' = R  BY <1>9, <2>1 DEF Retrievals
  <2> QED  BY <1>9, <2>3, <2>8, <2>9 DEF FoundOK
<1>16. RecentOK'
  <2>1. ASSUME NEW i \in Keys(keys) \ blank' PROVE i \in live \/ row[i] # NoId
    <3>1. i \in live \/ (i \in RecentKeys /\ i \notin blank)
      BY <1>9, <1>11, <1>12, <2>1
    <3> QED  BY <1>0, <3>1 DEF RecentOK, RecentIsLive
  <2>2. RecentIsLive'  BY <1>9, <2>1 DEF RecentIsLive, RecentKeys
  <2> QED  BY <1>1, <1>9, <1>12, <2>2 DEF RecentOK, RecentKeys
<1>17. ServedInScope'
  <2>1. answer'.items = items /\ answer'.reader = c  BY <1>9
  <2> QED  BY <1>9, <1>14, <2>1 DEF ServedInScope
<1> QED  BY <1>0, <1>9, <1>15, <1>16, <1>17, Nothing, MemoryParts

(* A retrieval out of the cache: the key says for whom it was made.          *)
LEMMA RetrieveCachedKeeps ==
  ASSUME MemoryInv, NEW c \in Readers, NEW q \in Queries, RetrieveCached(c, q)
  PROVE  MemoryInv'
<1>0. MemoriesOK /\ RecentOK /\ FoundOK  BY MemoryParts
<1>1. PICK j \in Hit(c, q) : answer' = [reader |-> c, items |-> found[j].items]
  BY DEF RetrieveCached
<1>2. UNCHANGED <<count, about, text, row, live, recent, blank, found, gone>>
  BY DEF RetrieveCached, caches
<1>3. PICK e : e = found[j]  OBVIOUS
<1>4. e \in Retrievals /\ e.key = CacheKey(c, q)
  <2>1. j \in 1..Len(found) /\ found[j].key = CacheKey(c, q)  BY DEF Hit
  <2> QED  BY <1>0, <1>3, <2>1 DEF FoundOK
<1>5. e.key[1] = c.who /\ e.key[2] = c.session /\ e.key[3] = c.workspace
  BY <1>4 DEF CacheKey
<1>6. /\ e.items \subseteq 1..count
      /\ \A i \in e.items : /\ about[i].owner = c.who
                            /\ about[i].session \in {NoId, c.session}
                            /\ about[i].workspace \in {NoId, c.workspace}
  BY <1>4, <1>5 DEF Retrievals
<1>7. \A i \in e.items : text[i].who = c.who
  BY <1>0, <1>6 DEF MemoriesOK, Owned
<1>8. answer'.items = e.items /\ answer'.reader = c  BY <1>1, <1>3
<1>9. ServedInScope'  BY <1>2, <1>6, <1>7, <1>8 DEF ServedInScope
<1> QED  BY <1>0, <1>2, <1>9, Nothing, MemoryParts

LEMMA BrowseKeeps ==
  ASSUME MemoryInv, NEW c \in Readers, Browse(c)
  PROVE  MemoryInv'
<1>0. MemoriesOK /\ RecentOK /\ FoundOK  BY MemoryParts
<1>1. /\ answer' = [reader |-> c, items |-> Eligible(live, c)]
      /\ UNCHANGED <<count, about, text, row, live, recent, blank, found, gone>>
  BY DEF Browse, caches
<1>2. \A i \in Eligible(live, c) : i \in 1..count /\ InScope(i, c)
  BY <1>0 DEF MemoriesOK, Eligible
<1>3. answer'.items = Eligible(live, c) /\ answer'.reader = c  BY <1>1
<1>4. ServedInScope'  BY <1>0, <1>1, <1>2, <1>3, ScopeFits DEF ServedInScope
<1> QED  BY <1>0, <1>1, <1>4, Nothing, MemoryParts

LEMMA QuietKeeps ==
  ASSUME MemoryInv, UNCHANGED <<count, about, text, row, live, recent, blank, found, gone>>,
         answer' = Silence \/ answer' = answer
  PROVE  MemoryInv'
<1>0. MemoriesOK /\ RecentOK /\ FoundOK /\ ServedInScope  BY MemoryParts
<1>1. ServedInScope'
  <2>1. CASE answer' = Silence  BY <2>1, Nothing
  <2>2. CASE answer' = answer  BY <1>0, <2>2 DEF ServedInScope
  <2> QED  BY <2>1, <2>2
<1> QED  BY <1>0, <1>1, Nothing, MemoryParts

-----------------------------------------------------------------------------
LEMMA MemoryFirst ==
  ASSUME MemoryInit PROVE MemoryInv
<1>1. /\ count = 0 /\ live = {} /\ recent = <<>> /\ blank = {} /\ found = <<>>
      /\ gone = {} /\ answer = Silence
      /\ text = [i \in Memories |-> NoId] /\ row = [i \in Memories |-> NoId]
      /\ about = [i \in Memories |-> [owner |-> NoId, scope |-> "system", type |-> "system",
                                      session |-> NoId, workspace |-> NoId]]
  BY DEF MemoryInit
<1>2. count \in 0..MaxMemories /\ 1..count = {}  BY <1>1, MemoryAssumption
<1>3. about \in [Memories -> Abouts]
  <2>1. PICK a : a = [owner |-> NoId, scope |-> "system", type |-> "system",
                      session |-> NoId, workspace |-> NoId]
    OBVIOUS
  <2>2. a \in Abouts  BY <2>1 DEF Abouts, Types, Scopes
  <2> QED  BY <1>1, <2>1, <2>2
<1>4. MemoriesOK
  BY <1>1, <1>2, <1>3 DEF MemoriesOK, DeletedStaysDeleted, LiveIsPersisted
<1>5. RecentOK
  <2>1. \A S : <<>> \in Recents(S)
    <3>1. \A S : <<>> \in Seq(S) /\ Len(<<>>) = 0  OBVIOUS
    <3> QED  BY <3>1, MemoryAssumption DEF Recents
  <2>2. Keys(<<>>) = {}  BY DEF Keys
  <2> QED  BY <1>1, <2>1, <2>2 DEF RecentOK, RecentIsLive, RecentKeys
<1>6. FoundOK
  <2>1. \A S : <<>> \in Seq(S) /\ Len(<<>>) = 0  OBVIOUS
  <2> QED  BY <1>1, <2>1, MemoryAssumption DEF FoundOK
<1>7. ServedInScope  BY <1>1 DEF ServedInScope, Silence
<1> QED  BY <1>4, <1>5, <1>6, <1>7, MemoryParts

LEMMA MemoryStep ==
  ASSUME MemoryInv, [MemoryNext]_memoryVars PROVE MemoryInv'
<1>1. ASSUME NEW c \in Readers, NEW type \in Types, Write(type, c) PROVE MemoryInv'
  BY <1>1, WriteKeeps
<1>2. ASSUME NEW c \in Readers, WritePreference(c) PROVE MemoryInv'
  BY <1>2, WritePreferenceKeeps
<1>3. ASSUME NEW c \in Readers, Browse(c) PROVE MemoryInv'  BY <1>3, BrowseKeeps
<1>4. ASSUME NEW c \in Readers, NEW w \in Readers, NEW i \in Memories,
             RevisePreference(c, i, w)
      PROVE  MemoryInv'
  BY <1>4, RevisePreferenceKeeps
<1>5. ASSUME NEW c \in Readers, NEW i \in Memories, Reinforce(c, i) PROVE MemoryInv'
  BY <1>5, QuietKeeps DEF Reinforce, caches
<1>6. ASSUME NEW c \in Readers, NEW i \in Memories, DeleteFails(c, i) PROVE MemoryInv'
  BY <1>6, DeleteFailsKeeps
<1>7. ASSUME NEW c \in Readers, NEW q \in Queries, RetrieveCached(c, q) PROVE MemoryInv'
  BY <1>7, RetrieveCachedKeeps
<1>8. ASSUME NEW c \in Readers, NEW q \in Queries, NEW m \in SUBSET live, Retrieve(c, q, m)
      PROVE  MemoryInv'
  BY <1>8, RetrieveKeeps
<1>9. ASSUME NEW c \in Readers, NEW T \in SUBSET live, Delete(c, T) PROVE MemoryInv'
  BY <1>9, BlankedKeeps DEF Delete
<1>10. ASSUME NEW T \in SUBSET live, Expire(T) PROVE MemoryInv'
  BY <1>10, BlankedKeeps DEF Expire
<1>11. CASE WriteFails  BY <1>11, QuietKeeps DEF WriteFails, caches
<1>12. CASE DeleteAll  BY <1>12, DeleteAllKeeps
<1>13. CASE RestartMemory  BY <1>13, RestartMemoryKeeps
<1>14. CASE UNCHANGED memoryVars  BY <1>14, QuietKeeps DEF memoryVars
<1> QED
  BY <1>1, <1>2, <1>3, <1>4, <1>5, <1>6, <1>7, <1>8, <1>9, <1>10, <1>11, <1>12, <1>13,
     <1>14 DEF MemoryNext

(* The bound of the cache, counted: its keys are as many as its places.      *)
LEMMA KeysCounted ==
  ASSUME NEW S, NEW q \in Recents(S)
  PROVE  Cardinality(Keys(q)) = Len(q)
<1>1. /\ Len(q) \in Nat /\ DOMAIN q = 1..Len(q)
      /\ \A m, n \in 1..Len(q) : q[m] = q[n] => m = n
  BY DEF Recents
<1>2. PICK N \in Nat : N = Len(q)  BY <1>1
<1>3. PICK f : f = [n \in 1..N |-> q[n]]  OBVIOUS
<1>4. f \in Bijection(1..N, Keys(q))
  <2>1. f \in [1..N -> Keys(q)]  BY <1>1, <1>2, <1>3 DEF Keys
  <2>2. \A m, n \in 1..N : f[m] = f[n] => m = n  BY <1>1, <1>2, <1>3
  <2>3. \A k \in Keys(q) : \E n \in 1..N : f[n] = k  BY <1>1, <1>2, <1>3 DEF Keys
  <2> QED  BY <2>1, <2>2, <2>3 DEF Bijection, Injection, Surjection, IsInjective
<1>5. IsFiniteSet(1..N) /\ Cardinality(1..N) = N
  <2>1. IsFiniteSet(1..N) /\ Cardinality(1..N) = IF 1 > N THEN 0 ELSE N - 1 + 1
    BY FS_Interval
  <2> QED  BY <1>2, <2>1
<1>6. ExistsBijection(1..N, Keys(q))  BY <1>4 DEF ExistsBijection
<1>7. Cardinality(Keys(q)) = Cardinality(1..N)  BY <1>5, <1>6, FS_Bijection
<1> QED  BY <1>2, <1>5, <1>7

LEMMA MemoryInvSafe ==
  ASSUME MemoryInv PROVE MemorySafe
<1>0. MemoriesOK /\ RecentOK /\ FoundOK /\ ServedInScope  BY MemoryParts
<1>1. Cardinality(RecentKeys) = Len(recent) /\ RecentKeys \subseteq 1..count
  <2>1. PICK q : q = recent  OBVIOUS
  <2>2. PICK R : R = 1..count  OBVIOUS
  <2>3. q \in Recents(R)  BY <1>0, <2>1, <2>2 DEF RecentOK
  <2>4. Cardinality(Keys(q)) = Len(q) /\ Keys(q) \subseteq R  BY <2>3, KeysCounted, KeptKeys
  <2> QED  BY <2>1, <2>2, <2>4 DEF RecentKeys
<1>2. \A i \in 1..count : about[i].scope \in Scopes /\ about[i].type \in Types
  <2>1. \A i \in 1..count : i \in Memories
    BY <1>0, MemoryAssumption DEF MemoriesOK, Memories
  <2>2. \A i \in Memories : about[i] \in Abouts  BY <1>0 DEF MemoriesOK
  <2> QED  BY <2>1, <2>2 DEF Abouts
<1>3. \A j \in 1..Len(found) : found[j].items \subseteq 1..count
  <2>1. \A j \in 1..Len(found) : found[j] \in Retrievals  BY <1>0 DEF FoundOK
  <2> QED  BY <2>1 DEF Retrievals
<1>4. Len(recent) <= MaxRecent  BY <1>0 DEF RecentOK, Recents
<1>5. MemoryTypeOK
  BY <1>0, <1>1, <1>2, <1>3, <1>4 DEF MemoryTypeOK, MemoriesOK, RecentOK, FoundOK
<1> QED  BY <1>0, <1>5 DEF MemorySafe, MemoriesOK, RecentOK

(* The invariant of the memory.                                              *)
THEOREM MemoryInvariance == MemoryInit /\ [][MemoryNext]_memoryVars => []MemoryInv
<1>1. MemoryInit => MemoryInv  BY MemoryFirst
<1>2. MemoryInv /\ [MemoryNext]_memoryVars => MemoryInv'  BY MemoryStep
<1> QED  BY <1>1, <1>2, PTL

(* A reader is served only what is its own, of its session and workspace, in *)
(* its own words, from whichever cache and after any restart; what was       *)
(* deleted is in neither store, what lives is on disk, and the recent cache  *)
(* shows nothing the store has lost, within its bound.                       *)
THEOREM MemoryIsSafe == MemoryInit /\ [][MemoryNext]_memoryVars => []MemorySafe
<1>1. MemoryInv => MemorySafe  BY MemoryInvSafe
<1>2. MemoryInit /\ [][MemoryNext]_memoryVars => []MemoryInv  BY MemoryInvariance
<1> QED  BY <1>1, <1>2, PTL

=============================================================================
