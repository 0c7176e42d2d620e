--------------------------- MODULE RequestProofs ---------------------------
(* Proofs about what a request leaves behind: the conversation states        *)
(* (RequestPipeline) keep apart, the evidence (EvidenceTrail) tells the      *)
(* verdict without a gap, the audit log (GovernanceAudit) verifies, and what *)
(* was stated (MemoryFormation) is remembered once and for its owner, for    *)
(* any number of requests, sessions, principals, processes and entries; and  *)
(* that what the plugins offer a request (PluginLifecycle) can be relied on. *)
EXTENDS RequestPipeline, EvidenceTrail, GovernanceAudit, PluginLifecycle,
        MemoryFormation, WellFoundedInduction, FiniteSetTheorems, TLAPS

-----------------------------------------------------------------------------
(* The inductive invariant                                                   *)

Slots == Fields \cup {"pending", "intent"}
TalkStates == [Slots -> Requests \cup {NoRequest}]
Stages == {"new", "running", "paused", "resumed", "ended"}
RequestStates ==
  [stage: Stages, talk: Talks \cup {NoRequest}, owner: Principals \cup {NoRequest},
   answers: Requests \cup {NoRequest}, target: Requests \cup {NoRequest}]

Typed ==
  /\ req \in [Requests -> RequestStates] /\ talk \in [Talks -> TalkStates]
  /\ outcome.shown \in Classes \cup {NoText, "withheld", "redacted"}
  /\ outcome.stored \in Classes \cup {NoText, "withheld"}

(* The registry lists every state that is not fresh, once, within its bound. *)
Listed ==
  /\ recency \in Seq(Talks) /\ Len(recency) <= MaxTalks
  /\ \A i, j \in 1..Len(recency) : recency[i] = recency[j] => i = j
  /\ \A s \in Talks : s \notin Held => talk[s] = FreshTalk

(* What a conversation remembers came from requests of its own session, and  *)
(* its open question has no answer yet.  (rq stands for req or req'.)        *)
Proper(rq, c, s) ==
  /\ \A f \in Slots : c[f] # NoRequest =>
       rq[c[f]].stage # "new" /\ rq[c[f]].talk = s
  /\ c["pending"] # NoRequest =>
       \A q \in Requests : rq[q].answers # c["pending"]

(* A request refers to, and answers, what its own session had before it; no  *)
(* other request answers the same question.                                  *)
Coherent(rq, r) ==
  /\ rq[r].stage = "new" => rq[r].answers = NoRequest /\ rq[r].target = NoRequest
  /\ rq[r].stage \in {"running", "paused", "resumed"} => rq[r].talk \in Talks
  /\ rq[r].target # NoRequest =>
       /\ rq[rq[r].target].stage # "new" /\ rq[rq[r].target].talk = rq[r].talk
  /\ rq[r].answers # NoRequest =>
       /\ rq[rq[r].answers].stage # "new" /\ rq[rq[r].answers].talk = rq[r].talk
       /\ rq[rq[r].answers].owner = rq[r].owner
       /\ \A q \in Requests : rq[q].answers = rq[r].answers => q = r

Apart ==
  /\ \A r \in Requests : Coherent(req, r)
  /\ \A s \in Talks : Proper(req, talk[s], s)

PipelineInv ==
  /\ Typed /\ Listed /\ Apart /\ ShownIsFiltered /\ WithheldIsNotFormed

LEMMA FreshType ==
  /\ FreshTalk \in TalkStates /\ \A f \in Slots : FreshTalk[f] = NoRequest
BY DEF FreshTalk, TalkStates, Slots

LEMMA FreshProper == \A rq, s : Proper(rq, FreshTalk, s)
BY FreshType DEF Proper, Slots

LEMMA PipelineBegins == PipelineInit => PipelineInv
<1> SUFFICES ASSUME PipelineInit PROVE PipelineInv  OBVIOUS
<1>1. \A r \in Requests : req[r] = Idle  BY DEF PipelineInit
<1>2. \A s \in Talks : talk[s] = FreshTalk  BY DEF PipelineInit
<1>3. Idle \in RequestStates  BY DEF Idle, RequestStates, Stages
<1>4. Typed
  BY <1>3, FreshType DEF PipelineInit, Typed, Classes
<1>5. Listed
  BY <1>2, PipelineAssumption DEF PipelineInit, Listed, Held
<1>6. \A r \in Requests : Coherent(req, r)
  BY <1>1 DEF Coherent, Idle
<1>7. Apart  BY <1>2, <1>6, FreshProper DEF Apart
<1>8. ShownIsFiltered /\ WithheldIsNotFormed
  BY DEF PipelineInit, ShownIsFiltered, WithheldIsNotFormed, NoText
<1> QED  BY <1>4, <1>5, <1>7, <1>8 DEF PipelineInv

-----------------------------------------------------------------------------
(* The registry                                                              *)

LEMMA OthersParts ==
  ASSUME recency \in Seq(Talks), NEW s \in Talks,
         \A i, j \in 1..Len(recency) : recency[i] = recency[j] => i = j
  PROVE  /\ Others(s) \in Seq(Talks)
         /\ Len(Others(s)) = IF s \in Held THEN Len(recency) - 1 ELSE Len(recency)
         /\ \A i, j \in 1..Len(Others(s)) : Others(s)[i] = Others(s)[j] => i = j
         /\ {Others(s)[i] : i \in 1..Len(Others(s))} = Held \ {s}
<1>1. CASE s \notin Held  BY <1>1 DEF Others, Held
<1>2. CASE s \in Held
  <2>1. PICK place \in 1..Len(recency) :
          /\ recency[place] = s
          /\ place = CHOOSE i \in 1..Len(recency) : recency[i] = s
    BY <1>2 DEF Held
  <2> DEFINE rest == [i \in 1..(Len(recency) - 1) |->
                        IF i < place THEN recency[i] ELSE recency[i + 1]]
  <2>2. Others(s) = rest  BY <1>2, <2>1 DEF Others
  <2>3. /\ rest \in Seq(Talks) /\ Len(rest) = Len(recency) - 1
        /\ \A i \in 1..(Len(recency) - 1) :
             rest[i] = IF i < place THEN recency[i] ELSE recency[i + 1]
    BY <2>1
  <2> HIDE DEF rest
  <2>  DEFINE from(i) == IF i < place THEN i ELSE i + 1
  <2>4. \A i \in 1..Len(rest) :
          /\ from(i) \in 1..Len(recency) /\ from(i) # place
          /\ rest[i] = recency[from(i)]
    BY <2>1, <2>3
  <2>5. \A i, j \in 1..Len(rest) : from(i) = from(j) => i = j
    BY <2>1, <2>3
  <2> HIDE DEF from
  <2>6. \A i, j \in 1..Len(rest) : rest[i] = rest[j] => i = j
    BY <2>4, <2>5
  <2>7. \A i \in 1..Len(rest) : rest[i] \in Held /\ rest[i] # s
    BY <2>1, <2>4 DEF Held
  <2>8. \A x \in Held \ {s} : \E i \in 1..Len(rest) : rest[i] = x
    <3> SUFFICES ASSUME NEW x \in Held \ {s} PROVE \E i \in 1..Len(rest) : rest[i] = x
      OBVIOUS
    <3>1. PICK j \in 1..Len(recency) : recency[j] = x  BY DEF Held
    <3>2. j # place  BY <2>1, <3>1
    <3>3. CASE j < place
      <4>1. j \in 1..(Len(recency) - 1) /\ rest[j] = x  BY <2>1, <2>3, <3>1, <3>3
      <4> QED  BY <2>3, <4>1
    <3>4. CASE j > place
      <4>1. j - 1 \in 1..(Len(recency) - 1) /\ ~(j - 1 < place) /\ (j - 1) + 1 = j
        BY <2>1, <3>1, <3>4
      <4>2. rest[j - 1] = x  BY <2>3, <3>1, <4>1
      <4> QED  BY <2>3, <4>1, <4>2
    <3> QED  BY <2>1, <3>1, <3>2, <3>3, <3>4
  <2> QED  BY <1>2, <2>2, <2>3, <2>6, <2>7, <2>8
<1> QED  BY <1>1, <1>2

LEMMA TouchedParts ==
  ASSUME Listed, NEW s \in Talks
  PROVE  /\ Touched(s) \in Seq(Talks) /\ Len(Touched(s)) <= MaxTalks
         /\ \A i, j \in 1..Len(Touched(s)) : Touched(s)[i] = Touched(s)[j] => i = j
         /\ \E i \in 1..Len(Touched(s)) : Touched(s)[i] = s
<1> DEFINE rest == Others(s)
           all  == Append(rest, s)
<1>1. /\ recency \in Seq(Talks) /\ Len(recency) <= MaxTalks
      /\ \A i, j \in 1..Len(recency) : recency[i] = recency[j] => i = j
      /\ MaxTalks \in Nat \ {0}
  BY PipelineAssumption DEF Listed
<1>2. /\ rest \in Seq(Talks) /\ Len(rest) <= Len(recency)
      /\ \A i, j \in 1..Len(rest) : rest[i] = rest[j] => i = j
      /\ \A i \in 1..Len(rest) : rest[i] # s
  BY <1>1, OthersParts
<1> HIDE DEF rest
<1>3. /\ all \in Seq(Talks) /\ Len(all) = Len(rest) + 1 /\ all[Len(all)] = s
      /\ \A i \in 1..Len(rest) : all[i] = rest[i]
  BY <1>2
<1> HIDE DEF all
<1>4. \A i, j \in 1..Len(all) : all[i] = all[j] => i = j
  BY <1>2, <1>3
<1>5. CASE Len(all) > MaxTalks
  <2>1. Touched(s) = Tail(all)  BY <1>5 DEF Touched, all, rest
  <2>2. /\ Tail(all) \in Seq(Talks) /\ Len(Tail(all)) = Len(all) - 1
        /\ \A i \in 1..(Len(all) - 1) : Tail(all)[i] = all[i + 1]
    BY <1>1, <1>3, <1>5
  <2>3. Len(all) - 1 \in 1..Len(Tail(all)) /\ Tail(all)[Len(all) - 1] = s
    BY <1>1, <1>2, <1>3, <1>5, <2>2
  <2>4. \A i, j \in 1..Len(Tail(all)) : Tail(all)[i] = Tail(all)[j] => i = j
    BY <1>3, <1>4, <2>2
  <2> QED  BY <1>1, <1>2, <1>3, <2>1, <2>2, <2>3, <2>4
<1>6. CASE Len(all) <= MaxTalks
  <2>1. ~(Len(all) > MaxTalks)  BY <1>1, <1>2, <1>3, <1>6
  <2>2. Touched(s) = all  BY <2>1 DEF Touched, all, rest
  <2> QED  BY <1>2, <1>3, <1>4, <1>6, <2>2
<1> QED  BY <1>1, <1>2, <1>3, <1>5, <1>6

(* A recording puts one state in place; of the others it only evicts some.   *)
LEMMA RecordParts ==
  ASSUME Typed, Listed, NEW s \in Talks, NEW c \in TalkStates, Record(s, c)
  PROVE  /\ Listed' /\ talk' \in [Talks -> TalkStates] /\ talk'[s] = c
         /\ \A x \in Talks \ {s} : talk'[x] \in {talk[x], FreshTalk}
<1>1. /\ recency' = Touched(s)
      /\ talk' = [x \in Talks |-> IF x = s THEN c
                          ELSE IF x \in Evicted(s) THEN FreshTalk ELSE talk[x]]
  BY DEF Record
<1>2. /\ talk' \in [Talks -> TalkStates] /\ talk'[s] = c
      /\ \A x \in Talks \ {s} :
           talk'[x] = IF x \in Evicted(s) THEN FreshTalk ELSE talk[x]
  BY <1>1, FreshType DEF Typed
<1>3. /\ recency' \in Seq(Talks) /\ Len(recency') <= MaxTalks
      /\ \A i, j \in 1..Len(recency') : recency'[i] = recency'[j] => i = j
      /\ s \in Held'
  <2>1. Held' = {Touched(s)[i] : i \in 1..Len(Touched(s))}  BY <1>1 DEF Held
  <2>2. /\ Touched(s) \in Seq(Talks) /\ Len(Touched(s)) <= MaxTalks
        /\ \A i, j \in 1..Len(Touched(s)) : Touched(s)[i] = Touched(s)[j] => i = j
        /\ \E i \in 1..Len(Touched(s)) : Touched(s)[i] = s
    BY TouchedParts
  <2>3. s \in Held'  BY <2>1, <2>2
  <2> QED  BY <1>1, <2>2, <2>3
<1>4. ASSUME NEW x \in Talks, x \notin Held' PROVE talk'[x] = FreshTalk
  <2>1. x # s  BY <1>3, <1>4
  <2>2. CASE x \in Held
    <3>1. x \in Evicted(s)  BY <1>1, <1>4, <2>2 DEF Evicted, Held
    <3> QED  BY <1>2, <2>1, <3>1
  <2>3. CASE x \notin Held
    <3>1. talk[x] = FreshTalk  BY <2>3 DEF Listed
    <3> QED  BY <1>2, <2>1, <3>1
  <2> QED  BY <2>2, <2>3
<1> QED  BY <1>2, <1>3, <1>4 DEF Listed

-----------------------------------------------------------------------------
(* Requests                                                                  *)

(* A request that moves on keeps what it refers to and answers.              *)
LEMMA MoveKeeps ==
  ASSUME Typed, NEW r \in Requests, NEW st \in Stages \ {"new"},
         \A x \in Requests : Coherent(req, x),
         st \in {"running", "paused", "resumed"} => req[r].talk \in Talks,
         req' = [req EXCEPT ![r].stage = st]
  PROVE  /\ req' \in [Requests -> RequestStates]
         /\ \A x \in Requests : Coherent(req', x)
         /\ \A c \in TalkStates, s \in Talks :
              Proper(req, c, s) => Proper(req', c, s)
<1>1. /\ req \in [Requests -> RequestStates]
      /\ req' = [req EXCEPT ![r] = [req[r] EXCEPT !.stage = st]]
  BY DEF Typed
<1> DEFINE moved == [req[r] EXCEPT !.stage = st]
<1>2. /\ moved \in RequestStates /\ moved.stage = st
      /\ moved.talk = req[r].talk /\ moved.owner = req[r].owner
      /\ moved.answers = req[r].answers /\ moved.target = req[r].target
  BY <1>1 DEF RequestStates
<1>3. req' = [req EXCEPT ![r] = moved]  BY <1>1
<1> HIDE DEF moved
<1>4. req' \in [Requests -> RequestStates]  BY <1>1, <1>2, <1>3
<1>5. \A x \in Requests :
        /\ req'[x].talk = req[x].talk /\ req'[x].owner = req[x].owner
        /\ req'[x].answers = req[x].answers /\ req'[x].target = req[x].target
        /\ req'[x].stage = IF x = r THEN st ELSE req[x].stage
  BY <1>1, <1>2, <1>3
<1>6. \A x \in Requests :
        /\ req[x].answers \in Requests \cup {NoRequest}
        /\ req[x].target \in Requests \cup {NoRequest}
  BY <1>1 DEF RequestStates
<1>7. ASSUME NEW x \in Requests PROVE Coherent(req', x)
  BY <1>5, <1>6 DEF Coherent
<1>8. ASSUME NEW c \in TalkStates, NEW s \in Talks, Proper(req, c, s)
      PROVE  Proper(req', c, s)
  BY <1>5, <1>8 DEF Proper, TalkStates
<1> QED  BY <1>4, <1>7, <1>8

(* A request that enters a session refers to what is there, and answers a    *)
(* question nobody has answered.                                             *)
LEMMA EntryKeeps ==
  ASSUME Typed, NEW r \in Requests, NEW e \in RequestStates,
         \A x \in Requests : Coherent(req, x),
         req[r].stage = "new", e.stage \in {"running", "ended"}, e.talk \in Talks,
         e.target # NoRequest =>
           req[e.target].stage # "new" /\ req[e.target].talk = e.talk,
         e.answers # NoRequest =>
           /\ req[e.answers].stage # "new" /\ req[e.answers].talk = e.talk
           /\ req[e.answers].owner = e.owner
           /\ \A q \in Requests : req[q].answers # e.answers,
         req' = [req EXCEPT ![r] = e]
  PROVE  /\ req' \in [Requests -> RequestStates]
         /\ \A x \in Requests : Coherent(req', x)
         /\ \A c \in TalkStates, s \in Talks :
              Proper(req, c, s) /\ (c["pending"] # NoRequest => c["pending"] # e.answers)
                => Proper(req', c, s)
<1>1. req \in [Requests -> RequestStates]  BY DEF Typed
<1>2. /\ req' \in [Requests -> RequestStates] /\ req'[r] = e
      /\ \A x \in Requests \ {r} : req'[x] = req[x]
  BY <1>1
<1>3. \A x \in Requests :
        /\ req[x].answers \in Requests \cup {NoRequest}
        /\ req[x].target \in Requests \cup {NoRequest}
  BY <1>1 DEF RequestStates
<1>4. /\ e.answers \in Requests \cup {NoRequest} /\ e.answers # r
      /\ e.target \in Requests \cup {NoRequest} /\ e.target # r
  BY PipelineAssumption DEF RequestStates
<1>5. \A x \in Requests : req[x].answers # r /\ req[x].target # r
  BY <1>3, PipelineAssumption DEF Coherent
<1>6. ASSUME NEW x \in Requests PROVE Coherent(req', x)
  <2>1. CASE x = r  BY <1>2, <1>4, <2>1 DEF Coherent
  <2>2. CASE x # r
    <3>1. Coherent(req, x) /\ req'[x] = req[x]  BY <1>2, <2>2
    <3>2. req[x].answers # NoRequest =>
            /\ req'[req[x].answers] = req[req[x].answers]
            /\ e.answers # req[x].answers
      BY <1>2, <1>3, <1>5
    <3>3. req[x].target # NoRequest => req'[req[x].target] = req[req[x].target]
      BY <1>2, <1>3, <1>5
    <3>4. req[x].answers # NoRequest =>
            \A q \in Requests : req'[q].answers = req[x].answers => q = x
      BY <1>2, <3>1, <3>2 DEF Coherent
    <3> QED  BY <3>1, <3>2, <3>3, <3>4 DEF Coherent
  <2> QED  BY <2>1, <2>2
<1>7. ASSUME NEW c \in TalkStates, NEW s \in Talks, Proper(req, c, s),
             c["pending"] # NoRequest => c["pending"] # e.answers
      PROVE  Proper(req', c, s)
  <2>1. \A f \in Slots : c[f] # NoRequest => c[f] \in Requests \ {r}
    BY <1>7 DEF Proper, TalkStates
  <2>2. \A f \in Slots : c[f] # NoRequest => req'[c[f]] = req[c[f]]
    BY <1>2, <2>1
  <2>3. c["pending"] # NoRequest => \A q \in Requests : req'[q].answers # c["pending"]
    BY <1>2, <1>7 DEF Proper
  <2> QED  BY <1>7, <2>2, <2>3 DEF Proper
<1> QED  BY <1>2, <1>6, <1>7

-----------------------------------------------------------------------------
(* The entry of a request                                                    *)

LEMMA Least ==
  ASSUME NEW S \in SUBSET Nat, S # {}
  PROVE  \E n \in S : \A m \in S : n <= m
<1>1. IsWellFoundedOn(OpToRel(<, Nat), Nat)  BY NatLessThanWellFounded
<1>2. PICK n \in S : \A m \in S : <<m, n>> \notin OpToRel(<, Nat)
  BY <1>1, WFMin
<1>3. \A m \in S : ~(m < n)  BY <1>2 DEF OpToRel
<1> QED  BY <1>3

(* A reference resolves to a field that is set.                              *)
LEMMA ResolvedParts ==
  ASSUME NEW ref \in Phrases, NEW c \in TalkStates, ResolvedField(ref, c) # NoText
  PROVE  ResolvedField(ref, c) \in Fields /\ c[ResolvedField(ref, c)] # NoRequest
<1>1. Preference(ref) \in Seq(Fields)
  <2> USE DEF Preference, Fields
  <2>1. CASE ref = "literal"  BY <2>1
  <2>2. CASE ref = "continue"  BY <2>2
  <2>3. CASE ref = "elaborate"  BY <2>3
  <2>4. CASE ref = "results"  BY <2>4
  <2>5. CASE ref = "above"  BY <2>5
  <2>6. CASE ref = "document"  BY <2>6
  <2>7. CASE ref = "save"  BY <2>7
  <2>8. CASE ref = "run"  BY <2>8
  <2>9. CASE ref = "it"  BY <2>9
  <2> QED
    BY <2>1, <2>2, <2>3, <2>4, <2>5, <2>6, <2>7, <2>8, <2>9, PipelineAssumption
       DEF KnownPhrases
<1>2. PICK fields \in Seq(Fields) : fields = Preference(ref)  BY <1>1
<1> DEFINE set == {i \in 1..Len(fields) : c[fields[i]] # NoRequest}
<1>  set \in SUBSET Nat  OBVIOUS
<1>3. PICK found \in SUBSET Nat : found = set  OBVIOUS
<1>4. ResolvedField(ref, c) =
        IF found = {} THEN NoText
        ELSE fields[CHOOSE i \in found : \A j \in found : i <= j]
  BY <1>2, <1>3 DEF ResolvedField
<1>5. found # {}  BY <1>4
<1>6. \E i \in found : \A j \in found : i <= j  BY <1>5, Least
<1>7. PICK i \in found : i = CHOOSE k \in found : \A j \in found : k <= j
  BY <1>6
<1>8. ResolvedField(ref, c) = fields[i]  BY <1>4, <1>5, <1>7
<1>9. i \in 1..Len(fields) /\ c[fields[i]] # NoRequest  BY <1>3
<1> QED  BY <1>8, <1>9

(* What the entry adds to the conversation is the request itself; it takes   *)
(* away at most the question, and does so when it answers it.                *)
LEMMA AfterEntryParts ==
  ASSUME Typed, NEW r \in Requests, NEW s \in Talks, NEW p \in Principals,
         NEW goal \in Goals
  PROVE  /\ AfterEntry(r, s, p, goal) \in TalkStates
         /\ \A f \in Slots :
              AfterEntry(r, s, p, goal)[f] \in {talk[s][f], r, NoRequest}
         /\ AfterEntry(r, s, p, goal)["pending"] =
              IF Available(talk[s], p) THEN NoRequest ELSE talk[s]["pending"]
<1>1. PICK c \in TalkStates : c = talk[s]  BY DEF Typed
<1>2. PICK d \in TalkStates :
        /\ d = Consumed(c, p) /\ \A f \in Slots \ {"pending"} : d[f] = c[f]
        /\ d["pending"] = IF Available(c, p) THEN NoRequest ELSE c["pending"]
  <2>1. CASE Available(c, p)
    <3>1. Consumed(c, p) = [c EXCEPT !["pending"] = NoRequest]
      BY <2>1 DEF Consumed
    <3> QED  BY <2>1, <3>1 DEF TalkStates, Slots
  <2>2. CASE ~Available(c, p)  BY <2>2 DEF Consumed
  <2> QED  BY <2>1, <2>2
<1>3. goal \in {"chat", "document", "code"}
  BY PipelineAssumption DEF Goals
<1>4. /\ Noted(d, r, goal) \in TalkStates
      /\ \A f \in Slots : Noted(d, r, goal)[f] \in {d[f], r, NoRequest}
      /\ Noted(d, r, goal)["pending"] = d["pending"]
  <2>1. CASE goal = "chat"  BY <2>1 DEF Noted, TalkStates, Slots, Fields
  <2>2. CASE goal = "document"  BY <2>2 DEF Noted, TalkStates, Slots, Fields
  <2>3. CASE goal = "code"  BY <2>3 DEF Noted, TalkStates, Slots, Fields
  <2> QED  BY <1>3, <2>1, <2>2, <2>3
<1>5. AfterEntry(r, s, p, goal) = Noted(d, r, goal)
  BY <1>1, <1>2 DEF AfterEntry, StateOf
<1> QED  BY <1>1, <1>2, <1>4, <1>5

LEMMA EnteredParts ==
  ASSUME Typed, Apart, NEW r \in Requests, NEW s \in Talks, NEW p \in Principals,
         NEW ref \in Phrases, req[r].stage = "new"
  PROVE  /\ Entered(r, s, p, ref) \in RequestStates
         /\ Entered(r, s, p, ref).talk = s
         /\ Entered(r, s, p, ref).answers =
              IF Available(talk[s], p) THEN talk[s]["pending"] ELSE NoRequest
         /\ Entered(r, s, p, ref).target # NoRequest =>
              /\ req[Entered(r, s, p, ref).target].stage # "new"
              /\ req[Entered(r, s, p, ref).target].talk = s
         /\ Entered(r, s, p, ref).answers # NoRequest =>
              /\ req[talk[s]["pending"]].stage # "new"
              /\ req[talk[s]["pending"]].talk = s
              /\ req[talk[s]["pending"]].owner = Entered(r, s, p, ref).owner
              /\ \A q \in Requests : req[q].answers # talk[s]["pending"]
<1>1. PICK c \in TalkStates : c = talk[s]  BY DEF Typed
<1>2. Proper(req, c, s)  BY <1>1 DEF Apart
<1>3. PICK field :
        /\ field = IF Available(c, p) THEN NoText ELSE ResolvedField(ref, c)
        /\ field # NoText => field \in Fields /\ c[field] # NoRequest
  BY ResolvedParts
<1>4. PICK a \in Requests \cup {NoRequest} :
        a = IF Available(c, p) THEN c["pending"] ELSE NoRequest
  BY DEF TalkStates, Slots
<1>5. PICK g \in Requests \cup {NoRequest} :
        /\ g = IF field = NoText THEN NoRequest ELSE c[field]
        /\ g # NoRequest => req[g].stage # "new" /\ req[g].talk = s
  BY <1>2, <1>3 DEF Proper, TalkStates, Slots
<1>6. Entered(r, s, p, ref) =
        [req[r] EXCEPT !.talk = s, !.owner = p, !.answers = a, !.target = g]
  BY <1>1, <1>3, <1>4, <1>5 DEF Entered, StateOf
<1>7. req[r] \in RequestStates  BY DEF Typed
<1>8. PICK e \in RequestStates :
        /\ e = Entered(r, s, p, ref) /\ e.talk = s /\ e.owner = p
        /\ e.answers = a /\ e.target = g
  BY <1>6, <1>7 DEF RequestStates
<1>9. a # NoRequest => /\ Available(c, p) /\ a = c["pending"]
                      /\ req[a].stage # "new" /\ req[a].talk = s /\ req[a].owner = p
                      /\ \A q \in Requests : req[q].answers # a
  <2>1. a # NoRequest => Available(c, p) /\ a = c["pending"]  BY <1>4
  <2>2. Available(c, p) => req[c["pending"]].owner = p  BY DEF Available
  <2> QED  BY <1>2, <2>1, <2>2 DEF Proper, Slots
<1> QED  BY <1>1, <1>4, <1>5, <1>8, <1>9

-----------------------------------------------------------------------------
(* The steps                                                                 *)

(* A recording keeps the conversations apart when what it puts in place is   *)
(* of its own session.                                                       *)
LEMMA RecordApart ==
  ASSUME Typed, Listed, NEW s \in Talks, NEW c \in TalkStates, Record(s, c),
         \A x \in Requests : Coherent(req', x), Proper(req', c, s),
         \A x \in Talks \ {s} : Proper(req', talk[x], x)
  PROVE  Listed' /\ talk' \in [Talks -> TalkStates] /\ Apart'
<1>1. /\ Listed' /\ talk' \in [Talks -> TalkStates] /\ talk'[s] = c
      /\ \A x \in Talks \ {s} : talk'[x] \in {talk[x], FreshTalk}
  BY RecordParts
<1>2. ASSUME NEW x \in Talks PROVE Proper(req', talk'[x], x)
  <2>1. CASE x = s  BY <1>1, <2>1
  <2>2. CASE x # s /\ talk'[x] = talk[x]  BY <2>2
  <2>3. CASE talk'[x] = FreshTalk  BY <2>3, FreshProper
  <2> QED  BY <1>1, <2>1, <2>2, <2>3
<1> QED  BY <1>1, <1>2 DEF Apart

(* Asks, Refuses and Starts.                                                 *)
LEMMA EntersApart ==
  ASSUME PipelineInv, NEW r \in Requests, NEW s \in Talks, NEW p \in Principals,
         NEW ref \in Phrases, NEW goal \in Goals,
         Asks(r, s, p, ref, goal) \/ Refuses(r, s, p, ref, goal)
           \/ Starts(r, s, p, ref, goal)
  PROVE  PipelineInv'
<1>1. /\ Typed /\ Listed /\ Apart /\ req[r].stage = "new" /\ UNCHANGED outcome
      /\ ShownIsFiltered /\ WithheldIsNotFormed
  BY DEF PipelineInv, Asks, Refuses, Starts
<1>2. PICK st \in {"running", "ended"} :
        req' = [req EXCEPT ![r] = [Entered(r, s, p, ref) EXCEPT !.stage = st]]
  BY DEF Asks, Refuses, Starts
<1>3. PICK e0 \in RequestStates : e0 = Entered(r, s, p, ref)
  BY <1>1, EnteredParts
<1>  [e0 EXCEPT !.stage = st] \in RequestStates  BY DEF RequestStates, Stages
<1>4. PICK e \in RequestStates :
        /\ e = [e0 EXCEPT !.stage = st] /\ e.stage = st /\ e.talk = e0.talk
        /\ e.owner = e0.owner /\ e.answers = e0.answers /\ e.target = e0.target
  BY DEF RequestStates
<1>5. /\ e.talk = s
      /\ e.answers = IF Available(talk[s], p) THEN talk[s]["pending"] ELSE NoRequest
      /\ e.target # NoRequest =>
           req[e.target].stage # "new" /\ req[e.target].talk = e.talk
      /\ e.answers # NoRequest =>
           /\ req[e.answers].stage # "new" /\ req[e.answers].talk = e.talk
           /\ req[e.answers].owner = e.owner
           /\ \A q \in Requests : req[q].answers # e.answers
  BY <1>1, <1>3, <1>4, EnteredParts
<1>6. req' = [req EXCEPT ![r] = e]  BY <1>2, <1>3, <1>4
<1>7. /\ req' \in [Requests -> RequestStates]
      /\ \A x \in Requests : Coherent(req', x)
      /\ \A c \in TalkStates, x \in Talks :
           Proper(req, c, x) /\ (c["pending"] # NoRequest => c["pending"] # e.answers)
             => Proper(req', c, x)
  BY <1>1, <1>4, <1>5, <1>6, EntryKeeps DEF Apart
<1>8. req'[r] = e  BY <1>1, <1>6 DEF Typed
<1>9. PICK c0 \in TalkStates :
        /\ c0 = AfterEntry(r, s, p, goal)
        /\ \A f \in Slots : c0[f] \in {talk[s][f], r, NoRequest}
        /\ c0["pending"] =
             IF Available(talk[s], p) THEN NoRequest ELSE talk[s]["pending"]
  BY <1>1, AfterEntryParts
<1>10. Proper(req, talk[s], s) /\ talk[s] \in TalkStates
  BY <1>1 DEF Apart, Typed
<1>11. \A q \in Requests : req'[q].answers # r
  <2>1. \A q \in Requests : req[q].answers # r
    BY <1>1, PipelineAssumption DEF Apart, Coherent, Typed, RequestStates
  <2>2. e.answers # r  BY <1>1, <1>5, PipelineAssumption
  <2> QED  BY <1>1, <1>6, <2>1, <2>2 DEF Typed
<1>12. \A f \in Slots : talk[s][f] # NoRequest =>
         req'[talk[s][f]].stage # "new" /\ req'[talk[s][f]].talk = s
  <2>1. \A f \in Slots : talk[s][f] # NoRequest =>
          talk[s][f] \in Requests \ {r}
    BY <1>1, <1>10 DEF Proper, TalkStates
  <2> QED  BY <1>1, <1>6, <1>10, <2>1 DEF Proper, Typed
<1>13. PICK c \in TalkStates :
        /\ c = c0 \/ c = [c0 EXCEPT !["pending"] = r]
        /\ Record(s, c)
  <2>1. CASE Asks(r, s, p, ref, goal)
    <3>1. [c0 EXCEPT !["pending"] = r] \in TalkStates  BY DEF TalkStates
    <3> QED  BY <1>9, <2>1, <3>1 DEF Asks
  <2>2. CASE ~Asks(r, s, p, ref, goal)  BY <1>9, <2>2 DEF Refuses, Starts
  <2> QED  BY <2>1, <2>2
<1>14. Proper(req', c, s)
  <2>1. \A f \in Slots : c[f] \in {talk[s][f], r, NoRequest}
    BY <1>9, <1>13 DEF TalkStates
  <2>2. \A f \in Slots : c[f] # NoRequest =>
          req'[c[f]].stage # "new" /\ req'[c[f]].talk = s
    BY <1>4, <1>5, <1>8, <1>12, <2>1
  <2>3. ASSUME c["pending"] # NoRequest
        PROVE  \A q \in Requests : req'[q].answers # c["pending"]
    <3>1. CASE c["pending"] = r  BY <1>11, <3>1
    <3>2. CASE c["pending"] # r
      <4>1. c["pending"] = c0["pending"]
        BY <1>13, <3>2 DEF TalkStates, Slots
      <4>2. ~Available(talk[s], p) /\ c["pending"] = talk[s]["pending"]
        BY <1>9, <2>3, <4>1
      <4>3. \A q \in Requests : req[q].answers # talk[s]["pending"]
        BY <1>10, <2>3, <4>2 DEF Proper
      <4>4. e.answers = NoRequest  BY <1>5, <4>2
      <4> QED  BY <1>1, <1>6, <2>3, <4>2, <4>3, <4>4 DEF Typed
    <3> QED  BY <3>1, <3>2
  <2> QED  BY <2>2, <2>3 DEF Proper
<1>15. ASSUME NEW x \in Talks \ {s} PROVE Proper(req', talk[x], x)
  <2>1. talk[x] \in TalkStates /\ Proper(req, talk[x], x)
    BY <1>1 DEF Typed, Apart
  <2>2. talk[x]["pending"] # NoRequest => req[talk[x]["pending"]].talk = x
    BY <2>1 DEF Proper, Slots
  <2>3. e.answers # NoRequest => req[e.answers].talk = s  BY <1>5
  <2> QED  BY <1>7, <2>1, <2>2, <2>3
<1>16. Listed' /\ talk' \in [Talks -> TalkStates] /\ Apart'
  BY <1>1, <1>7, <1>13, <1>14, <1>15, RecordApart
<1> QED
  BY <1>1, <1>7, <1>16
     DEF PipelineInv, Typed, ShownIsFiltered, WithheldIsNotFormed

(* What moves a request on and leaves the registry alone, or touches the     *)
(* state of its session.                                                     *)
LEMMA MovesApart ==
  ASSUME PipelineInv, NEW r \in Requests, NEW st \in Stages \ {"new"},
         st \in {"running", "paused", "resumed"} => req[r].talk \in Talks,
         req' = [req EXCEPT ![r].stage = st], UNCHANGED <<talk, recency, outcome>>
  PROVE  PipelineInv'
<1>1. /\ Typed /\ Listed /\ Apart /\ ShownIsFiltered /\ WithheldIsNotFormed
  BY DEF PipelineInv
<1>2. /\ req' \in [Requests -> RequestStates]
      /\ \A x \in Requests : Coherent(req', x)
      /\ \A c \in TalkStates, s \in Talks : Proper(req, c, s) => Proper(req', c, s)
  BY <1>1, MoveKeeps DEF Apart
<1>3. \A s \in Talks : Proper(req', talk'[s], s)
  BY <1>1, <1>2 DEF Apart, Typed
<1> QED
  BY <1>1, <1>2, <1>3
     DEF PipelineInv, Typed, Listed, Held, Apart, ShownIsFiltered, WithheldIsNotFormed

LEMMA ObservedParts ==
  ASSUME NEW c \in TalkStates, NEW r \in Requests, NEW kind \in Kinds,
         NEW path \in Paths
  PROVE  /\ Observed(c, r, kind, path) \in TalkStates
         /\ \A f \in Slots :
              Observed(c, r, kind, path)[f] \in {c[f], r, c["command"]}
         /\ Observed(c, r, kind, path)["pending"] = c["pending"]
<1> DEFINE with == IF path = NoText THEN c
                   ELSE [c EXCEPT ![path] = r, !["resource"] = r]
<1>1. path \in {"none", "document", "code"}
  BY PipelineAssumption DEF Paths, NoText
<1>2. /\ with \in TalkStates /\ with["pending"] = c["pending"]
      /\ \A f \in Slots : with[f] \in {c[f], r}
  BY <1>1 DEF TalkStates, Slots, Fields, NoText
<1>3. PICK d \in TalkStates :
        /\ d = with /\ d["pending"] = c["pending"]
        /\ \A f \in Slots : d[f] \in {c[f], r}
  BY <1>2
<1>4. CASE kind = "content"
  <2>1. Observed(c, r, kind, path) =
          IF c.results = NoRequest THEN [d EXCEPT !["text"] = r] ELSE d
    BY <1>3, <1>4 DEF Observed
  <2> QED  BY <1>3, <2>1 DEF TalkStates, Slots, Fields
<1>5. CASE kind = "search"
  <2>1. Observed(c, r, kind, path) =
          [d EXCEPT !["results"] = r, !["text"] = r, !["intent"] = c["command"]]
    BY <1>3, <1>5 DEF Observed
  <2> QED  BY <1>3, <2>1 DEF TalkStates, Slots, Fields
<1>6. CASE kind = "tool"
  <2>1. Observed(c, r, kind, path) = [d EXCEPT !["tool"] = r]
    BY <1>3, <1>6 DEF Observed
  <2> QED  BY <1>3, <2>1 DEF TalkStates, Slots, Fields
<1> QED  BY <1>4, <1>5, <1>6 DEF Kinds

(* What is shown and what is formed of an output.                            *)
LEMMA DeliversFiltered ==
  ASSUME NEW r, NEW kind \in Kinds, NEW class \in Classes, NEW path,
         Delivers(r, kind, class, path)
  PROVE  /\ outcome'.shown \in Classes \cup {NoText, "withheld", "redacted"}
         /\ outcome'.stored \in Classes \cup {NoText, "withheld"}
         /\ ShownIsFiltered' /\ WithheldIsNotFormed'
BY DEF Delivers, Filtered, Withheld, Formed, Classes, Kinds, NoText, ShownIsFiltered,
       WithheldIsNotFormed

(* Delivers and Pauses: a live request records into its own session.         *)
LEMMA RecordsOwn ==
  ASSUME PipelineInv, NEW r \in Requests, NEW st \in {"paused", "ended"},
         req[r].stage \in {"running", "resumed"},
         req' = [req EXCEPT ![r].stage = st],
         NEW c \in TalkStates, Record(req[r].talk, c),
         \A f \in Slots : c[f] \in {talk[req[r].talk][f], r, talk[req[r].talk]["command"]},
         c["pending"] = talk[req[r].talk]["pending"]
  PROVE  /\ req' \in [Requests -> RequestStates]
         /\ Listed' /\ talk' \in [Talks -> TalkStates] /\ Apart'
<1>1. /\ Typed /\ Listed /\ Apart
  BY DEF PipelineInv
<1>2. PICK s \in Talks : s = req[r].talk
  BY <1>1 DEF Apart, Coherent
<1>3. /\ req' \in [Requests -> RequestStates]
      /\ \A x \in Requests : Coherent(req', x)
      /\ \A d \in TalkStates, x \in Talks : Proper(req, d, x) => Proper(req', d, x)
  BY <1>1, <1>2, MoveKeeps DEF Apart, Stages
<1>4. \A x \in Talks : talk[x] \in TalkStates /\ Proper(req', talk[x], x)
  BY <1>1, <1>3 DEF Apart, Typed
<1>5. req'[r].stage = st /\ req'[r].talk = s
  BY <1>1, <1>2 DEF Typed, RequestStates
<1>6. Proper(req', c, s)
  BY <1>2, <1>4, <1>5 DEF Proper, Slots, Fields
<1> QED  BY <1>1, <1>2, <1>3, <1>4, <1>6, RecordApart

LEMMA PipelineStep == PipelineInv /\ [PipelineNext]_pipelineVars => PipelineInv'
<1> SUFFICES ASSUME PipelineInv, [PipelineNext]_pipelineVars PROVE PipelineInv'
  OBVIOUS
<1>1. /\ Typed /\ Listed /\ Apart /\ ShownIsFiltered /\ WithheldIsNotFormed
  BY DEF PipelineInv
<1>2. ASSUME NEW r \in Requests, Blocked(r) \/ Raises(r) PROVE PipelineInv'
  BY <1>2, MovesApart DEF Blocked, Raises, Ended, Stages
<1>3. ASSUME NEW r \in Requests, Resumes(r) PROVE PipelineInv'
  <2>1. req[r].talk \in Talks  BY <1>1, <1>3 DEF Resumes, Apart, Coherent
  <2> QED  BY <1>3, <2>1, MovesApart DEF Resumes, Stages
<1>4. ASSUME NEW r \in Requests, Pauses(r) PROVE PipelineInv'
  <2>1. req[r].talk \in Talks  BY <1>1, <1>4 DEF Pauses, Apart, Coherent
  <2>2. PICK c \in TalkStates : c = talk[req[r].talk]  BY <1>1, <2>1 DEF Typed
  <2>3. /\ req' \in [Requests -> RequestStates]
        /\ Listed' /\ talk' \in [Talks -> TalkStates] /\ Apart'
    BY <1>4, <2>2, RecordsOwn DEF Pauses, StateOf
  <2>4. UNCHANGED outcome  BY <1>4 DEF Pauses
  <2> QED
    BY <1>1, <2>3, <2>4 DEF PipelineInv, Typed, ShownIsFiltered, WithheldIsNotFormed
<1>5. ASSUME NEW r \in Requests, NEW kind \in Kinds, NEW class \in Classes,
             NEW path \in Paths,
             Completes(r, kind, class, path) \/ CompletesResumed(r, kind, class, path)
      PROVE  PipelineInv'
  <2>1. /\ req[r].stage \in {"running", "resumed"} /\ Delivers(r, kind, class, path)
    BY <1>5 DEF Completes, CompletesResumed
  <2>2. req[r].talk \in Talks  BY <1>1, <2>1 DEF Apart, Coherent
  <2>3. PICK c \in TalkStates :
          /\ c = Observed(talk[req[r].talk], r, kind, path)
          /\ \A f \in Slots : c[f] \in {talk[req[r].talk][f], r,
                                       talk[req[r].talk]["command"]}
          /\ c["pending"] = talk[req[r].talk]["pending"]
    BY <1>1, <2>2, ObservedParts DEF Typed
  <2>4. Record(req[r].talk, c) /\ req' = [req EXCEPT ![r].stage = "ended"]
    BY <2>1, <2>3 DEF Delivers, StateOf, Ended
  <2>5. /\ req' \in [Requests -> RequestStates]
        /\ Listed' /\ talk' \in [Talks -> TalkStates] /\ Apart'
    BY <2>1, <2>3, <2>4, RecordsOwn
  <2> QED  BY <2>1, <2>5, DeliversFiltered DEF PipelineInv, Typed
<1>6. ASSUME NEW s \in Talks, Forget(s) PROVE PipelineInv'
  <2>1. /\ UNCHANGED <<req, outcome>> /\ s \in Held /\ recency' = Others(s)
        /\ talk' = [talk EXCEPT ![s] = FreshTalk]
    BY <1>6 DEF Forget
  <2>2. /\ Others(s) \in Seq(Talks) /\ Len(Others(s)) = Len(recency) - 1
        /\ \A i, j \in 1..Len(Others(s)) : Others(s)[i] = Others(s)[j] => i = j
        /\ {Others(s)[i] : i \in 1..Len(Others(s))} = Held \ {s}
    BY <1>1, <2>1, OthersParts DEF Listed
  <2>3. /\ talk' \in [Talks -> TalkStates] /\ talk'[s] = FreshTalk
        /\ \A x \in Talks \ {s} : talk'[x] = talk[x]
    BY <1>1, <2>1, FreshType DEF Typed
  <2>4. Held' = Held \ {s}  BY <2>1, <2>2 DEF Held
  <2>5. Listed'
    <3>1. recency' \in Seq(Talks) /\ Len(recency') <= MaxTalks
      BY <1>1, <2>1, <2>2, PipelineAssumption DEF Listed
    <3>2. \A x \in Talks : x \notin Held' => talk'[x] = FreshTalk
      BY <1>1, <2>3, <2>4 DEF Listed
    <3> QED  BY <2>1, <2>2, <3>1, <3>2 DEF Listed
  <2>6. Apart'  BY <1>1, <2>1, <2>3, FreshProper DEF Apart
  <2> QED
    BY <1>1, <2>1, <2>3, <2>5, <2>6
       DEF PipelineInv, Typed, ShownIsFiltered, WithheldIsNotFormed
<1>7. ASSUME NEW s \in Talks, Lapse(s) PROVE PipelineInv'
  <2>1. /\ UNCHANGED <<req, recency, outcome>>
        /\ talk' = [talk EXCEPT ![s] = [talk[s] EXCEPT !["pending"] = NoRequest]]
    BY <1>7 DEF Lapse
  <2>  [talk[s] EXCEPT !["pending"] = NoRequest] \in TalkStates
    BY <1>1 DEF Typed, TalkStates
  <2>2. PICK c \in TalkStates :
          /\ c = [talk[s] EXCEPT !["pending"] = NoRequest]
          /\ c["pending"] = NoRequest
          /\ \A f \in Slots : c[f] \in {talk[s][f], NoRequest}
    BY <1>1 DEF Typed, TalkStates, Slots
  <2>3. /\ talk' \in [Talks -> TalkStates] /\ talk'[s] = c
        /\ \A x \in Talks \ {s} : talk'[x] = talk[x]
    BY <1>1, <2>1, <2>2 DEF Typed
  <2>4. Proper(req, c, s)  BY <1>1, <2>2 DEF Apart, Proper
  <2>5. Apart'  BY <1>1, <2>1, <2>3, <2>4 DEF Apart
  <2>6. Listed'
    <3>1. \A x \in Talks : x \notin Held => talk'[x] = FreshTalk
      <4> SUFFICES ASSUME talk[s] = FreshTalk PROVE c = FreshTalk
        BY <1>1, <2>3 DEF Listed
      <4> QED  BY <2>2, FreshType DEF FreshTalk, TalkStates, Slots
    <3> QED  BY <1>1, <2>1, <3>1 DEF Listed, Held
  <2> QED
    BY <1>1, <2>1, <2>3, <2>5, <2>6
       DEF PipelineInv, Typed, ShownIsFiltered, WithheldIsNotFormed
<1>8. CASE UNCHANGED pipelineVars
  BY <1>1, <1>8
     DEF pipelineVars, PipelineInv, Typed, Listed, Held, Apart, ShownIsFiltered,
         WithheldIsNotFormed
<1> QED
  BY <1>2, <1>3, <1>4, <1>5, <1>6, <1>7, <1>8, EntersApart DEF PipelineNext

(* The invariant of the pipeline: what a session remembers came from its own *)
(* requests, an open question has no answer, and the registry lists what is  *)
(* not fresh.                                                                *)
THEOREM PipelineInvariance == PipelineSpec => []PipelineInv
BY PipelineBegins, PipelineStep, PTL DEF PipelineSpec

(* However many requests of however many sessions and principals overlap,    *)
(* pause and resume, and whatever is evicted meanwhile: a reference resolves *)
(* within its session, a question is answered once by who was asked, and     *)
(* what a filter withheld is neither shown nor formed into memory.           *)
THEOREM PipelineIsSafe == PipelineSpec => []PipelineSafe
<1>1. PipelineInv => PipelineSafe
  <2> SUFFICES ASSUME PipelineInv PROVE PipelineSafe  OBVIOUS
  <2>1. Typed /\ Listed /\ Apart  BY DEF PipelineInv
  <2>2. ReferencesStayInSession
    BY <2>1 DEF ReferencesStayInSession, Apart, Coherent
  <2>3. AnsweredOnceByItsOwner
    BY <2>1 DEF AnsweredOnceByItsOwner, Apart, Coherent
  <2>4. PipelineTypeOK
    BY <2>1
       DEF PipelineTypeOK, Typed, Listed, Held, RequestStates, TalkStates, Stages, Slots
  <2> QED  BY <2>2, <2>3, <2>4 DEF PipelineInv, PipelineSafe
<1> QED  BY <1>1, PipelineInvariance, PTL

-----------------------------------------------------------------------------
(* The evidence trail: for any number of processes, executions, plugins    *)
(* and events.                                                             *)

CallShapes ==
  [at: {"free", "want", "read", "insert", "delete"}, trails: SUBSET Trails,
   todo: Seq(Statuses), next: Nat]
EventShapes == [n: Nat, status: Statuses]
SummaryShapes == [total: Nat, final: Verdicts \cup {"none"}, old: BOOLEAN]

TrailTyped ==
  /\ verdict \in [Executions -> Verdicts \cup {"open"}]
  /\ cancelling \subseteq Executions /\ overtaken \subseteq Executions
  /\ events \in [Trails -> SUBSET EventShapes]
  /\ summary \in [Trails -> SummaryShapes]
  /\ call \in [Processes -> CallShapes]
  /\ holder \in Processes \cup {NoProcess}
  /\ \A p \in Processes : /\ call[p].at \in {"read", "insert"} <=> holder = p
                          /\ call[p].at = "free" => call[p] = Free

(* A status that ends an execution is its verdict, unless the cancellation *)
(* that says so was overtaken.  (v and late stand for verdict and          *)
(* overtaken, or for their next values.)                                   *)
Truthful(v, late, t, s) ==
  t \in Executions /\ s \in Verdicts => v[t] # "open" /\ (t \in late \/ s = v[t])

(* A process appends to one trail, the number after its last; what it      *)
(* deletes has ended.                                                      *)
CallOK(v, late, sm, k) ==
  /\ k.at \in {"want", "read", "insert"} =>
       \E t \in Trails :
         /\ k.trails = {t} /\ k.todo # <<>>
         /\ \A i \in 1..Len(k.todo) : Truthful(v, late, t, k.todo[i])
         /\ k.at = "insert" => k.next = sm[t].total + 1
  /\ k.at = "delete" => \A e \in k.trails \cap Executions : v[e] # "open"

TrailOK(v, late, ev, sm, t) ==
  /\ IsFiniteSet(ev) /\ {x.n : x \in ev} = 1..sm.total /\ Cardinality(ev) = sm.total
  /\ Truthful(v, late, t, sm.final)

(* Whom a cancellation still waits for has no verdict, or was overtaken.   *)
VerdictsOK(v, waits, late) ==
  /\ \A e \in late : v[e] # "open"
  /\ \A e \in waits : v[e] # "open" => e \in late

TrailInv ==
  /\ TrailTyped /\ VerdictsOK(verdict, cancelling, overtaken)
  /\ \A t \in Trails : TrailOK(verdict, overtaken, events[t], summary[t], t)
  /\ \A p \in Processes : CallOK(verdict, overtaken, summary, call[p])

Forgets == \A e \in Executions : events[e] # {} /\ events'[e] = {} => verdict[e] # "open"

LEMMA FreeShape ==
  /\ Free \in CallShapes /\ Free.at = "free"
  /\ \A v, late, sm : CallOK(v, late, sm, Free)
<1>1. Free \in CallShapes /\ Free.at = "free"  BY DEF Free, CallShapes
<1>2. \A v, late, sm : CallOK(v, late, sm, Free)  BY <1>1 DEF CallOK
<1> QED  BY <1>1, <1>2

(* Verdicts are final and overtaken executions stay so.                    *)
LEMMA StaysTruthful ==
  ASSUME NEW v, NEW late, NEW w, NEW later,
         \A e \in Executions : v[e] # "open" => w[e] = v[e], late \subseteq later
  PROVE  /\ \A t, s : Truthful(v, late, t, s) => Truthful(w, later, t, s)
         /\ \A sm, k : k.trails \subseteq Trails /\ CallOK(v, late, sm, k) => CallOK(w, later, sm, k)
         /\ \A ev, sm, t : TrailOK(v, late, ev, sm, t) => TrailOK(w, later, ev, sm, t)
<1>1. \A t, s : Truthful(v, late, t, s) => Truthful(w, later, t, s)
  BY DEF Truthful
<1>2. ASSUME NEW sm, NEW k, CallOK(v, late, sm, k)
      PROVE  CallOK(w, later, sm, k)
  BY <1>1, <1>2 DEF CallOK
<1>3. ASSUME NEW ev, NEW sm, NEW t, TrailOK(v, late, ev, sm, t)
      PROVE  TrailOK(w, later, ev, sm, t)
  BY <1>1, <1>3 DEF TrailOK
<1> QED  BY <1>1, <1>2, <1>3

(* A call k for p, where events, summaries and verdicts are as they were.  *)
LEMMA CallsKeep ==
  ASSUME TrailInv, NEW p \in Processes, NEW k \in CallShapes,
         call' = [call EXCEPT ![p] = k], CallOK(verdict, overtaken, summary, k),
         k.at = "free" => k = Free,
         holder' \in Processes \cup {NoProcess},
         k.at \in {"read", "insert"} <=> holder' = p,
         \A q \in Processes \ {p} : holder' = q <=> holder = q,
         UNCHANGED <<verdict, cancelling, overtaken, events, summary>>
  PROVE  TrailInv' /\ Forgets
<1>1. /\ call' \in [Processes -> CallShapes] /\ call'[p] = k
      /\ \A q \in Processes \ {p} : call'[q] = call[q]
  BY DEF TrailInv, TrailTyped
<1>2. TrailTyped'  BY <1>1 DEF TrailInv, TrailTyped
<1>3. \A q \in Processes : CallOK(verdict, overtaken, summary, call[q])'
  BY <1>1 DEF TrailInv
<1> QED  BY <1>2, <1>3 DEF TrailInv, Forgets

(* An emitter, with what it has made of verdicts and cancellations.        *)
LEMMA EmitsKeep ==
  ASSUME TrailInv, NEW p \in Processes, NEW t \in Trails, NEW todo \in Seq(Statuses),
         todo # <<>>, Emits(p, t, todo),
         verdict' \in [Executions -> Verdicts \cup {"open"}],
         \A e \in Executions : verdict[e] # "open" => verdict'[e] = verdict[e],
         cancelling' \subseteq Executions, overtaken' \subseteq Executions,
         overtaken \subseteq overtaken',
         VerdictsOK(verdict, cancelling, overtaken)',
         \A i \in 1..Len(todo) : Truthful(verdict', overtaken', t, todo[i])
  PROVE  TrailInv' /\ Forgets
<1>1. PICK k \in CallShapes :
        k = [at |-> "want", trails |-> {t}, todo |-> todo, next |-> 0]
  BY DEF CallShapes
<1>2. /\ call[p] = Free /\ call' = [call EXCEPT ![p] = k]
      /\ UNCHANGED <<events, summary, holder>>
  BY <1>1 DEF Emits
<1>3. /\ call' \in [Processes -> CallShapes] /\ call'[p] = k
      /\ \A q \in Processes \ {p} : call'[q] = call[q]
  BY <1>2 DEF TrailInv, TrailTyped
<1>4. k.at = "want" /\ k.trails = {t} /\ k.todo = todo  BY <1>1
<1>5. TrailTyped'
  BY <1>2, <1>3, <1>4, FreeShape DEF TrailInv, TrailTyped
<1>6. CallOK(verdict', overtaken', summary', k)
  BY <1>2, <1>4 DEF CallOK
<1>7. \A q \in Processes \ {p} : CallOK(verdict', overtaken', summary', call'[q])
  <2> TAKE q \in Processes \ {p}
  <2>1. CallOK(verdict, overtaken, summary, call[q]) /\ call[q].trails \subseteq Trails
    BY DEF TrailInv, TrailTyped, CallShapes
  <2>2. CallOK(verdict', overtaken', summary, call[q])  BY <2>1, StaysTruthful
  <2> QED  BY <1>2, <1>3, <2>2
<1>8. \A x \in Trails : TrailOK(verdict', overtaken', events'[x], summary'[x], x)
  BY <1>2, StaysTruthful DEF TrailInv
<1> QED  BY <1>2, <1>3, <1>5, <1>6, <1>7, <1>8 DEF TrailInv, Forgets

LEMMA ProgressKeeps ==
  ASSUME TrailInv, NEW e \in Executions, EmitsProgress(e)
  PROVE  TrailInv' /\ Forgets
<1>1. e \in Trails /\ RunBy[e] \in Processes
  BY EvidenceAssumption DEF Trails
<1>2. <<"running">> \in Seq(Statuses) /\ <<"running">> # <<>>
  BY DEF Statuses
<1>3. \A i \in 1..Len(<<"running">>) :
        Truthful(verdict', overtaken', e, <<"running">>[i])
  BY DEF Truthful, Verdicts
<1> QED
  BY <1>1, <1>2, <1>3, EmitsKeep DEF EmitsProgress, TrailInv, TrailTyped, VerdictsOK

LEMMA PluginKeeps ==
  ASSUME TrailInv, NEW p \in Processes, NEW k \in PluginKeys,
         NEW s \in {"active", "failed"}, EmitsPlugin(p, k, s)
  PROVE  TrailInv' /\ Forgets
<1>1. k \in Trails /\ k \notin Executions
  BY EvidenceAssumption DEF Trails
<1>2. <<s>> \in Seq(Statuses) /\ <<s>> # <<>>
  BY DEF Statuses, Verdicts
<1>3. \A i \in 1..Len(<<s>>) : Truthful(verdict', overtaken', k, <<s>>[i])
  BY <1>1 DEF Truthful
<1> QED
  BY <1>1, <1>2, <1>3, EmitsKeep DEF EmitsPlugin, TrailInv, TrailTyped, VerdictsOK

(* Statuses that are all one verdict of e, given or overtaken.             *)
LEMMA SameStatus ==
  ASSUME NEW e \in Executions, NEW s \in Verdicts, NEW v, NEW late,
         Truthful(v, late, e, s)
  PROVE  \A todo \in {<<s>>, <<s, s>>} :
           /\ todo \in Seq(Statuses) /\ todo # <<>>
           /\ \A i \in 1..Len(todo) : Truthful(v, late, e, todo[i])
<1>1. s \in Statuses  BY DEF Statuses
<1>2. <<s>> \in Seq(Statuses) /\ <<s, s>> \in Seq(Statuses)  BY <1>1
<1>3. \A todo \in {<<s>>, <<s, s>>} : \A i \in 1..Len(todo) : todo[i] = s
  OBVIOUS
<1>4. <<s>> # <<>> /\ <<s, s>> # <<>>  OBVIOUS
<1>5. ASSUME NEW todo \in {<<s>>, <<s, s>>}
      PROVE  \A i \in 1..Len(todo) : Truthful(v, late, e, todo[i])
  BY <1>3
<1> QED  BY <1>2, <1>4, <1>5

LEMMA SettledKeeps ==
  ASSUME TrailInv, NEW e \in Executions, NEW s \in Verdicts, Settled(e, s)
  PROVE  TrailInv' /\ Forgets
<1>1. e \in Trails /\ RunBy[e] \in Processes  BY EvidenceAssumption DEF Trails
<1>2. /\ verdict[e] = "open" /\ verdict' = [verdict EXCEPT ![e] = s]
      /\ overtaken' = overtaken \cup ({e} \cap cancelling)
      /\ UNCHANGED cancelling
  BY DEF Settled
<1>3. /\ verdict' \in [Executions -> Verdicts \cup {"open"}] /\ verdict'[e] = s
      /\ \A x \in Executions \ {e} : verdict'[x] = verdict[x]
      /\ s # "open"
  BY <1>2 DEF TrailInv, TrailTyped, Verdicts
<1>4. Truthful(verdict', overtaken', e, s)  BY <1>3 DEF Truthful
<1>5. PICK todo \in {<<s>>, <<s, s>>} : Emits(RunBy[e], e, todo)
  BY DEF Settled
<1>6. /\ todo \in Seq(Statuses) /\ todo # <<>>
      /\ \A i \in 1..Len(todo) : Truthful(verdict', overtaken', e, todo[i])
  BY <1>4, SameStatus
<1>7. /\ overtaken' \subseteq Executions /\ cancelling' \subseteq Executions
      /\ overtaken \subseteq overtaken'
      /\ VerdictsOK(verdict', cancelling', overtaken')
  BY <1>2, <1>3 DEF TrailInv, TrailTyped, VerdictsOK
<1>8. \A x \in Executions : verdict[x] # "open" => verdict'[x] = verdict[x]
  BY <1>2, <1>3
<1> QED  BY <1>1, <1>3, <1>5, <1>6, <1>7, <1>8, EmitsKeep

LEMMA CancelKeeps ==
  ASSUME TrailInv, NEW e \in Executions, StartsCancel(e) \/ EndsCancel(e)
  PROVE  TrailInv' /\ Forgets
<1>1. CASE StartsCancel(e)
  <2>1. /\ cancelling' = cancelling \cup {e} /\ verdict[e] = "open"
        /\ UNCHANGED <<verdict, overtaken, events, summary, holder, call>>
    BY <1>1 DEF StartsCancel
  <2>2. TrailTyped'  BY <2>1 DEF TrailInv, TrailTyped
  <2>3. VerdictsOK(verdict, cancelling, overtaken)'
    BY <2>1 DEF TrailInv, VerdictsOK
  <2> QED  BY <2>1, <2>2, <2>3 DEF TrailInv, Forgets
<1>2. CASE EndsCancel(e)
  <2>1. e \in Trails /\ RunBy[e] \in Processes  BY EvidenceAssumption DEF Trails
  <2>2. e \in cancelling /\ cancelling' = cancelling \ {e} /\ UNCHANGED overtaken
    BY <1>2 DEF EndsCancel
  <2>3. "cancelled" \in Verdicts /\ "cancelled" # "open"  BY DEF Verdicts
  <2>4. /\ verdict' \in [Executions -> Verdicts \cup {"open"}]
        /\ \A x \in Executions : verdict[x] # "open" => verdict'[x] = verdict[x]
        /\ \A x \in Executions \ {e} : verdict'[x] = verdict[x]
        /\ Truthful(verdict', overtaken', e, "cancelled")
    <3>1. CASE verdict[e] = "open"
      <4>1. verdict' = [verdict EXCEPT ![e] = "cancelled"]
        BY <1>2, <3>1 DEF EndsCancel
      <4>2. verdict'[e] = "cancelled"  BY <4>1 DEF TrailInv, TrailTyped
      <4> QED  BY <2>3, <3>1, <4>1, <4>2 DEF TrailInv, TrailTyped, Truthful
    <3>2. CASE verdict[e] # "open"
      <4>1. verdict' = verdict  BY <1>2, <3>2 DEF EndsCancel
      <4>2. e \in overtaken  BY <2>2, <3>2 DEF TrailInv, VerdictsOK
      <4> QED  BY <2>2, <3>2, <4>1, <4>2 DEF TrailInv, TrailTyped, Truthful
    <3> QED  BY <3>1, <3>2
  <2>5. PICK todo \in {<<"cancelled">>, <<"cancelled", "cancelled">>} :
          Emits(RunBy[e], e, todo)
    BY <1>2 DEF EndsCancel
  <2>6. /\ todo \in Seq(Statuses) /\ todo # <<>>
        /\ \A i \in 1..Len(todo) : Truthful(verdict', overtaken', e, todo[i])
    BY <2>3, <2>4, SameStatus
  <2>7. /\ overtaken' \subseteq Executions /\ cancelling' \subseteq Executions
        /\ overtaken \subseteq overtaken'
        /\ VerdictsOK(verdict', cancelling', overtaken')
    BY <2>2, <2>4 DEF TrailInv, TrailTyped, VerdictsOK
  <2> QED  BY <2>1, <2>4, <2>5, <2>6, <2>7, EmitsKeep
<1> QED  BY <1>1, <1>2

-----------------------------------------------------------------------------
(* The store                                                               *)

LEMMA BeginsKeeps ==
  ASSUME TrailInv, NEW p \in Processes,
         Begin(p) \/ ReadsNext(p) \/ EmitFails(p) \/ SelectsExpired(p)
  PROVE  TrailInv' /\ Forgets
<1>1. call[p] \in CallShapes /\ NoProcess \notin Processes
  BY EvidenceAssumption DEF TrailInv, TrailTyped
<1>2. CASE Begin(p)
  <2>1. PICK k \in CallShapes : k = [call[p] EXCEPT !.at = "read"]
    BY <1>1 DEF CallShapes
  <2>2. /\ k.at = "read" /\ k.trails = call[p].trails /\ k.todo = call[p].todo
    BY <1>1, <2>1 DEF CallShapes
  <2>3. /\ call[p].at = "want" /\ holder = NoProcess /\ holder' = p
        /\ call' = [call EXCEPT ![p] = k]
        /\ UNCHANGED <<verdict, cancelling, overtaken, events, summary>>
    BY <1>2, <2>1 DEF Begin
  <2>4. CallOK(verdict, overtaken, summary, k)
    BY <2>2, <2>3 DEF TrailInv, CallOK
  <2> QED  BY <1>1, <2>2, <2>3, <2>4, CallsKeep
<1>3. CASE ReadsNext(p)
  <2>1. /\ call[p].at = "read"
        /\ UNCHANGED <<verdict, cancelling, overtaken, events, summary, holder>>
    BY <1>3 DEF ReadsNext
  <2>2. PICK t \in Trails :
          /\ call[p].trails = {t} /\ call[p].todo # <<>>
          /\ \A i \in 1..Len(call[p].todo) :
                Truthful(verdict, overtaken, t, call[p].todo[i])
    BY <2>1 DEF TrailInv, CallOK
  <2>3. /\ {x.n : x \in events[t]} = 1..summary[t].total /\ summary[t].total \in Nat
    BY DEF TrailInv, TrailOK, TrailTyped, SummaryShapes
  <2> DEFINE most == CHOOSE n \in {x.n : x \in events[t]} \cup {0} :
                       \A m \in {x.n : x \in events[t]} : m <= n
  <2>4. call' = [call EXCEPT ![p].at = "insert", ![p].next = most + 1]
    BY <1>3, <2>2 DEF ReadsNext
  <2>5. most = summary[t].total
    <3>1. summary[t].total \in (1..summary[t].total) \cup {0}  BY <2>3
    <3>2. \A m \in 1..summary[t].total : m <= summary[t].total  BY <2>3
    <3>3. /\ most \in (1..summary[t].total) \cup {0}
          /\ \A m \in 1..summary[t].total : m <= most
      BY <2>3, <3>1, <3>2
    <3> HIDE DEF most
    <3> QED  BY <2>3, <3>3
  <2> HIDE DEF most
  <2>6. PICK n \in Nat : n = summary[t].total + 1  BY <2>3
  <2>7. PICK k \in CallShapes : k = [call[p] EXCEPT !.at = "insert", !.next = n]
    BY <1>1 DEF CallShapes
  <2>8. /\ k.at = "insert" /\ k.trails = call[p].trails /\ k.todo = call[p].todo
        /\ k.next = summary[t].total + 1
    BY <1>1, <2>6, <2>7 DEF CallShapes
  <2>9. call' = [call EXCEPT ![p] = k]  BY <2>4, <2>5, <2>6, <2>7
  <2>10. CallOK(verdict, overtaken, summary, k)  BY <2>2, <2>8 DEF CallOK
  <2>11. holder' = p /\ holder = p  BY <2>1 DEF TrailInv, TrailTyped
  <2> QED  BY <2>1, <2>8, <2>9, <2>10, <2>11, CallsKeep
<1>4. CASE EmitFails(p)
  <2>1. /\ call[p].at \in {"want", "read", "insert"}
        /\ call' = [call EXCEPT ![p] = Free]
        /\ holder' = IF holder = p THEN NoProcess ELSE holder
        /\ UNCHANGED <<verdict, cancelling, overtaken, events, summary>>
    BY <1>4 DEF EmitFails
  <2>2. /\ holder' \in Processes \cup {NoProcess} /\ holder' # p
        /\ \A q \in Processes \ {p} : holder' = q <=> holder = q
    BY <1>1, <2>1 DEF TrailInv, TrailTyped
  <2> QED  BY <2>1, <2>2, FreeShape, CallsKeep
<1>5. CASE SelectsExpired(p)
  <2>1. /\ call[p] = Free
        /\ call' = [call EXCEPT ![p] = [Free EXCEPT !.at = "delete", !.trails = Outdated]]
        /\ UNCHANGED <<verdict, cancelling, overtaken, events, summary, holder>>
    BY <1>5 DEF SelectsExpired
  <2>2. PICK f \in CallShapes : f = Free  BY FreeShape
  <2>3. PICK k \in CallShapes : /\ k = [Free EXCEPT !.at = "delete", !.trails = Outdated]
                               /\ k.at = "delete" /\ k.trails = Outdated
    <3>1. PICK old \in SUBSET Trails : old = Outdated  BY DEF Outdated
    <3>2. PICK k \in CallShapes : k = [f EXCEPT !.at = "delete", !.trails = old]
      BY DEF CallShapes
    <3>3. k.at = "delete" /\ k.trails = old  BY <3>2 DEF CallShapes
    <3> QED  BY <2>2, <3>1, <3>2, <3>3
  <2>4. \A e \in Outdated \cap Executions : verdict[e] # "open"
    <3> TAKE e \in Outdated \cap Executions
    <3>1. summary[e].final # "none" /\ e \in Trails  BY DEF Outdated
    <3>2. summary[e].final \in Verdicts
      BY <3>1 DEF TrailInv, TrailTyped, SummaryShapes
    <3> QED  BY <3>1, <3>2 DEF TrailInv, TrailOK, Truthful
  <2>5. CallOK(verdict, overtaken, summary, k)  BY <2>3, <2>4 DEF CallOK
  <2>6. holder' = holder /\ holder # p
    BY <2>1, FreeShape DEF TrailInv, TrailTyped
  <2>7. holder \in Processes \cup {NoProcess}  BY DEF TrailInv, TrailTyped
  <2> QED  BY <2>1, <2>3, <2>5, <2>6, <2>7, CallsKeep
<1> QED  BY <1>2, <1>3, <1>4, <1>5

LEMMA LongTail ==
  ASSUME NEW S, NEW q \in Seq(S), Len(q) > 1
  PROVE  /\ Tail(q) \in Seq(S) /\ Len(Tail(q)) = Len(q) - 1 /\ Tail(q) # <<>>
         /\ \A i \in 1..Len(Tail(q)) : Tail(q)[i] = q[i + 1]
<1>1. /\ Tail(q) \in Seq(S) /\ Len(Tail(q)) = Len(q) - 1
      /\ \A i \in 1..Len(Tail(q)) : Tail(q)[i] = q[i + 1]
  OBVIOUS
<1>2. Len(Tail(q)) # 0
  <2>0. Len(q) \in Nat /\ Len(Tail(q)) \in Nat  BY <1>1
  <2>1. PICK n, m \in Nat : n = Len(q) /\ m = Len(Tail(q))  BY <2>0
  <2>2. n > 1 /\ m = n - 1  BY <1>1, <2>1
  <2>3. m # 0  BY <2>2
  <2> QED  BY <2>1, <2>3
<1>3. Tail(q) # <<>>
  <2>1. Len(<<>>) = 0  OBVIOUS
  <2> QED  BY <1>2, <2>1
<1> QED  BY <1>1, <1>3

LEMMA InsertsKeeps ==
  ASSUME TrailInv, NEW p \in Processes, Inserts(p)
  PROVE  TrailInv' /\ Forgets
<1>1. call[p] \in CallShapes /\ NoProcess \notin Processes /\ call[p].at = "insert"
  BY EvidenceAssumption DEF TrailInv, TrailTyped, Inserts
<1>2. PICK t \in Trails :
        /\ call[p].trails = {t} /\ call[p].todo # <<>>
        /\ \A i \in 1..Len(call[p].todo) :
              Truthful(verdict, overtaken, t, call[p].todo[i])
        /\ call[p].next = summary[t].total + 1
  BY <1>1 DEF TrailInv, CallOK
<1> DEFINE s == Head(call[p].todo)
           x == [n |-> call[p].next, status |-> s]
<1>3. /\ events' = [events EXCEPT ![t] = events[t] \cup {x}]
      /\ summary' = [summary EXCEPT ![t] = Upsert(t, s)]
      /\ holder' = NoProcess /\ call' = [call EXCEPT ![p] = Done(p)]
      /\ UNCHANGED <<verdict, cancelling, overtaken>>
  BY <1>2 DEF Inserts
<1>4. /\ call[p].todo \in Seq(Statuses) /\ call[p].next \in Nat
      /\ Len(call[p].todo) \in Nat \ {0}
  BY <1>1, <1>2 DEF CallShapes
<1>5. s \in Statuses /\ Truthful(verdict, overtaken, t, s)
  <2>1. s = call[p].todo[1] /\ 1 \in 1..Len(call[p].todo)  BY <1>2, <1>4
  <2> QED  BY <1>2, <1>4, <2>1
<1>6. x \in EventShapes /\ x.n = summary[t].total + 1  BY <1>2, <1>4, <1>5 DEF EventShapes
<1> HIDE DEF x, s
<1>7. /\ events[t] \in SUBSET EventShapes /\ summary[t] \in SummaryShapes
      /\ summary[t].total \in Nat
      /\ TrailOK(verdict, overtaken, events[t], summary[t], t)
  BY DEF TrailInv, TrailTyped, SummaryShapes
<1>8. PICK u \in SummaryShapes :
        u = Upsert(t, s) /\ u.total = summary[t].total + 1
        /\ u.final \in {s, summary[t].final} /\ (u.final = s => s \in Verdicts \/ s = summary[t].final)
  <2>1. summary[t].final \in Verdicts \cup {"none"} /\ summary[t].old \in BOOLEAN
    BY <1>7 DEF SummaryShapes
  <2>2. PICK f \in Verdicts \cup {"none"} :
          f = IF IsTerminal(s) THEN s ELSE summary[t].final
    BY <2>1 DEF IsTerminal
  <2>3. PICK o \in BOOLEAN : o = (summary[t].old /\ ~IsTerminal(s))  OBVIOUS
  <2>4. PICK n \in Nat : n = summary[t].total + 1  BY <1>7
  <2>5. Upsert(t, s) = [total |-> n, final |-> f, old |-> o]
    BY <2>2, <2>3, <2>4 DEF Upsert
  <2>6. [total |-> n, final |-> f, old |-> o] \in SummaryShapes
    BY DEF SummaryShapes
  <2>7. f \in {s, summary[t].final} /\ (f = s => s \in Verdicts \/ s = summary[t].final)
    BY <2>2 DEF IsTerminal
  <2> QED  BY <2>4, <2>5, <2>6, <2>7
<1>9. PICK k \in CallShapes : k = Done(p) /\ k.at \in {"free", "want"}
        /\ (k.at = "free" => k = Free) /\ CallOK(verdict, overtaken, summary', k)
  <2>1. CASE Len(call[p].todo) > 1
    <3>1. PICK r \in Seq(Statuses) :
            /\ r = Tail(call[p].todo) /\ r # <<>> /\ Len(r) = Len(call[p].todo) - 1
            /\ \A i \in 1..Len(r) : r[i] = call[p].todo[i + 1]
      BY <1>4, <2>1, LongTail
    <3>2. PICK k \in CallShapes :
            k = [call[p] EXCEPT !.at = "want", !.todo = r, !.next = 0]
      BY <1>1 DEF CallShapes
    <3>3. k = Done(p)  BY <2>1, <3>1, <3>2 DEF Done
    <3>4. k.at = "want" /\ k.trails = {t} /\ k.todo = r
      BY <1>1, <1>2, <3>2 DEF CallShapes
    <3>5. \A i \in 1..Len(r) : Truthful(verdict, overtaken, t, r[i])
      <4> TAKE i \in 1..Len(r)
      <4>1. i + 1 \in 1..Len(call[p].todo)  BY <1>4, <3>1
      <4> QED  BY <1>2, <3>1, <4>1
    <3>6. CallOK(verdict, overtaken, summary', k)  BY <3>1, <3>4, <3>5 DEF CallOK
    <3> QED  BY <3>3, <3>4, <3>6
  <2>2. CASE ~(Len(call[p].todo) > 1)
    <3>1. Done(p) = Free  BY <2>2 DEF Done
    <3> QED  BY <3>1, FreeShape
  <2> QED  BY <2>1, <2>2
<1>10. /\ events'[t] = events[t] \cup {x} /\ summary'[t] = u
       /\ \A y \in Trails \ {t} : events'[y] = events[y] /\ summary'[y] = summary[y]
       /\ events' \in [Trails -> SUBSET EventShapes]
       /\ summary' \in [Trails -> SummaryShapes]
  BY <1>3, <1>6, <1>7, <1>8 DEF TrailInv, TrailTyped
<1>11. /\ call' \in [Processes -> CallShapes] /\ call'[p] = k
       /\ \A q \in Processes \ {p} : call'[q] = call[q]
  BY <1>3, <1>9 DEF TrailInv, TrailTyped
<1>12. \A q \in Processes \ {p} : holder # q /\ call[q].at \notin {"read", "insert"}
  BY <1>1 DEF TrailInv, TrailTyped
<1>13. TrailTyped'
  BY <1>1, <1>3, <1>9, <1>10, <1>11, <1>12 DEF TrailInv, TrailTyped
<1>14. TrailOK(verdict, overtaken, events'[t], u, t)
  <2>1. /\ IsFiniteSet(events[t]) /\ {y.n : y \in events[t]} = 1..summary[t].total
        /\ Cardinality(events[t]) = summary[t].total
        /\ Truthful(verdict, overtaken, t, summary[t].final)
    BY <1>7 DEF TrailOK
  <2>2. x \notin events[t]
    <3>1. \A y \in events[t] : y.n \in 1..summary[t].total  BY <2>1
    <3> QED  BY <1>6, <1>7, <3>1
  <2>3. IsFiniteSet(events[t] \cup {x})
        /\ Cardinality(events[t] \cup {x}) = summary[t].total + 1
    BY <2>1, <2>2, FS_AddElement
  <2>4. {y.n : y \in events[t] \cup {x}} = 1..(summary[t].total + 1)
    <3>1. {y.n : y \in events[t] \cup {x}} = {y.n : y \in events[t]} \cup {x.n}
      OBVIOUS
    <3>2. (1..summary[t].total) \cup {summary[t].total + 1} = 1..(summary[t].total + 1)
      BY <1>7
    <3> QED  BY <1>6, <2>1, <3>1, <3>2
  <2>5. Truthful(verdict, overtaken, t, u.final)  BY <1>5, <1>8, <2>1
  <2> QED  BY <1>8, <1>10, <2>3, <2>4, <2>5 DEF TrailOK
<1>15. \A q \in Processes \ {p} : CallOK(verdict, overtaken, summary', call[q])
  BY <1>12 DEF TrailInv, CallOK
<1>16. Forgets  BY <1>10 DEF Forgets, Trails
<1> QED
  BY <1>3, <1>9, <1>10, <1>11, <1>13, <1>14, <1>15, <1>16 DEF TrailInv

LEMMA DeletesKeeps ==
  ASSUME TrailInv, NEW p \in Processes, DeletesExpired(p)
  PROVE  TrailInv' /\ Forgets
<1> DEFINE del == call[p].trails
<1>1. /\ call[p].at = "delete" /\ holder = NoProcess /\ holder' = holder
      /\ events' = [t \in Trails |-> IF t \in del THEN {} ELSE events[t]]
      /\ summary' = [t \in Trails |-> IF t \in del THEN NoSummary ELSE summary[t]]
      /\ call' = [call EXCEPT ![p] = Free]
      /\ UNCHANGED <<verdict, cancelling, overtaken>>
      /\ NoProcess \notin Processes
  BY EvidenceAssumption DEF DeletesExpired
<1>2. \A e \in del \cap Executions : verdict[e] # "open"
  BY <1>1 DEF TrailInv, CallOK
<1> HIDE DEF del
<1>3. /\ call' \in [Processes -> CallShapes] /\ call'[p] = Free
      /\ \A q \in Processes \ {p} : call'[q] = call[q]
  BY <1>1, FreeShape DEF TrailInv, TrailTyped
<1>4. \A q \in Processes : call[q].at \notin {"read", "insert"}
  BY <1>1 DEF TrailInv, TrailTyped
<1>5. NoSummary \in SummaryShapes /\ NoSummary.total = 0 /\ NoSummary.final = "none"
  BY DEF NoSummary, SummaryShapes
<1>6. events' \in [Trails -> SUBSET EventShapes] /\ summary' \in [Trails -> SummaryShapes]
  BY <1>1, <1>5 DEF TrailInv, TrailTyped
<1>7. TrailTyped'
  BY <1>1, <1>3, <1>4, <1>6, FreeShape DEF TrailInv, TrailTyped
<1>8. \A q \in Processes : CallOK(verdict, overtaken, summary', call'[q])
  BY <1>3, <1>4, FreeShape DEF TrailInv, CallOK
<1>9. \A t \in Trails : TrailOK(verdict, overtaken, events'[t], summary'[t], t)
  <2> TAKE t \in Trails
  <2>1. CASE t \in del
    <3>1. events'[t] = {} /\ summary'[t] = NoSummary  BY <1>1, <2>1
    <3>2. {x.n : x \in {}} = 1..0  OBVIOUS
    <3>3. "none" \notin Verdicts  BY DEF Verdicts
    <3> QED  BY <1>5, <3>1, <3>2, <3>3, FS_EmptySet DEF TrailOK, Truthful
  <2>2. CASE t \notin del  BY <1>1, <2>2 DEF TrailInv
  <2> QED  BY <2>1, <2>2
<1>10. Forgets  BY <1>1, <1>2 DEF Forgets, Trails
<1> QED  BY <1>1, <1>7, <1>8, <1>9, <1>10 DEF TrailInv

LEMMA AgesKeeps ==
  ASSUME TrailInv, NEW t \in Trails, Ages(t)
  PROVE  TrailInv' /\ Forgets
<1>1. /\ summary' = [summary EXCEPT ![t].old = TRUE]
      /\ UNCHANGED <<verdict, cancelling, overtaken, events, holder, call>>
  BY DEF Ages
<1>2. /\ summary' \in [Trails -> SummaryShapes]
      /\ \A x \in Trails : summary'[x].total = summary[x].total
                          /\ summary'[x].final = summary[x].final
  BY <1>1 DEF TrailInv, TrailTyped, SummaryShapes
<1>3. TrailTyped'  BY <1>1, <1>2 DEF TrailInv, TrailTyped
<1>4. \A q \in Processes : CallOK(verdict, overtaken, summary', call[q])
  BY <1>2 DEF TrailInv, CallOK
<1>5. \A x \in Trails : TrailOK(verdict, overtaken, events[x], summary'[x], x)
  BY <1>2 DEF TrailInv, TrailOK
<1> QED  BY <1>1, <1>3, <1>4, <1>5 DEF TrailInv, Forgets

LEMMA TrailStep == TrailInv /\ [EvidenceNext]_evidenceVars => TrailInv' /\ Forgets
<1> SUFFICES ASSUME TrailInv, [EvidenceNext]_evidenceVars
             PROVE  TrailInv' /\ Forgets
  OBVIOUS
<1>1. CASE UNCHANGED evidenceVars
  BY <1>1 DEF evidenceVars, TrailInv, TrailTyped, Forgets
<1> QED
  BY <1>1, ProgressKeeps, CancelKeeps, SettledKeeps, PluginKeeps, BeginsKeeps,
     InsertsKeeps, DeletesKeeps, AgesKeeps DEF EvidenceNext

LEMMA TrailBegins == EvidenceInit => TrailInv
<1> SUFFICES ASSUME EvidenceInit PROVE TrailInv  OBVIOUS
<1>1. NoSummary \in SummaryShapes /\ NoSummary.total = 0 /\ NoSummary.final = "none"
  BY DEF NoSummary, SummaryShapes
<1>2. TrailTyped
  BY <1>1, FreeShape, EvidenceAssumption DEF EvidenceInit, TrailTyped
<1>3. \A t \in Trails : TrailOK(verdict, overtaken, events[t], summary[t], t)
  <2> TAKE t \in Trails
  <2>1. events[t] = {} /\ summary[t] = NoSummary  BY DEF EvidenceInit
  <2>2. {x.n : x \in {}} = 1..0  OBVIOUS
  <2>3. "none" \notin Verdicts  BY DEF Verdicts
  <2> QED  BY <1>1, <2>1, <2>2, <2>3, FS_EmptySet DEF TrailOK, Truthful
<1>4. \A p \in Processes : CallOK(verdict, overtaken, summary, call[p])
  BY FreeShape DEF EvidenceInit
<1> QED  BY <1>2, <1>3, <1>4 DEF EvidenceInit, TrailInv, VerdictsOK

(* The invariant behind TrailSafe: who has the reservation has read the    *)
(* last number, what is still to be emitted tells the verdict, and what is *)
(* to be deleted has ended.                                                *)
THEOREM TrailInvariance ==
  EvidenceInit /\ [][EvidenceNext]_evidenceVars => []TrailInv
<1>1. TrailInv /\ [EvidenceNext]_evidenceVars => TrailInv'  BY TrailStep
<1> QED  BY <1>1, TrailBegins, PTL

(* However any number of processes write, fail, cancel and clean up: the   *)
(* numbers of a trail have no gap or repeat and are what its summary       *)
(* counts, the final status is the verdict, and nothing open is forgotten  *)
(* (evidence/store.py, evidence/instrumentation.py).                       *)
THEOREM TrailIsSafe == EvidenceInit /\ [][EvidenceNext]_evidenceVars => TrailSafe
<1>1. TrailInv => EvidenceTypeOK /\ SequencesGapless /\ FinalIsTheVerdict
  <2> SUFFICES ASSUME TrailInv
               PROVE  EvidenceTypeOK /\ SequencesGapless /\ FinalIsTheVerdict
    OBVIOUS
  <2>1. EvidenceTypeOK
    BY DEF TrailInv, TrailTyped, EvidenceTypeOK, EventShapes, SummaryShapes, CallShapes
  <2>2. SequencesGapless  BY DEF TrailInv, TrailOK, SequencesGapless
  <2>3. FinalIsTheVerdict
    <3> SUFFICES ASSUME NEW e \in Executions \ overtaken
                 PROVE  summary[e].final \in {"none", verdict[e]}
      BY DEF FinalIsTheVerdict
    <3>1. e \in Trails  BY DEF Trails
    <3>2. summary[e].final \in Verdicts \cup {"none"}
      BY <3>1 DEF TrailInv, TrailTyped, SummaryShapes
    <3> QED  BY <3>1, <3>2 DEF TrailInv, TrailOK, Truthful
  <2> QED  BY <2>1, <2>2, <2>3
<1>2. TrailInv /\ [EvidenceNext]_evidenceVars =>
        [\A e \in Executions : events[e] # {} /\ events'[e] = {} => verdict[e] # "open"]_evidenceVars
  BY TrailStep DEF Forgets
<1> QED  BY <1>1, <1>2, TrailInvariance, PTL DEF TrailSafe, OnlyEndedIsForgotten

-----------------------------------------------------------------------------
(* The audit log: for any number of entries.                               *)

(* Every row written, the log is the rows in order: entry n has number n,  *)
(* names its predecessor and is no older than it.                          *)
Chained ==
  /\ auditSeq \in Nat /\ auditSeq <= MaxAudit /\ auditClock \in Nat
  /\ audit = [i \in 1..auditSeq |-> auditRows[i - 1]]
  /\ \A n \in 0..MaxAudit :
       IF n < auditSeq
       THEN /\ auditRows[n].seq = n /\ auditRows[n].previous = n - 1
            /\ auditRows[n].stamp \in 0..auditClock
       ELSE auditRows[n] = NoEntry
  /\ \A m, n \in 0..MaxAudit :
       m < n /\ n < auditSeq => auditRows[m].stamp <= auditRows[n].stamp

AuditInv == /\ auditLost \in BOOLEAN /\ DOMAIN auditRows = 0..MaxAudit
            /\ auditLost \/ Chained

(* A function that grows within 1..n has no choice.                        *)
LEMMA Growing ==
  ASSUME NEW n \in Nat, NEW g \in [1..n -> 0..(n - 1)],
         \A i, j \in 1..n : i < j => g[i] < g[j]
  PROVE  \A i \in 1..n : g[i] = i - 1
<1>1. \A i \in 1..n : g[i] >= i - 1
  <2> SUFFICES ASSUME NEW e \in 1..n, ~(g[e] >= e - 1) PROVE FALSE
    OBVIOUS
  <2> DEFINE S == {i \in 1..n : g[i] < i - 1}
  <2>1. S \in SUBSET Nat /\ S # {}
    <3>1. g[e] \in 0..(n - 1)  OBVIOUS
    <3>2. e \in S  BY <3>1
    <3>3. S \in SUBSET Nat  OBVIOUS
    <3> HIDE DEF S
    <3> QED  BY <3>2, <3>3
  <2>2. PICK i \in S : \A k \in S : i <= k
    <3> HIDE DEF S
    <3> QED  BY <2>1, Least
  <2>3. i \in 1..n /\ g[i] < i - 1 /\ g[i] \in 0..(n - 1)  BY <2>2
  <2>4. i - 1 \in 1..n /\ i - 1 < i  BY <2>3
  <2>5. i - 1 \notin S  BY <2>2, <2>3
  <2>6. g[i - 1] >= i - 2 /\ g[i - 1] \in 0..(n - 1)  BY <2>3, <2>4, <2>5
  <2>7. g[i - 1] < g[i]  BY <2>3, <2>4
  <2> QED  BY <2>3, <2>6, <2>7
<1>2. \A i \in 1..n : g[i] <= i - 1
  <2> SUFFICES ASSUME NEW e \in 1..n, ~(g[e] <= e - 1) PROVE FALSE
    OBVIOUS
  <2> DEFINE S == {k \in 0..n : \E i \in 1..n : k = n - i /\ g[i] > i - 1}
  <2>1. S \in SUBSET Nat /\ S # {}
    <3>1. g[e] \in 0..(n - 1) /\ n - e \in 0..n  OBVIOUS
    <3>2. n - e \in S  BY <3>1
    <3>3. S \in SUBSET Nat  OBVIOUS
    <3> HIDE DEF S
    <3> QED  BY <3>2, <3>3
  <2>2. PICK k \in S : \A l \in S : k <= l
    <3> HIDE DEF S
    <3> QED  BY <2>1, Least
  <2>3. PICK i \in 1..n : k = n - i /\ g[i] > i - 1  BY <2>2
  <2>4. g[i] \in 0..(n - 1)  BY <2>3
  <2>5. i + 1 \in 1..n /\ i < i + 1  BY <2>3, <2>4
  <2>6. n - (i + 1) \in 0..n /\ n - (i + 1) < k  BY <2>3, <2>5
  <2>8. g[i + 1] <= i /\ g[i + 1] \in 0..(n - 1)
    <3>1. g[i + 1] \in 0..(n - 1)  BY <2>5
    <3>2. ASSUME g[i + 1] > (i + 1) - 1 PROVE FALSE
      <4>1. n - (i + 1) \in S  BY <2>5, <2>6, <3>2
      <4>2. k <= n - (i + 1)  BY <2>2, <4>1
      <4> QED  BY <2>3, <2>6, <4>2
    <3> QED  BY <2>3, <3>1, <3>2
  <2>9. g[i] < g[i + 1]  BY <2>5
  <2> QED  BY <2>3, <2>4, <2>8, <2>9
<1>3. \A i \in 1..n : g[i] \in 0..(n - 1)  OBVIOUS
<1> QED  BY <1>1, <1>2, <1>3

LEMMA NoEntryIs == NoEntry.seq = -1
BY DEF NoEntry

LEMMA WrittenIs ==
  ASSUME Chained, DOMAIN auditRows = 0..MaxAudit
  PROVE  /\ Written = {auditRows[n] : n \in 0..(auditSeq - 1)}
         /\ Cardinality(Written) = auditSeq
         /\ \A w \in Written : w.seq \in 0..(auditSeq - 1) /\ auditRows[w.seq] = w
<1>1. auditSeq \in Nat /\ auditSeq <= MaxAudit /\ MaxAudit \in Nat
  BY AuditAssumption DEF Chained
<1>2. \A n \in 0..MaxAudit : n < auditSeq => auditRows[n].seq = n /\ auditRows[n] # NoEntry
  BY <1>1, NoEntryIs DEF Chained
<1>3. \A n \in 0..MaxAudit : ~(n < auditSeq) => auditRows[n] = NoEntry
  BY DEF Chained
<1>4. Written = {auditRows[n] : n \in 0..(auditSeq - 1)}
  BY <1>1, <1>2, <1>3 DEF Written
<1>5. \A w \in Written : w.seq \in 0..(auditSeq - 1) /\ auditRows[w.seq] = w
  BY <1>1, <1>2, <1>4
<1>6. Cardinality(Written) = auditSeq
  <2> DEFINE f == [i \in 1..auditSeq |-> auditRows[i - 1]]
  <2>1. f \in [1..auditSeq -> Written]  BY <1>1, <1>4
  <2>2. \A i \in 1..auditSeq : f[i].seq = i - 1  BY <1>1, <1>2
  <2>3. \A i, j \in 1..auditSeq : f[i] = f[j] => i = j  BY <1>1, <2>2
  <2>4. \A w \in Written : \E i \in 1..auditSeq : f[i] = w
    <3> TAKE w \in Written
    <3>1. PICK n \in 0..(auditSeq - 1) : w = auditRows[n]  BY <1>4
    <3>2. n + 1 \in 1..auditSeq /\ f[n + 1] = w  BY <1>1, <3>1
    <3> QED  BY <3>2
  <2> HIDE DEF f
  <2>5. f \in Bijection(1..auditSeq, Written)
    BY <2>1, <2>3, <2>4 DEF Bijection, Injection, Surjection, IsInjective
  <2> QED  BY <1>1, <2>5, FS_CountingElements DEF ExistsBijection
<1> QED  BY <1>4, <1>5, <1>6

(* Reading the rows back gives the log as it was.                          *)
LEMMA ReloadsAll ==
  ASSUME Chained, DOMAIN auditRows = 0..MaxAudit
  PROVE  Reloaded = audit
<1> DEFINE N == auditSeq
           Ordered(log) == \A i, j \in DOMAIN log : i < j => Before(log[i], log[j])
<1>1. N \in Nat /\ N <= MaxAudit /\ MaxAudit \in Nat
  BY AuditAssumption DEF Chained
<1>2. /\ audit = [i \in 1..N |-> auditRows[i - 1]]
      /\ \A n \in 0..(N - 1) : auditRows[n].seq = n /\ auditRows[n].stamp \in Nat
      /\ \A m, n \in 0..(N - 1) : m < n => auditRows[m].stamp <= auditRows[n].stamp
  <2>1. auditClock \in Nat  BY DEF Chained
  <2> QED  BY <1>1, <2>1 DEF Chained
<1>3. /\ Written = {auditRows[n] : n \in 0..(N - 1)} /\ Cardinality(Written) = N
      /\ \A w \in Written : w.seq \in 0..(N - 1) /\ auditRows[w.seq] = w
  BY WrittenIs
<1> HIDE DEF N
<1>4. audit \in [1..N -> Written]  BY <1>1, <1>2, <1>3
<1>5. Ordered(audit)
  <2> SUFFICES ASSUME NEW i \in 1..N, NEW j \in 1..N, i < j
               PROVE  Before(audit[i], audit[j])
    BY <1>4
  <2>1. /\ i - 1 \in 0..(N - 1) /\ j - 1 \in 0..(N - 1) /\ i - 1 < j - 1
        /\ audit[i] = auditRows[i - 1] /\ audit[j] = auditRows[j - 1]
    BY <1>1, <1>2
  <2> QED  BY <1>2, <2>1 DEF Before
<1>6. ASSUME NEW log \in [1..N -> Written], Ordered(log)
      PROVE  log = audit
  <2> DEFINE g == [i \in 1..N |-> log[i].seq]
  <2>1. \A i \in 1..N : g[i] \in 0..(N - 1) /\ auditRows[g[i]] = log[i]
    BY <1>3
  <2>2. g \in [1..N -> 0..(N - 1)]  BY <2>1
  <2>3. \A i, j \in 1..N : i < j => g[i] < g[j]
    <3> SUFFICES ASSUME NEW i \in 1..N, NEW j \in 1..N, i < j PROVE g[i] < g[j]
      OBVIOUS
    <3>1. Before(log[i], log[j])  BY <1>6
    <3>2. log[i].seq = g[i] /\ log[j].seq = g[j]  OBVIOUS
    <3> HIDE DEF g
    <3>3. g[i] \in 0..(N - 1) /\ g[j] \in 0..(N - 1)  BY <2>1
    <3>4. g[j] < g[i] => log[j].stamp <= log[i].stamp  BY <1>2, <2>1, <3>3
    <3>5. g[j] = g[i] => log[j] = log[i]  BY <2>1
    <3>6. log[i].stamp \in Nat /\ log[j].stamp \in Nat  BY <1>2, <2>1, <3>3
    <3> QED  BY <1>1, <3>1, <3>2, <3>3, <3>4, <3>5, <3>6 DEF Before
  <2> HIDE DEF g
  <2>4. \A i \in 1..N : g[i] = i - 1  BY <1>1, <2>2, <2>3, Growing
  <2>5. \A i \in 1..N : log[i] = audit[i]  BY <1>1, <1>2, <2>1, <2>4
  <2>6. log = [i \in 1..N |-> log[i]] /\ audit = [i \in 1..N |-> audit[i]]
    BY <1>4
  <2> QED  BY <2>5, <2>6
<1>7. Reloaded = CHOOSE log \in [1..N -> Written] : Ordered(log)
  BY <1>3 DEF Reloaded
<1> HIDE DEF Ordered
<1> QED  BY <1>4, <1>5, <1>6, <1>7

LEMMA RenumbersOn ==
  ASSUME Chained
  PROVE  ReloadedSeq(audit) = auditSeq
<1>1. /\ auditSeq \in Nat /\ auditSeq <= MaxAudit /\ MaxAudit \in Nat
      /\ audit = [i \in 1..auditSeq |-> auditRows[i - 1]]
      /\ \A i \in 1..auditSeq : auditRows[i - 1].seq = i - 1
  BY AuditAssumption DEF Chained
<1>2. DOMAIN audit = 1..auditSeq /\ \A i \in 1..auditSeq : audit[i].seq = i - 1
  BY <1>1
<1>3. CASE auditSeq = 0
  <2>1. audit = <<>>  BY <1>1, <1>3
  <2> QED  BY <1>3, <2>1 DEF ReloadedSeq
<1>4. CASE auditSeq # 0
  <2>1. audit # <<>>
    <3>1. 1 \in DOMAIN audit  BY <1>1, <1>2, <1>4
    <3>2. DOMAIN <<>> = {}  OBVIOUS
    <3> QED  BY <3>1, <3>2
  <2> DEFINE Next0(n) == /\ \E i \in DOMAIN audit : audit[i].seq = n - 1
                         /\ \A i \in DOMAIN audit : audit[i].seq < n
  <2>2. auditSeq \in 1..MaxAudit  BY <1>1, <1>4
  <2>3. Next0(auditSeq)
    <3>1. auditSeq \in DOMAIN audit  BY <1>1, <1>2, <1>4
    <3>2. audit[auditSeq].seq = auditSeq - 1  BY <1>2, <3>1
    <3>3. \A i \in DOMAIN audit : audit[i].seq < auditSeq  BY <1>1, <1>2
    <3> QED  BY <3>1, <3>2, <3>3
  <2>4. \A n \in 1..MaxAudit : Next0(n) => n = auditSeq
    <3> SUFFICES ASSUME NEW n \in 1..MaxAudit, Next0(n) PROVE n = auditSeq
      OBVIOUS
    <3>1. PICK i \in 1..auditSeq : i - 1 = n - 1  BY <1>2
    <3>2. auditSeq \in 1..auditSeq  BY <1>1, <1>4
    <3>3. auditSeq - 1 < n  BY <1>2, <3>2
    <3> QED  BY <1>1, <3>1, <3>3
  <2>5. ReloadedSeq(audit) = CHOOSE n \in 1..MaxAudit : Next0(n)
    BY <2>1 DEF ReloadedSeq
  <2> HIDE DEF Next0
  <2> QED  BY <2>2, <2>3, <2>4, <2>5
<1> QED  BY <1>3, <1>4

LEMMA AuditStep == AuditInv /\ [AuditNext]_auditVars => AuditInv'
<1> SUFFICES ASSUME AuditInv, [AuditNext]_auditVars PROVE AuditInv'
  OBVIOUS
<1>1. ASSUME NEW ok \in BOOLEAN, Audits(ok)
      PROVE  AuditInv'
  <2>1. /\ audit' = Append(audit, Sealed(auditSeq)) /\ auditSeq' = auditSeq + 1
        /\ auditSeq < MaxAudit /\ auditClock' = auditClock
        /\ auditRows' = IF ok THEN [auditRows EXCEPT ![auditSeq] = Sealed(auditSeq)]
                        ELSE auditRows
    BY <1>1 DEF Audits
  <2>2. DOMAIN auditRows' = 0..MaxAudit  BY <2>1 DEF AuditInv
  <2>3. PICK lost \in BOOLEAN : lost <=> auditLost \/ ~ok  OBVIOUS
  <2>4. auditLost' = lost
    <3>1. lost = (auditLost \/ ~ok)  BY <2>3 DEF AuditInv
    <3> QED  BY <1>1, <3>1 DEF Audits
  <2>5. ASSUME Chained, ok
        PROVE  Chained'
    <3> DEFINE e == Sealed(auditSeq)
    <3>1. /\ auditSeq \in Nat /\ MaxAudit \in Nat /\ auditClock \in Nat
          /\ audit = [i \in 1..auditSeq |-> auditRows[i - 1]]
      BY <2>5, AuditAssumption DEF Chained
    <3>2. Len(audit) = auditSeq /\ audit \in Seq({auditRows[n] : n \in 0..MaxAudit})
      <4>1. \A i \in 1..auditSeq : i - 1 \in 0..MaxAudit  BY <2>1, <3>1
      <4>2. audit \in [1..auditSeq -> {auditRows[n] : n \in 0..MaxAudit}]
        BY <3>1, <4>1
      <4>3. DOMAIN audit = 1..auditSeq  BY <3>1
      <4>4. \A T : \A n \in Nat : \A f \in [1..n -> T] : f \in Seq(T)  OBVIOUS
      <4>5. audit \in Seq({auditRows[n] : n \in 0..MaxAudit})  BY <3>1, <4>2, <4>4
      <4> QED  BY <3>1, <4>3, <4>5
    <3>3. e.seq = auditSeq /\ e.stamp = auditClock /\ e.previous = auditSeq - 1
      <4>1. CASE auditSeq = 0
        <5>1. audit = <<>>  BY <3>1, <4>1
        <5> QED  BY <4>1, <5>1 DEF Sealed
      <4>2. CASE auditSeq # 0
        <5>1. audit # <<>>
          <6>1. \A q : q = <<>> => Len(q) = 0  OBVIOUS
          <6> QED  BY <3>2, <4>2, <6>1
        <5>2. audit[auditSeq] = auditRows[auditSeq - 1]  BY <3>1, <4>2
        <5>3. auditSeq - 1 \in 0..MaxAudit /\ auditSeq - 1 < auditSeq
          BY <2>1, <3>1, <4>2
        <5>4. auditRows[auditSeq - 1].seq = auditSeq - 1
          BY <2>5, <5>3 DEF Chained
        <5> QED  BY <3>2, <5>1, <5>2, <5>4 DEF Sealed
      <4> QED  BY <4>1, <4>2
    <3> HIDE DEF e
    <3>4. /\ auditRows'[auditSeq] = e
          /\ \A n \in 0..MaxAudit : n # auditSeq => auditRows'[n] = auditRows[n]
      BY <2>1, <2>5, <3>1 DEF AuditInv, e
    <3>5. audit' = [i \in 1..auditSeq' |-> auditRows'[i - 1]]
      <4>1. audit' = [i \in 1..(auditSeq + 1) |->
                        IF i = auditSeq + 1 THEN e ELSE audit[i]]
        <5>1. audit' = Append(audit, e)  BY <2>1 DEF e
        <5> QED  BY <3>1, <3>2, <5>1
      <4>2. \A i \in 1..(auditSeq + 1) :
              (IF i = auditSeq + 1 THEN e ELSE audit[i]) = auditRows'[i - 1]
        <5> TAKE i \in 1..(auditSeq + 1)
        <5>1. CASE i = auditSeq + 1  BY <3>1, <3>4, <5>1
        <5>2. CASE i # auditSeq + 1
          <6>1. i \in 1..auditSeq /\ i - 1 \in 0..MaxAudit /\ i - 1 # auditSeq
            BY <2>1, <3>1, <5>2
          <6> QED  BY <3>1, <3>4, <5>2, <6>1
        <5> QED  BY <5>1, <5>2
      <4> QED  BY <2>1, <4>1, <4>2
    <3>6. \A n \in 0..MaxAudit :
            IF n < auditSeq'
            THEN /\ auditRows'[n].seq = n /\ auditRows'[n].previous = n - 1
                 /\ auditRows'[n].stamp \in 0..auditClock'
            ELSE auditRows'[n] = NoEntry
      BY <2>1, <2>5, <3>1, <3>3, <3>4 DEF Chained
    <3>7. \A m, n \in 0..MaxAudit :
            m < n /\ n < auditSeq' => auditRows'[m].stamp <= auditRows'[n].stamp
      <4> SUFFICES ASSUME NEW m \in 0..MaxAudit, NEW n \in 0..MaxAudit,
                          m < n, n < auditSeq'
                   PROVE  auditRows'[m].stamp <= auditRows'[n].stamp
        OBVIOUS
      <4>1. m < auditSeq /\ auditRows'[m] = auditRows[m]
            /\ auditRows[m].stamp \in 0..auditClock
        BY <2>1, <2>5, <3>1, <3>4 DEF Chained
      <4>2. CASE n = auditSeq  BY <3>1, <3>3, <3>4, <4>1, <4>2
      <4>3. CASE n # auditSeq
        <5>1. n < auditSeq /\ auditRows'[n] = auditRows[n]
          BY <2>1, <3>1, <3>4, <4>3
        <5> QED  BY <2>5, <4>1, <5>1 DEF Chained
      <4> QED  BY <4>2, <4>3
    <3> QED  BY <2>1, <3>1, <3>5, <3>6, <3>7 DEF Chained
  <2> QED  BY <2>2, <2>3, <2>4, <2>5 DEF AuditInv
<1>2. CASE ReopensAudit
  <2>1. /\ audit' = Reloaded /\ auditSeq' = ReloadedSeq(Reloaded)
        /\ UNCHANGED <<auditRows, auditLost, auditClock>>
    BY <1>2 DEF ReopensAudit
  <2>2. Chained => audit' = audit /\ auditSeq' = auditSeq
    BY <2>1, ReloadsAll, RenumbersOn DEF AuditInv
  <2> QED  BY <2>1, <2>2 DEF AuditInv, Chained
<1>3. CASE TicksAudit
  <2>1. auditClock' = auditClock + 1 /\ UNCHANGED <<audit, auditSeq, auditRows, auditLost>>
    BY <1>3 DEF TicksAudit
  <2> QED  BY <2>1 DEF AuditInv, Chained
<1>4. CASE UNCHANGED auditVars
  BY <1>4 DEF auditVars, AuditInv, Chained
<1> QED  BY <1>1, <1>2, <1>3, <1>4 DEF AuditNext

(* However often the program restarts and however often a clock that is   *)
(* not set back stamps the same: as                                        *)
(* long as every row was written the chain verifies, so an untampered log  *)
(* is never reported as tampered with (governance/audit.py, verify_chain). *)
THEOREM ChainHolds == AuditInit /\ [][AuditNext]_auditVars => []ChainVerifies
<1>1. AuditInit => AuditInv
  <2> SUFFICES ASSUME AuditInit PROVE AuditInv  OBVIOUS
  <2>1. auditSeq = 0 /\ auditClock = 0 /\ MaxAudit \in Nat /\ audit = <<>>
        /\ auditRows = [n \in 0..MaxAudit |-> NoEntry] /\ auditLost = FALSE
    BY AuditAssumption DEF AuditInit
  <2>2. audit = [i \in 1..auditSeq |-> auditRows[i - 1]]  BY <2>1
  <2>3. DOMAIN auditRows = 0..MaxAudit /\ \A n \in 0..MaxAudit : auditRows[n] = NoEntry
    BY <2>1
  <2>4. \A n \in 0..MaxAudit : ~(n < auditSeq)  BY <2>1
  <2>5. Chained  BY <2>1, <2>2, <2>3, <2>4 DEF Chained
  <2>6. auditLost \in BOOLEAN  BY <2>1
  <2> QED  BY <2>3, <2>5, <2>6 DEF AuditInv
<1>2. AuditInv => ChainVerifies
  <2> SUFFICES ASSUME Chained PROVE Verifies(audit)
    BY DEF AuditInv, ChainVerifies
  <2>1. /\ auditSeq \in Nat /\ auditSeq <= MaxAudit /\ MaxAudit \in Nat
        /\ audit = [i \in 1..auditSeq |-> auditRows[i - 1]]
    BY AuditAssumption DEF Chained
  <2>2. Len(audit) = auditSeq
    <3>1. audit \in [1..auditSeq -> {auditRows[i - 1] : i \in 1..auditSeq}]  BY <2>1
    <3> QED  BY <2>1, <3>1
  <2>3. ASSUME NEW i \in 1..auditSeq
        PROVE  audit[i].previous = IF i = 1 THEN -1 ELSE audit[i - 1].seq
    <3>1. i - 1 \in 0..MaxAudit /\ i - 1 < auditSeq /\ audit[i] = auditRows[i - 1]
      BY <2>1
    <3>2. audit[i].previous = i - 2  BY <2>1, <3>1 DEF Chained
    <3>3. CASE i = 1  BY <3>2, <3>3
    <3>4. CASE i # 1
      <4>1. i - 1 \in 1..auditSeq /\ i - 2 \in 0..MaxAudit /\ i - 2 < auditSeq
        BY <2>1, <3>4
      <4>2. audit[i - 1] = auditRows[i - 2]  BY <2>1, <4>1
      <4>3. auditRows[i - 2].seq = i - 2  BY <4>1 DEF Chained
      <4> QED  BY <3>2, <3>4, <4>2, <4>3
    <3> QED  BY <3>3, <3>4
  <2> QED  BY <2>2, <2>3 DEF Verifies
<1> QED  BY <1>1, <1>2, AuditStep, PTL

-----------------------------------------------------------------------------
(* Plugins                                                                   *)

(* The inductive invariant.  Own: the tools of the manifest.                 *)

Own(p) == Elements(ToolsOf[p])
IsLoaded(p) == state[p] \in Loaded
Disjoint(p) == \A q \in Closure[p] \ {p} : Own(q) \cap Own(p) = {}

(* A loaded plugin is enabled, has an instance and what it needs, and what a *)
(* record lists is in the registry under its name.  What it listed once, no  *)
(* plugin it needs contributes: they were loaded beside each other.          *)
RecordOK(p) ==
  /\ IsLoaded(p) => /\ enabled[p] /\ instance[p] # "none"
                    /\ \A q \in Selected(p) : IsLoaded(q)
  /\ instance[p] # "none" => contributions[p] = Own(p)
  /\ contributions[p] \subseteq Own(p)
  /\ \A t \in contributions[p] : registry[t] = p
  /\ contributions[p] # {} => Disjoint(p)

OwnersOK == \A t \in Tools : registry[t] # NoOne => t \in Own(registry[t])

Loads(o) == op[o].kind \in {"load", "reload"} /\ op[o].at \in {"next", "start"}
Starting(o) == op[o].kind \in {"load", "reload"} /\ op[o].at = "start"

LoadingOK == \A k \in Plugins : state[k] = "loading" => \E o \in Operators : Starting(o) /\ op[o].now = k

(* What a load has passed is loaded; the plugin it starts has its tools.     *)
LoadOK(o) ==
  LET p == op[o].target
  IN  /\ Loads(o) => /\ enabled[p] /\ op[o].todo \subseteq Closure[p]
                     /\ \A q \in Closure[p] \ op[o].todo : IsLoaded(q)
      /\ Starting(o) =>
           LET k == op[o].now
           IN  /\ k \in NextUp(o) /\ enabled[k] /\ ~IsLoaded(k)
               /\ \A t \in Own(k) : registry[t] = k

(* What a reload would put back is still free or the target's, and what the  *)
(* target needs is still loaded.                                             *)
ReloadOK(o) ==
  LET p == op[o].target
  IN  op[o].kind = "reload" =>
        /\ op[o].kept \subseteq Own(p) /\ (op[o].had => op[o].kept = Own(p))
        /\ contributions[p] = IF op[o].at = "stop" THEN op[o].kept ELSE {}
        /\ \A q \in Plugins \ {p} : contributions[q] \cap op[o].kept = {}
        /\ op[o].kept # {} => Disjoint(p)
        /\ op[o].old # "loading"
        /\ op[o].old \in Loaded =>
             op[o].had /\ enabled[p] /\ \A q \in Selected(p) \ {p} : IsLoaded(q)

OpOK(o) ==
  /\ op[o].kind # "none" => op[o].target \in Plugins
  /\ op[o].at = "load" => op[o].kind = "reload"
  /\ op[o].at = "next" => op[o].kind \in {"load", "reload"}
  /\ op[o].kind \in {"load", "unload", "reload"} => ~IsLoaded(op[o].target)
  /\ op[o].kind \in {"activate", "deactivate"} => IsLoaded(op[o].target)
  /\ LoadOK(o) /\ ReloadOK(o)

PluginInv ==
  /\ TypeOK /\ OwnersOK /\ LoadingOK
  /\ \A p \in Plugins : RecordOK(p)
  /\ \A o \in Operators : OpOK(o)

(* No two operations of the manager overlap.                                 *)
OneAtATime == \A o, w \in Operators : o = w
SingleDependencies == \A p \in Plugins : Len(DependsOn[p]) <= 1

-----------------------------------------------------------------------------
(* What a plugin needs, and what a registration takes.                       *)

LEMMA SelectedIs ==
  ASSUME NEW p \in Plugins
  PROVE  /\ Selected(p) \subseteq Plugins /\ Selected(p) \subseteq Elements(DependsOn[p])
         /\ Len(DependsOn[p]) <= 1 => Elements(DependsOn[p]) = Selected(p)
<1>1. DependsOn[p] \in Seq(Plugins)  BY PluginAssumption
<1>2. PICK s \in Seq(Plugins) : s = DependsOn[p]  BY <1>1
<1>3. Len(s) \in Nat /\ DOMAIN s = 1..Len(s) /\ \A i \in 1..Len(s) : s[i] \in Plugins
  BY <1>2
<1>4. Selected(p) = IF s = <<>> THEN {} ELSE {s[Len(s)]}  BY <1>2 DEF Selected
<1>5. Elements(DependsOn[p]) = {s[i] : i \in 1..Len(s)}  BY <1>2, <1>3 DEF Elements
<1>6. CASE s = <<>>
  <2>1. Len(s) = 0  BY <1>6
  <2>2. 1..Len(s) = {}  BY <2>1
  <2> QED  BY <1>4, <1>5, <1>6, <2>2
<1>7. CASE s # <<>>
  <2>1. Len(s) # 0  BY <1>2, <1>7
  <2>2. Len(s) \in 1..Len(s)  BY <1>3, <2>1
  <2>3. Selected(p) = {s[Len(s)]} /\ s[Len(s)] \in Plugins  BY <1>3, <1>4, <1>7, <2>2
  <2>4. s[Len(s)] \in Elements(DependsOn[p])  BY <1>5, <2>2
  <2>5. ASSUME Len(DependsOn[p]) <= 1 PROVE Elements(DependsOn[p]) = Selected(p)
    <3>0. Len(s) <= 1  BY <1>2, <2>5
    <3>1. Len(s) = 1  BY <1>3, <2>1, <3>0
    <3>2. 1..Len(s) = {1}  BY <3>1
    <3>3. Elements(DependsOn[p]) = {s[1]}  BY <1>5, <3>2
    <3> QED  BY <2>3, <3>1, <3>3
  <2> QED  BY <2>3, <2>4, <2>5
<1> QED  BY <1>6, <1>7

LEMMA ClosureIs ==
  ASSUME NEW p \in Plugins
  PROVE  /\ Closure[p] \subseteq Plugins /\ p \in Closure[p]
         /\ \A q \in Closure[p] : Selected(q) \subseteq Closure[p]
         /\ \A S \in SUBSET Plugins :
              (p \in S /\ \A x \in S : Selected(x) \subseteq S) => Closure[p] \subseteq S
<1>1. ASSUME NEW q \in Closure[p], NEW r \in Selected(q) PROVE r \in Closure[p]
  <2>1. r \in Plugins  BY <1>1, SelectedIs DEF Closure
  <2>2. ASSUME NEW S \in SUBSET Plugins, p \in S, \A x \in S : Selected(x) \subseteq S
        PROVE  r \in S
    <3>1. q \in S  BY <1>1, <2>2 DEF Closure
    <3> QED  BY <1>1, <2>2, <3>1
  <2> QED  BY <2>1, <2>2 DEF Closure
<1> QED  BY <1>1 DEF Closure

Registries == [Tools -> Plugins \cup {NoOne}]
Grows(old, new) ==
  \A t \in Tools : \/ new[t] = old[t]
                   \/ old[t] = NoOne /\ new[t] \in Plugins /\ t \in Own(new[t])

LEMMA OwnIs ==
  ASSUME NEW p \in Plugins
  PROVE  Own(p) \subseteq Tools
<1>1. PICK s \in Seq(Tools) : s = ToolsOf[p]  BY PluginAssumption
<1>2. DOMAIN s = 1..Len(s) /\ \A i \in 1..Len(s) : s[i] \in Tools  BY <1>1
<1> QED  BY <1>1, <1>2 DEF Own, Elements

LEMMA RegisterIs ==
  ASSUME NEW p \in Plugins, NEW reg \in Registries
  PROVE  /\ RegisterAll(p, reg) \in Registries /\ Grows(reg, RegisterAll(p, reg))
         /\ Taken(p, reg) = {} => \A t \in Own(p) : RegisterAll(p, reg)[t] = p
<1>1. PICK s \in Seq(Tools) : s = ToolsOf[p]  BY PluginAssumption
<1>2. DOMAIN s = 1..Len(s) /\ Len(s) \in Nat /\ \A i \in 1..Len(s) : s[i] \in Tools  BY <1>1
<1>3. PICK new \in Registries : new = RegisterAll(p, reg)
  BY DEF RegisterAll, Registries
<1>4. \A t \in Tools : new[t] = IF t \in Added(p, reg) THEN p ELSE reg[t]
  BY <1>3 DEF RegisterAll
<1>5. Own(p) = {s[i] : i \in 1..Len(s)}  BY <1>1, <1>2 DEF Own, Elements
<1>6. Taken(p, reg) = {i \in 1..Len(s) : reg[s[i]] # NoOne}  BY <1>1, <1>2 DEF Taken
<1>7. Added(p, reg) = {s[i] : i \in {j \in 1..Len(s) : \A k \in Taken(p, reg) : j < k}}
  BY <1>1, <1>2 DEF Added
<1>8. ASSUME NEW t \in Added(p, reg) PROVE reg[t] = NoOne /\ t \in Own(p)
  <2>1. PICK i \in 1..Len(s) : t = s[i] /\ \A k \in Taken(p, reg) : i < k
    BY <1>7, <1>8
  <2>2. i \notin Taken(p, reg)
    <3>1. ~(i < i)  BY <1>2
    <3> QED  BY <2>1, <3>1
  <2> QED  BY <1>5, <1>6, <2>1, <2>2
<1>9. Grows(reg, new)  BY <1>4, <1>8 DEF Grows
<1>10. ASSUME Taken(p, reg) = {}, NEW t \in Own(p) PROVE new[t] = p
  <2>1. t \in Added(p, reg)  BY <1>5, <1>7, <1>10
  <2>2. t \in Tools  BY <1>2, <1>5, <1>10
  <2> QED  BY <1>4, <2>1, <2>2
<1> QED  BY <1>3, <1>9, <1>10

LEMMA UnregisterIs ==
  ASSUME NEW S, NEW reg \in Registries
  PROVE  /\ Unregister(S, reg) \in Registries
         /\ \A t \in Tools : Unregister(S, reg)[t] = IF t \in S THEN NoOne ELSE reg[t]
BY DEF Unregister, Registries

LEMMA OpIs ==
  ASSUME TypeOK, NEW o \in Operators
  PROVE  /\ op[o] \in Op /\ DOMAIN op = Operators
         /\ op[o].kind \in {"none", "load", "unload", "reload", "activate", "deactivate"}
         /\ op[o].target \in Plugins \cup {NoOne} /\ op[o].todo \subseteq Plugins
         /\ op[o].at \in {"idle", "stop", "load", "next", "start"}
         /\ op[o].now \in Plugins \cup {NoOne} /\ op[o].old \in States
         /\ op[o].had \in BOOLEAN /\ op[o].kept \subseteq Tools
BY DEF TypeOK, Op

LEMMA NoOpIs ==
  /\ NoOp \in Op
  /\ NoOp.kind = "none" /\ NoOp.target = NoOne /\ NoOp.todo = {} /\ NoOp.at = "idle"
  /\ NoOp.now = NoOne /\ NoOp.old = "absent" /\ NoOp.had = FALSE /\ NoOp.kept = {}
BY DEF NoOp, Op, States

-----------------------------------------------------------------------------
(* While no operation is under way.                                          *)

AllIdle == \A o \in Operators : op[o] = NoOp

LEMMA CallerIsIdle ==
  ASSUME OneAtATime, Caller
  PROVE  AllIdle
BY DEF OneAtATime, Caller, MayCall, AllIdle

LEMMA LoopIsIdle ==
  ASSUME LoopIdle
  PROVE  AllIdle
BY DEF LoopIdle, AllIdle

LEMMA NothingLoads ==
  ASSUME AllIdle, LoadingOK, NEW k \in Plugins
  PROVE  state[k] # "loading"
BY NoOpIs DEF AllIdle, LoadingOK, Starting

(* A record changes to a state that is not a loaded one, and what it listed  *)
(* stays or goes with it.                                                    *)
LEMMA RecordRests ==
  ASSUME PluginInv, AllIdle, NEW p \in Plugins, NEW x \in States \ (Loaded \cup {"loading"}),
         \A q \in Plugins \ {p} : IsLoaded(q) => p \notin Selected(q),
         state' = [state EXCEPT ![p] = x],
         enabled' \in [Plugins -> BOOLEAN], \A q \in Plugins \ {p} : enabled'[q] = enabled[q],
         Unloaded(p) \/ UNCHANGED <<registry, contributions, instance>>,
         UNCHANGED <<calls, op, turn>>
  PROVE  PluginInv'
<1>1. /\ state \in [Plugins -> States] /\ registry \in Registries
      /\ contributions \in [Plugins -> SUBSET Tools]
      /\ instance \in [Plugins -> {"none", "started", "stopped"}]
  BY DEF PluginInv, TypeOK, Registries
<1>2. /\ state' \in [Plugins -> States] /\ state'[p] = x
      /\ \A q \in Plugins \ {p} : state'[q] = state[q]
  BY <1>1
<1>3. /\ registry' \in Registries
      /\ contributions' \in [Plugins -> SUBSET Tools]
      /\ instance' \in [Plugins -> {"none", "started", "stopped"}]
      /\ \A q \in Plugins \ {p} : contributions'[q] = contributions[q] /\ instance'[q] = instance[q]
      /\ contributions'[p] \in {{}, contributions[p]}
      /\ \A t \in Tools : \/ registry'[t] = registry[t]
                          \/ registry'[t] = NoOne /\ t \in contributions[p] /\ contributions'[p] = {}
  <2>1. CASE UNCHANGED <<registry, contributions, instance>>  BY <1>1, <2>1
  <2>2. CASE Unloaded(p)  BY <1>1, <2>2, UnregisterIs DEF Unloaded
  <2> QED  BY <2>1, <2>2
<1>4. TypeOK'  BY <1>2, <1>3 DEF PluginInv, TypeOK, Registries
<1>5. AllIdle'  BY DEF AllIdle
<1>6. \A o \in Operators : OpOK(o)'
  BY <1>5, NoOpIs DEF AllIdle, OpOK, LoadOK, ReloadOK, Loads, Starting
<1>7. LoadingOK'
  <2>1. \A k \in Plugins : state'[k] # "loading"
    BY <1>2, NothingLoads DEF PluginInv
  <2> QED  BY <2>1 DEF LoadingOK
<1>8. OwnersOK'  BY <1>3 DEF PluginInv, OwnersOK
<1>9. ASSUME NEW q \in Plugins PROVE RecordOK(q)'
  <2>1. RecordOK(q) /\ RecordOK(p)  BY DEF PluginInv
  <2>2. ASSUME NEW t \in contributions'[q] PROVE registry'[t] = q
    <3>1. t \in contributions[q] /\ t \in Tools  BY <1>1, <1>3, <2>2
    <3>2. registry[t] = q  BY <2>1, <3>1 DEF RecordOK
    <3>3. CASE registry'[t] # registry[t]
      <4>1. t \in contributions[p] /\ contributions'[p] = {}  BY <1>3, <3>1, <3>3
      <4>2. registry[t] = p  BY <2>1, <4>1 DEF RecordOK
      <4> QED  BY <2>2, <3>2, <4>1, <4>2
    <3> QED  BY <3>2, <3>3
  <2>3. contributions'[q] \subseteq Own(q) /\ (contributions'[q] # {} => Disjoint(q))
    BY <1>3, <2>1 DEF RecordOK
  <2>6. instance'[q] # "none" => contributions'[q] = Own(q)
    <3>1. CASE q = p /\ Unloaded(p)  BY <1>1, <3>1 DEF Unloaded
    <3>2. CASE q # p \/ UNCHANGED <<registry, contributions, instance>>
      BY <1>3, <2>1, <3>2 DEF RecordOK
    <3> QED  BY <3>1, <3>2
  <2>4. CASE q = p
    <3>1. ~IsLoaded(q)'  BY <1>2, <2>4 DEF IsLoaded
    <3> QED  BY <2>2, <2>3, <2>6, <3>1 DEF RecordOK
  <2>5. CASE q # p
    <3>1. IsLoaded(q)' <=> IsLoaded(q)  BY <1>2, <2>5 DEF IsLoaded
    <3>2. ASSUME IsLoaded(q) PROVE enabled'[q] /\ instance'[q] # "none"
      BY <1>3, <2>1, <2>5, <3>2 DEF RecordOK
    <3>3. ASSUME IsLoaded(q), NEW r \in Selected(q) PROVE IsLoaded(r)'
      <4>1. r # p /\ r \in Plugins  BY <2>5, <3>3, SelectedIs
      <4>2. IsLoaded(r)  BY <2>1, <3>3 DEF RecordOK
      <4> QED  BY <1>2, <4>1, <4>2 DEF IsLoaded
    <3> QED  BY <2>2, <2>3, <2>6, <3>1, <3>2, <3>3 DEF RecordOK
  <2> QED  BY <2>4, <2>5
<1> QED  BY <1>4, <1>6, <1>7, <1>8, <1>9 DEF PluginInv

-----------------------------------------------------------------------------
(* How an operation ends.                                                    *)

LEMMA FinishIs ==
  ASSUME TypeOK, OneAtATime, NEW o \in Operators, Finish(o)
  PROVE  AllIdle' /\ op' \in [Operators -> Op] /\ turn' \in Operators \cup {NoOne}
<1>1. op' = [op EXCEPT ![o] = NoOp]  BY DEF Finish
<1>2. op' \in [Operators -> Op] /\ op'[o] = NoOp  BY <1>1, NoOpIs DEF TypeOK
<1>3. \A w \in Operators : w = o  BY DEF OneAtATime
<1> QED  BY <1>2, <1>3 DEF AllIdle, Finish

LEMMA EndKeeps ==
  ASSUME PluginInv, OneAtATime, NEW o \in Operators, Finish(o),
         state' \in [Plugins -> States], enabled' \in [Plugins -> BOOLEAN],
         contributions' \in [Plugins -> SUBSET Tools],
         instance' \in [Plugins -> {"none", "started", "stopped"}],
         registry' \in Registries, calls' = calls,
         \A k \in Plugins : state'[k] # "loading",
         OwnersOK', \A p \in Plugins : RecordOK(p)'
  PROVE  PluginInv'
<1>1. AllIdle' /\ op' \in [Operators -> Op] /\ turn' \in Operators \cup {NoOne}
  BY FinishIs DEF PluginInv
<1>2. TypeOK'  BY <1>1 DEF PluginInv, TypeOK, Registries
<1>3. \A w \in Operators : OpOK(w)'
  BY <1>1, NoOpIs DEF AllIdle, OpOK, LoadOK, ReloadOK, Loads, Starting
<1>4. LoadingOK'  BY DEF LoadingOK
<1> QED  BY <1>2, <1>3, <1>4 DEF PluginInv

(* What a load does to the records and to the registry before it raises.     *)
Fails(st) ==
  /\ st \in [Plugins -> States]
  /\ \A k \in Plugins : /\ st[k] # "loading"
                        /\ st[k] = state[k] \/ (~IsLoaded(k) /\ st[k] = "failed")

LEMMA RollbackKeeps ==
  ASSUME PluginInv, OneAtATime, NEW o \in Operators, op[o].kind = "reload", op[o].at # "stop",
         NEW st, NEW reg \in Registries, Fails(st), Grows(registry, reg),
         Rollback(o, st, reg), Finish(o), UNCHANGED <<enabled, calls>>
  PROVE  PluginInv'
<1>1. /\ state \in [Plugins -> States] /\ registry \in Registries
      /\ contributions \in [Plugins -> SUBSET Tools] /\ enabled \in [Plugins -> BOOLEAN]
      /\ instance \in [Plugins -> {"none", "started", "stopped"}]
  BY DEF PluginInv, TypeOK, Registries
<1>2. OpOK(o) /\ ReloadOK(o) /\ TypeOK  BY DEF PluginInv, OpOK
<1>3. PICK p \in Plugins : p = op[o].target  BY <1>2 DEF OpOK
<1>4. PICK saved \in SUBSET Tools : saved = op[o].kept  BY <1>2, OpIs
<1>5. PICK old \in States : old = op[o].old  BY <1>2, OpIs
<1>6. PICK had \in BOOLEAN : had = op[o].had  BY <1>2, OpIs
<1>7. /\ saved \subseteq Own(p) /\ (had => saved = Own(p)) /\ contributions[p] = {}
      /\ \A q \in Plugins \ {p} : contributions[q] \cap saved = {}
      /\ saved # {} => Disjoint(p)
      /\ old # "loading"
      /\ old \in Loaded => had /\ enabled[p] /\ \A q \in Selected(p) \ {p} : IsLoaded(q)
  BY <1>2, <1>3, <1>4, <1>5, <1>6 DEF ReloadOK
<1>8. PICK bare \in Registries : bare = Unregister(saved, reg)  BY UnregisterIs
<1>9. \A t \in Tools : bare[t] = IF t \in saved THEN NoOne ELSE reg[t]  BY <1>8, UnregisterIs
<1>10. PICK ok \in BOOLEAN : ok = (~had \/ Taken(p, bare) = {})  OBVIOUS
<1>11. /\ registry' = (IF had THEN RegisterAll(p, bare) ELSE bare)
       /\ state' = [st EXCEPT ![p] = IF ok THEN old ELSE "failed"]
       /\ contributions' = (IF ok THEN [contributions EXCEPT ![p] = IF had THEN Own(p) ELSE {}]
                            ELSE contributions)
       /\ instance' = (IF ok THEN [instance EXCEPT ![p] = IF had THEN "stopped" ELSE "none"]
                       ELSE instance)
  BY <1>3, <1>4, <1>5, <1>6, <1>8, <1>10 DEF Rollback, Own
<1>12. registry' \in Registries /\ Grows(bare, registry')
       /\ (had /\ ok => \A t \in Own(p) : registry'[t] = p)
  <2>1. CASE had  BY <1>10, <1>11, <2>1, RegisterIs
  <2>2. CASE ~had  BY <1>11, <2>2 DEF Grows
  <2> QED  BY <2>1, <2>2
<1>13. /\ state' \in [Plugins -> States] /\ state'[p] = (IF ok THEN old ELSE "failed")
       /\ \A q \in Plugins \ {p} : state'[q] = st[q]
  <2>1. "failed" \in States  BY DEF States
  <2> QED  BY <1>11, <2>1 DEF Fails
<1>14. /\ contributions' \in [Plugins -> SUBSET Tools]
       /\ contributions'[p] = (IF ok /\ had THEN Own(p) ELSE {})
       /\ \A q \in Plugins \ {p} : contributions'[q] = contributions[q]
  BY <1>1, <1>7, <1>11, OwnIs
<1>15. /\ instance' \in [Plugins -> {"none", "started", "stopped"}]
       /\ ok => instance'[p] = (IF had THEN "stopped" ELSE "none")
       /\ ~ok => instance'[p] = instance[p]
       /\ \A q \in Plugins \ {p} : instance'[q] = instance[q]
  BY <1>1, <1>11
<1>16. \A k \in Plugins : state'[k] # "loading"  BY <1>7, <1>13 DEF Fails
<1>17. OwnersOK'
  <2>1. SUFFICES ASSUME NEW t \in Tools, registry'[t] # NoOne PROVE t \in Own(registry'[t])
    BY DEF OwnersOK
  <2>2. registry[t] # NoOne => t \in Own(registry[t])  BY DEF PluginInv, OwnersOK
  <2>3. reg[t] # NoOne => t \in Own(reg[t])  BY <2>2 DEF Grows
  <2>4. bare[t] # NoOne => t \in Own(bare[t])  BY <1>9, <2>3
  <2> QED  BY <1>12, <2>1, <2>4 DEF Grows
<1>18. \A q \in Plugins : RecordOK(q) /\ NoOne # q  BY PluginAssumption DEF PluginInv
<1>19. ASSUME NEW q \in Plugins PROVE RecordOK(q)'
  <2>1. CASE q = p
    <3>1. contributions'[p] \subseteq Own(p) /\ \A t \in contributions'[p] : registry'[t] = p
      BY <1>12, <1>14
    <3>2. contributions'[p] # {} => Disjoint(p)
      BY <1>7, <1>14
    <3>3. instance'[p] # "none" => contributions'[p] = Own(p)
      BY <1>7, <1>14, <1>15, <1>18 DEF RecordOK
    <3>4. ASSUME IsLoaded(p)' PROVE /\ enabled'[p] /\ instance'[p] # "none"
                                    /\ \A r \in Selected(p) : IsLoaded(r)'
      <4>1. ok /\ old \in Loaded  BY <1>13, <3>4 DEF IsLoaded, Loaded
      <4>2. \A r \in Selected(p) \ {p} : IsLoaded(r) /\ r \in Plugins  BY <1>7, <4>1, SelectedIs
      <4>3. \A r \in Selected(p) \ {p} : IsLoaded(r)'
        BY <1>13, <4>2 DEF Fails, IsLoaded
      <4> QED  BY <1>7, <1>15, <3>4, <4>1, <4>3
    <3> QED  BY <2>1, <3>1, <3>2, <3>3, <3>4 DEF RecordOK
  <2>2. CASE q # p
    <3>1. contributions'[q] = contributions[q] /\ instance'[q] = instance[q]
      BY <1>14, <1>15, <2>2
    <3>2. ASSUME NEW t \in contributions[q] PROVE registry'[t] = q
      <4>1. registry[t] = q /\ t \in Tools  BY <1>1, <1>18, <3>2 DEF RecordOK
      <4>2. reg[t] = q  BY <1>18, <4>1 DEF Grows
      <4>3. bare[t] = q  BY <1>7, <1>9, <2>2, <3>2, <4>1, <4>2
      <4> QED  BY <1>12, <1>18, <4>1, <4>3 DEF Grows
    <3>3. IsLoaded(q)' => IsLoaded(q)  BY <1>13, <2>2 DEF Fails, IsLoaded, Loaded
    <3>4. ASSUME IsLoaded(q), NEW r \in Selected(q) PROVE IsLoaded(r)'
      <4>1. IsLoaded(r) /\ r \in Plugins  BY <1>18, <3>4, SelectedIs DEF RecordOK
      <4>2. r # p  BY <1>2, <1>3, <4>1 DEF OpOK
      <4> QED  BY <1>13, <4>1, <4>2 DEF Fails, IsLoaded
    <3> QED  BY <1>18, <3>1, <3>2, <3>3, <3>4 DEF RecordOK
  <2> QED  BY <2>1, <2>2
<1> QED  BY <1>1, <1>12, <1>13, <1>14, <1>15, <1>16, <1>17, <1>19, EndKeeps

LEMMA RaiseKeeps ==
  ASSUME PluginInv, OneAtATime, NEW o \in Operators, op[o].kind \in {"load", "reload"},
         op[o].at # "stop", NEW st, NEW reg \in Registries, Fails(st), Grows(registry, reg),
         NEW error, Raise(o, st, reg, error), UNCHANGED <<enabled, calls>>
  PROVE  PluginInv'
<1>1. Finish(o)  BY DEF Raise
<1>2. CASE op[o].kind = "reload" /\ error = "PluginLoadError"
  <2>1. Rollback(o, st, reg)  BY <1>2 DEF Raise
  <2> QED  BY <1>1, <1>2, <2>1, RollbackKeeps
<1>3. CASE ~(op[o].kind = "reload" /\ error = "PluginLoadError")
  <2>1. /\ state' = st /\ registry' = reg
        /\ contributions' = contributions /\ instance' = instance
    BY <1>3 DEF Raise
  <2>2. /\ enabled \in [Plugins -> BOOLEAN] /\ contributions \in [Plugins -> SUBSET Tools]
        /\ instance \in [Plugins -> {"none", "started", "stopped"}]
    BY DEF PluginInv, TypeOK
  <2>3. OwnersOK'
    <3>1. \A t \in Tools : reg[t] # NoOne => t \in Own(reg[t])
      BY DEF PluginInv, OwnersOK, Grows
    <3> QED  BY <2>1, <3>1 DEF OwnersOK
  <2>4. \A q \in Plugins : RecordOK(q) /\ NoOne # q  BY PluginAssumption DEF PluginInv
  <2>5. ASSUME NEW q \in Plugins PROVE RecordOK(q)'
    <3>1. IsLoaded(q)' <=> IsLoaded(q)  BY <2>1 DEF Fails, IsLoaded, Loaded
    <3>2. ASSUME NEW t \in contributions[q] PROVE reg[t] = q
      <4>1. registry[t] = q /\ t \in Tools  BY <2>2, <2>4, <3>2 DEF RecordOK
      <4> QED  BY <2>4, <4>1 DEF Grows
    <3>3. ASSUME IsLoaded(q), NEW r \in Selected(q) PROVE IsLoaded(r)'
      <4>1. IsLoaded(r) /\ r \in Plugins  BY <2>4, <3>3, SelectedIs DEF RecordOK
      <4> QED  BY <2>1, <4>1 DEF Fails, IsLoaded, Loaded
    <3> QED  BY <2>1, <2>4, <3>1, <3>2, <3>3 DEF RecordOK
  <2>6. \A k \in Plugins : st[k] # "loading"  BY DEF Fails
  <2> QED  BY <1>1, <2>1, <2>2, <2>3, <2>5, <2>6, EndKeeps DEF Fails
<1> QED  BY <1>2, <1>3

-----------------------------------------------------------------------------
(* Loads.                                                                    *)

LEMMA NothingStarts ==
  ASSUME PluginInv, OneAtATime, NEW o \in Operators, ~Starting(o)
  PROVE  \A k \in Plugins : state[k] # "loading"
BY DEF PluginInv, LoadingOK, OneAtATime

LEMMA OnlyThis ==
  ASSUME OneAtATime, NEW o \in Operators, TypeOK, NEW r \in Op, op' = [op EXCEPT ![o] = r]
  PROVE  /\ op' \in [Operators -> Op] /\ op'[o] = r
         /\ \A w \in Operators : w = o
BY DEF OneAtATime, TypeOK

(* The operation goes on and leaves the records as they are.                 *)
LEMMA ContinueKeeps ==
  ASSUME PluginInv, OneAtATime, NEW o \in Operators, NEW r \in Op,
         op' = [op EXCEPT ![o] = r], turn' \in Operators \cup {NoOne},
         UNCHANGED <<state, enabled, contributions, instance, registry, calls>>,
         ~Starting(o), OpOK(o)'
  PROVE  PluginInv'
<1>1. /\ op' \in [Operators -> Op] /\ \A w \in Operators : w = o
  BY OnlyThis DEF PluginInv
<1>2. TypeOK' /\ OwnersOK'  BY <1>1 DEF PluginInv, TypeOK, OwnersOK
<1>3. LoadingOK'  BY NothingStarts DEF LoadingOK
<1>4. \A w \in Operators : OpOK(w)'  BY <1>1
<1>5. ASSUME NEW p \in Plugins PROVE RecordOK(p)'
  BY DEF PluginInv, RecordOK, IsLoaded
<1> QED  BY <1>2, <1>3, <1>4, <1>5 DEF PluginInv

LEMMA LoadKeeps ==
  ASSUME PluginInv, OneAtATime, NEW o \in Operators, NEW p \in Plugins, NEW auto,
         Load(o, p, auto)
  PROVE  PluginInv'
<1>1. AllIdle /\ op[o] = NoOp  BY CallerIsIdle DEF Load, MayCall, Caller
<1>2. enabled[p] /\ ~IsLoaded(p) /\ p \in Plugins
  BY DEF Load, IsLoaded
<1>3. CASE /\ op' = [op EXCEPT ![o] = [NoOp EXCEPT !.kind = "load", !.target = p,
                                        !.todo = Closure[p], !.at = "next"]]
           /\ turn' = o /\ UNCHANGED state
  <2> DEFINE r == [NoOp EXCEPT !.kind = "load", !.target = p, !.todo = Closure[p], !.at = "next"]
  <2>1. /\ r \in Op /\ r.kind = "load" /\ r.target = p /\ r.todo = Closure[p] /\ r.at = "next"
    BY <1>2, NoOpIs, ClosureIs DEF NoOp, Op, States
  <2>2. op'[o] = r  BY <1>3, <2>1, OnlyThis DEF PluginInv
  <2> HIDE DEF r
  <2>3. ~IsLoaded(p)' /\ enabled'[p]  BY <1>2, <1>3 DEF Load, IsLoaded
  <2>4. OpOK(o)'
    BY <1>2, <2>1, <2>2, <2>3 DEF OpOK, LoadOK, ReloadOK, Loads, Starting
  <2>5. ~Starting(o)  BY <1>1, NoOpIs DEF Starting
  <2>6. op' = [op EXCEPT ![o] = r]  BY <1>3 DEF r
  <2> QED  BY <1>3, <2>1, <2>4, <2>5, <2>6, ContinueKeeps DEF Load
<1>4. CASE state' = [state EXCEPT ![p] = "failed"] /\ UNCHANGED <<op, turn>>
  <2>1. "failed" \in States \ (Loaded \cup {"loading"})  BY DEF States, Loaded
  <2>2. enabled' \in [Plugins -> BOOLEAN] /\ enabled' = enabled
    BY DEF PluginInv, TypeOK, Load
  <2>3. \A q \in Plugins \ {p} : IsLoaded(q) => p \notin Selected(q)
    BY <1>2 DEF PluginInv, RecordOK
  <2> QED  BY <1>1, <1>2, <1>4, <2>1, <2>2, <2>3, RecordRests DEF Load
<1> QED  BY <1>3, <1>4 DEF Load

(* The state of the target and of what it is told not to load stays.         *)
LEMMA FailsIs ==
  ASSUME PluginInv, OneAtATime, NEW o \in Operators, NEW k \in Plugins, ~IsLoaded(k),
         \A q \in Plugins \ {k} : state[q] # "loading"
  PROVE  Fails([state EXCEPT ![k] = "failed"])
<1>1. state \in [Plugins -> States] /\ "failed" \in States  BY DEF PluginInv, TypeOK, States
<1> QED  BY <1>1 DEF Fails

LEMMA GrowsNot ==
  ASSUME NEW reg
  PROVE  Grows(reg, reg)
BY DEF Grows

LEMMA ReloadLoadsKeeps ==
  ASSUME PluginInv, OneAtATime, NEW o \in Operators, ReloadLoads(o)
  PROVE  PluginInv'
<1>0. TypeOK /\ registry \in Registries /\ op[o].at = "load" /\ OpOK(o) /\ turn = o
  BY DEF PluginInv, TypeOK, Registries, ReloadLoads
<1>1. op[o].kind = "reload"
  BY <1>0 DEF OpOK
<1>2. PICK p \in Plugins : p = op[o].target  BY <1>0, <1>1 DEF OpOK
<1>3. ~IsLoaded(p) /\ ~Starting(o)  BY <1>0, <1>1, <1>2 DEF OpOK, Starting
<1>4. \A k \in Plugins : state[k] # "loading"  BY <1>3, NothingStarts
<1>5. CASE /\ enabled[p] /\ op' = [op EXCEPT ![o].todo = Closure[p], ![o].at = "next"]
           /\ UNCHANGED <<state, registry, contributions, instance, turn>>
  <2>a. PICK d \in Op : d = op[o]  BY <1>0, OpIs
  <2>b. PICK todo \in SUBSET Plugins : todo = Closure[p]  BY ClosureIs
  <2>c. PICK r : r = [d EXCEPT !.todo = todo, !.at = "next"]  OBVIOUS
  <2>d. /\ r \in Op /\ r.kind = d.kind /\ r.target = d.target
        /\ r.old = d.old /\ r.had = d.had /\ r.kept = d.kept /\ r.todo = todo /\ r.at = "next"
    BY <2>c DEF Op
  <2>1. /\ r \in Op /\ r.kind = "reload" /\ r.target = p /\ r.todo = Closure[p] /\ r.at = "next"
        /\ r.kept = op[o].kept /\ r.old = op[o].old /\ r.had = op[o].had
    BY <1>1, <1>2, <2>a, <2>b, <2>d
  <2>2. op' = [op EXCEPT ![o] = r]  BY <1>0, <1>2, <1>5, <2>a, <2>b, <2>c DEF TypeOK
  <2>3. op'[o] = r  BY <1>0, <2>1, <2>2, OnlyThis
  <2>4. \A q \in Plugins : IsLoaded(q)' <=> IsLoaded(q)  BY <1>5 DEF IsLoaded
  <2>5. UNCHANGED <<enabled, contributions>>  BY <1>5 DEF ReloadLoads
  <2>6. LoadOK(o)'  BY <1>5, <2>1, <2>3, <2>5 DEF LoadOK, Loads, Starting
  <2>7. ReloadOK(o)
    BY <1>0 DEF OpOK
  <2>8. \A q \in Selected(p) : q \in Plugins  BY <1>2, SelectedIs
  <2>9. ReloadOK(o)'
    BY <1>0, <1>1, <1>2, <2>1, <2>3, <2>4, <2>5, <2>7, <2>8 DEF ReloadOK
  <2>10. OpOK(o)'  BY <1>3, <2>1, <2>3, <2>4, <2>6, <2>9 DEF OpOK
  <2>11. turn' \in Operators \cup {NoOne}  BY <1>0, <1>5
  <2> QED  BY <1>3, <1>5, <2>1, <2>2, <2>10, <2>11, ContinueKeeps DEF ReloadLoads
<1>6. ASSUME NEW st \in {state, [state EXCEPT ![p] = "failed"]},
             Raise(o, st, registry, "PluginLoadError"), UNCHANGED <<enabled, calls>>
      PROVE  PluginInv'
  <2>1. Fails(st)
    <3>1. Fails([state EXCEPT ![p] = "failed"])  BY <1>3, <1>4, FailsIs
    <3>2. Fails(state)  BY <1>0, <1>4 DEF Fails, TypeOK
    <3> QED  BY <3>1, <3>2
  <2>2. Grows(registry, registry)  BY GrowsNot
  <2> QED  BY <1>0, <1>1, <1>6, <2>1, <2>2, RaiseKeeps
<1> QED  BY <1>2, <1>5, <1>6 DEF ReloadLoads

(* A dependency that is loaded needs nothing more.                           *)
LEMMA SkipKeeps ==
  ASSUME PluginInv, OneAtATime, NEW o \in Operators, SkipDependency(o)
  PROVE  PluginInv'
<1>1. TypeOK /\ OpOK(o) /\ turn = o /\ op[o].at = "next"
  BY DEF PluginInv, SkipDependency
<1>2. op[o].kind \in {"load", "reload"} /\ ~Starting(o) /\ Loads(o)
  BY <1>1 DEF OpOK, Starting, Loads
<1>3. PICK p \in Plugins : p = op[o].target  BY <1>1, <1>2 DEF OpOK
<1>4. \A q \in Plugins : state[q] # "loading"  BY <1>2, NothingStarts
<1>5. PICK k \in op[o].todo : IsLoaded(k) /\ op' = [op EXCEPT ![o].todo = @ \ {k}]
  <2>1. op[o].todo \subseteq Plugins  BY <1>1, OpIs
  <2> QED  BY <1>4, <2>1 DEF SkipDependency, NextUp, IsLoaded
<1>6. PICK d \in Op : d = op[o]  BY <1>1, OpIs
<1>7. PICK todo \in SUBSET Plugins : todo = d.todo \ {k}  BY <1>1, <1>6, OpIs
<1>8. PICK r : r = [d EXCEPT !.todo = todo]  OBVIOUS
<1>9. /\ r \in Op /\ r.kind = d.kind /\ r.target = d.target /\ r.at = d.at
      /\ r.old = d.old /\ r.had = d.had /\ r.kept = d.kept /\ r.todo = todo
  BY <1>8 DEF Op
<1>10. op' = [op EXCEPT ![o] = r]  BY <1>1, <1>5, <1>6, <1>7, <1>8 DEF TypeOK
<1>11. op'[o] = r  BY <1>1, <1>9, <1>10, OnlyThis
<1>12. UNCHANGED <<state, enabled, contributions, instance, registry, calls, turn>>
  BY DEF SkipDependency
<1>13. \A q \in Plugins : IsLoaded(q)' <=> IsLoaded(q)  BY <1>12 DEF IsLoaded
<1>14. LoadOK(o)'
  <2>1. LoadOK(o)  BY <1>1 DEF OpOK
  <2>2. /\ enabled[p] /\ d.todo \subseteq Closure[p]
        /\ \A q \in Closure[p] \ d.todo : IsLoaded(q)
    BY <1>2, <1>3, <1>6, <2>1 DEF LoadOK
  <2>3. \A q \in Closure[p] \ todo : IsLoaded(q) /\ q \in Plugins
    BY <1>3, <1>5, <1>7, <2>2, ClosureIs
  <2>4. ~Starting(o)'  BY <1>1, <1>6, <1>9, <1>11 DEF Starting
  <2> QED
    BY <1>3, <1>6, <1>7, <1>9, <1>11, <1>12, <1>13, <2>2, <2>3, <2>4 DEF LoadOK
<1>15. ReloadOK(o)'
  <2>1. ReloadOK(o)  BY <1>1 DEF OpOK
  <2>2. \A q \in Selected(p) : q \in Plugins  BY <1>3, SelectedIs
  <2> QED  BY <1>3, <1>6, <1>9, <1>11, <1>12, <1>13, <2>1, <2>2 DEF ReloadOK
<1>16. OpOK(o)'
  BY <1>1, <1>2, <1>3, <1>6, <1>9, <1>11, <1>13, <1>14, <1>15 DEF OpOK
<1>17. turn' \in Operators \cup {NoOne}  BY <1>1, <1>12
<1> QED  BY <1>2, <1>9, <1>10, <1>12, <1>16, <1>17, ContinueKeeps

(* Whatever makes a load raise, its target and what it was loading fail.     *)
LEMMA LoadRaises ==
  ASSUME PluginInv, OneAtATime, NEW o \in Operators, op[o].kind \in {"load", "reload"},
         op[o].at # "stop", NEW k \in Plugins, ~IsLoaded(k),
         \A q \in Plugins \ {k} : state[q] # "loading",
         NEW reg \in Registries, Grows(registry, reg), NEW error,
         Raise(o, [state EXCEPT ![k] = "failed"], reg, error), UNCHANGED <<enabled, calls>>
  PROVE  PluginInv'
<1>1. PICK st : st = [state EXCEPT ![k] = "failed"]  OBVIOUS
<1>2. Fails(st) /\ Raise(o, st, reg, error)  BY <1>1, FailsIs
<1> QED  BY <1>2, RaiseKeeps

LEMMA RefusedKeeps ==
  ASSUME PluginInv, OneAtATime, NEW o \in Operators, DependencyRefused(o)
  PROVE  PluginInv'
<1>1. TypeOK /\ OpOK(o) /\ op[o].at = "next" /\ registry \in Registries
  BY DEF PluginInv, TypeOK, Registries, DependencyRefused
<1>2. op[o].kind \in {"load", "reload"} /\ ~Starting(o)  BY <1>1 DEF OpOK, Starting
<1>3. \A q \in Plugins : state[q] # "loading"  BY <1>2, NothingStarts
<1>4. PICK k \in op[o].todo :
        /\ ~IsLoaded(k)
        /\ \/ Raise(o, state, registry, "PluginLoadError")
           \/ Raise(o, [state EXCEPT ![k] = "failed"], registry, "PluginLoadError")
  BY DEF DependencyRefused, NextUp, IsLoaded
<1>5. k \in Plugins  BY <1>1, <1>4, OpIs
<1>6. Grows(registry, registry)  BY GrowsNot
<1>7. UNCHANGED <<enabled, calls>>  BY DEF DependencyRefused
<1>8. Fails(state)  BY <1>1, <1>3 DEF Fails, TypeOK
<1>9. CASE Raise(o, state, registry, "PluginLoadError")
  BY <1>1, <1>2, <1>6, <1>7, <1>8, <1>9, RaiseKeeps
<1>10. CASE Raise(o, [state EXCEPT ![k] = "failed"], registry, "PluginLoadError")
  BY <1>1, <1>2, <1>3, <1>4, <1>5, <1>6, <1>7, <1>10, LoadRaises
<1> QED  BY <1>4, <1>9, <1>10

LEMMA StartRaisesKeeps ==
  ASSUME PluginInv, OneAtATime, NEW o \in Operators, StartRaises(o)
  PROVE  PluginInv'
<1>1. TypeOK /\ OpOK(o) /\ Starting(o) /\ registry \in Registries
  BY DEF PluginInv, TypeOK, Registries, StartRaises, Starting
<1>2. PICK k : k = op[o].now  OBVIOUS
<1>3. k \in op[o].todo /\ ~IsLoaded(k)  BY <1>1, <1>2 DEF OpOK, LoadOK, NextUp
<1>4. k \in Plugins  BY <1>1, <1>3, OpIs
<1>5. \A q \in Plugins \ {k} : state[q] # "loading"
  BY <1>2 DEF PluginInv, LoadingOK, OneAtATime
<1>6. Grows(registry, registry)  BY GrowsNot
<1> QED  BY <1>1, <1>2, <1>3, <1>4, <1>5, <1>6, LoadRaises DEF StartRaises, Starting

LEMMA LoadSingleKeeps ==
  ASSUME PluginInv, OneAtATime, NEW o \in Operators, LoadSingle(o)
  PROVE  PluginInv'
<1>1. TypeOK /\ OpOK(o) /\ turn = o /\ op[o].at = "next" /\ registry \in Registries
  BY DEF PluginInv, TypeOK, Registries, LoadSingle
<1>2. op[o].kind \in {"load", "reload"} /\ ~Starting(o) /\ Loads(o)
  BY <1>1 DEF OpOK, Starting, Loads
<1>3. PICK p \in Plugins : p = op[o].target  BY <1>1, <1>2 DEF OpOK
<1>4. \A q \in Plugins : state[q] # "loading"  BY <1>2, NothingStarts
<1>5. PICK k \in NextUp(o) :
        /\ MayLoad(o, k)
        /\ \/ \E error \in {"PluginLoadError", "PluginIsolationError"} :
                Raise(o, [state EXCEPT ![k] = "failed"], registry, error)
           \/ Raise(o, [state EXCEPT ![k] = "failed"], RegisterAll(k, registry), "PluginLoadError")
           \/ /\ Taken(k, registry) = {}
              /\ state' = [state EXCEPT ![k] = "loading"]
              /\ registry' = RegisterAll(k, registry)
              /\ op' = [op EXCEPT ![o].at = "start", ![o].now = k] /\ turn' = NoOne
              /\ UNCHANGED <<contributions, instance>>
  BY DEF LoadSingle
<1>6. LoadOK(o) /\ ReloadOK(o) /\ ~IsLoaded(p)  BY <1>1, <1>2, <1>3 DEF OpOK
<1>7. enabled[p]  BY <1>2, <1>3, <1>6 DEF LoadOK
<1>8. k \in op[o].todo /\ k \in Plugins /\ ~IsLoaded(k) /\ enabled[k]
  <2>1. k \in op[o].todo  BY <1>5 DEF NextUp
  <2>2. k \in Plugins  BY <1>1, <2>1, OpIs
  <2> QED  BY <1>3, <1>5, <1>6, <1>7, <2>1, <2>2 DEF MayLoad, IsLoaded
<1>9. UNCHANGED <<enabled, calls>>  BY DEF LoadSingle
<1>10. ASSUME NEW reg \in Registries, Grows(registry, reg), NEW error,
              Raise(o, [state EXCEPT ![k] = "failed"], reg, error)
       PROVE  PluginInv'
  BY <1>1, <1>2, <1>4, <1>8, <1>9, <1>10, LoadRaises
<1>11. RegisterAll(k, registry) \in Registries /\ Grows(registry, RegisterAll(k, registry))
  BY <1>1, <1>8, RegisterIs
<1>12. Grows(registry, registry)  BY GrowsNot
<1>13. CASE /\ Taken(k, registry) = {}
            /\ state' = [state EXCEPT ![k] = "loading"]
            /\ registry' = RegisterAll(k, registry)
            /\ op' = [op EXCEPT ![o].at = "start", ![o].now = k] /\ turn' = NoOne
            /\ UNCHANGED <<contributions, instance>>
  <2>1. PICK d \in Op : d = op[o]  BY <1>1, OpIs
  <2>2. PICK r : r = [d EXCEPT !.at = "start", !.now = k]  OBVIOUS
  <2>3. /\ r \in Op /\ r.kind = d.kind /\ r.target = d.target /\ r.todo = d.todo
        /\ r.old = d.old /\ r.had = d.had /\ r.kept = d.kept /\ r.at = "start" /\ r.now = k
    BY <1>8, <2>2 DEF Op
  <2>4. op' = [op EXCEPT ![o] = r]  BY <1>1, <1>13, <2>1, <2>2 DEF TypeOK
  <2>5. op' \in [Operators -> Op] /\ op'[o] = r /\ \A w \in Operators : w = o
    BY <1>1, <2>3, <2>4, OnlyThis
  <2>6. /\ state' \in [Plugins -> States] /\ state'[k] = "loading"
        /\ \A q \in Plugins \ {k} : state'[q] = state[q]
    BY <1>1, <1>8, <1>13 DEF TypeOK, States
  <2>7. \A q \in Plugins : IsLoaded(q)' <=> IsLoaded(q)
    BY <1>8, <2>6 DEF IsLoaded, Loaded
  <2>8. registry' \in Registries /\ Grows(registry, registry') /\ \A t \in Own(k) : registry'[t] = k
    BY <1>1, <1>8, <1>13, RegisterIs
  <2>9. TypeOK'  BY <1>1, <1>9, <1>13, <2>5, <2>6, <2>8 DEF TypeOK, Registries
  <2>10. OwnersOK'  BY <2>8 DEF PluginInv, OwnersOK, Grows
  <2>11. LoadingOK'
    <3>1. op'[o].kind \in {"load", "reload"} /\ op'[o].at = "start" /\ op'[o].now = k
      BY <1>2, <2>1, <2>3, <2>5
    <3> QED  BY <1>4, <2>6, <3>1 DEF LoadingOK, Starting
  <2>12. LoadOK(o)'
    <3>1. /\ d.todo \subseteq Closure[p] /\ \A q \in Closure[p] \ d.todo : IsLoaded(q)
      BY <1>2, <1>3, <1>6, <2>1 DEF LoadOK
    <3>2. \A q \in Closure[p] \ d.todo : IsLoaded(q) /\ q \in Plugins
      BY <1>3, <3>1, ClosureIs
    <3>3. (k \in NextUp(o))'  BY <1>5, <2>1, <2>3, <2>5 DEF NextUp
    <3>4. enabled'[k] /\ enabled'[p] /\ ~IsLoaded(k)'  BY <1>7, <1>8, <1>9, <2>7
    <3> QED
      BY <1>3, <2>1, <2>3, <2>5, <2>7, <2>8, <3>1, <3>2, <3>3, <3>4 DEF LoadOK
  <2>13. ReloadOK(o)'
    <3>1. \A q \in Selected(p) : q \in Plugins  BY <1>3, SelectedIs
    <3>2. UNCHANGED <<enabled, contributions>>  BY <1>9, <1>13
    <3> QED  BY <1>1, <1>3, <1>6, <2>1, <2>3, <2>5, <2>7, <3>1, <3>2 DEF ReloadOK
  <2>14. OpOK(o)'
    BY <1>1, <1>2, <1>3, <1>6, <2>1, <2>3, <2>5, <2>7, <2>12, <2>13 DEF OpOK
  <2>15. ASSUME NEW q \in Plugins PROVE RecordOK(q)'
    <3>1. RecordOK(q) /\ q # NoOne  BY PluginAssumption DEF PluginInv
    <3>2. contributions[q] \subseteq Tools  BY <1>1 DEF TypeOK
    <3>3. \A t \in contributions[q] : registry'[t] = q
      BY <2>8, <3>1, <3>2 DEF RecordOK, Grows
    <3>4. \A x \in Selected(q) : x \in Plugins  BY SelectedIs
    <3> QED  BY <1>9, <1>13, <2>7, <3>1, <3>3, <3>4 DEF RecordOK
  <2> QED  BY <2>5, <2>9, <2>10, <2>11, <2>14, <2>15 DEF PluginInv
<1> QED  BY <1>1, <1>5, <1>10, <1>11, <1>12, <1>13

(* What a plugin that can be started needs is loaded, and so apart from it.  *)
LEMMA NeedsAreLoaded ==
  ASSUME PluginInv, NEW o \in Operators, Starting(o), NEW k, k = op[o].now
  PROVE  /\ k \in Plugins /\ k \in Closure[op[o].target] /\ enabled[k] /\ ~IsLoaded(k)
         /\ \A t \in Own(k) : registry[t] = k
         /\ \A q \in Selected(k) : IsLoaded(q)
         /\ Disjoint(k)
<1>1. TypeOK /\ OpOK(o) /\ op[o].kind # "none" /\ Loads(o)
  BY DEF PluginInv, Starting, Loads
<1>2. PICK p \in Plugins : p = op[o].target  BY <1>1 DEF OpOK
<1>3. PICK todo \in SUBSET Plugins : todo = op[o].todo  BY <1>1, OpIs
<1>4. LoadOK(o)  BY <1>1 DEF OpOK
<1>5. todo \subseteq Closure[p] /\ \A q \in Closure[p] \ todo : IsLoaded(q)
  BY <1>1, <1>2, <1>3, <1>4 DEF LoadOK
<1>6. k \in NextUp(o) /\ enabled[k] /\ ~IsLoaded(k) /\ \A t \in Own(k) : registry[t] = k
  BY <1>4 DEF LoadOK
<1>7. k \in todo /\ Selected(k) \cap todo = {}  BY <1>3, <1>6 DEF NextUp
<1>8. \A q \in Selected(k) : IsLoaded(q)
  <2>1. Selected(k) \subseteq Closure[p]  BY <1>2, <1>5, <1>7, ClosureIs
  <2> QED  BY <1>5, <1>7, <2>1
<1>9. Closure[k] \subseteq {q \in Plugins : IsLoaded(q)} \cup {k}
  <2> DEFINE S == {q \in Plugins : IsLoaded(q)} \cup {k}
  <2>1. \A x \in S : Selected(x) \subseteq S
    <3>1. SUFFICES ASSUME NEW x \in S, NEW y \in Selected(x) PROVE y \in S  OBVIOUS
    <3>2. x \in Plugins  BY <1>3, <1>7, <3>1
    <3>3. y \in Plugins  BY <3>1, <3>2, SelectedIs
    <3>4. CASE x = k  BY <1>8, <3>1, <3>3, <3>4
    <3>5. CASE x # k
      <4>1. RecordOK(x) /\ IsLoaded(x)  BY <3>1, <3>2, <3>5 DEF PluginInv
      <4> QED  BY <3>1, <3>3, <4>1 DEF RecordOK
    <3> QED  BY <3>4, <3>5
  <2>2. S \in SUBSET Plugins /\ k \in S  BY <1>3, <1>7
  <2>3. k \in Plugins  BY <1>3, <1>7
  <2> HIDE DEF S
  <2>4. Closure[k] \subseteq S  BY <2>1, <2>2, <2>3, ClosureIs
  <2> QED  BY <2>4 DEF S
<1>10. Disjoint(k)
  <2>1. SUFFICES ASSUME NEW q \in Closure[k], q # k, NEW t \in Own(q), t \in Own(k) PROVE FALSE
    BY DEF Disjoint
  <2>2. q \in Plugins /\ IsLoaded(q)  BY <1>9, <2>1
  <2>3. RecordOK(q)  BY <2>2 DEF PluginInv
  <2>4. t \in contributions[q]  BY <2>1, <2>2, <2>3 DEF RecordOK
  <2>5. registry[t] = q  BY <2>3, <2>4 DEF RecordOK
  <2> QED  BY <1>6, <2>1, <2>5
<1> QED  BY <1>2, <1>3, <1>5, <1>6, <1>7, <1>8, <1>10

LEMMA LoadStartedKeeps ==
  ASSUME PluginInv, OneAtATime, NEW o \in Operators, LoadStarted(o)
  PROVE  PluginInv'
<1>1. TypeOK /\ OpOK(o) /\ Starting(o) /\ Loads(o) /\ registry \in Registries
  BY DEF PluginInv, TypeOK, Registries, LoadStarted, Starting, Loads
<1>2. PICK p \in Plugins : p = op[o].target  BY <1>1 DEF OpOK, Starting
<1>3. PICK k \in Plugins : k = op[o].now  BY <1>1, NeedsAreLoaded
<1>4. /\ k \in Closure[p] /\ enabled[k] /\ ~IsLoaded(k)
      /\ \A t \in Own(k) : registry[t] = k
      /\ \A q \in Selected(k) : IsLoaded(q)
      /\ Disjoint(k)
  BY <1>1, <1>2, <1>3, NeedsAreLoaded
<1>5. /\ state' = [state EXCEPT ![k] = "active"]
      /\ contributions' = [contributions EXCEPT ![k] = Own(k)]
      /\ instance' = [instance EXCEPT ![k] = "started"]
      /\ UNCHANGED <<enabled, registry, calls>>
  BY <1>3 DEF LoadStarted, Own
<1>6. /\ state' \in [Plugins -> States] /\ state'[k] = "active"
      /\ \A q \in Plugins \ {k} : state'[q] = state[q]
  BY <1>1, <1>5 DEF TypeOK, States
<1>7. /\ contributions' \in [Plugins -> SUBSET Tools] /\ contributions'[k] = Own(k)
      /\ \A q \in Plugins \ {k} : contributions'[q] = contributions[q]
  BY <1>1, <1>5, OwnIs DEF TypeOK
<1>8. /\ instance' \in [Plugins -> {"none", "started", "stopped"}] /\ instance'[k] = "started"
      /\ \A q \in Plugins \ {k} : instance'[q] = instance[q]
  BY <1>1, <1>5 DEF TypeOK
<1>9. \A q \in Plugins : /\ IsLoaded(q) => IsLoaded(q)'
                         /\ IsLoaded(q)' => IsLoaded(q) \/ q = k
  BY <1>6 DEF IsLoaded, Loaded
<1>10. IsLoaded(k)'  BY <1>6 DEF IsLoaded, Loaded
<1>11. OwnersOK'  BY <1>5 DEF PluginInv, OwnersOK
<1>12. ASSUME NEW q \in Plugins PROVE RecordOK(q)'
  <2>1. RecordOK(q)  BY DEF PluginInv
  <2>2. \A x \in Selected(q) : x \in Plugins  BY SelectedIs
  <2>3. CASE q = k
    BY <1>4, <1>5, <1>7, <1>8, <1>9, <2>2, <2>3 DEF RecordOK
  <2>4. CASE q # k
    BY <1>5, <1>7, <1>8, <1>9, <2>1, <2>2, <2>4 DEF RecordOK
  <2> QED  BY <2>3, <2>4
<1>13. \A q \in Plugins : state'[q] # "loading"
  <2>1. \A q \in Plugins \ {k} : state[q] # "loading"
    BY <1>3 DEF PluginInv, LoadingOK, OneAtATime
  <2> QED  BY <1>6, <2>1
<1>14. enabled \in [Plugins -> BOOLEAN]  BY <1>1 DEF TypeOK
<1>15. CASE k = p
  <2>1. Finish(o)  BY <1>2, <1>3, <1>15 DEF LoadStarted
  <2>2. enabled' \in [Plugins -> BOOLEAN] /\ registry' \in Registries /\ calls' = calls
    BY <1>1, <1>5, <1>14
  <2> QED  BY <1>6, <1>7, <1>8, <1>11, <1>12, <1>13, <2>1, <2>2, EndKeeps
<1>16. CASE k # p
  <2>0. op' = [op EXCEPT ![o].todo = @ \ {k}, ![o].at = "next"] /\ turn' = o
    BY <1>2, <1>3, <1>16 DEF LoadStarted
  <2>1. PICK d \in Op : d = op[o]  BY <1>1, OpIs
  <2>2. PICK todo \in SUBSET Plugins : todo = d.todo \ {k}  BY <1>1, <2>1, OpIs
  <2>3. PICK r : r = [d EXCEPT !.todo = todo, !.at = "next"]  OBVIOUS
  <2>4. /\ r \in Op /\ r.kind = d.kind /\ r.target = d.target /\ r.todo = todo
        /\ r.old = d.old /\ r.had = d.had /\ r.kept = d.kept /\ r.at = "next"
    BY <2>3 DEF Op
  <2>5. op' = [op EXCEPT ![o] = r]  BY <1>1, <2>0, <2>1, <2>2, <2>3 DEF TypeOK
  <2>6. op' \in [Operators -> Op] /\ op'[o] = r /\ \A w \in Operators : w = o
    BY <1>1, <2>4, <2>5, OnlyThis
  <2>7. TypeOK'
    BY <1>1, <1>5, <1>6, <1>7, <1>8, <2>0, <2>6 DEF TypeOK
  <2>8. LoadingOK'  BY <1>13 DEF LoadingOK
  <2>9. LoadOK(o)'
    <3>1. LoadOK(o)  BY <1>1 DEF OpOK
    <3>2. /\ enabled[p] /\ d.todo \subseteq Closure[p]
          /\ \A q \in Closure[p] \ d.todo : IsLoaded(q)
      BY <1>1, <1>2, <2>1, <3>1 DEF LoadOK
    <3>3. \A q \in Closure[p] \ todo : IsLoaded(q)'
      BY <1>2, <1>9, <1>10, <2>2, <3>2, ClosureIs
    <3>4. ~Starting(o)'  BY <2>4, <2>6 DEF Starting
    <3> QED  BY <1>2, <1>5, <2>1, <2>2, <2>4, <2>6, <3>2, <3>3, <3>4 DEF LoadOK
  <2>10. ReloadOK(o)'
    <3>1. ReloadOK(o) /\ op[o].at # "stop"  BY <1>1 DEF OpOK, Starting
    <3>2. \A q \in Selected(p) : q \in Plugins  BY <1>2, SelectedIs
    <3>3. ASSUME op[o].kind = "reload", NEW q \in Plugins \ {p}
          PROVE  contributions'[q] \cap op[o].kept = {}
      <4>1. CASE q = k
        <5>1. op[o].kept # {} => Disjoint(p)  BY <1>2, <3>1, <3>3 DEF ReloadOK
        <5>2. op[o].kept \subseteq Own(p)  BY <1>2, <3>1, <3>3 DEF ReloadOK
        <5>3. Disjoint(p) => Own(k) \cap Own(p) = {}  BY <1>4, <1>16 DEF Disjoint
        <5> QED  BY <1>7, <4>1, <5>1, <5>2, <5>3
      <4>2. CASE q # k  BY <1>2, <1>7, <3>1, <3>3, <4>2 DEF ReloadOK
      <4> QED  BY <4>1, <4>2
    <3>4. contributions'[p] = contributions[p]  BY <1>7, <1>16
    <3>5. op'[o].kept = op[o].kept /\ op'[o].kind = op[o].kind /\ op'[o].target = p
          /\ op'[o].had = op[o].had /\ op'[o].old = op[o].old /\ op'[o].at = "next"
      BY <1>2, <2>1, <2>4, <2>6
    <3>6. ASSUME op[o].kind = "reload"
          PROVE  /\ op'[o].kept \subseteq Own(p) /\ (op'[o].had => op'[o].kept = Own(p))
                 /\ contributions'[p] = {} /\ (op'[o].kept # {} => Disjoint(p))
                 /\ op'[o].old # "loading"
                 /\ op'[o].old \in Loaded =>
                      op'[o].had /\ enabled'[p] /\ \A q \in Selected(p) \ {p} : IsLoaded(q)'
      BY <1>2, <1>5, <1>9, <3>1, <3>2, <3>4, <3>5, <3>6 DEF ReloadOK
    <3> QED  BY <3>3, <3>5, <3>6 DEF ReloadOK
  <2>11. OpOK(o)'
    <3>1. op'[o].kind = op[o].kind /\ op'[o].target = p /\ op'[o].at = "next"
      BY <1>2, <2>1, <2>4, <2>6
    <3>2. ~IsLoaded(p)  BY <1>1, <1>2 DEF OpOK, Starting
    <3>3. ~IsLoaded(p)'  BY <1>9, <1>16, <3>2
    <3>4. op[o].kind \in {"load", "reload"}  BY <1>1 DEF Starting
    <3> QED  BY <2>9, <2>10, <3>1, <3>3, <3>4 DEF OpOK
  <2> QED  BY <1>11, <1>12, <2>6, <2>7, <2>8, <2>11 DEF PluginInv
<1> QED  BY <1>15, <1>16

(* Unloads: the target rests while its stop is awaited.                      *)
LEMMA NotNeeded ==
  ASSUME PluginInv, NEW p \in Plugins, ~IsLoaded(p) \/ LoadedDependents(p) = {}
  PROVE  \A q \in Plugins \ {p} : IsLoaded(q) => p \notin Selected(q)
<1>1. SUFFICES ASSUME NEW q \in Plugins \ {p}, IsLoaded(q), p \in Selected(q) PROVE FALSE
  OBVIOUS
<1>2. IsLoaded(p)  BY <1>1 DEF PluginInv, RecordOK
<1>3. p \in Elements(DependsOn[q])  BY <1>1, SelectedIs
<1>4. q \in Registered  BY <1>1 DEF Registered, IsLoaded, Loaded
<1> QED  BY <1>1, <1>2, <1>3, <1>4 DEF LoadedDependents, IsLoaded

LEMMA UnloadKeeps ==
  ASSUME PluginInv, OneAtATime, NEW o \in Operators, NEW p \in Plugins,
         NEW kind \in {"unload", "reload"}, Unload(o, p, kind)
  PROVE  PluginInv'
<1>1. TypeOK /\ AllIdle /\ op[o] = NoOp /\ turn = NoOne
  BY CallerIsIdle DEF PluginInv, Unload, MayCall, Caller
<1>2. \A q \in Plugins : state[q] # "loading"
  BY <1>1, NothingLoads DEF PluginInv
<1>3. UNCHANGED <<enabled, contributions, instance, registry, calls>>  BY DEF Unload
<1>4. LoadedDependents(p) = {}  BY DEF Unload, MayUnload
<1>5. \/ state' = [state EXCEPT ![p] = "unloading"]
      \/ state' = state /\ state[p] = "unloaded"
  BY DEF Unload
<1>6. /\ state' \in [Plugins -> States] /\ state'[p] \in {"unloading", "unloaded"}
      /\ \A q \in Plugins \ {p} : state'[q] = state[q]
  BY <1>1, <1>5 DEF TypeOK, States
<1>7. \A q \in Plugins : IsLoaded(q)' <=> IsLoaded(q) /\ q # p
  BY <1>6 DEF IsLoaded, Loaded
<1>8. \A q \in Plugins \ {p} : IsLoaded(q) => p \notin Selected(q)  BY <1>4, NotNeeded
<1>9. PICK was \in States : was = state[p]  BY <1>1 DEF TypeOK
<1>10. PICK had \in BOOLEAN : had = (instance[p] # "none")  OBVIOUS
<1>11. PICK saved \in SUBSET Tools : saved = contributions[p]  BY <1>1 DEF TypeOK
<1>12. PICK r : r = [NoOp EXCEPT !.kind = kind, !.target = p, !.at = "stop", !.old = was,
                       !.had = had, !.kept = saved]
  OBVIOUS
<1>13. /\ r \in Op /\ r.kind = kind /\ r.target = p /\ r.at = "stop" /\ r.old = was
       /\ r.had = had /\ r.kept = saved
  BY <1>12, NoOpIs DEF NoOp, Op
<1>14. op' = [op EXCEPT ![o] = r]  BY <1>9, <1>10, <1>11, <1>12 DEF Unload
<1>15. op' \in [Operators -> Op] /\ op'[o] = r /\ \A w \in Operators : w = o
  BY <1>1, <1>13, <1>14, OnlyThis
<1>16. turn' \in Operators \cup {NoOne}  BY DEF Unload
<1>17. TypeOK'  BY <1>1, <1>3, <1>6, <1>15, <1>16 DEF TypeOK
<1>18. OwnersOK'  BY <1>3 DEF PluginInv, OwnersOK
<1>19. LoadingOK'  BY <1>2, <1>6 DEF LoadingOK
<1>20. ASSUME NEW q \in Plugins PROVE RecordOK(q)'
  <2>1. RecordOK(q)  BY DEF PluginInv
  <2>2. \A x \in Selected(q) : x \in Plugins  BY SelectedIs
  <2> QED  BY <1>3, <1>7, <1>8, <2>1, <2>2 DEF RecordOK
<1>21. ReloadOK(o)'
  <2>1. RecordOK(p)  BY DEF PluginInv
  <2>2. saved \subseteq Own(p) /\ (had => saved = Own(p)) /\ (saved # {} => Disjoint(p))
    BY <1>10, <1>11, <2>1 DEF RecordOK
  <2>3. ASSUME NEW q \in Plugins \ {p} PROVE contributions[q] \cap saved = {}
    <3>1. RecordOK(q)  BY DEF PluginInv
    <3> QED  BY <1>11, <2>1, <2>3, <3>1 DEF RecordOK
  <2>4. was # "loading"  BY <1>2, <1>9
  <2>5. ASSUME was \in Loaded
        PROVE  had /\ enabled[p] /\ \A q \in Selected(p) \ {p} : IsLoaded(q)'
    <3>1. IsLoaded(p)  BY <1>9, <2>5 DEF IsLoaded
    <3>2. \A x \in Selected(p) : x \in Plugins  BY SelectedIs
    <3> QED  BY <1>7, <1>10, <2>1, <3>1, <3>2 DEF RecordOK
  <2> QED  BY <1>3, <1>11, <1>13, <1>15, <2>2, <2>3, <2>4, <2>5 DEF ReloadOK
<1>22. LoadOK(o)'  BY <1>13, <1>15 DEF LoadOK, Loads, Starting
<1>23. OpOK(o)'  BY <1>7, <1>13, <1>15, <1>21, <1>22 DEF OpOK
<1> QED  BY <1>15, <1>17, <1>18, <1>19, <1>20, <1>23 DEF PluginInv

LEMMA StopReturnsKeeps ==
  ASSUME PluginInv, OneAtATime, NEW o \in Operators, StopReturns(o)
  PROVE  PluginInv'
<1>1. /\ TypeOK /\ OpOK(o) /\ registry \in Registries /\ op[o].kind \in {"unload", "reload"}
      /\ op[o].at = "stop" /\ ~Starting(o)
  BY DEF PluginInv, TypeOK, Registries, StopReturns, Starting
<1>2. PICK p \in Plugins : p = op[o].target  BY <1>1 DEF OpOK
<1>3. \A q \in Plugins : state[q] # "loading"  BY <1>1, NothingStarts
<1>4. ~IsLoaded(p)  BY <1>1, <1>2 DEF OpOK
<1>5. /\ registry' = Unregister(contributions[p], registry)
      /\ contributions' = [contributions EXCEPT ![p] = {}]
      /\ instance' = [instance EXCEPT ![p] = "none"]
      /\ state' = [state EXCEPT ![p] = "unloaded"]
      /\ UNCHANGED <<enabled, calls>>
  BY <1>2 DEF StopReturns, Unloaded
<1>6. /\ state' \in [Plugins -> States] /\ state'[p] = "unloaded"
      /\ \A q \in Plugins \ {p} : state'[q] = state[q]
  BY <1>1, <1>5 DEF TypeOK, States
<1>7. /\ contributions' \in [Plugins -> SUBSET Tools] /\ contributions'[p] = {}
      /\ \A q \in Plugins \ {p} : contributions'[q] = contributions[q]
  BY <1>1, <1>5 DEF TypeOK
<1>8. /\ instance' \in [Plugins -> {"none", "started", "stopped"}] /\ instance'[p] = "none"
      /\ \A q \in Plugins \ {p} : instance'[q] = instance[q]
  BY <1>1, <1>5 DEF TypeOK
<1>9. /\ registry' \in Registries
      /\ \A t \in Tools : registry'[t] = IF t \in contributions[p] THEN NoOne ELSE registry[t]
  BY <1>1, <1>5, UnregisterIs
<1>10. \A q \in Plugins : IsLoaded(q)' <=> IsLoaded(q)
  BY <1>4, <1>6 DEF IsLoaded, Loaded
<1>11. OwnersOK'  BY <1>9 DEF PluginInv, OwnersOK
<1>12. \A q \in Plugins : state'[q] # "loading"  BY <1>3, <1>6
<1>13. ASSUME NEW q \in Plugins PROVE RecordOK(q)'
  <2>1. RecordOK(q) /\ RecordOK(p)  BY DEF PluginInv
  <2>2. \A x \in Selected(q) : x \in Plugins  BY SelectedIs
  <2>3. CASE q = p
    BY <1>4, <1>7, <1>8, <1>10, <2>3 DEF RecordOK
  <2>4. CASE q # p
    <3>1. \A t \in contributions[q] : t \in Tools /\ registry[t] = q
      BY <1>1, <2>1 DEF RecordOK, TypeOK
    <3>2. \A t \in contributions[q] : t \notin contributions[p]
      BY <2>1, <2>4, <3>1 DEF RecordOK
    <3>3. \A t \in contributions[q] : registry'[t] = q  BY <1>9, <3>1, <3>2
    <3> QED  BY <1>5, <1>7, <1>8, <1>10, <2>1, <2>2, <2>4, <3>3 DEF RecordOK
  <2> QED  BY <2>3, <2>4
<1>14. CASE op[o].kind = "unload"
  <2>1. Finish(o)  BY <1>14 DEF StopReturns
  <2>2. enabled' \in [Plugins -> BOOLEAN] /\ calls' = calls  BY <1>1, <1>5 DEF TypeOK
  <2> QED  BY <1>6, <1>7, <1>8, <1>9, <1>11, <1>12, <1>13, <2>1, <2>2, EndKeeps
<1>15. CASE op[o].kind = "reload"
  <2>0. op' = [op EXCEPT ![o].at = "load"] /\ turn' = o  BY <1>15 DEF StopReturns
  <2>1. PICK d \in Op : d = op[o]  BY <1>1, OpIs
  <2>2. PICK r : r = [d EXCEPT !.at = "load"]  OBVIOUS
  <2>3. /\ r \in Op /\ r.kind = d.kind /\ r.target = d.target /\ r.todo = d.todo
        /\ r.old = d.old /\ r.had = d.had /\ r.kept = d.kept /\ r.at = "load"
    BY <2>2 DEF Op
  <2>4. op' = [op EXCEPT ![o] = r]  BY <1>1, <2>0, <2>1, <2>2 DEF TypeOK
  <2>5. op' \in [Operators -> Op] /\ op'[o] = r /\ \A w \in Operators : w = o
    BY <1>1, <2>3, <2>4, OnlyThis
  <2>6. TypeOK'  BY <1>1, <1>5, <1>6, <1>7, <1>8, <1>9, <2>0, <2>5 DEF TypeOK, Registries
  <2>7. LoadingOK'  BY <1>12 DEF LoadingOK
  <2>8. LoadOK(o)'  BY <2>3, <2>5 DEF LoadOK, Loads, Starting
  <2>9. ReloadOK(o)'
    <3>1. ReloadOK(o)  BY <1>1 DEF OpOK
    <3>2. \A q \in Selected(p) : q \in Plugins  BY <1>2, SelectedIs
    <3>3. /\ op'[o].kept = op[o].kept /\ op'[o].kind = "reload" /\ op'[o].target = p
          /\ op'[o].had = op[o].had /\ op'[o].old = op[o].old /\ op'[o].at = "load"
      BY <1>2, <1>15, <2>1, <2>3, <2>5
    <3> QED  BY <1>2, <1>5, <1>7, <1>10, <1>15, <3>1, <3>2, <3>3 DEF ReloadOK
  <2>10. OpOK(o)'
    BY <1>2, <1>4, <1>10, <1>15, <2>1, <2>3, <2>5, <2>8, <2>9 DEF OpOK
  <2> QED  BY <1>11, <1>13, <2>5, <2>6, <2>7, <2>10 DEF PluginInv
<1> QED  BY <1>1, <1>14, <1>15

LEMMA StopRaisesKeeps ==
  ASSUME PluginInv, OneAtATime, NEW o \in Operators, StopRaises(o)
  PROVE  PluginInv'
<1>1. /\ TypeOK /\ OpOK(o) /\ op[o].kind \in {"unload", "reload"} /\ ~Starting(o)
      /\ registry \in Registries
  BY DEF PluginInv, TypeOK, Registries, StopRaises, Starting
<1>2. PICK p \in Plugins : p = op[o].target  BY <1>1 DEF OpOK
<1>3. \A q \in Plugins : state[q] # "loading"  BY <1>1, NothingStarts
<1>4. ~IsLoaded(p)  BY <1>1, <1>2 DEF OpOK
<1>5. /\ state' = [state EXCEPT ![p] = "failed"] /\ Finish(o)
      /\ UNCHANGED <<enabled, contributions, instance, registry, calls>>
  BY <1>2 DEF StopRaises
<1>6. /\ state' \in [Plugins -> States] /\ state'[p] = "failed"
      /\ \A q \in Plugins \ {p} : state'[q] = state[q]
  BY <1>1, <1>5 DEF TypeOK, States
<1>7. \A q \in Plugins : IsLoaded(q)' <=> IsLoaded(q)
  BY <1>4, <1>6 DEF IsLoaded, Loaded
<1>8. OwnersOK'  BY <1>5 DEF PluginInv, OwnersOK
<1>9. \A q \in Plugins : state'[q] # "loading"  BY <1>3, <1>6
<1>10. ASSUME NEW q \in Plugins PROVE RecordOK(q)'
  <2>1. RecordOK(q)  BY DEF PluginInv
  <2>2. \A x \in Selected(q) : x \in Plugins  BY SelectedIs
  <2> QED  BY <1>5, <1>7, <2>1, <2>2 DEF RecordOK
<1>11. /\ enabled' \in [Plugins -> BOOLEAN] /\ contributions' \in [Plugins -> SUBSET Tools]
       /\ instance' \in [Plugins -> {"none", "started", "stopped"}]
       /\ registry' \in Registries /\ calls' = calls
  BY <1>1, <1>5 DEF TypeOK
<1> QED  BY <1>5, <1>6, <1>8, <1>9, <1>10, <1>11, EndKeeps

-----------------------------------------------------------------------------
(* The hooks of activate and deactivate.                                     *)

LEMMA HookKeeps ==
  ASSUME PluginInv, OneAtATime, NEW o \in Operators, NEW p \in Plugins,
         NEW kind \in {"activate", "deactivate"}, Hook(o, p, kind)
  PROVE  PluginInv'
<1>1. TypeOK /\ op[o] = NoOp  BY DEF PluginInv, Hook, MayCall
<1>2. PICK at \in {"start", "stop"} : at = IF kind = "activate" THEN "start" ELSE "stop"
  OBVIOUS
<1>3. PICK r : r = [NoOp EXCEPT !.kind = kind, !.target = p, !.at = at]  OBVIOUS
<1>4. r \in Op /\ r.kind = kind /\ r.target = p /\ r.at = at
  BY <1>3, NoOpIs DEF NoOp, Op, States
<1>5. op' = [op EXCEPT ![o] = r]  BY <1>2, <1>3 DEF Hook
<1>6. op'[o] = r  BY <1>1, <1>4, <1>5, OnlyThis
<1>7. UNCHANGED <<state, enabled, contributions, instance, registry, calls, turn>>
  BY DEF Hook
<1>8. IsLoaded(p)'  BY <1>7 DEF Hook, IsLoaded, Loaded
<1>9. OpOK(o)'
  BY <1>4, <1>6, <1>8 DEF OpOK, LoadOK, ReloadOK, Loads, Starting
<1>10. ~Starting(o)  BY <1>1, NoOpIs DEF Starting
<1>11. turn' \in Operators \cup {NoOne}  BY <1>1, <1>7 DEF TypeOK
<1> QED  BY <1>4, <1>5, <1>7, <1>9, <1>10, <1>11, ContinueKeeps

LEMMA HookEndKeeps ==
  ASSUME PluginInv, OneAtATime, NEW o \in Operators, HookReturns(o) \/ HookRaises(o)
  PROVE  PluginInv'
<1>1. /\ TypeOK /\ OpOK(o) /\ op[o].kind \in {"activate", "deactivate"} /\ ~Starting(o)
      /\ registry \in Registries /\ Finish(o)
  BY DEF PluginInv, TypeOK, Registries, HookReturns, HookRaises, Starting
<1>2. PICK p \in Plugins : p = op[o].target  BY <1>1 DEF OpOK
<1>3. \A q \in Plugins : state[q] # "loading"  BY <1>1, NothingStarts
<1>4. IsLoaded(p)  BY <1>1, <1>2 DEF OpOK
<1>5. /\ state' \in [Plugins -> States]
      /\ \A q \in Plugins : (IsLoaded(q)' <=> IsLoaded(q)) /\ state'[q] # "loading"
      /\ instance' \in [Plugins -> {"none", "started", "stopped"}]
      /\ \A q \in Plugins : instance'[q] # "none" <=> instance[q] # "none"
      /\ UNCHANGED <<enabled, contributions, registry, calls>>
  <2>1. CASE HookRaises(o)  BY <1>1, <1>3, <2>1 DEF HookRaises, TypeOK, IsLoaded
  <2>2. CASE HookReturns(o)
    <3>1. PICK x \in {"active", "loaded"} : x = IF op[o].kind = "activate" THEN "active" ELSE "loaded"
      OBVIOUS
    <3>2. PICK y \in {"started", "stopped"} : y = IF op[o].kind = "activate" THEN "started" ELSE "stopped"
      OBVIOUS
    <3>3. /\ state' = [state EXCEPT ![p] = x]
          /\ instance' = [instance EXCEPT ![p] = IF @ = "none" THEN @ ELSE y]
          /\ UNCHANGED <<enabled, contributions, registry, calls>>
      BY <1>1, <1>2, <2>2, <3>1, <3>2 DEF HookReturns
    <3> QED  BY <1>1, <1>3, <1>4, <3>3 DEF TypeOK, IsLoaded, Loaded, States
  <2> QED  BY <2>1, <2>2
<1>6. OwnersOK'  BY <1>5 DEF PluginInv, OwnersOK
<1>7. ASSUME NEW q \in Plugins PROVE RecordOK(q)'
  <2>1. RecordOK(q)  BY DEF PluginInv
  <2>2. \A x \in Selected(q) : x \in Plugins  BY SelectedIs
  <2> QED  BY <1>5, <2>1, <2>2 DEF RecordOK
<1>8. /\ enabled' \in [Plugins -> BOOLEAN] /\ contributions' \in [Plugins -> SUBSET Tools]
      /\ registry' \in Registries /\ calls' = calls
  BY <1>1, <1>5 DEF TypeOK
<1> QED  BY <1>1, <1>5, <1>6, <1>7, <1>8, EndKeeps

-----------------------------------------------------------------------------
(* The operations that never await, and the calls.                           *)

LEMMA ToolCallsKeep ==
  ASSUME PluginInv, calls' \in [Tools -> 0..MaxCalls],
         UNCHANGED <<state, enabled, contributions, instance, registry, op, turn>>
  PROVE  PluginInv'
<1>1. TypeOK'  BY DEF PluginInv, TypeOK
<1>2. OwnersOK' /\ LoadingOK'
  BY DEF PluginInv, OwnersOK, LoadingOK, Starting
<1>3. \A q \in Plugins : RecordOK(q)'
  BY DEF PluginInv, RecordOK, IsLoaded
<1>4. ASSUME NEW o \in Operators PROVE OpOK(o)'
  <2>1. OpOK(o)  BY DEF PluginInv
  <2>2. LoadOK(o)'
    BY <2>1 DEF OpOK, LoadOK, Loads, Starting, NextUp, IsLoaded
  <2>3. ReloadOK(o)'  BY <2>1 DEF OpOK, ReloadOK, IsLoaded
  <2> QED  BY <2>1, <2>2, <2>3 DEF OpOK, IsLoaded
<1> QED  BY <1>1, <1>2, <1>3, <1>4 DEF PluginInv

LEMMA CallStepKeeps ==
  ASSUME PluginInv, NEW t \in Tools, CallBegins(t) \/ CallEnds(t)
  PROVE  PluginInv'
<1>1. calls \in [Tools -> 0..MaxCalls] /\ MaxCalls \in Nat  BY PluginAssumption DEF PluginInv, TypeOK
<1>2. PICK n \in 0..MaxCalls : n = calls[t]  BY <1>1
<1>3. CASE CallBegins(t)
  <2>1. n < MaxCalls /\ calls' = [calls EXCEPT ![t] = n + 1]  BY <1>2, <1>3 DEF CallBegins
  <2>2. n + 1 \in 0..MaxCalls  BY <1>1, <2>1
  <2>3. calls' \in [Tools -> 0..MaxCalls]  BY <1>1, <2>1, <2>2
  <2> QED  BY <1>3, <2>3, ToolCallsKeep DEF CallBegins
<1>4. CASE CallEnds(t)
  <2>1. n > 0 /\ calls' = [calls EXCEPT ![t] = n - 1]  BY <1>2, <1>4 DEF CallEnds
  <2>2. n - 1 \in 0..MaxCalls  BY <1>1, <2>1
  <2>3. calls' \in [Tools -> 0..MaxCalls]  BY <1>1, <2>1, <2>2
  <2> QED  BY <1>4, <2>3, ToolCallsKeep DEF CallEnds
<1> QED  BY <1>3, <1>4

(* A record that is not loaded gets another state that is not.               *)
LEMMA RegisterKeeps ==
  ASSUME PluginInv, OneAtATime, NEW p \in Plugins,
         Discover(p) \/ LoadDirectorySafe(p) \/ Enable(p)
  PROVE  PluginInv'
<1>1. AllIdle /\ enabled \in [Plugins -> BOOLEAN]
  BY CallerIsIdle DEF PluginInv, TypeOK, Discover, LoadDirectorySafe, Enable
<1>2. ~IsLoaded(p)
  <2>1. CASE Enable(p)  BY <2>1 DEF PluginInv, RecordOK, Enable
  <2>2. CASE state[p] = "absent"  BY <2>2 DEF IsLoaded, Loaded
  <2> QED  BY <2>1, <2>2 DEF Discover, LoadDirectorySafe
<1>3. \A q \in Plugins \ {p} : IsLoaded(q) => p \notin Selected(q)  BY <1>2, NotNeeded
<1>4. PICK x \in {"registered", "failed", "enabled"} : state' = [state EXCEPT ![p] = x]
  BY DEF Discover, LoadDirectorySafe, Enable
<1>5. x \in States \ (Loaded \cup {"loading"})  BY DEF States, Loaded
<1>6. /\ enabled' \in [Plugins -> BOOLEAN] /\ \A q \in Plugins \ {p} : enabled'[q] = enabled[q]
      /\ UNCHANGED <<registry, contributions, instance>> /\ UNCHANGED <<calls, op, turn>>
  <2>1. enabled' = enabled \/ enabled' = [enabled EXCEPT ![p] = TRUE]
    BY DEF Discover, LoadDirectorySafe, Enable
  <2> QED  BY <1>1, <2>1 DEF Discover, LoadDirectorySafe, Enable
<1> QED  BY <1>1, <1>3, <1>4, <1>5, <1>6, RecordRests

LEMMA InstallKeeps ==
  ASSUME PluginInv, OneAtATime, NEW p \in Plugins, Install(p)
  PROVE  PluginInv'
<1>1. AllIdle /\ enabled \in [Plugins -> BOOLEAN]
  BY CallerIsIdle DEF PluginInv, TypeOK, Install
<1>2. ~IsLoaded(p)  BY DEF Install, IsLoaded
<1>3. \A q \in Plugins \ {p} : IsLoaded(q) => p \notin Selected(q)  BY <1>2, NotNeeded
<1>4. "installed" \in States \ (Loaded \cup {"loading"})  BY DEF States, Loaded
<1>5. state' = [state EXCEPT ![p] = "installed"] /\ enabled' = enabled
      /\ UNCHANGED <<registry, contributions, instance>> /\ UNCHANGED <<calls, op, turn>>
  BY DEF Install
<1> QED  BY <1>1, <1>3, <1>4, <1>5, RecordRests

LEMMA RetireKeeps ==
  ASSUME PluginInv, OneAtATime, NEW p \in Plugins, Disable(p) \/ Uninstall(p)
  PROVE  PluginInv'
<1>1. PICK to \in {"disabled", "uninstalled"}, flag \in BOOLEAN : Retire(p, to, flag)
  <2>1. enabled[p] \in BOOLEAN  BY DEF PluginInv, TypeOK
  <2> QED  BY <2>1 DEF Disable, Uninstall
<1>2. AllIdle /\ enabled \in [Plugins -> BOOLEAN]
  BY <1>1, CallerIsIdle DEF PluginInv, TypeOK, Retire
<1>3. state[p] # "loading"  BY <1>2, NothingLoads DEF PluginInv
<1>4. \/ LoadedDependents(p) = {} /\ Unloaded(p)
      \/ ~IsLoaded(p) /\ UNCHANGED <<registry, contributions, instance>>
  BY <1>1, <1>3 DEF Retire, MayUnload, IsLoaded
<1>5. \A q \in Plugins \ {p} : IsLoaded(q) => p \notin Selected(q)  BY <1>4, NotNeeded
<1>6. to \in States \ (Loaded \cup {"loading"})  BY DEF States, Loaded
<1>7. /\ state' = [state EXCEPT ![p] = to] /\ enabled' = [enabled EXCEPT ![p] = flag]
      /\ UNCHANGED <<calls, op, turn>>
  BY <1>1 DEF Retire
<1>8. enabled' \in [Plugins -> BOOLEAN] /\ \A q \in Plugins \ {p} : enabled'[q] = enabled[q]
  BY <1>2, <1>7
<1> QED  BY <1>2, <1>4, <1>5, <1>6, <1>7, <1>8, RecordRests

LEMMA RetireStopRaisesKeeps ==
  ASSUME PluginInv, NEW p \in Plugins, RetireStopRaises(p)
  PROVE  PluginInv'
<1>1. AllIdle /\ enabled \in [Plugins -> BOOLEAN]
  BY LoopIsIdle DEF PluginInv, TypeOK, RetireStopRaises
<1>2. \A q \in Plugins \ {p} : IsLoaded(q) => p \notin Selected(q)
  BY NotNeeded DEF RetireStopRaises, MayUnload
<1>3. "failed" \in States \ (Loaded \cup {"loading"})  BY DEF States, Loaded
<1>4. state' = [state EXCEPT ![p] = "failed"] /\ enabled' = enabled
      /\ UNCHANGED <<registry, contributions, instance>> /\ UNCHANGED <<calls, op, turn>>
  BY DEF RetireStopRaises
<1> QED  BY <1>1, <1>2, <1>3, <1>4, RecordRests

-----------------------------------------------------------------------------

LEMMA PluginInit ==
  ASSUME Init
  PROVE  PluginInv
<1>1. TypeOK
  <2>1. MaxCalls \in Nat  BY PluginAssumption
  <2>2. 0 \in 0..MaxCalls  BY <2>1
  <2> QED  BY <2>2, NoOpIs DEF Init, TypeOK, States
<1>2. OwnersOK  BY DEF Init, OwnersOK
<1>3. LoadingOK  BY DEF Init, LoadingOK
<1>4. \A p \in Plugins : RecordOK(p)  BY DEF Init, RecordOK, IsLoaded, Loaded
<1>5. \A o \in Operators : OpOK(o)
  BY NoOpIs DEF Init, OpOK, LoadOK, ReloadOK, Loads, Starting
<1> QED  BY <1>1, <1>2, <1>3, <1>4, <1>5 DEF PluginInv

(* Every step of the manager, and every call of a tool, keeps PluginInv.     *)
LEMMA PluginStep ==
  ASSUME OneAtATime, PluginInv, [Next]_vars
  PROVE  PluginInv'
<1>1. CASE UNCHANGED vars
  <2>1. calls' \in [Tools -> 0..MaxCalls]  BY <1>1 DEF vars, PluginInv, TypeOK
  <2> QED  BY <1>1, <2>1, ToolCallsKeep DEF vars
<1>2. ASSUME NEW o \in Operators, NEW p \in Plugins, NEW auto \in BOOLEAN, Load(o, p, auto)
      PROVE  PluginInv'
  BY <1>2, LoadKeeps
<1>3. ASSUME NEW o \in Operators, NEW p \in Plugins, NEW kind \in {"unload", "reload"},
             Unload(o, p, kind)
      PROVE  PluginInv'
  BY <1>3, UnloadKeeps
<1>4. ASSUME NEW o \in Operators, NEW p \in Plugins, NEW kind \in {"activate", "deactivate"},
             Hook(o, p, kind)
      PROVE  PluginInv'
  BY <1>4, HookKeeps
<1>5. ASSUME NEW o \in Operators,
             \/ ReloadLoads(o) \/ SkipDependency(o) \/ DependencyRefused(o)
             \/ LoadSingle(o) \/ LoadStarted(o) \/ StartRaises(o)
             \/ StopReturns(o) \/ StopRaises(o) \/ HookReturns(o) \/ HookRaises(o)
      PROVE  PluginInv'
  <2>1. CASE ReloadLoads(o)  BY <2>1, ReloadLoadsKeeps
  <2>2. CASE SkipDependency(o)  BY <2>2, SkipKeeps
  <2>3. CASE DependencyRefused(o)  BY <2>3, RefusedKeeps
  <2>4. CASE LoadSingle(o)  BY <2>4, LoadSingleKeeps
  <2>5. CASE LoadStarted(o)  BY <2>5, LoadStartedKeeps
  <2>6. CASE StartRaises(o)  BY <2>6, StartRaisesKeeps
  <2>7. CASE StopReturns(o)  BY <2>7, StopReturnsKeeps
  <2>8. CASE StopRaises(o)  BY <2>8, StopRaisesKeeps
  <2>9. CASE HookReturns(o) \/ HookRaises(o)  BY <2>9, HookEndKeeps
  <2> QED
    BY <1>5, <2>1, <2>2, <2>3, <2>4, <2>5, <2>6, <2>7, <2>8, <2>9
<1>6. ASSUME NEW p \in Plugins,
             \/ Discover(p) \/ LoadDirectorySafe(p) \/ Install(p) \/ Enable(p)
             \/ Disable(p) \/ Uninstall(p) \/ RetireStopRaises(p)
      PROVE  PluginInv'
  BY <1>6, RegisterKeeps, InstallKeeps, RetireKeeps, RetireStopRaisesKeeps
<1>7. ASSUME NEW t \in Tools, CallBegins(t) \/ CallEnds(t) PROVE PluginInv'
  BY <1>7, CallStepKeeps
<1> QED  BY <1>1, <1>2, <1>3, <1>4, <1>5, <1>6, <1>7 DEF Next

(* PluginInv is an invariant of a manager whose operations do not overlap,   *)
(* for any manifests, tools and failures (app/plugins/manager.py).           *)
THEOREM PluginInvariance == ASSUME OneAtATime PROVE Spec => []PluginInv
<1>1. Init => PluginInv  BY PluginInit
<1>2. PluginInv /\ [Next]_vars => PluginInv'  BY PluginStep
<1> QED  BY <1>1, <1>2, PTL DEF Spec

(* When a manifest names at most one dependency, what a loaded plugin needs  *)
(* is loaded: the selection keeps one of several (dependencies.py:64).       *)
LEMMA PluginsLoaded ==
  ASSUME SingleDependencies, PluginInv
  PROVE  TypeOK /\ DependenciesLoaded /\ LoadedIsEnabled /\ LoadedOwnsItsTools
<1>1. DependenciesLoaded
  <2>1. SUFFICES ASSUME NEW p \in Plugins, IsLoaded(p), NEW q \in Elements(DependsOn[p])
                 PROVE  IsLoaded(q)
    BY DEF DependenciesLoaded, IsLoaded
  <2>2. q \in Selected(p)  BY <2>1, SelectedIs DEF SingleDependencies
  <2> QED  BY <2>1, <2>2 DEF PluginInv, RecordOK
<1>2. LoadedIsEnabled  BY DEF PluginInv, RecordOK, LoadedIsEnabled, IsLoaded
<1>3. LoadedOwnsItsTools
  BY DEF PluginInv, RecordOK, LoadedOwnsItsTools, IsLoaded, Own
<1> QED  BY <1>1, <1>2, <1>3 DEF PluginInv

(* Only Unload takes a loaded plugin down to "unloading".                    *)
LEMMA UnloadSpares ==
  ASSUME PluginInv, OneAtATime, [Next]_vars, NEW p \in Plugins, state[p] \in Loaded,
         state'[p] = "unloading", NEW t \in Tools, registry[t] = p
  PROVE  calls[t] = 0
<1>1. /\ state \in [Plugins -> States] /\ calls \in [Tools -> 0..MaxCalls]
      /\ state[p] # "unloading" /\ MaxCalls \in Nat
  BY PluginAssumption DEF PluginInv, TypeOK, Loaded
<1>2. ASSUME ~\E o \in Operators, kind \in {"unload", "reload"}, q \in Plugins : Unload(o, q, kind)
      PROVE  FALSE
  <2>2. ASSUME state' = state PROVE FALSE  BY <1>1, <2>2
  <2>3. ASSUME NEW k, NEW x, state' = [state EXCEPT ![k] = x], x # "unloading" PROVE FALSE
    BY <1>1, <2>3
  <2>4. ASSUME NEW o \in Operators, NEW st, NEW reg, NEW error, Raise(o, st, reg, error),
               st \in {state} \cup {[state EXCEPT ![k] = "failed"] : k \in Plugins},
               op[o].kind = "reload" => op[o].target # p
        PROVE  FALSE
    <3>1. st[p] # "unloading" /\ DOMAIN st = Plugins  BY <1>1, <2>4
    <3>2. CASE state' = st  BY <3>1, <3>2
    <3>3. CASE op[o].kind = "reload" /\ Rollback(o, st, reg)
      <4>1. PICK k, x : k # p /\ state' = [st EXCEPT ![k] = x]
        BY <2>4, <3>3 DEF Rollback
      <4> QED  BY <3>1, <4>1
    <3> QED  BY <2>4, <3>2, <3>3 DEF Raise
  <2>5. ASSUME NEW o \in Operators, op[o].kind = "reload" PROVE op[o].target # p
    BY <2>5 DEF PluginInv, OpOK, IsLoaded
  <2>6. ASSUME NEW o \in Operators, DependencyRefused(o) \/ LoadSingle(o) \/ ReloadLoads(o)
                                    \/ StartRaises(o)
        PROVE  FALSE
    <3>1. TypeOK /\ op[o].todo \subseteq Plugins  BY OpIs DEF PluginInv
    <3>2. OpOK(o)  BY DEF PluginInv
    <3>3. CASE StartRaises(o)
      <4>1. op[o].now \in Plugins  BY <3>3, NeedsAreLoaded DEF StartRaises, Starting
      <4> QED  BY <2>4, <2>5, <3>3, <4>1 DEF StartRaises
    <3>4. CASE DependencyRefused(o)
      <4>1. PICK k \in op[o].todo :
              \/ Raise(o, state, registry, "PluginLoadError")
              \/ Raise(o, [state EXCEPT ![k] = "failed"], registry, "PluginLoadError")
        BY <3>4 DEF DependencyRefused, NextUp
      <4> QED  BY <2>4, <2>5, <3>1, <4>1
    <3>5. CASE LoadSingle(o)
      <4>1. PICK k \in op[o].todo :
              \/ \E reg, error : Raise(o, [state EXCEPT ![k] = "failed"], reg, error)
              \/ state' = [state EXCEPT ![k] = "loading"]
        BY <3>5 DEF LoadSingle, NextUp
      <4> QED  BY <2>3, <2>4, <2>5, <3>1, <4>1
    <3>6. CASE ReloadLoads(o)
      <4>1. op[o].target \in Plugins  BY <3>2, <3>6 DEF ReloadLoads, OpOK
      <4>2. \/ state' = state
            \/ Raise(o, state, registry, "PluginLoadError")
            \/ Raise(o, [state EXCEPT ![op[o].target] = "failed"], registry, "PluginLoadError")
        BY <3>6 DEF ReloadLoads
      <4> QED  BY <2>2, <2>4, <2>5, <4>1, <4>2
    <3> QED  BY <2>6, <3>3, <3>4, <3>5, <3>6
  <2>7. ASSUME NEW o \in Operators, NEW q \in Plugins, NEW auto, Load(o, q, auto) PROVE FALSE
    BY <2>2, <2>3, <2>7 DEF Load
  <2>8. ASSUME NEW o \in Operators, LoadStarted(o) \/ StopReturns(o) \/ StopRaises(o)
        PROVE  FALSE
    <3>1. CASE LoadStarted(o)
      <4>1. state' = [state EXCEPT ![op[o].now] = "active"]  BY <3>1 DEF LoadStarted
      <4> QED  BY <2>3, <4>1
    <3>2. CASE StopReturns(o)
      <4>1. state' = [state EXCEPT ![op[o].target] = "unloaded"]  BY <3>2 DEF StopReturns
      <4> QED  BY <2>3, <4>1
    <3>3. CASE StopRaises(o)
      <4>1. state' = [state EXCEPT ![op[o].target] = "failed"]  BY <3>3 DEF StopRaises
      <4> QED  BY <2>3, <4>1
    <3> QED  BY <2>8, <3>1, <3>2, <3>3
  <2>9. ASSUME NEW o \in Operators, HookReturns(o) \/ HookRaises(o) \/ SkipDependency(o)
        PROVE  FALSE
    <3>1. PICK x : x = IF op[o].kind = "activate" THEN "active" ELSE "loaded"  OBVIOUS
    <3>2. x # "unloading"  BY <3>1
    <3>3. state' = state \/ state' = [state EXCEPT ![op[o].target] = x]
      BY <2>9, <3>1 DEF HookReturns, HookRaises, SkipDependency
    <3> QED  BY <2>2, <2>3, <3>2, <3>3
  <2>10. ASSUME NEW o \in Operators, NEW q \in Plugins, NEW kind, Hook(o, q, kind) PROVE FALSE
    BY <2>2, <2>10 DEF Hook
  <2>11. ASSUME NEW q \in Plugins,
                \/ Discover(q) \/ LoadDirectorySafe(q) \/ Install(q) \/ Enable(q)
                \/ Disable(q) \/ Uninstall(q) \/ RetireStopRaises(q)
         PROVE  FALSE
    BY <2>3, <2>11
       DEF Discover, LoadDirectorySafe, Install, Enable, Disable, Uninstall, Retire,
           RetireStopRaises
  <2>12. ASSUME NEW u \in Tools, CallBegins(u) \/ CallEnds(u) PROVE FALSE
    BY <2>2, <2>12 DEF CallBegins, CallEnds
  <2> QED
    BY <1>2, <2>2, <2>6, <2>7, <2>8, <2>9, <2>10, <2>11, <2>12 DEF Next, vars
<1>3. PICK o \in Operators, kind \in {"unload", "reload"}, q \in Plugins : Unload(o, q, kind)
  BY <1>2
<1>4. q = p /\ ~InUse(p)
  <2>1. \/ MayUnload(q) /\ state' = [state EXCEPT ![q] = "unloading"]
        \/ state' = state
    BY <1>3 DEF Unload
  <2>2. MayUnload(q) /\ state' = [state EXCEPT ![q] = "unloading"]  BY <1>1, <2>1
  <2>3. q = p  BY <1>1, <2>2
  <2> QED  BY <2>2, <2>3 DEF MayUnload
<1>5. RecordOK(p) /\ p # NoOne  BY PluginAssumption DEF PluginInv
<1>6. t \in contributions[p]
  <2>1. t \in Own(p)  BY <1>5 DEF PluginInv, OwnersOK
  <2> QED  BY <1>5, <2>1 DEF RecordOK, IsLoaded
<1>7. ~(calls[t] > 0) /\ calls[t] \in 0..MaxCalls  BY <1>1, <1>4, <1>6 DEF InUse
<1> QED  BY <1>1, <1>7

(* Loaded plugins are enabled, have what they need and own the tools they    *)
(* registered, and none is unloaded under a call: for any set of plugins     *)
(* that need at most one other, when operations do not overlap.              *)
THEOREM PluginIsSafe ==
  ASSUME OneAtATime, SingleDependencies
  PROVE  Spec => PluginSafe
<1>1. Spec => []PluginInv  BY PluginInvariance
<1>2. PluginInv => TypeOK /\ DependenciesLoaded /\ LoadedIsEnabled /\ LoadedOwnsItsTools
  BY PluginsLoaded
<1> DEFINE Spares == \A p \in Plugins :
                       state[p] \in Loaded /\ state'[p] = "unloading" =>
                         \A t \in Tools : registry[t] = p => calls[t] = 0
<1>3. PluginInv /\ [Next]_vars => [Spares]_vars
  BY UnloadSpares DEF Spares
<1> HIDE DEF Spares
<1>4. Spec => [](TypeOK /\ DependenciesLoaded /\ LoadedIsEnabled /\ LoadedOwnsItsTools)
  BY <1>1, <1>2, PTL
<1>5. Spec => [][Spares]_vars  BY <1>1, <1>3, PTL DEF Spec
<1> QED  BY <1>4, <1>5, PTL DEF PluginSafe, UnloadSparesCalls, Spares

-----------------------------------------------------------------------------
(* What an interaction leaves: memories and the history of the session.      *)

Whos == {x.who : x \in Interactions}
Items ==
  [type : ItemTypes, owner : Whos, session : OpenSessions \cup {"none"}, said : Texts,
   first : Texts, before : SUBSET Texts, weight : 0..100, base : 0..100,
   from : SUBSET {"deleted", "internet", "explicit", "retrieval", "write"}]

(* A memory by itself: where it may come from, and that only preferences are *)
(* ever put in other words.                                                  *)
ItemOK(m) ==
  /\ m \in Items
  /\ "deleted" \notin m.from /\ ("internet" \in m.from => "explicit" \in m.from)
  /\ m.type # "conversation" => m.from \cap {"retrieval", "write"} = {}
  /\ m.type # "preference" => m.said = m.first
  /\ m.type = "preference" => m.session = "none"

(* Two memories of one kind and scope in the same words.                     *)
Same(m, n) ==
  /\ m.type \in {"workflow", "tool", "knowledge"} /\ m.type = n.type
  /\ m.owner = n.owner /\ m.session = n.session /\ SameWords(m.first, n.first)
FarApart(its) == \A i, j \in 1..Len(its) : i < j /\ Same(its[i], its[j]) => j - i > Window

(* A memory that stands for a statement: for a preference, one of its words  *)
(* is the statement or says nearly all of it.                                *)
StandsFor(m, s) ==
  /\ m.type = StoredType(Classify(s.text)) /\ Sees(s, m)
  /\ IF m.type = "preference"
       THEN \E t \in {m.said} \cup m.before : t = s.text \/ Jaccard(t.kw, s.text.kw) >= 7000
       ELSE Duplicate(s.text, m.said)
Remembers(its, s) == \E i \in 1..Len(its) : StandsFor(its[i], s)

Tidy(its) == its \in Seq(Items) /\ (\A i \in 1..Len(its) : ItemOK(its[i])) /\ FarApart(its)

(* The history of a session: answers after their questions, at most the      *)
(* counted entries, and no fewer only where nothing was missed.              *)
History == {Entries(x)[1] : x \in Interactions} \cup {Entries(x)[2] : x \in Interactions}
EntryIds(q) == {q[k].id : k \in DOMAIN q}
Answered(q) ==
  \A k \in 1..Len(q) : q[k].role = "assistant" =>
    \E j \in 1..(k - 1) : q[j].role = "user" /\ q[j].plan = q[k].plan
JournalOK(s) ==
  /\ journal[s] \in Seq(History) /\ Answered(journal[s])
  /\ Len(journal[s]) <= counted[s] /\ counted[s] <= 2 * turns
  /\ Len(journal[s]) = counted[s] => kept[s] \subseteq EntryIds(journal[s])

RecallOK ==
  /\ recalled.items \subseteq DOMAIN items
  /\ \A i \in recalled.items : /\ Sees(recalled.reader, items[i])
                               /\ items[i].from \cap {"retrieval", "write"} = {}
  /\ recalled.session \in OpenSessions \cup {"none"}
  /\ recalled.session # "none" => recalled.partial = Partial(recalled.session)

FormationInv ==
  /\ Tidy(items)
  /\ DOMAIN journal = OpenSessions /\ counted \in [OpenSessions -> Nat]
  /\ DOMAIN kept = OpenSessions
  /\ \A s \in OpenSessions : JournalOK(s)
  /\ \A s \in stated : Remembers(items, s)
  /\ RecallOK
  /\ turns \in 0..MaxTurns /\ upkeeps \in 0..MaxUpkeeps

(* What a memory may become: it stays what and whose it is, and stands for   *)
(* whatever it stood for.                                                    *)
Follows(m, n) ==
  /\ n.type = m.type /\ n.owner = m.owner /\ n.session = m.session
  /\ n.first = m.first /\ n.from = m.from
  /\ \A s : StandsFor(m, s) => StandsFor(n, s)
Outlives(its, jts) == \A s : Remembers(its, s) => Remembers(jts, s)

LEMMA WindowIsNat == Window \in Nat /\ MaxTurns \in Nat /\ MaxUpkeeps \in Nat
BY FormationAssumption

LEMMA ItemIs ==
  ASSUME NEW m, ItemOK(m)
  PROVE  /\ m.type \in ItemTypes /\ m.owner \in Whos
         /\ m.session \in OpenSessions \cup {"none"}
         /\ m.said \in Texts /\ m.first \in Texts /\ m.before \in SUBSET Texts
         /\ m.weight \in 0..100 /\ m.base \in 0..100
         /\ m.from \in SUBSET {"deleted", "internet", "explicit", "retrieval", "write"}
BY DEF ItemOK, Items

(* A memory that only gains or loses weight.                                 *)
LEMMA Reweighted ==
  ASSUME NEW m, ItemOK(m), NEW w \in 0..100
  PROVE  ItemOK([m EXCEPT !.weight = w]) /\ Follows(m, [m EXCEPT !.weight = w])
<1>1. m \in Items  BY DEF ItemOK
<1>2. PICK n : n = [m EXCEPT !.weight = w]  OBVIOUS
<1>3. n \in Items  BY <1>1, <1>2 DEF Items
<1>4. /\ n.type = m.type /\ n.owner = m.owner /\ n.session = m.session
      /\ n.first = m.first /\ n.from = m.from /\ n.said = m.said /\ n.before = m.before
  BY <1>1, <1>2 DEF Items
<1>5. ItemOK(n)  BY <1>3, <1>4 DEF ItemOK
<1>6. \A s : StandsFor(m, s) => StandsFor(n, s)  BY <1>4 DEF StandsFor, Sees
<1> QED  BY <1>2, <1>4, <1>5, <1>6 DEF Follows

(* A preference in other words keeps the old ones.                           *)
LEMMA RevisedIs ==
  ASSUME NEW m, ItemOK(m), m.type = "preference", NEW t \in Texts
  PROVE  /\ ItemOK(Revised(m, t)) /\ Follows(m, Revised(m, t))
         /\ Revised(m, t).type = "preference" /\ Revised(m, t).owner = m.owner
         /\ Revised(m, t).session = "none" /\ Revised(m, t).said = t
<1>1. m \in Items /\ m.session = "none"  BY DEF ItemOK
<1>2. PICK w \in 0..100 : w = Heavier(m.weight, 5)
  <2>1. m.weight \in 0..100  BY ItemIs
  <2> QED  BY <2>1 DEF Heavier
<1>3. PICK n : n = [m EXCEPT !.said = t, !.before = @ \cup {m.said}, !.weight = w]  OBVIOUS
<1>4. n = Revised(m, t)  BY <1>2, <1>3 DEF Revised
<1>5. m.before \in SUBSET Texts /\ m.said \in Texts  BY ItemIs
<1>6. n \in Items  BY <1>1, <1>3, <1>5 DEF Items
<1>7. /\ n.type = m.type /\ n.owner = m.owner /\ n.session = m.session
      /\ n.first = m.first /\ n.from = m.from /\ n.said = t
      /\ n.before = m.before \cup {m.said}
  BY <1>1, <1>3 DEF Items
<1>8. ItemOK(n)  BY <1>6, <1>7 DEF ItemOK
<1>9. \A s : StandsFor(m, s) => StandsFor(n, s)
  <2>1. {m.said} \cup m.before \subseteq {n.said} \cup n.before  BY <1>7
  <2> QED  BY <1>7, <2>1 DEF StandsFor, Sees
<1> QED  BY <1>1, <1>4, <1>7, <1>8, <1>9 DEF Follows

LEMMA TidyIs ==
  ASSUME NEW its, Tidy(its)
  PROVE  /\ Len(its) \in Nat /\ DOMAIN its = 1..Len(its) /\ its \in Seq(Items)
         /\ \A i \in 1..Len(its) : ItemOK(its[i])
BY DEF Tidy

LEMMA Changed ==
  ASSUME NEW its, Tidy(its), NEW i \in 1..Len(its), NEW n, ItemOK(n), Follows(its[i], n)
  PROVE  /\ Tidy([its EXCEPT ![i] = n]) /\ Outlives(its, [its EXCEPT ![i] = n])
         /\ \A s : StandsFor(n, s) => Remembers([its EXCEPT ![i] = n], s)
<1>1. PICK jts : jts = [its EXCEPT ![i] = n]  OBVIOUS
<1>2. its \in Seq(Items) /\ n \in Items  BY DEF Tidy, ItemOK
<1>3. /\ jts \in Seq(Items) /\ Len(jts) = Len(its) /\ jts[i] = n
      /\ \A j \in 1..Len(its) : j # i => jts[j] = its[j]
  BY <1>1, <1>2
<1>4. \A j \in 1..Len(jts) : ItemOK(jts[j])  BY <1>3 DEF Tidy
<1>5. \A j \in 1..Len(its) : Follows(its[j], jts[j])
  BY <1>3 DEF Follows
<1>6. FarApart(jts)
  <2>1. ASSUME NEW j \in 1..Len(jts), NEW k \in 1..Len(jts), j < k, Same(jts[j], jts[k])
        PROVE  k - j > Window
    <3>1. Follows(its[j], jts[j]) /\ Follows(its[k], jts[k])  BY <1>3, <1>5
    <3>2. Same(its[j], its[k])  BY <2>1, <3>1 DEF Same, Follows
    <3> QED  BY <1>3, <2>1, <3>2 DEF Tidy, FarApart
  <2> QED  BY <2>1 DEF FarApart
<1>7. Outlives(its, jts)  BY <1>3, <1>5 DEF Outlives, Remembers, Follows
<1>8. \A s : StandsFor(n, s) => Remembers(jts, s)  BY <1>3 DEF Remembers
<1> QED  BY <1>1, <1>3, <1>4, <1>6, <1>7, <1>8 DEF Tidy

(* A new memory, in words nobody of its scope used within the window.        *)
LEMMA Appended ==
  ASSUME NEW its, Tidy(its), NEW m, ItemOK(m),
         \A i \in Newest(its) : ~Same(its[i], m)
  PROVE  /\ Tidy(Append(its, m)) /\ Outlives(its, Append(its, m))
         /\ \A s : StandsFor(m, s) => Remembers(Append(its, m), s)
<1>1. PICK jts : jts = Append(its, m)  OBVIOUS
<1>2. its \in Seq(Items) /\ m \in Items  BY DEF Tidy, ItemOK
<1>3. PICK z \in Nat : z = Len(its)  BY <1>2
<1>4. /\ jts \in Seq(Items) /\ Len(jts) = z + 1 /\ jts[z + 1] = m
      /\ \A j \in 1..z : jts[j] = its[j]
  <2>1. Append(its, m) \in Seq(Items)  BY <1>2
  <2> QED  BY <1>1, <1>2, <1>3, <2>1
<1>5. \A j \in 1..Len(jts) : ItemOK(jts[j])
  <2>1. \A j \in 1..(z + 1) : j \in 1..z \/ j = z + 1  OBVIOUS
  <2> QED  BY <1>3, <1>4, <2>1 DEF Tidy
<1>6. FarApart(jts)
  <2>1. ASSUME NEW j \in 1..Len(jts), NEW k \in 1..Len(jts), j < k, Same(jts[j], jts[k])
        PROVE  k - j > Window
    <3>1. j \in 1..z /\ (k \in 1..z \/ k = z + 1)  BY <1>4, <2>1
    <3>2. CASE k \in 1..z
      <4>1. Same(its[j], its[k])  BY <1>4, <2>1, <3>1, <3>2
      <4> QED  BY <1>3, <2>1, <3>1, <3>2, <4>1 DEF Tidy, FarApart
    <3>3. CASE k = z + 1
      <4>1. Same(its[j], m)  BY <1>4, <2>1, <3>1, <3>3
      <4>2. j \notin Newest(its)  BY <4>1
      <4>3. DOMAIN its = 1..z  BY <1>2, <1>3
      <4>4. ~(j > z - Window)  BY <1>3, <3>1, <4>2, <4>3 DEF Newest
      <4> QED  BY <3>1, <3>3, <4>4, WindowIsNat
    <3> QED  BY <3>1, <3>2, <3>3
  <2> QED  BY <2>1 DEF FarApart
<1>7. Outlives(its, jts)
  <2>1. \A j \in 1..z : j \in 1..Len(jts)  BY <1>4
  <2> QED  BY <1>3, <1>4, <2>1 DEF Outlives, Remembers
<1>8. \A s : StandsFor(m, s) => Remembers(jts, s)
  <2>1. z + 1 \in 1..Len(jts)  BY <1>4
  <2> QED  BY <1>4, <2>1 DEF Remembers
<1> QED  BY <1>1, <1>4, <1>5, <1>6, <1>7, <1>8 DEF Tidy

-----------------------------------------------------------------------------
(* What an interaction adds.                                                 *)

TextClasses == {"none", "tool", "preference", "project", "workflow", "knowledge"}
Statement(x) == [who |-> x.who, session |-> x.session, text |-> x.text]

LEMMA ClassifyIs ==
  ASSUME NEW t
  PROVE  Classify(t) \in TextClasses
<1>1. PICK c : c = Cleaned(t)  OBVIOUS
<1> QED  BY <1>1 DEF Classify, TextClasses

LEMMA NewItemIs ==
  ASSUME NEW x \in Interactions, ~Transient(x),
         NEW k \in (TextClasses \ {"none"}) \cup {"conversation"},
         k # "conversation" => x.flags \cap {"retrieval", "write"} = {}
  PROVE  /\ ItemOK(NewItem(k, x))
         /\ NewItem(k, x).type = StoredType(k) /\ NewItem(k, x).owner = x.who
         /\ NewItem(k, x).session \in {"none", x.session}
         /\ NewItem(k, x).first = x.text
         /\ k = Classify(x.text) => StandsFor(NewItem(k, x), Statement(x))
<1>1. PICK y \in ItemTypes : y = StoredType(k)
  BY DEF TextClasses, ItemTypes, StoredType
<1>2. PICK w \in 0..100 : w = BaseWeight(k)  BY DEF BaseWeight
<1>3. PICK s : s = IF k \in {"conversation", "workflow", "tool"} THEN x.session ELSE "none"
  OBVIOUS
<1>4. PICK m : m = [type |-> y, owner |-> x.who, session |-> s, said |-> x.text,
                    first |-> x.text, before |-> {}, weight |-> w, base |-> w,
                    from |-> x.flags]
  OBVIOUS
<1>5. m = NewItem(k, x)  BY <1>1, <1>2, <1>3, <1>4 DEF NewItem
<1>6. /\ m.type = y /\ m.owner = x.who /\ m.session = s /\ m.said = x.text
      /\ m.first = x.text /\ m.before = {} /\ m.from = x.flags
  BY <1>4
<1>7. /\ x.text \in Texts
      /\ x.flags \subseteq {"deleted", "internet", "explicit", "retrieval", "write"}
  BY FormationAssumption
<1>8. x.who \in Whos /\ x.session \in OpenSessions  BY DEF Whos, OpenSessions
<1>9. m \in Items
  <2>1. s \in OpenSessions \cup {"none"}  BY <1>3, <1>8
  <2> QED  BY <1>4, <1>7, <1>8, <2>1 DEF Items
<1>10. y = "preference" => s = "none"
  BY <1>1, <1>3 DEF TextClasses, StoredType
<1>11. y # "conversation" => k # "conversation"  BY <1>1 DEF StoredType
<1>12. ItemOK(m)  BY <1>6, <1>9, <1>10, <1>11 DEF ItemOK, Transient
<1>13. k = Classify(x.text) => StandsFor(m, Statement(x))
  <2>1. Duplicate(x.text, x.text)  BY DEF Duplicate, SameWords
  <2>2. Statement(x).text = x.text /\ Statement(x).who = x.who
        /\ Statement(x).session = x.session
    BY DEF Statement
  <2>3. Sees(Statement(x), m)  BY <1>3, <1>6, <2>2 DEF Sees
  <2> QED  BY <1>1, <1>6, <2>1, <2>2, <2>3 DEF StandsFor
<1> QED  BY <1>1, <1>3, <1>5, <1>6, <1>12, <1>13

LEMMA HeavierIs ==
  ASSUME NEW w \in 0..100, NEW n \in Nat
  PROVE  Heavier(w, n) \in 0..100
BY DEF Heavier

LEMMA PreferenceWritesAre ==
  ASSUME NEW its, NEW x, NEW jts \in PreferenceWrites(its, x)
  PROVE  \/ jts = Append(its, NewItem("preference", x))
         \/ \E i \in DOMAIN its :
              /\ its[i].type = "preference" /\ its[i].owner = x.who
              /\ \/ /\ Relation(x.text, its[i].said) = "reinforce"
                    /\ jts = [its EXCEPT ![i].weight = Heavier(@, 5)]
                 \/ jts = [its EXCEPT ![i] = Revised(@, x.text)]
<1> DEFINE mine == {i \in DOMAIN its : its[i].type = "preference" /\ its[i].owner = x.who}
           anew == Append(its, NewItem("preference", x))
<1>1. CASE mine = {}
  <2>1. PreferenceWrites(its, x) = {anew}  BY <1>1, Zenon DEF PreferenceWrites
  <2> QED  BY <2>1
<1>2. CASE mine # {}
  <2> DEFINE Change(i) ==
        CASE Relation(x.text, its[i].said) \in {"new", "contradict"} -> anew
          [] Relation(x.text, its[i].said) = "reinforce" ->
               [its EXCEPT ![i].weight = Heavier(@, 5)]
          [] OTHER -> [its EXCEPT ![i] = Revised(@, x.text)]
      Best(known) == {i \in known : \A j \in known :
                        Overlap(x.text, its[j].said) <= Overlap(x.text, its[i].said)}
  <2>1. PreferenceWrites(its, x)
          = UNION {{Change(i) : i \in Best(known)} : known \in (SUBSET mine) \ {{}}}
    BY <1>2, Zenon DEF PreferenceWrites
  <2>2. PICK known \in SUBSET mine : \E i \in Best(known) : jts = Change(i)
    BY <2>1
  <2>3. PICK i \in known : jts = Change(i)  BY <2>2
  <2>4. i \in DOMAIN its /\ its[i].type = "preference" /\ its[i].owner = x.who
    BY <2>2, <2>3
  <2>5. CASE Relation(x.text, its[i].said) \in {"new", "contradict"}
    BY <2>3, <2>5
  <2>6. CASE Relation(x.text, its[i].said) = "reinforce"
    BY <2>3, <2>4, <2>6
  <2>7. CASE Relation(x.text, its[i].said) \notin {"new", "contradict", "reinforce"}
    <3>1. jts = [its EXCEPT ![i] = Revised(@, x.text)]  BY <2>3, <2>7
    <3> QED  BY <2>4, <3>1
  <2> QED  BY <2>5, <2>6, <2>7
<1> QED  BY <1>1, <1>2

LEMMA JaccardSymmetric ==
  ASSUME NEW a, NEW b
  PROVE  Jaccard(a, b) = Jaccard(b, a)
<1>1. a \cap b = b \cap a /\ a \cup b = b \cup a  OBVIOUS
<1>2. PICK p : p = Cardinality(a \cap b) /\ p = Cardinality(b \cap a)
  BY <1>1, Zenon
<1>3. PICK q : q = Cardinality(a \cup b) /\ q = Cardinality(b \cup a)
  BY <1>1, Zenon
<1>4. Jaccard(a, b) = IF a = {} \/ b = {} THEN 0 ELSE (10000 * p) \div q
  BY <1>2, <1>3, SMT DEF Jaccard
<1>5. Jaccard(b, a) = IF b = {} \/ a = {} THEN 0 ELSE (10000 * p) \div q
  BY <1>2, <1>3, SMT DEF Jaccard
<1> QED  BY <1>4, <1>5

LEMMA ReinforceMeansKnown ==
  ASSUME NEW t, NEW u, Relation(t, u) = "reinforce"
  PROVE  Jaccard(t.kw, u.kw) >= 7000
<1>1. CASE (t.kw = {} /\ t.ent = {}) \/ Overlap(t, u) < 4000
  BY <1>1 DEF Relation
<1>2. CASE ~((t.kw = {} /\ t.ent = {}) \/ Overlap(t, u) < 4000)
  BY <1>2 DEF Relation
<1> QED  BY <1>1, <1>2

LEMMA StatementIs ==
  ASSUME NEW x
  PROVE  /\ Statement(x).text = x.text /\ Statement(x).who = x.who
         /\ Statement(x).session = x.session
BY DEF Statement

(* Whatever is written of a statement keeps the memories tidy, takes nothing *)
(* from anybody's, and stands for the statement.                             *)
LEMMA PreferenceKeeps ==
  ASSUME NEW its, Tidy(its), NEW x \in Interactions, ~Transient(x),
         x.flags \cap {"retrieval", "write"} = {}, Classify(x.text) = "preference",
         NEW jts \in PreferenceWrites(its, x)
  PROVE  Tidy(jts) /\ Outlives(its, jts) /\ Remembers(jts, Statement(x))
<1>0. x.text \in Texts  BY FormationAssumption
<1>1. CASE jts = Append(its, NewItem("preference", x))
  <2>1. PICK m : m = NewItem("preference", x)  OBVIOUS
  <2>2. "preference" \in TextClasses \ {"none"}  BY DEF TextClasses
  <2>3. ItemOK(m) /\ m.type = "preference" /\ StandsFor(m, Statement(x))
    BY <2>1, <2>2, NewItemIs DEF StoredType
  <2>4. \A i \in Newest(its) : ~Same(its[i], m)  BY <2>3 DEF Same
  <2> QED  BY <1>1, <2>1, <2>3, <2>4, Appended
<1>2. ASSUME NEW i \in DOMAIN its, its[i].type = "preference", its[i].owner = x.who,
             \/ /\ Relation(x.text, its[i].said) = "reinforce"
                /\ jts = [its EXCEPT ![i].weight = Heavier(@, 5)]
             \/ jts = [its EXCEPT ![i] = Revised(@, x.text)]
      PROVE  Tidy(jts) /\ Outlives(its, jts) /\ Remembers(jts, Statement(x))
  <2>1. i \in 1..Len(its) /\ ItemOK(its[i])  BY TidyIs
  <2>2. PICK m : m = its[i]  OBVIOUS
  <2>3. ItemOK(m) /\ m.type = "preference" /\ m.owner = x.who /\ m.session = "none"
    BY <1>2, <2>1, <2>2 DEF ItemOK
  <2>4. StoredType(Classify(x.text)) = "preference"  BY DEF StoredType
  <2>5. CASE Relation(x.text, its[i].said) = "reinforce"
             /\ jts = [its EXCEPT ![i].weight = Heavier(@, 5)]
    <3>1. PICK w \in 0..100 : w = Heavier(m.weight, 5)  BY <2>3, ItemIs, HeavierIs
    <3>2. PICK n : n = [m EXCEPT !.weight = w]  OBVIOUS
    <3>3. ItemOK(n) /\ Follows(m, n)  BY <2>3, <3>2, Reweighted
    <3>4. jts = [its EXCEPT ![i] = n]  BY <2>2, <2>5, <3>1, <3>2
    <3>5. StandsFor(m, Statement(x))
      <4>1. Jaccard(x.text.kw, m.said.kw) >= 7000  BY <2>2, <2>5, ReinforceMeansKnown
      <4>2. Jaccard(m.said.kw, x.text.kw) >= 7000  BY <4>1, JaccardSymmetric
      <4> QED  BY <2>3, <2>4, <4>2, StatementIs DEF StandsFor, Sees
    <3>6. StandsFor(n, Statement(x))  BY <3>3, <3>5 DEF Follows
    <3> QED  BY <2>1, <2>2, <3>3, <3>4, <3>6, Changed
  <2>6. CASE jts = [its EXCEPT ![i] = Revised(@, x.text)]
    <3>1. PICK n : n = Revised(m, x.text)  OBVIOUS
    <3>2. /\ ItemOK(n) /\ Follows(m, n) /\ n.type = "preference" /\ n.owner = x.who
          /\ n.session = "none" /\ n.said = x.text
      BY <1>0, <2>3, <3>1, RevisedIs
    <3>3. jts = [its EXCEPT ![i] = n]  BY <2>2, <2>6, <3>1
    <3>4. StandsFor(n, Statement(x))
      BY <2>4, <3>2, StatementIs DEF StandsFor, Sees
    <3> QED  BY <2>1, <2>2, <3>2, <3>3, <3>4, Changed
  <2> QED  BY <1>2, <2>5, <2>6
<1> QED  BY <1>1, <1>2, PreferenceWritesAre

LEMMA TypedKeeps ==
  ASSUME NEW its, Tidy(its), NEW x \in Interactions, ~Transient(x), Forms(x),
         NEW jts \in TypedWrites(its, x)
  PROVE  Tidy(jts) /\ Outlives(its, jts) /\ Remembers(jts, Statement(x))
<1>1. PICK k : k = Classify(x.text)  OBVIOUS
<1>2. /\ k \in TextClasses \ {"none"} /\ x.flags \cap {"retrieval", "write"} = {}
  BY <1>1, ClassifyIs DEF Forms
<1>3. CASE k = "preference"
  <2>1. jts \in PreferenceWrites(its, x)  BY <1>1, <1>3 DEF TypedWrites
  <2> QED  BY <1>1, <1>2, <1>3, <2>1, PreferenceKeeps
<1>4. CASE k # "preference" /\ Duplicates(its, k, x) # {}
  <2>1. PICK i \in Duplicates(its, k, x) : jts = Reinforced(its, i)
    BY <1>1, <1>4 DEF TypedWrites
  <2>2. PICK m : m = its[i]  OBVIOUS
  <2>3. /\ i \in 1..Len(its) /\ m.type = StoredType(k) /\ Sees(x, m)
        /\ Duplicate(x.text, m.said)
    BY <2>1, <2>2, TidyIs DEF Duplicates, Newest
  <2>4. ItemOK(m)  BY <2>2, <2>3, TidyIs
  <2>5. PICK w \in 0..100 : w = Heavier(m.weight, 10)  BY <2>4, ItemIs, HeavierIs
  <2>6. PICK n : n = [m EXCEPT !.weight = w]  OBVIOUS
  <2>7. ItemOK(n) /\ Follows(m, n)  BY <2>4, <2>6, Reweighted
  <2>8. jts = [its EXCEPT ![i] = n]  BY <2>1, <2>2, <2>5, <2>6 DEF Reinforced
  <2>9. m.type # "preference"  BY <1>2, <1>4, <2>3 DEF TextClasses, StoredType
  <2>10. StandsFor(m, Statement(x))
    BY <1>1, <2>3, <2>9, StatementIs DEF StandsFor, Sees
  <2>11. StandsFor(n, Statement(x))  BY <2>7, <2>10 DEF Follows
  <2> QED  BY <2>2, <2>3, <2>7, <2>8, <2>11, Changed
<1>5. CASE k # "preference" /\ Duplicates(its, k, x) = {}
  <2>1. jts = Append(its, NewItem(k, x))  BY <1>1, <1>5 DEF TypedWrites
  <2>2. PICK m : m = NewItem(k, x)  OBVIOUS
  <2>3. /\ ItemOK(m) /\ m.type = StoredType(k) /\ m.owner = x.who
        /\ m.session \in {"none", x.session} /\ m.first = x.text
        /\ StandsFor(m, Statement(x))
    BY <1>1, <1>2, <2>2, NewItemIs
  <2>4. ASSUME NEW i \in Newest(its), Same(its[i], m) PROVE FALSE
    <3>1. i \in 1..Len(its)  BY TidyIs DEF Newest
    <3>2. its[i].type = StoredType(k) /\ Sees(x, its[i])  BY <2>3, <2>4 DEF Same, Sees
    <3>3. its[i].type # "preference"  BY <2>4 DEF Same
    <3>4. its[i].said = its[i].first  BY <3>1, <3>3, TidyIs DEF ItemOK
    <3>5. Duplicate(x.text, its[i].said)
      BY <2>3, <2>4, <3>4 DEF Same, Duplicate, SameWords
    <3> QED  BY <1>5, <3>2, <3>5 DEF Duplicates
  <2> QED  BY <2>1, <2>2, <2>3, <2>4, Appended
<1> QED  BY <1>3, <1>4, <1>5

(* The turn itself, of whatever came of it.                                  *)
LEMMA TalkedKeeps ==
  ASSUME NEW its, Tidy(its), NEW x \in Interactions, ~Transient(x)
  PROVE  /\ Tidy(Append(its, NewItem("conversation", x)))
         /\ Outlives(its, Append(its, NewItem("conversation", x)))
<1>1. PICK m : m = NewItem("conversation", x)  OBVIOUS
<1>2. ItemOK(m) /\ m.type = "conversation"
  BY <1>1, NewItemIs DEF StoredType
<1>3. \A i \in Newest(its) : ~Same(its[i], m)  BY <1>2 DEF Same
<1> QED  BY <1>1, <1>2, <1>3, Appended

-----------------------------------------------------------------------------
(* The history of a session.                                                 *)

LEMMA EntriesAre ==
  ASSUME NEW x \in Interactions
  PROVE  /\ Entries(x)[1] \in History /\ Entries(x)[2] \in History
         /\ Entries(x)[1].role = "user" /\ Entries(x)[1].plan = x.plan
         /\ Entries(x)[2].role = "assistant" /\ Entries(x)[2].plan = x.plan
         /\ Entries(x)[1].id = <<"user", x.plan>>
         /\ Entries(x)[2].id = <<"assistant", x.plan, x.state>>
<1>1. Entries(x)[1] \in History /\ Entries(x)[2] \in History  BY DEF History
<1>2. /\ Entries(x)[1] = [id |-> <<"user", x.plan>>, role |-> "user", plan |-> x.plan]
      /\ Entries(x)[2] = [id |-> <<"assistant", x.plan, x.state>>, role |-> "assistant",
                          plan |-> x.plan]
  BY DEF Entries
<1> QED  BY <1>1, <1>2

(* The id of an entry tells its role and its plan.                           *)
LEMMA IdTells ==
  ASSUME NEW e \in History, NEW p, e.id = <<"user", p>>
  PROVE  e.role = "user" /\ e.plan = p
<1>1. PICK x \in Interactions : e = Entries(x)[1] \/ e = Entries(x)[2]  BY DEF History
<1>2. CASE e = Entries(x)[1]
  <2>1. e.id = <<"user", x.plan>> /\ e.role = "user" /\ e.plan = x.plan
    BY <1>2, EntriesAre
  <2>2. <<"user", x.plan>>[2] = <<"user", p>>[2]  BY <2>1
  <2>3. x.plan = p  BY <2>2
  <2> QED  BY <2>1, <2>3
<1>3. CASE e = Entries(x)[2]
  <2>1. e.id = <<"assistant", x.plan, x.state>>  BY <1>3, EntriesAre
  <2>2. <<"assistant", x.plan, x.state>>[1] = <<"user", p>>[1]  BY <2>1
  <2>3. "assistant" = "user"  BY <2>2
  <2> QED  BY <2>3
<1> QED  BY <1>1, <1>2, <1>3

LEMMA JournalledIs ==
  ASSUME NEW q \in Seq(History), NEW e \in History, Answered(q),
         e.role = "user"
         \/ (e.role = "assistant" /\ \E j \in 1..Len(q) : q[j].role = "user" /\ q[j].plan = e.plan)
  PROVE  /\ Journalled(q, e) \in Seq(History) /\ Answered(Journalled(q, e))
         /\ Len(Journalled(q, e)) \in {Len(q), Len(q) + 1}
         /\ \A k \in 1..Len(q) : Journalled(q, e)[k] = q[k]
         /\ e.id \in EntryIds(Journalled(q, e))
         /\ EntryIds(q) \subseteq EntryIds(Journalled(q, e))
<1>0. DOMAIN q = 1..Len(q) /\ Len(q) \in Nat  OBVIOUS
<1>1. CASE \E k \in DOMAIN q : q[k].id = e.id
  <2>1. Journalled(q, e) = q  BY <1>1 DEF Journalled
  <2>2. e.id \in EntryIds(q)  BY <1>1 DEF EntryIds
  <2> QED  BY <2>1, <2>2
<1>2. CASE ~\E k \in DOMAIN q : q[k].id = e.id
  <2>1. PICK r : r = Append(q, e)  OBVIOUS
  <2>2. Journalled(q, e) = r  BY <1>2, <2>1 DEF Journalled
  <2>3. PICK z \in Nat : z = Len(q)  OBVIOUS
  <2>4. /\ r \in Seq(History) /\ Len(r) = z + 1 /\ r[z + 1] = e
        /\ \A k \in 1..z : r[k] = q[k]
    <3>1. Append(q, e) \in Seq(History)  OBVIOUS
    <3> QED  BY <2>1, <2>3, <3>1
  <2>5. DOMAIN r = 1..(z + 1)  BY <2>4
  <2>6. ASSUME NEW k \in 1..Len(r), r[k].role = "assistant"
        PROVE  \E j \in 1..(k - 1) : r[j].role = "user" /\ r[j].plan = r[k].plan
    <3>1. k \in 1..z \/ k = z + 1  BY <2>4, <2>6
    <3>2. CASE k \in 1..z
      <4>1. q[k].role = "assistant"  BY <2>4, <2>6, <3>2
      <4>2. PICK j \in 1..(k - 1) : q[j].role = "user" /\ q[j].plan = q[k].plan
        BY <2>3, <3>2, <4>1 DEF Answered
      <4>3. j \in 1..z  BY <3>2
      <4> QED  BY <2>4, <3>2, <4>2, <4>3
    <3>3. CASE k = z + 1
      <4>1. e.role = "assistant"  BY <2>4, <2>6, <3>3
      <4>2. PICK j \in 1..z : q[j].role = "user" /\ q[j].plan = e.plan  BY <2>3, <4>1
      <4>3. j \in 1..(k - 1)  BY <3>3
      <4> QED  BY <2>4, <3>3, <4>2, <4>3
    <3> QED  BY <3>1, <3>2, <3>3
  <2>7. Answered(r)  BY <2>6 DEF Answered
  <2>8. e.id \in EntryIds(r)
    <3>1. z + 1 \in DOMAIN r  BY <2>5
    <3> QED  BY <2>4, <3>1 DEF EntryIds
  <2>9. EntryIds(q) \subseteq EntryIds(r)
    <3>1. \A k \in DOMAIN q : k \in DOMAIN r /\ r[k] = q[k]  BY <1>0, <2>3, <2>4, <2>5
    <3> QED  BY <3>1 DEF EntryIds
  <2> QED  BY <2>2, <2>3, <2>4, <2>7, <2>8, <2>9
<1> QED  BY <1>1, <1>2

LEMMA JournalIs ==
  ASSUME NEW q, q \in Seq(History)
  PROVE  Len(q) \in Nat
OBVIOUS

(* Both entries, the question first.                                         *)
Asked(q, x) == Journalled(q, Entries(x)[1])
Told(q, x) == Journalled(Asked(q, x), Entries(x)[2])

LEMMA BothJournalled ==
  ASSUME NEW q \in Seq(History), Answered(q), NEW x \in Interactions
  PROVE  /\ Asked(q, x) \in Seq(History) /\ Answered(Asked(q, x))
         /\ Len(Asked(q, x)) \in {Len(q), Len(q) + 1}
         /\ Told(q, x) \in Seq(History) /\ Answered(Told(q, x))
         /\ Len(Told(q, x)) \in {Len(Asked(q, x)), Len(Asked(q, x)) + 1}
         /\ EntryIds(q) \cup {Entries(x)[1].id, Entries(x)[2].id} \subseteq EntryIds(Told(q, x))
<1>1. PICK e : e = Entries(x)[1]  OBVIOUS
<1>2. PICK f : f = Entries(x)[2]  OBVIOUS
<1>3. /\ e \in History /\ f \in History /\ e.role = "user" /\ f.role = "assistant"
      /\ e.plan = x.plan /\ f.plan = x.plan /\ e.id = <<"user", x.plan>>
  BY <1>1, <1>2, EntriesAre
<1>4. PICK v : v = Journalled(q, e)  OBVIOUS
<1>5. /\ v \in Seq(History) /\ Answered(v) /\ Len(v) \in {Len(q), Len(q) + 1}
      /\ e.id \in EntryIds(v) /\ EntryIds(q) \subseteq EntryIds(v)
  BY <1>3, <1>4, JournalledIs
<1>6. PICK j \in DOMAIN v : v[j].id = <<"user", x.plan>>
  BY <1>3, <1>5 DEF EntryIds
<1>7. j \in 1..Len(v) /\ v[j] \in History  BY <1>5, <1>6
<1>8. v[j].role = "user" /\ v[j].plan = f.plan  BY <1>3, <1>6, <1>7, IdTells
<1>9. PICK w : w = Journalled(v, f)  OBVIOUS
<1>10. /\ w \in Seq(History) /\ Answered(w) /\ Len(w) \in {Len(v), Len(v) + 1}
       /\ f.id \in EntryIds(w) /\ EntryIds(v) \subseteq EntryIds(w)
  BY <1>3, <1>5, <1>7, <1>8, <1>9, JournalledIs
<1>11. Asked(q, x) = v /\ Told(q, x) = w  BY <1>1, <1>2, <1>4, <1>9 DEF Asked, Told
<1> QED  BY <1>1, <1>2, <1>5, <1>10, <1>11

(* What an ingestion writes of the session, whichever write fails.           *)
LEMMA SessionPartKeeps ==
  ASSUME NEW x \in Interactions, NEW fail \in Failures,
         DOMAIN journal = OpenSessions, counted \in [OpenSessions -> Nat],
         DOMAIN kept = OpenSessions, turns \in Nat,
         \A s \in OpenSessions : JournalOK(s),
         SessionPart(x, fail), turns' = turns + 1,
         kept' = [kept EXCEPT ![x.session] =
                    IF fail = "metadata" THEN @ ELSE @ \cup {Entries(x)[1].id, Entries(x)[2].id}]
  PROVE  /\ DOMAIN journal' = OpenSessions /\ counted' \in [OpenSessions -> Nat]
         /\ DOMAIN kept' = OpenSessions /\ \A s \in OpenSessions : JournalOK(s)'
<1>1. PICK s \in OpenSessions : s = x.session  BY DEF OpenSessions
<1>2. PICK q : q = journal[s]  OBVIOUS
<1>3. PICK n \in Nat : n = counted[s]  BY <1>1
<1>4. PICK k : k = kept[s]  OBVIOUS
<1>5. PICK ids : ids = {Entries(x)[1].id, Entries(x)[2].id}  OBVIOUS
<1>6. /\ q \in Seq(History) /\ Answered(q) /\ Len(q) <= n /\ n <= 2 * turns
      /\ Len(q) = n => k \subseteq EntryIds(q)
  BY <1>1, <1>2, <1>3, <1>4 DEF JournalOK
<1>7. PICK u : u = Asked(q, x)  OBVIOUS
<1>8. PICK a : a = Told(q, x)  OBVIOUS
<1>9. /\ u \in Seq(History) /\ Answered(u) /\ Len(u) \in {Len(q), Len(q) + 1}
      /\ a \in Seq(History) /\ Answered(a) /\ Len(a) \in {Len(u), Len(u) + 1}
      /\ EntryIds(q) \cup ids \subseteq EntryIds(a)
  BY <1>5, <1>6, <1>7, <1>8, BothJournalled
<1>10. PICK r : r = CASE fail \in {"metadata", "user"} -> q
                      [] fail = "answer" -> u
                      [] OTHER -> a
  OBVIOUS
<1>11. PICK m \in Nat : m = IF fail = "metadata" THEN n ELSE n + 2
  BY <1>3
<1>12. PICK h : h = IF fail = "metadata" THEN k ELSE k \cup ids  OBVIOUS
<1>13. /\ journal' = [journal EXCEPT ![s] = r] /\ counted' = [counted EXCEPT ![s] = m]
       /\ kept' = [kept EXCEPT ![s] = h]
  <2>1. journal' = [journal EXCEPT ![s] = r]
    BY <1>1, <1>2, <1>7, <1>8, <1>10 DEF SessionPart, Asked, Told
  <2>2. counted' = [counted EXCEPT ![s] = m]
    BY <1>1, <1>3, <1>11 DEF SessionPart
  <2>3. kept' = [kept EXCEPT ![s] = h]  BY <1>1, <1>4, <1>5, <1>12
  <2> QED  BY <2>1, <2>2, <2>3
<1>14. /\ DOMAIN journal' = OpenSessions /\ counted' \in [OpenSessions -> Nat]
       /\ DOMAIN kept' = OpenSessions
       /\ journal'[s] = r /\ counted'[s] = m /\ kept'[s] = h
       /\ \A t \in OpenSessions \ {s} : /\ journal'[t] = journal[t] /\ kept'[t] = kept[t]
                                        /\ counted'[t] = counted[t]
  BY <1>13
<1>15. Len(q) \in Nat /\ Len(u) \in Nat /\ Len(a) \in Nat  BY <1>6, <1>9, JournalIs
<1>16. /\ r \in Seq(History) /\ Answered(r) /\ Len(r) <= m /\ m <= 2 * (turns + 1)
       /\ Len(r) = m => h \subseteq EntryIds(r)
  <2>1. CASE fail = "metadata"
    <3>1. r = q /\ m = n /\ h = k  BY <1>10, <1>11, <1>12, <2>1
    <3> QED  BY <1>6, <3>1
  <2>2. CASE fail = "user"
    <3>1. r = q /\ m = n + 2  BY <1>10, <1>11, <2>2
    <3>2. Len(r) < m /\ m <= 2 * (turns + 1)  BY <1>6, <1>15, <3>1
    <3> QED  BY <1>6, <3>1, <3>2, <1>15
  <2>3. CASE fail = "answer"
    <3>1. r = u /\ m = n + 2  BY <1>10, <1>11, <2>3
    <3>2. Len(r) < m /\ m <= 2 * (turns + 1)  BY <1>6, <1>9, <1>15, <3>1
    <3> QED  BY <1>9, <3>1, <3>2, <1>15
  <2>4. CASE fail \notin {"metadata", "user", "answer"}
    <3>1. r = a /\ m = n + 2 /\ h = k \cup ids  BY <1>10, <1>11, <1>12, <2>4
    <3>2. Len(r) <= m /\ m <= 2 * (turns + 1)  BY <1>6, <1>9, <1>15, <3>1
    <3>3. Len(r) = m => Len(q) = n  BY <1>6, <1>9, <1>15, <3>1
    <3> QED  BY <1>6, <1>9, <3>1, <3>2, <3>3
  <2> QED  BY <2>1, <2>2, <2>3, <2>4
<1>17. ASSUME NEW t \in OpenSessions PROVE JournalOK(t)'
  <2>1. CASE t = s  BY <1>14, <1>16, <2>1 DEF JournalOK
  <2>2. CASE t # s
    <3>1. JournalOK(t) /\ counted[t] \in Nat  OBVIOUS
    <3>2. counted[t] <= 2 * turns'  BY <3>1 DEF JournalOK
    <3> QED  BY <1>14, <2>2, <3>1, <3>2 DEF JournalOK
  <2> QED  BY <2>1, <2>2
<1> QED  BY <1>14, <1>17

-----------------------------------------------------------------------------
(* What each step keeps.                                                     *)

LEMMA FormationIs ==
  /\ FormationInv =>
       /\ Tidy(items) /\ DOMAIN journal = OpenSessions
       /\ counted \in [OpenSessions -> Nat] /\ DOMAIN kept = OpenSessions
       /\ \A s \in OpenSessions : JournalOK(s)
       /\ \A s \in stated : Remembers(items, s)
       /\ RecallOK /\ turns \in 0..MaxTurns /\ upkeeps \in 0..MaxUpkeeps
  /\ UNCHANGED <<journal, counted, kept, turns>> =>
       \A s \in OpenSessions : JournalOK(s) => JournalOK(s)'
  /\ recalled' = NoRecall => RecallOK'
<1>1. UNCHANGED <<journal, counted, kept, turns>> =>
        \A s \in OpenSessions : JournalOK(s) => JournalOK(s)'
  BY DEF JournalOK
<1>2. recalled' = NoRecall => RecallOK'  BY DEF RecallOK, NoRecall
<1> QED  BY <1>1, <1>2 DEF FormationInv

LEMMA IngestKeeps ==
  ASSUME FormationInv, NEW x \in Interactions, NEW fail \in Failures, Ingest(x, fail)
  PROVE  FormationInv'
<1>1. /\ turns < MaxTurns /\ turns' = turns + 1 /\ recalled' = NoRecall
      /\ upkeeps' = upkeeps
  BY DEF Ingest
<1>2. /\ RecallOK' /\ turns' \in 0..MaxTurns /\ upkeeps' \in 0..MaxUpkeeps
      /\ turns \in Nat
  BY <1>1, FormationIs, WindowIsNat
<1>3. CASE Transient(x)
  <2>1. UNCHANGED <<items, journal, counted, kept, stated>>  BY <1>3 DEF Ingest
  <2>2. ASSUME NEW s \in OpenSessions PROVE JournalOK(s)'
    <3>1. JournalOK(s) /\ counted[s] \in Nat  BY FormationIs
    <3>2. counted[s] <= 2 * turns'  BY <1>1, <1>2, <3>1 DEF JournalOK
    <3> QED  BY <2>1, <3>1, <3>2 DEF JournalOK
  <2> QED  BY <1>2, <2>1, <2>2, FormationIs DEF FormationInv
<1>4. CASE ~Transient(x)
  <2> DEFINE spoken == IF fail = "conversation" THEN items
                       ELSE Append(items, NewItem("conversation", x))
  <2>1. PICK its : its = items  OBVIOUS
  <2>2. PICK talked : talked = spoken  OBVIOUS
  <2>3. /\ SessionPart(x, fail)
        /\ kept' = [kept EXCEPT ![x.session] =
                      IF fail = "metadata" THEN @ ELSE @ \cup {Entries(x)[1].id, Entries(x)[2].id}]
        /\ IF Forms(x) /\ fail # "typed"
             THEN /\ items' \in TypedWrites(talked, x)
                  /\ stated' = stated \cup {Statement(x)}
             ELSE items' = talked /\ stated' = stated
    BY <1>4, <2>2 DEF Ingest, Statement
  <2>4. Tidy(its) /\ Tidy(talked) /\ Outlives(its, talked)
    <3>1. Tidy(its)  BY <2>1, FormationIs
    <3>2. Outlives(its, its)  BY DEF Outlives
    <3>3. talked = its \/ talked = Append(its, NewItem("conversation", x))  BY <2>1, <2>2
    <3> QED  BY <1>4, <3>1, <3>2, <3>3, TalkedKeeps
  <2>5. PICK jts : jts = items'  OBVIOUS
  <2>6. CASE Forms(x) /\ fail # "typed"
    <3>1. jts \in TypedWrites(talked, x)  BY <2>3, <2>5, <2>6
    <3>2. Tidy(jts) /\ Outlives(talked, jts) /\ Remembers(jts, Statement(x))
      BY <1>4, <2>4, <2>6, <3>1, TypedKeeps
    <3>3. \A s \in stated : Remembers(its, s)  BY <2>1, FormationIs
    <3>4. \A s \in stated' : Remembers(jts, s)
      BY <2>3, <2>4, <2>6, <3>2, <3>3 DEF Outlives
    <3> QED  BY <1>1, <1>2, <2>3, <2>5, <3>2, <3>4, FormationIs, SessionPartKeeps
             DEF FormationInv
  <2>7. CASE ~(Forms(x) /\ fail # "typed")
    <3>1. jts = talked /\ stated' = stated  BY <2>3, <2>5, <2>7
    <3>2. \A s \in stated : Remembers(its, s)  BY <2>1, FormationIs
    <3>3. \A s \in stated' : Remembers(jts, s)  BY <2>4, <3>1, <3>2 DEF Outlives
    <3> QED  BY <1>1, <1>2, <2>3, <2>4, <2>5, <3>1, <3>3, FormationIs, SessionPartKeeps
             DEF FormationInv
  <2> QED  BY <2>6, <2>7
<1> QED  BY <1>3, <1>4

LEMMA DecaysKeeps ==
  ASSUME FormationInv, NEW i \in DOMAIN items, Decays(i)
  PROVE  FormationInv'
<1>1. PICK its : its = items  OBVIOUS
<1>2. Tidy(its) /\ i \in 1..Len(its) /\ DOMAIN its = 1..Len(its)
  BY <1>1, FormationIs, TidyIs
<1>3. PICK m : m = its[i]  OBVIOUS
<1>4. ItemOK(m) /\ m.weight \in 0..100  BY <1>2, <1>3, TidyIs, ItemIs
<1>5. PICK w \in 0..100 : w = (85 * m.weight) \div 100
  BY <1>4
<1>6. PICK n : n = [m EXCEPT !.weight = w]  OBVIOUS
<1>7. ItemOK(n) /\ Follows(m, n)  BY <1>4, <1>6, Reweighted
<1>8. PICK jts : jts = [its EXCEPT ![i] = n]  OBVIOUS
<1>9. Tidy(jts) /\ Outlives(its, jts)  BY <1>2, <1>3, <1>7, <1>8, Changed
<1>10. /\ items' = jts /\ upkeeps' \in 0..MaxUpkeeps
       /\ journal' = journal /\ counted' = counted /\ kept' = kept
       /\ recalled' = recalled /\ stated' = stated /\ turns' = turns
  <2>1. items' = jts  BY <1>1, <1>3, <1>5, <1>6, <1>8 DEF Decays
  <2>2. upkeeps' \in 0..MaxUpkeeps  BY FormationIs, WindowIsNat DEF Decays
  <2> QED  BY <2>1, <2>2 DEF Decays
<1>11. \A s \in stated : Remembers(jts, s)
  <2>1. \A s \in stated : Remembers(its, s)  BY <1>1, FormationIs
  <2> QED  BY <1>9, <2>1 DEF Outlives
<1>12. RecallOK'
  <2>1. /\ DOMAIN jts = DOMAIN its
        /\ \A j \in DOMAIN its : /\ jts[j].owner = its[j].owner
                                 /\ jts[j].session = its[j].session
                                 /\ jts[j].from = its[j].from
    BY <1>2, <1>3, <1>7, <1>8 DEF Follows
  <2>2. /\ recalled.items \subseteq DOMAIN its
        /\ \A j \in recalled.items : /\ Sees(recalled.reader, its[j])
                                     /\ its[j].from \cap {"retrieval", "write"} = {}
        /\ recalled.session \in OpenSessions \cup {"none"}
        /\ recalled.session # "none" => recalled.partial = Partial(recalled.session)
    BY <1>1, FormationIs DEF RecallOK
  <2>3. \A j \in recalled.items : Sees(recalled.reader, jts[j])
    BY <2>1, <2>2 DEF Sees
  <2> QED  BY <1>10, <2>1, <2>2, <2>3 DEF RecallOK, Partial
<1> QED  BY <1>9, <1>10, <1>11, <1>12, FormationIs DEF FormationInv

LEMMA ReloadsKeeps ==
  ASSUME FormationInv, Reloads
  PROVE  FormationInv'
<1>1. PICK its : its = items  OBVIOUS
<1>2. Tidy(its) /\ DOMAIN its = 1..Len(its) /\ Len(its) \in Nat /\ its \in Seq(Items)
      /\ \A i \in 1..Len(its) : ItemOK(its[i])
  BY <1>1, FormationIs, TidyIs
<1>3. PICK jts : jts = [i \in DOMAIN its |-> [its[i] EXCEPT !.said = its[i].first, !.before = {},
                                                          !.weight = its[i].base]]
  OBVIOUS
<1>4. ASSUME NEW i \in 1..Len(its)
      PROVE  /\ ItemOK(jts[i]) /\ jts[i].type = its[i].type /\ jts[i].owner = its[i].owner
             /\ jts[i].session = its[i].session /\ jts[i].first = its[i].first
  <2>1. PICK m : m = its[i]  OBVIOUS
  <2>2. ItemOK(m) /\ m \in Items  BY <1>2, <2>1 DEF ItemOK
  <2>3. PICK n : n = [m EXCEPT !.said = m.first, !.before = {}, !.weight = m.base]  OBVIOUS
  <2>4. n \in Items  BY <2>2, <2>3 DEF Items
  <2>5. /\ n.type = m.type /\ n.owner = m.owner /\ n.session = m.session
        /\ n.first = m.first /\ n.from = m.from /\ n.said = m.first
    BY <2>2, <2>3 DEF Items
  <2>6. ItemOK(n)  BY <2>2, <2>4, <2>5 DEF ItemOK
  <2>7. jts[i] = n  BY <1>2, <1>3, <2>1, <2>3
  <2> QED  BY <2>1, <2>5, <2>6, <2>7
<1>5. jts \in Seq(Items) /\ Len(jts) = Len(its)
  <2>1. jts \in [1..Len(its) -> Items]  BY <1>2, <1>3, <1>4 DEF ItemOK
  <2> QED  BY <1>2, <2>1
<1>6. FarApart(jts)
  <2>1. ASSUME NEW j \in 1..Len(its), NEW k \in 1..Len(its), j < k, Same(jts[j], jts[k])
        PROVE  k - j > Window
    <3>1. Same(its[j], its[k])  BY <1>4, <2>1 DEF Same
    <3> QED  BY <1>2, <2>1, <3>1 DEF Tidy, FarApart
  <2> QED  BY <1>5, <2>1 DEF FarApart
<1>7. Tidy(jts)  BY <1>4, <1>5, <1>6 DEF Tidy
<1>8. /\ items' = jts /\ upkeeps' \in 0..MaxUpkeeps /\ stated' = {} /\ recalled' = NoRecall
      /\ journal' = journal /\ counted' = counted /\ kept' = kept /\ turns' = turns
  <2>1. items' = jts  BY <1>1, <1>3 DEF Reloads
  <2>2. upkeeps < MaxUpkeeps /\ upkeeps' = upkeeps + 1  BY DEF Reloads
  <2>3. upkeeps' \in 0..MaxUpkeeps  BY <2>2, FormationIs, WindowIsNat
  <2> QED  BY <2>1, <2>3 DEF Reloads
<1> QED  BY <1>7, <1>8, FormationIs DEF FormationInv

(* An answer of the memory tool.                                             *)
LEMMA AnswersKeeps ==
  ASSUME FormationInv, NEW r, Answers(r), RecallOK'
  PROVE  FormationInv'
<1>1. /\ upkeeps' \in 0..MaxUpkeeps
      /\ items' = items /\ journal' = journal /\ counted' = counted /\ kept' = kept
      /\ stated' = stated /\ turns' = turns
  BY FormationIs, WindowIsNat DEF Answers
<1> QED  BY <1>1, FormationIs DEF FormationInv

LEMMA FoundKeeps ==
  ASSUME FormationInv, NEW c, NEW S, S \subseteq DOMAIN items,
         \A i \in S : Sees(c, items[i]) /\ IsSource(items[i]),
         Answers([NoRecall EXCEPT !.reader = c, !.items = S])
  PROVE  FormationInv'
<1>1. PICK r : r = [NoRecall EXCEPT !.reader = c, !.items = S]  OBVIOUS
<1>2. r.reader = c /\ r.items = S /\ r.session = "none"  BY <1>1 DEF NoRecall
<1>3. recalled' = r /\ items' = items  BY <1>1 DEF Answers
<1>4. RecallOK'  BY <1>2, <1>3 DEF RecallOK, IsSource
<1> QED  BY <1>1, <1>4, AnswersKeeps

LEMMA SearchesKeeps ==
  ASSUME FormationInv, NEW c, NEW type, NEW want, Searches(c, type, want)
  PROVE  FormationInv'
<1>1. PICK S : S = {i \in DOMAIN items :
                      /\ Sees(c, items[i]) /\ IsSource(items[i])
                      /\ type \in {"any", items[i].type}
                      /\ \E t \in want : t.kw \cap items[i].said.kw # {}}
  OBVIOUS
<1>2. Answers([NoRecall EXCEPT !.reader = c, !.items = S])  BY <1>1 DEF Searches
<1>3. S \subseteq DOMAIN items /\ \A i \in S : Sees(c, items[i]) /\ IsSource(items[i])
  BY <1>1
<1> QED  BY <1>2, <1>3, FoundKeeps

LEMMA RereadsKeeps ==
  ASSUME FormationInv, NEW c, Rereads(c)
  PROVE  FormationInv'
<1>1. PICK S : S = {i \in DOMAIN items : Sees(c, items[i]) /\ IsSource(items[i])}  OBVIOUS
<1>2. Answers([NoRecall EXCEPT !.reader = c, !.items = S])  BY <1>1 DEF Rereads
<1>3. S \subseteq DOMAIN items /\ \A i \in S : Sees(c, items[i]) /\ IsSource(items[i])
  BY <1>1
<1> QED  BY <1>2, <1>3, FoundKeeps

LEMMA LastSessionKeeps ==
  ASSUME FormationInv, NEW c, NEW s \in OpenSessions, LastSession(c, s)
  PROVE  FormationInv'
<1>1. PICK p : p = Partial(s)  OBVIOUS
<1>2. PICK r : r = [NoRecall EXCEPT !.reader = c, !.session = s, !.partial = p]  OBVIOUS
<1>3. r.items = {} /\ r.session = s /\ r.partial = p  BY <1>2 DEF NoRecall
<1>4. Answers(r)  BY <1>1, <1>2 DEF LastSession
<1>5. recalled' = r /\ items' = items /\ journal' = journal /\ counted' = counted
  BY <1>4 DEF Answers
<1>6. Partial(s)' = p  BY <1>1, <1>5 DEF Partial
<1>7. RecallOK'  BY <1>3, <1>5, <1>6 DEF RecallOK, Partial
<1> QED  BY <1>4, <1>7, AnswersKeeps

-----------------------------------------------------------------------------
LEMMA FormationFirst ==
  ASSUME FormationInit PROVE FormationInv
<1>1. /\ items = <<>> /\ journal = [s \in OpenSessions |-> <<>>]
      /\ counted = [s \in OpenSessions |-> 0] /\ kept = [s \in OpenSessions |-> {}]
      /\ recalled = NoRecall /\ stated = {} /\ turns = 0 /\ upkeeps = 0
  BY DEF FormationInit
<1>2. \A S : <<>> \in Seq(S) /\ Len(<<>>) = 0  OBVIOUS
<1>3. Tidy(items)
  <2>1. 1..0 = {}  OBVIOUS
  <2> QED  BY <1>1, <1>2, <2>1 DEF Tidy, FarApart
<1>4. ASSUME NEW s \in OpenSessions PROVE JournalOK(s)
  <2>1. journal[s] = <<>> /\ counted[s] = 0 /\ kept[s] = {}  BY <1>1
  <2>2. 1..0 = {}  OBVIOUS
  <2> QED  BY <1>1, <1>2, <2>1, <2>2 DEF JournalOK, Answered
<1>5. RecallOK  BY <1>1 DEF RecallOK, NoRecall
<1>6. counted \in [OpenSessions -> Nat]  BY <1>1
<1> QED  BY <1>1, <1>3, <1>4, <1>5, <1>6, WindowIsNat DEF FormationInv

LEMMA FormationStep ==
  ASSUME FormationInv, [FormationNext]_formationVars PROVE FormationInv'
<1>1. ASSUME NEW c \in Readers, NEW type \in {"any", "preference", "workflow"},
             NEW q \in Wanted, Searches(c, type, {q}) \/ Searches(c, type, Texts)
      PROVE  FormationInv'
  BY <1>1, SearchesKeeps
<1>2. ASSUME NEW c \in Readers, Rereads(c) PROVE FormationInv'  BY <1>2, RereadsKeeps
<1>3. ASSUME NEW c \in Readers, NEW s \in OpenSessions, LastSession(c, s) PROVE FormationInv'
  BY <1>3, LastSessionKeeps
<1>4. ASSUME NEW x \in Interactions, NEW fail \in Failures, Ingest(x, fail)
      PROVE  FormationInv'
  BY <1>4, IngestKeeps
<1>5. ASSUME NEW i \in DOMAIN items, Decays(i) PROVE FormationInv'  BY <1>5, DecaysKeeps
<1>6. CASE Reloads  BY <1>6, ReloadsKeeps
<1>7. CASE UNCHANGED formationVars
  <2>1. /\ items' = items /\ journal' = journal /\ counted' = counted /\ kept' = kept
        /\ recalled' = recalled /\ stated' = stated /\ turns' = turns /\ upkeeps' = upkeeps
    BY <1>7 DEF formationVars
  <2>2. RecallOK'  BY <2>1, FormationIs DEF RecallOK, Partial
  <2> QED  BY <2>1, <2>2, FormationIs DEF FormationInv
<1> QED  BY <1>1, <1>2, <1>3, <1>4, <1>5, <1>6, <1>7 DEF FormationNext

LEMMA FormationInvSafe ==
  ASSUME FormationInv PROVE FormationSafe
<1>1. PICK its : its = items  OBVIOUS
<1>2. /\ Tidy(its) /\ DOMAIN its = 1..Len(its) /\ Len(its) \in Nat
      /\ \A i \in 1..Len(its) : ItemOK(its[i])
  BY <1>1, FormationIs, TidyIs
<1>3. FormationTypeOK
  <2>1. \A i \in DOMAIN its :
          /\ its[i].type \in ItemTypes /\ its[i].said \in Texts /\ its[i].first \in Texts
          /\ its[i].before \subseteq Texts /\ its[i].weight \in 0..100
    BY <1>2, ItemIs
  <2>2. recalled.items \subseteq DOMAIN items  BY FormationIs DEF RecallOK
  <2>3. counted \in [OpenSessions -> 0..2 * MaxTurns]
    <3>1. ASSUME NEW s \in OpenSessions PROVE counted[s] \in 0..2 * MaxTurns
      <4>1. counted[s] \in Nat /\ counted[s] <= 2 * turns  BY FormationIs DEF JournalOK
      <4>2. turns \in 0..MaxTurns /\ MaxTurns \in Nat  BY FormationIs, WindowIsNat
      <4> QED  BY <4>1, <4>2
    <3> QED  BY <3>1, FormationIs
  <2> QED  BY <1>1, <2>1, <2>2, <2>3, FormationIs DEF FormationTypeOK
<1>4. TransientIsNotKept  BY <1>1, <1>2 DEF TransientIsNotKept, ItemOK
<1>5. AnswersAreNotFacts  BY <1>1, <1>2 DEF AnswersAreNotFacts, ItemOK
<1>6. NoDuplicates
  <2>1. FarApart(its)  BY <1>2 DEF Tidy
  <2> QED  BY <1>1, <1>2, <2>1 DEF NoDuplicates, FarApart, Same
<1>7. StatedIsRemembered
  <2>1. ASSUME NEW s \in stated
        PROVE  \E i \in DOMAIN its :
                 /\ its[i].type = StoredType(Classify(s.text)) /\ Sees(s, its[i])
                 /\ \/ Duplicate(s.text, its[i].said)
                    \/ /\ its[i].type = "preference"
                       /\ \E t \in {its[i].said} \cup its[i].before :
                            t = s.text \/ Jaccard(t.kw, s.text.kw) >= 7000
    <3>1. Remembers(its, s)  BY <1>1, FormationIs
    <3>2. PICK i \in 1..Len(its) : StandsFor(its[i], s)  BY <3>1 DEF Remembers
    <3>3. i \in DOMAIN its  BY <1>2, <3>2
    <3> QED  BY <3>2, <3>3 DEF StandsFor
  <2> QED  BY <1>1, <2>1 DEF StatedIsRemembered
<1>8. AnswersHaveQuestions
  <2>1. ASSUME NEW s \in OpenSessions PROVE journal[s] \in Seq(History) /\ Answered(journal[s])
    BY FormationIs DEF JournalOK
  <2>2. \A s \in OpenSessions : DOMAIN journal[s] = 1..Len(journal[s])
    <3>1. \A q \in Seq(History) : DOMAIN q = 1..Len(q)  OBVIOUS
    <3> QED  BY <2>1, <3>1
  <2> QED  BY <2>1, <2>2 DEF AnswersHaveQuestions, Answered
<1>9. RecalledIsSource  BY FormationIs DEF RecallOK, RecalledIsSource
<1>10. CompleteMeansAll
  <2>1. ASSUME recalled.session # "none", ~recalled.partial
        PROVE  kept[recalled.session] \subseteq
                 {journal[recalled.session][k].id : k \in DOMAIN journal[recalled.session]}
    <3>1. PICK s \in OpenSessions : s = recalled.session /\ ~Partial(s)
      BY <2>1, FormationIs DEF RecallOK
    <3>2. JournalOK(s) /\ counted[s] \in Nat  BY FormationIs
    <3>3. PICK n \in Nat : n = Len(journal[s])
      <4>1. journal[s] \in Seq(History)  BY <3>2 DEF JournalOK
      <4> QED  BY <4>1, JournalIs
    <3>4. n = counted[s]  BY <3>1, <3>2, <3>3 DEF Partial, JournalOK
    <3>5. kept[s] \subseteq EntryIds(journal[s])  BY <3>2, <3>3, <3>4 DEF JournalOK
    <3> QED  BY <3>1, <3>5 DEF EntryIds
  <2> QED  BY <2>1 DEF CompleteMeansAll
<1> QED
  BY <1>3, <1>4, <1>5, <1>6, <1>7, <1>8, <1>9, <1>10 DEF FormationSafe

(* The invariant of what interactions leave behind.                          *)
THEOREM FormationInvariance ==
  FormationInit /\ [][FormationNext]_formationVars => []FormationInv
<1>1. FormationInit => FormationInv  BY FormationFirst
<1>2. FormationInv /\ [FormationNext]_formationVars => FormationInv'  BY FormationStep
<1> QED  BY <1>1, <1>2, PTL

(* What was transient, or an answer made from memories, becomes no fact;     *)
(* what a user states stays remembered for that user, once within the        *)
(* window; every answer in a history follows its question; recall serves     *)
(* sources in scope, and a history that is not called partial is whole.      *)
THEOREM FormationIsSafe ==
  FormationInit /\ [][FormationNext]_formationVars => []FormationSafe
<1>1. FormationInv => FormationSafe  BY FormationInvSafe
<1>2. FormationInit /\ [][FormationNext]_formationVars => []FormationInv
  BY FormationInvariance
<1> QED  BY <1>1, <1>2, PTL

=============================================================================
