--------------------------- MODULE MemoryFormation ---------------------------
(* What a completed interaction leaves behind (memory/formation and the       *)
(* controller's consolidator and preference resolver): the conversation turn, *)
(* two entries of the session's history, and at most one typed memory,        *)
(* classified by fixed rules, merged with what is already known, reinforced   *)
(* or decayed afterwards.  Every step of an ingestion may fail on its own;    *)
(* the engine logs the failure and goes on.                                   *)
(*                                                                           *)
(* A text is a record: its words (tok), its keywords (kw), the topics found   *)
(* in it (ent), its normalized form (norm), whether it is filler (noise) or a *)
(* question, and the patterns it matches (shapes).  Scores are in hundredths  *)
(* of a percent, as the code rounds them.                                     *)
EXTENDS Naturals, FiniteSets, Sequences

CONSTANTS Texts,         \* what users say
          Interactions,  \* [text, who, session, flags, plan, state]
          Wanted,        \* what recall requests ask for
          Window,        \* memories the duplicate check looks at (500)
          MaxTurns,      \* bound on the interactions
          MaxUpkeeps     \* bound on maintenance runs and restarts

ASSUME FormationAssumption ==
    /\ \A x \in Interactions : x.text \in Texts /\ x.flags \subseteq
         {"deleted", "internet", "explicit", "retrieval", "write"}
    /\ Wanted \subseteq Texts
    /\ Window \in Nat /\ MaxTurns \in Nat /\ MaxUpkeeps \in Nat

VARIABLES items,    \* the memories, oldest first
          journal,  \* per session, the history entries
          counted,  \* per session, the metadata's message_count
          kept,     \* history: per session, the entries its count stands for
          recalled, \* what the memory tool answered last
          stated,   \* history: the statements this process took in
          turns, upkeeps

formationVars == <<items, journal, counted, kept, recalled, stated, turns, upkeeps>>

OpenSessions == {x.session : x \in Interactions}
Readers == {[who |-> x.who, session |-> x.session] : x \in Interactions}
NoRecall == [reader |-> "none", items |-> {}, session |-> "none", partial |-> FALSE]
ItemTypes == {"conversation", "preference", "workflow", "tool", "knowledge"}

FormationTypeOK ==
    /\ \A i \in DOMAIN items :
         /\ items[i].type \in ItemTypes
         /\ items[i].said \in Texts /\ items[i].first \in Texts
         /\ items[i].before \subseteq Texts
         /\ items[i].weight \in 0 .. 100
    /\ recalled.items \subseteq DOMAIN items
    /\ counted \in [OpenSessions -> 0 .. 2 * MaxTurns]
    /\ turns \in 0 .. MaxTurns /\ upkeeps \in 0 .. MaxUpkeeps

FormationInit ==
    /\ items = <<>>
    /\ journal = [s \in OpenSessions |-> <<>>]
    /\ counted = [s \in OpenSessions |-> 0]
    /\ kept = [s \in OpenSessions |-> {}]
    /\ recalled = NoRecall
    /\ stated = {}
    /\ turns = 0 /\ upkeeps = 0

-----------------------------------------------------------------------------
(* MemoryClassifier.                                                         *)

\* _clean strips the sentence punctuation, a question mark included.
Cleaned(t) == [t EXCEPT !.question = FALSE]

HasShape(t, s) == s \in t.shapes

\* classify: the first detector that matches decides.  The test for a question
\* looks at the cleaned text.
Classify(t) ==
    LET c == Cleaned(t) IN
    CASE t.noise -> "none"
      [] HasShape(c, "use") \/ HasShape(c, "stack") -> "tool"
      [] HasShape(c, "like") -> "preference"
      [] c.question -> "none"
      [] HasShape(c, "building") -> "project"
      [] HasShape(c, "habit") -> "workflow"
      [] HasShape(c, "fact") -> "knowledge"
      [] OTHER -> "none"

StoredTypeOwn(k) == k

\* A project is stored as knowledge ("so no generic memory is ever created").
StoredType(k) == IF k = "project" THEN "knowledge" ELSE k

\* The importance each writer assigns, in percent.
BaseWeight(k) == CASE k = "preference" \/ k = "project" -> 70
                   [] k = "workflow" \/ k = "knowledge" -> 75
                   [] OTHER -> 30

-----------------------------------------------------------------------------
(* Similarity.                                                               *)

Jaccard(a, b) == IF a = {} \/ b = {} THEN 0
                 ELSE (10000 * Cardinality(a \cap b)) \div Cardinality(a \cup b)

\* MemoryConsolidator._compute_similarity; the candidate carries no tags.
Similarity(t, u) == (35 * Jaccard(t.kw, u.kw) + 30 * Jaccard(t.ent, u.ent)
                     + 20 * Jaccard(t.tok, u.tok)) \div 100

SameWords(t, u) == t.norm = u.norm
Duplicate(t, u) == SameWords(t, u) \/ Similarity(t, u) >= 7500

\* PreferenceResolver._score_overlap
Overlap(t, u) == (50 * Jaccard(t.ent, u.ent) + 50 * Jaccard(t.kw, u.kw)) \div 100

\* PreferenceResolver._classify for the best of the known preferences.
Relation(t, u) ==
    CASE (t.kw = {} /\ t.ent = {}) \/ Overlap(t, u) < 4000 -> "new"
      [] Jaccard(t.kw, u.kw) >= 7000 -> "reinforce"
      [] t.ent \cap u.ent # {} -> "update"
      [] Jaccard(t.kw, u.kw) >= 5000 -> "update"
      [] OTHER -> "contradict"

-----------------------------------------------------------------------------
(* The memories.                                                             *)

\* Whether c may see item m (SecurityManager.is_in_scope).
Sees(c, m) == m.owner = c.who /\ m.session \in {"none", c.session}

\* A session's memories stay in it; preferences and knowledge are the user's.
NewItem(k, x) ==
    [type |-> StoredType(k), owner |-> x.who,
     session |-> IF k \in {"conversation", "workflow", "tool"} THEN x.session ELSE "none",
     said |-> x.text, first |-> x.text, before |-> {},
     weight |-> BaseWeight(k), base |-> BaseWeight(k), from |-> x.flags]

Newest(its) == {i \in DOMAIN its : i > Len(its) - Window}

DuplicatesUnscoped(its, k, x) ==
    {i \in Newest(its) : its[i].type = StoredType(k) /\ Duplicate(x.text, its[i].said)}

DuplicatesByClass(its, k, x) ==
    {i \in Newest(its) : /\ its[i].type = k
                         /\ Sees(x, its[i])
                         /\ Duplicate(x.text, its[i].said)}

\* _find_duplicate: among the newest memories of the stored type in scope.
Duplicates(its, k, x) ==
    {i \in Newest(its) : /\ its[i].type = StoredType(k)
                         /\ Sees(x, its[i])
                         /\ Duplicate(x.text, its[i].said)}

\* promote_memory and the resolver's bump never pass 1.0.
Heavier(w, n) == IF w + n > 100 THEN 100 ELSE w + n

\* _reinforce_canonical, in the process only: update_memory writes no row.
Reinforced(its, i) == [its EXCEPT ![i].weight = Heavier(@, 10)]

RevisedWithoutHistory(m, t) == [m EXCEPT !.said = t, !.weight = Heavier(@, 5)]

\* _apply_update: the old words go to the record's history.
Revised(m, t) == [m EXCEPT !.said = t, !.before = @ \cup {m.said}, !.weight = Heavier(@, 5)]

\* write_preference: the known preferences are those of the cache, or the
\* owner's when the cache holds none; the best match decides.
PreferenceWrites(its, x) ==
    LET mine == {i \in DOMAIN its : its[i].type = "preference" /\ its[i].owner = x.who}
        anew == Append(its, NewItem("preference", x))
        ByBest(known) ==
          LET best == {i \in known : \A j \in known :
                         Overlap(x.text, its[j].said) <= Overlap(x.text, its[i].said)}
          IN {CASE Relation(x.text, its[i].said) \in {"new", "contradict"} -> anew
                [] Relation(x.text, its[i].said) = "reinforce" ->
                     [its EXCEPT ![i].weight = Heavier(@, 5)]
                [] OTHER -> [its EXCEPT ![i] = Revised(@, x.text)] : i \in best}
    IN IF mine = {} THEN {anew}
       ELSE UNION {ByBest(known) : known \in (SUBSET mine) \ {{}}}

\* _write_typed: a duplicate is reinforced, anything else is stored.
TypedWrites(its, x) ==
    LET k == Classify(x.text)
        dups == Duplicates(its, k, x)
    IN IF k = "preference" THEN PreferenceWrites(its, x)
       ELSE IF dups # {} THEN {Reinforced(its, i) : i \in dups}
       ELSE {Append(its, NewItem(k, x))}

-----------------------------------------------------------------------------
(* MemoryFormationEngine.ingest.                                             *)

\* Nothing is kept of a deleted session or, unless asked for, of the internet.
TransientUnlessTyped(x) ==
    \/ "deleted" \in x.flags
    \/ "internet" \in x.flags /\ "explicit" \notin x.flags /\ Classify(x.text) = "none"

Transient(x) == \/ "deleted" \in x.flags
                \/ "internet" \in x.flags /\ "explicit" \notin x.flags

\* An answer made from memories, or one that stored a memory, forms no fact.
FormsRetrieved(x) == "write" \notin x.flags /\ Classify(x.text) # "none"

Forms(x) == x.flags \cap {"retrieval", "write"} = {} /\ Classify(x.text) # "none"

\* SessionBuilder.build_history_entries: ids from the plan (or one shared id
\* without a report) and, for the answer, from the execution's state.
Entries(x) == <<[id |-> <<"user", x.plan>>, role |-> "user", plan |-> x.plan],
                [id |-> <<"assistant", x.plan, x.state>>, role |-> "assistant", plan |-> x.plan]>>

\* append_history skips an id the session already has.
Journalled(j, e) == IF \E k \in DOMAIN j : j[k].id = e.id THEN j ELSE Append(j, e)

\* The metadata first, then the entries one by one; a failure ends the builder.
SessionPartSkipsFailed(x, fail) ==
    LET u == IF fail = "user" THEN journal[x.session]
             ELSE Journalled(journal[x.session], Entries(x)[1])
    IN /\ journal' = [journal EXCEPT ![x.session] =
                        IF fail \in {"metadata", "answer"} THEN u
                        ELSE Journalled(u, Entries(x)[2])]
       /\ counted' = [counted EXCEPT ![x.session] = IF fail = "metadata" THEN @ ELSE @ + 2]

SessionPart(x, fail) ==
    LET u == Journalled(journal[x.session], Entries(x)[1])
        a == Journalled(u, Entries(x)[2])
    IN /\ journal' = [journal EXCEPT ![x.session] =
                        CASE fail \in {"metadata", "user"} -> @
                          [] fail = "answer" -> u
                          [] OTHER -> a]
       /\ counted' = [counted EXCEPT ![x.session] = IF fail = "metadata" THEN @ ELSE @ + 2]

\* One of the writes fails, or none does; the others are still made.
Failures == {"none", "conversation", "metadata", "user", "answer", "typed"}

Ingest(x, fail) ==
    /\ turns < MaxTurns
    /\ turns' = turns + 1
    /\ recalled' = NoRecall
    /\ UNCHANGED upkeeps
    /\ IF Transient(x) THEN UNCHANGED <<items, journal, counted, kept, stated>>
       ELSE LET talked == IF fail = "conversation" THEN items
                          ELSE Append(items, NewItem("conversation", x))
            IN /\ SessionPart(x, fail)
               /\ kept' = [kept EXCEPT ![x.session] =
                             IF fail = "metadata" THEN @ ELSE @ \cup {Entries(x)[1].id, Entries(x)[2].id}]
               /\ IF Forms(x) /\ fail # "typed"
                    THEN /\ items' \in TypedWrites(talked, x)
                         /\ stated' = stated \cup {[who |-> x.who, session |-> x.session,
                                                    text |-> x.text]}
                    ELSE items' = talked /\ UNCHANGED stated

-----------------------------------------------------------------------------
(* Upkeep.                                                                   *)

\* decay_importance, for one of the memories nobody used for two weeks.
Decays(i) ==
    /\ upkeeps < MaxUpkeeps
    /\ upkeeps' = upkeeps + 1
    /\ items' = [items EXCEPT ![i].weight = (85 * @) \div 100]
    /\ UNCHANGED <<journal, counted, kept, recalled, stated, turns>>

\* A new process reads the rows: what only the process knew is gone.
Reloads ==
    /\ upkeeps < MaxUpkeeps /\ items # <<>>
    /\ upkeeps' = upkeeps + 1
    /\ items' = [i \in DOMAIN items |->
                   [items[i] EXCEPT !.said = items[i].first, !.before = {},
                                    !.weight = items[i].base]]
    /\ stated' = {} /\ recalled' = NoRecall
    /\ UNCHANGED <<journal, counted, kept, turns>>

-----------------------------------------------------------------------------
(* The memory tool's recall.                                                 *)

Answers(r) ==
    /\ upkeeps < MaxUpkeeps
    /\ upkeeps' = upkeeps + 1
    /\ recalled' = r
    /\ UNCHANGED <<items, journal, counted, kept, stated, turns>>

\* _is_source_record: an answer derived from memories is no evidence.
IsSource(m) == m.from \cap {"retrieval", "write"} = {}

\* _search: the controller's answer, narrowed to the type the intent asks for
\* and to source records.  A search without a query shows the newest.
Searches(c, type, want) ==
    Answers([NoRecall EXCEPT !.reader = c, !.items =
       {i \in DOMAIN items : /\ Sees(c, items[i]) /\ IsSource(items[i])
                             /\ type \in {"any", items[i].type}
                             /\ \E t \in want : t.kw \cap items[i].said.kw # {}}])

RereadsAnywhere(c) ==
    Answers([NoRecall EXCEPT !.reader = c,
                !.items = {i \in DOMAIN items : IsSource(items[i])}])

\* _retrieve: ids an earlier answer named, whoever asked then, read again in
\* the scope of whoever asks now.
Rereads(c) ==
    Answers([NoRecall EXCEPT !.reader = c,
                !.items = {i \in DOMAIN items : Sees(c, items[i]) /\ IsSource(items[i])}])

PartialIfEmpty(s) == journal[s] = <<>>

\* More messages were counted than are stored.
Partial(s) == counted[s] > Len(journal[s])

\* _last_session: the principal's previous session, its whole history.
LastSession(c, s) ==
    /\ s # c.session /\ [who |-> c.who, session |-> s] \in Readers
    /\ Answers([NoRecall EXCEPT !.reader = c, !.session = s, !.partial = Partial(s)])

FormationNext ==
    \/ \E c \in Readers, type \in {"any", "preference", "workflow"}, q \in Wanted :
          Searches(c, type, {q}) \/ Searches(c, type, Texts)
    \/ \E c \in Readers : Rereads(c) \/ \E s \in OpenSessions : LastSession(c, s)
    \/ \E x \in Interactions, fail \in Failures : Ingest(x, fail)
    \/ \E i \in DOMAIN items : Decays(i)
    \/ Reloads

-----------------------------------------------------------------------------
(* Properties.                                                               *)

\* "internet-sourced interactions are TRANSIENT" and a deleted session stays
\* deleted: whatever the interaction said, and whichever writes failed, no
\* memory of any type comes from one.
TransientIsNotKept ==
    \A i \in DOMAIN items :
        /\ "deleted" \notin items[i].from
        /\ "internet" \in items[i].from => "explicit" \in items[i].from

\* A grounded answer "must not be promoted as a new profile/workflow fact":
\* only conversation turns come from interactions that read or wrote memory.
AnswersAreNotFacts ==
    \A i \in DOMAIN items : items[i].type # "conversation" =>
        items[i].from \cap {"retrieval", "write"} = {}

\* "update the canonical memory instead of creating a duplicate": two memories
\* of one kind, one scope and the same words are further apart than the window
\* the duplicate check looks at, whatever turned up in between.
NoDuplicates ==
    \A i, j \in DOMAIN items :
        /\ i < j
        /\ items[i].type \in {"workflow", "tool", "knowledge"}
        /\ items[i].type = items[j].type
        /\ items[i].owner = items[j].owner /\ items[i].session = items[j].session
        /\ SameWords(items[i].first, items[j].first)
        => j - i > Window

\* What a user stated is remembered where that user can see it: as the words
\* themselves, as a duplicate of words in the same scope, or, for a preference,
\* in a record or its history.  Another user's memory never stands in for it,
\* and a preference that replaces another leaves the old words behind.
StatedIsRemembered ==
    \A s \in stated :
        \E i \in DOMAIN items :
            /\ items[i].type = StoredType(Classify(s.text))
            /\ Sees(s, items[i])
            /\ \/ Duplicate(s.text, items[i].said)
               \/ /\ items[i].type = "preference"
                  /\ \E t \in {items[i].said} \cup items[i].before :
                       t = s.text \/ Jaccard(t.kw, s.text.kw) >= 7000

\* Every answer in a session's history follows the request it answers, also
\* when a request is answered twice (paused, then completed) and when a write
\* in the middle of an ingestion failed.
AnswersHaveQuestions ==
    \A s \in OpenSessions : \A k \in DOMAIN journal[s] :
        journal[s][k].role = "assistant" =>
            \E j \in 1 .. k - 1 : /\ journal[s][j].role = "user"
                                  /\ journal[s][j].plan = journal[s][k].plan

\* Recall serves what its reader may see, and only what a user or a document
\* said: an answer made from memories never comes back as evidence for the next
\* one, and ids found in one scope show nothing in another.
RecalledIsSource ==
    \A i \in recalled.items :
        /\ Sees(recalled.reader, items[i])
        /\ items[i].from \cap {"retrieval", "write"} = {}

\* A recalled session that is not called partial is complete: every entry its
\* message count stands for is there, whichever appends failed or were skipped.
CompleteMeansAll ==
    recalled.session # "none" /\ ~recalled.partial =>
        kept[recalled.session] \subseteq
            {journal[recalled.session][k].id : k \in DOMAIN journal[recalled.session]}

(* What the user states is remembered once and in its latest form, what    *)
(* was transient or merely retrieved is not, and a recall says truly       *)
(* whether it is complete.                                                 *)
FormationSafe ==
  /\ FormationTypeOK /\ TransientIsNotKept /\ AnswersAreNotFacts
  /\ NoDuplicates /\ StatedIsRemembered /\ AnswersHaveQuestions
  /\ RecalledIsSource /\ CompleteMeansAll
=============================================================================
