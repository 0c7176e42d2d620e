----------------------------- MODULE SkillLearning -----------------------------
(***************************************************************************)
(* Learned skills: ReflectionEngine and LearningEngine turn the report of  *)
(* an executed plan into skills, SkillMemoryStore keeps them through their *)
(* life (active, deprecated, archived) and the planner puts the relevant   *)
(* ones in front of a plan.                                                *)
(*                                                                         *)
(* A report gives the number of tasks done and failed, the kinds of errors *)
(* its messages name, whether a task failed repeatedly, and how many tasks *)
(* of each pattern (kind and action type, hence title) it ran.             *)
(***************************************************************************)
EXTENDS Naturals, Sequences, FiniteSets

CONSTANTS Patterns,   \* titles a group of similar tasks can get
          Reports,    \* execution reports
          EnoughRuns, \* runs before a failing skill is deprecated; 5 in the code
          MaxSkills,  \* bound: skill records
          MaxUses,    \* bound: uses counted of a record
          MaxCount    \* bound: runs counted of a record

ASSUME SkillsAssumption ==
  /\ MaxSkills \in Nat /\ MaxUses \in Nat
  /\ \A r \in Reports : r.groups \in [Patterns -> Nat]

VARIABLES skills,     \* SkillMemoryStore._skills: id -> record or NoSkill
          indexed,    \* ids the semantic index holds
          reflected,  \* ReflectionResult of the last operation: [causes, advice]
          injected    \* ids it put in front of a plan

skillVars == <<skills, indexed, reflected, injected>>

SkillIds == 1..MaxSkills
NoSkill == [name |-> "none"]
NoReflection == [causes |-> {}, advice |-> "none"]

Returns(reflection, ids) == reflected' = reflection /\ injected' = ids
Known(id) == skills[id] # NoSkill
Confidences == <<"LOW", "MEDIUM", "HIGH">>
Rank(c) == CHOOSE n \in 1..3 : Confidences[n] = c
IsActive(k) == k.life = "active"
SuccessRate(k) == <<k.wins, k.wins + k.losses>>

----------------------------------------------------------------------------
(* Reflection *)

\* _detect_failure_causes
FailureCauses(r) ==
  LET named == r.errors \cap {"policy", "provider", "tool"}
      partial == IF r.results /\ r.errors # {} THEN {"partial"} ELSE {}
  IN IF named \cup partial = {} /\ r.errors # {} THEN {"unknown"} ELSE named \cup partial

\* _recommend_replan
Advice(causes, repeated, done, total) ==
  CASE "policy" \in causes -> "replan_with_context"
    [] "policy" \notin causes /\ done = 0 -> "abandon"
    [] "policy" \notin causes /\ done > 0 /\ repeated -> "replan_immediately"
    [] "policy" \notin causes /\ done > 0 /\ ~repeated /\ causes # {} ->
         IF 2 * done < total THEN "replan_immediately" ELSE "replan_with_context"
    [] OTHER -> "retry_same_plan"

\* reflect_on_report
Reflection(r) ==
  LET causes == FailureCauses(r) \cup (IF r.repeated THEN {"repeated"} ELSE {})
  IN [causes |-> causes, advice |-> Advice(causes, r.repeated, r.done, r.total)]

----------------------------------------------------------------------------
(* Learning *)

\* As if the tasks of any report counted as done
SuccessfulPatternsAny(r) ==
  IF r.done = 0 THEN {} ELSE {p \in Patterns : r.groups[p] > 0}

\* _extract_successful_patterns: ReflectionResult names no completed tasks, so
\* only a report that succeeded without errors yields patterns
SuccessfulPatterns(r) ==
  IF r.done = 0 \/ ~r.success \/ r.errors # {} THEN {}
  ELSE {p \in Patterns : r.groups[p] > 0}

\* _confidence_for_observations
ConfidenceFor(n) == CASE n >= 4 -> "HIGH" [] n \in 2..3 -> "MEDIUM" [] OTHER -> "LOW"

\* _score_candidate, in hundredths
Value(n, r) ==
  LET ended == IF r.done + r.failed = 0 THEN 1 ELSE r.done + r.failed
      worth == CASE ConfidenceFor(n) = "HIGH" -> 40 [] ConfidenceFor(n) = "MEDIUM" -> 30
                 [] OTHER -> 20
  IN ((40 * n) \div ended) + worth + ((20 * r.done) \div r.total)

\* learn, persist_learning_result: the patterns kept
Candidates(r) ==
  {p \in SuccessfulPatterns(r) :
     Value(r.groups[p], r) >= 30 /\ ConfidenceFor(r.groups[p]) # "LOW"}

NewSkill(p, r) ==
  [name |-> p, conf |-> ConfidenceFor(r.groups[p]), life |-> "active", uses |-> 0,
   wins |-> 0, losses |-> 0, rate |-> <<0, 0>>, old |-> FALSE, used |-> FALSE,
   clean |-> r.success /\ r.errors = {}]

----------------------------------------------------------------------------
(* SkillMemoryStore *)

Capped(k) == k.uses <= MaxUses /\ k.wins + k.losses <= MaxCount

\* As if only active skills were compared
FindDuplicateActive(p) == {id \in SkillIds : Known(id) /\ skills[id].name = p /\ IsActive(skills[id])}

\* _find_duplicate: any record of that name, whatever its state
FindDuplicate(p) == {id \in SkillIds : Known(id) /\ skills[id].name = p}

\* As if a new observation brought the skill back
MergedRevives(k) == [k EXCEPT !.uses = @ + 1, !.life = "active",
                              !.rate = <<k.wins, k.wins + k.losses>>]

\* _merge_duplicate
Merged(k) == [k EXCEPT !.uses = @ + 1, !.rate = SuccessRate(k)]

\* As if a saved skill were not indexed
IndexedBefore(id) == indexed

IndexedWith(id) == indexed \cup {id}

Free == {id \in SkillIds : ~Known(id)}
FirstOf(S) == CHOOSE id \in S : \A other \in S : id <= other

\* save_skill
SaveSkill(p, r) ==
  LET same == FindDuplicate(p) IN
  IF same # {}
    THEN LET id == FirstOf(same) IN
         /\ Capped(Merged(skills[id]))
         /\ skills' = [skills EXCEPT ![id] = Merged(@)]
         /\ indexed' = IndexedWith(id)
    ELSE /\ Free # {}
         /\ skills' = [skills EXCEPT ![FirstOf(Free)] = NewSkill(p, r)]
         /\ indexed' = IndexedWith(FirstOf(Free))

\* A plan was executed: it is reflected on, and one of the patterns it showed is
\* saved (each candidate of a report is a report of its own here).
LearnFrom(r) ==
  /\ IF Candidates(r) = {} THEN UNCHANGED <<skills, indexed>>
     ELSE \E p \in Candidates(r) : SaveSkill(p, r)
  /\ Returns(Reflection(r), {})

Changes(id, k) ==
  /\ Capped(k)
  /\ skills' = [skills EXCEPT ![id] = k]
  /\ Returns(NoReflection, {}) /\ UNCHANGED indexed

RecordUse(id) ==
  /\ IsActive(skills[id])
  /\ Changes(id, [skills[id] EXCEPT !.uses = @ + 1, !.used = TRUE])

\* As if the rate were left to be computed later
WithSuccessUnrated(k) == [k EXCEPT !.wins = @ + 1]

WithSuccess(k) ==
  [k EXCEPT !.wins = @ + 1, !.rate = <<k.wins + 1, k.wins + k.losses + 1>>]

RecordSuccess(id) == Changes(id, WithSuccess(skills[id]))

\* deprecate_skill
Deprecated(k) == IF k.life = "archived" THEN k ELSE [k EXCEPT !.life = "deprecated"]

Poor(k) == k.wins + k.losses >= EnoughRuns /\ 10 * k.wins < 3 * (k.wins + k.losses)

\* record_skill_failure: a skill that keeps failing is deprecated
RecordFailure(id) ==
  LET k == [skills[id] EXCEPT !.losses = @ + 1,
                              !.rate = <<skills[id].wins, skills[id].wins + skills[id].losses + 1>>]
  IN Changes(id, IF Poor(k) THEN Deprecated(k) ELSE k)

DeprecateSkill(id) == Changes(id, Deprecated(skills[id]))
ArchiveSkill(id) == Changes(id, [skills[id] EXCEPT !.life = "archived"])

DeleteSkill(id) ==
  /\ skills' = [skills EXCEPT ![id] = NoSkill]
  /\ indexed' = indexed \ {id}
  /\ Returns(NoReflection, {})

LowerConfidence(k) == [k EXCEPT !.conf = IF Rank(@) > 1 THEN Confidences[Rank(@) - 1] ELSE @]

\* As if a decayed skill were left active
DecayedActive(k) == IF ~IsActive(k) \/ k.used \/ ~k.old THEN k ELSE LowerConfidence(k)

\* run_lifecycle_maintenance: unused old skills lose a level of confidence
Decayed(k) ==
  IF ~IsActive(k) \/ k.used \/ ~k.old THEN k
  ELSE LET d == LowerConfidence(k) IN IF d.conf = "LOW" THEN Deprecated(d) ELSE d

RunMaintenance ==
  /\ skills' = [id \in SkillIds |-> IF Known(id) THEN Decayed(skills[id]) ELSE NoSkill]
  /\ Returns(NoReflection, {}) /\ UNCHANGED indexed

\* Thirty days pass.
Age ==
  /\ skills' = [id \in SkillIds |-> IF Known(id) THEN [skills[id] EXCEPT !.old = TRUE] ELSE NoSkill]
  /\ Returns(NoReflection, {}) /\ UNCHANGED indexed

\* merge_duplicate_skills: the duplicate is removed from the store and stays in
\* the index
MergeSkills(primary, other) ==
  LET k == skills[primary]
      d == skills[other]
      m == [k EXCEPT !.wins = @ + d.wins, !.losses = @ + d.losses, !.uses = @ + d.uses,
                     !.rate = <<k.wins + d.wins, k.wins + d.wins + k.losses + d.losses>>,
                     !.conf = IF Rank(d.conf) > Rank(k.conf) THEN d.conf ELSE k.conf,
                     !.old = k.old \/ d.old]
  IN /\ primary # other
     /\ Capped(m)
     /\ skills' = [skills EXCEPT ![primary] = m, ![other] = NoSkill]
     /\ Returns(NoReflection, {}) /\ UNCHANGED indexed

----------------------------------------------------------------------------
(* The planner *)

Score(k) == (IF k.wins + k.losses > 0 THEN (20 * k.wins) \div (k.wins + k.losses) ELSE 10)
            + (CASE k.conf = "HIGH" -> 15 [] k.conf = "MEDIUM" -> 5 [] OTHER -> 0) + k.uses

\* find_relevant_skills: active skills, best first
Relevant ==
  LET active == {id \in SkillIds : Known(id) /\ IsActive(skills[id])}
      before(a, b) == \/ Score(skills[a]) > Score(skills[b])
                      \/ Score(skills[a]) = Score(skills[b]) /\ a < b
  IN [n \in 1..Cardinality(active) |->
        CHOOSE id \in active : Cardinality({b \in active : before(b, id)}) = n - 1]

\* The planner takes the first three and skips those of low confidence.
Injectable ==
  {id \in {Relevant[n] : n \in {m \in DOMAIN Relevant : m <= 3}} :
     skills[id].conf # "LOW" /\ IsActive(skills[id])}

PlanWithSkills ==
  /\ Returns(NoReflection, Injectable)
  /\ UNCHANGED <<skills, indexed>>

SkillsInit ==
  /\ skills = [id \in SkillIds |-> NoSkill] /\ indexed = {}
  /\ reflected = NoReflection /\ injected = {}

SkillsNext ==
  \/ \E r \in Reports : LearnFrom(r)
  \/ \E id \in SkillIds : Known(id) /\ (\/ RecordUse(id) \/ RecordSuccess(id)
                                        \/ RecordFailure(id) \/ DeprecateSkill(id)
                                        \/ ArchiveSkill(id) \/ DeleteSkill(id))
  \/ \E a, b \in SkillIds : Known(a) /\ Known(b) /\ MergeSkills(a, b)
  \/ RunMaintenance \/ Age \/ PlanWithSkills

----------------------------------------------------------------------------
(* Properties *)

\* Records are well formed, and search knows every record of the store.
SkillsTypeOK ==
  /\ \A id \in SkillIds : Known(id) =>
       /\ skills[id].name \in Patterns
       /\ skills[id].life \in {"active", "deprecated", "archived"}
       /\ skills[id].uses \in 0..MaxUses
  /\ injected \subseteq SkillIds
  /\ {id \in SkillIds : Known(id)} \subseteq indexed

\* The success rate that ranks a skill is that of its counts, whichever of the
\* operations that change them came last (recompute_success_rate).
RateIsCurrent ==
  \A id \in SkillIds : Known(id) => skills[id].rate = SuccessRate(skills[id])

\* Every stored skill was first seen in a plan that succeeded without errors;
\* merging, decay and removal never bring in another.
LearnedFromSuccess == \A id \in SkillIds : Known(id) => skills[id].clean

\* One pattern has one record: what is learned again is added to the record
\* there is, retired or not (_find_duplicate).
OneRecordPerPattern ==
  \A a, b \in SkillIds : Known(a) /\ Known(b) /\ skills[a].name = skills[b].name => a = b

\* A retired skill does not come back: nothing that is learned, recorded or
\* merged makes a deprecated or archived record active, or an archived one
\* merely deprecated ("never retrieved or injected", archive_skill).
RetiredStaysRetired ==
  [][\A id \in SkillIds :
       Known(id) /\ skills[id].life # "active" =>
         \/ skills'[id] = NoSkill
         \/ skills'[id].life = "archived"
         \/ skills[id].life = "deprecated" /\ skills'[id].life = "deprecated"]_skillVars

\* No active skill has low confidence: single observations are not persisted,
\* decay to LOW deprecates and a merge keeps the better level.
ActiveIsConfident ==
  \A id \in SkillIds : Known(id) /\ IsActive(skills[id]) => skills[id].conf # "LOW"

(* Learning, use, decay, merging and retirement in any order leave one     *)
(* record per pattern, with a rate that fits its counts, active only when  *)
(* it has earned it, and never back from retirement.                       *)
SkillsSafe ==
  /\ [](/\ SkillsTypeOK /\ RateIsCurrent /\ LearnedFromSuccess
        /\ OneRecordPerPattern /\ ActiveIsConfident)
  /\ RetiredStaysRetired
==============================================================================
