---------------------------- MODULE MCKnowledge -----------------------------
(* What the program makes of a request, of an execution and of a            *)
(* conversation: plans, skills and memories.  The models share no state, so *)
(* a behaviour runs one of them.                                            *)
EXTENDS Planning, SkillLearning, MemoryFormation

VARIABLE part   \* the component that runs

allVars == <<part, planningVars, skillVars, formationVars>>

-----------------------------------------------------------------------------
(* Requests: each signal alone, and every two of those that the chain of    *)
(* detectors has to choose between, with and without a path.                *)
MCContested ==
  {"store", "write", "forget", "recall", "webVerb", "fresh", "clipboard", "command",
   "note", "search", "reads", "delete", "copy", "memory", "local", "lists", "pdf"}
MCSays ==
  {{a} : a \in Signals}
    \cup {{a, b} \cup w : a \in MCContested, b \in MCContested, w \in {{}, {"path"}}}
    \cup {{"delete", "memory", a} : a \in MCContested}
MCAbout(s) ==
  CASE "recall" \in s -> {"TARGETED", "MEMORY_SEARCH", "WORKFLOW"}
    [] "recall" \notin s /\ "forget" \in s -> {"SESSION", "PREFERENCE", "TARGETED", ""}
    [] OTHER -> {""}

(* Nothing is missing, or one argument the intent cannot do without.       *)
MCLacks(s) ==
  LET needed == ArgumentsOf(DetectIntent(s), s)[2]
  IN  {{}} \cup {{f} : f \in IF needed = {} THEN {} ELSE {CHOOSE f \in needed : TRUE}}
MCPaths(s) == IF "write" \in s THEN {<<1>>, <<1, 2>>, <<1, 1>>} ELSE {<<1>>}
MCOpening ==
  UNION {[says : {s}, about : MCAbout(s), lacks : MCLacks(s), follows : {FALSE},
          paths : MCPaths(s), hard : {h}, context : {h}] : s \in MCSays, h \in BOOLEAN}
MCFollowing ==
  {[r EXCEPT !.follows = TRUE, !.lacks = {}] :
     r \in {q \in MCOpening : "recall" \in q.says /\ Cardinality(q.says) <= 2}}
MCRequestSet == MCOpening \cup MCFollowing

-----------------------------------------------------------------------------
(* Reports of four tasks: how many ended well and badly, of which pattern.  *)
MCReport(done, failed, errs, res, rep, ok, first, second) ==
  [total |-> 4, done |-> done, failed |-> failed, errors |-> errs, results |-> res,
   repeated |-> rep, success |-> ok,
   groups |-> [p \in Patterns |-> IF p = "p1" THEN first ELSE second]]
MCReports ==
  {MCReport(4, 0, {}, TRUE, FALSE, TRUE, 4, 0),
   MCReport(4, 0, {}, TRUE, TRUE, TRUE, 0, 2),
   MCReport(4, 0, {}, TRUE, FALSE, TRUE, 1, 3),
   MCReport(2, 2, {"tool"}, TRUE, FALSE, FALSE, 2, 2),
   MCReport(1, 3, {"provider"}, TRUE, FALSE, FALSE, 2, 2),
   MCReport(0, 4, {"policy"}, FALSE, FALSE, FALSE, 2, 2),
   MCReport(0, 4, {"other"}, FALSE, FALSE, FALSE, 2, 2),
   MCReport(3, 1, {"other"}, TRUE, TRUE, TRUE, 2, 2),
   MCReport(0, 0, {}, FALSE, FALSE, FALSE, 0, 0)}

-----------------------------------------------------------------------------
(* "I prefer dark coffee", "I like morning runs", "I prefer dark roast      *)
(* coffee", "The Samaktha project is built with FastAPI", the same as a     *)
(* question, "hello", "I always test before I commit", "I use Docker".      *)
MCTexts ==
  [coffee |-> [norm |-> 1, noise |-> FALSE, question |-> FALSE, shapes |-> {"like"},
               tok |-> {"i", "prefer", "dark", "coffee"}, kw |-> {"prefer", "dark", "coffee"}, ent |-> {"r"}],
   runs   |-> [norm |-> 2, noise |-> FALSE, question |-> FALSE, shapes |-> {"like"},
               tok |-> {"i", "like", "morning", "runs"}, kw |-> {"like", "morning", "runs"}, ent |-> {"r"}],
   roast  |-> [norm |-> 3, noise |-> FALSE, question |-> FALSE, shapes |-> {"like"},
               tok |-> {"i", "prefer", "dark", "roast", "coffee"},
               kw |-> {"prefer", "dark", "roast", "coffee"}, ent |-> {"r"}],
   built  |-> [norm |-> 4, noise |-> FALSE, question |-> FALSE, shapes |-> {"building", "fact"},
               tok |-> {"the", "samaktha", "project", "is", "built", "with", "fastapi"},
               kw |-> {"samaktha", "project", "built", "fastapi"}, ent |-> {"fastapi", "r"}],
   asked  |-> [norm |-> 4, noise |-> FALSE, question |-> TRUE, shapes |-> {"building", "fact"},
               tok |-> {"the", "samaktha", "project", "is", "built", "with", "fastapi"},
               kw |-> {"samaktha", "project", "built", "fastapi"}, ent |-> {"fastapi", "r"}],
   hello  |-> [norm |-> 5, noise |-> TRUE, question |-> FALSE, shapes |-> {},
               tok |-> {"hello"}, kw |-> {"hello"}, ent |-> {}],
   habit  |-> [norm |-> 6, noise |-> FALSE, question |-> FALSE, shapes |-> {"habit"},
               tok |-> {"i", "always", "test", "before", "commit"},
               kw |-> {"always", "test", "commit"}, ent |-> {}],
   docker |-> [norm |-> 7, noise |-> FALSE, question |-> FALSE, shapes |-> {"use", "like"},
               tok |-> {"i", "use", "docker"}, kw |-> {"use", "docker"}, ent |-> {"docker", "r"}]]
MCTextSet == {MCTexts[n] : n \in DOMAIN MCTexts}
MCSaid(n, w, s, f, p, st) == [text |-> MCTexts[n], who |-> w, session |-> s, flags |-> f, plan |-> p, state |-> st]
MCWanted == {MCTexts["coffee"]}
MCInteractions ==
  { MCSaid("coffee", "ann", "s1", {}, "p1", "completed"),
    MCSaid("runs", "ann", "s1", {}, "p2", "paused"),
    MCSaid("built", "ann", "s1", {}, "p1", "paused"),
    MCSaid("asked", "ann", "s2", {}, "none", "completed"),
    MCSaid("built", "bob", "s3", {}, "p3", "completed"),
    MCSaid("habit", "ann", "s1", {"internet"}, "p3", "completed"),
    MCSaid("docker", "ann", "s1", {"retrieval"}, "none", "completed"),
    MCSaid("docker", "ann", "s1", {"deleted"}, "p3", "completed") }

-----------------------------------------------------------------------------
KnowledgeInit ==
  /\ PlanningInit /\ SkillsInit /\ FormationInit
  /\ part \in {"planning", "skills", "formation"}
  /\ part # "planning" => usable = ProductTools   \* only planning looks at it

KnowledgeNext ==
  \/ /\ part = "planning" /\ PlanningNext
     /\ UNCHANGED <<part, skillVars, formationVars>>
  \/ /\ part = "skills" /\ SkillsNext
     /\ UNCHANGED <<part, planningVars, formationVars>>
  \/ /\ part = "formation" /\ FormationNext
     /\ UNCHANGED <<part, planningVars, skillVars>>

KnowledgeSpec == KnowledgeInit /\ [][KnowledgeNext]_allVars
=============================================================================
