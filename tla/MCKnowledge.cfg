SPECIFICATION KnowledgeSpec
CONSTANTS
  Requests <- MCRequestSet
  Failing = {"memory", "email"}
  Learned = {"s1"}
  Patterns = {"p1", "p2"}
  Reports <- MCReports
  EnoughRuns = 1
  MaxSkills = 2
  MaxUses = 1
  MaxCount = 1
  Texts <- MCTextSet
  Interactions <- MCInteractions
  Wanted <- MCWanted
  Window = 3
  MaxTurns = 3
  MaxUpkeeps = 1
INVARIANTS
  PlanningSafe
  FormationSafe
PROPERTIES
  SkillsSafe
CHECK_DEADLOCK FALSE
