------------------------------- MODULE Planning -------------------------------
(***************************************************************************)
(* GAMBIT: from a request to an ExecutionPlan.                             *)
(*                                                                         *)
(* GoalParser classifies a request by an ordered list of textual signals,  *)
(* extracts the arguments the user supplied and names the missing ones.    *)
(* Planner.plan_with_capability_check asks the capability registry for the *)
(* intent's domain, lets TaskDecomposer lay out the tasks, lets the        *)
(* optimizer drop repeated ones, resolves tool ids, validates the inputs   *)
(* against the live tool registry, puts learned skills in front and groups *)
(* the tasks into stages.  The workflow engine then runs a task when its   *)
(* dependencies have run.                                                  *)
(*                                                                         *)
(* A request is what the parser can tell of it: the signals its text       *)
(* holds, the arguments it supplies, the kind of recall it asks for.       *)
(***************************************************************************)
EXTENDS Integers, Sequences, FiniteSets

CONSTANTS Requests,   \* requests a user may type
          Failing,    \* tools whose availability changes while the program runs
          Learned     \* learned skills that find_relevant_skills may return

VARIABLES offered,    \* capability domains with a tool, as composed at start
          usable,     \* tools the tool registry marks available now
          request,    \* the request being served, or NoRequest
          plan,       \* PlannerResult: [status, tasks, stages]
          ran         \* positions of the plan's tasks that have run

planningVars == <<offered, usable, request, plan, ran>>

\* says: signals in the text; about: what a memory request names; lacks:
\* arguments the user left out; follows: it refers to memories just recalled;
\* paths: the named a write names; hard, context: complexity above LOW, and a
\* planning context from retrieval.
NoRequest == [says |-> {}, about |-> "", lacks |-> {}, follows |-> FALSE,
              paths |-> <<1>>, hard |-> FALSE, context |-> FALSE]
NoPlan == [status |-> "none", tasks |-> <<>>, stages |-> <<>>]

----------------------------------------------------------------------------
(* Signals: what the parser's phrase lists and patterns find in the text. *)

Signals ==
  {"store", "vagueStore", "write", "mkdir", "forget", "recall", "webVerb",
   "fresh", "remember", "processes", "notify", "clipboard", "command",
   "reminder", "note", "task", "contact", "findContact", "calendar",
   "forward", "reply", "readMail", "sendMail", "replyMessage", "readMessages",
   "findMessages", "sendMessage", "browser", "search", "find", "reads",
   "startsRead", "path", "lists", "delete", "move", "copy", "rename", "media",
   "code", "memory", "local", "pdf", "vagueAgents", "draft", "complete", "badPath"}

\* store_payload, ambiguous_store
StoresMemory(s) == s \cap {"store", "vagueStore"} # {}

\* parse_resource_write: an explicit file payload
WritesResource(s) == s \cap {"write", "mkdir"} # {}

\* _is_memory_delete: a phrase, or a deletion verb with a memory noun
IsMemoryDelete(s) == "forget" \in s \/ {"delete", "memory"} \subseteq s

\* detect_memory_intent: None for a store
RecallsMemory(s) == "recall" \in s /\ ~StoresMemory(s)

\* _is_internet_intent, with _requires_current_evidence
IsInternet(s) ==
  /\ "memory" \notin s
  /\ \/ "webVerb" \in s
     \/ "local" \notin s /\ s \cap {"search", "fresh"} # {}

\* The order in which detect_intent asks.  The first rule that holds decides.
Rules(s) ==
  << <<StoresMemory(s), "MEMORY_STORE">>,
     <<WritesResource(s), "WRITE_RESOURCE">>,
     <<IsMemoryDelete(s), "DELETE_MEMORY">>,
     <<RecallsMemory(s), "SEARCH_MEMORY">>,
     <<IsInternet(s), "SEARCH_INTERNET">>,
     <<"remember" \in s, "SEARCH_MEMORY">>,
     <<"processes" \in s, "OPERATE_WINDOWS">>,
     <<"notify" \in s, "SEND_NOTIFICATION">>,
     <<"clipboard" \in s, "CLIPBOARD">>,
     <<"command" \in s, "RUN_COMMAND">>,
     <<"reminder" \in s, "MANAGE_REMINDER">>,
     <<"note" \in s /\ "memory" \notin s, "MANAGE_NOTE">>,
     <<"task" \in s, "MANAGE_TASK">>,
     <<"contact" \in s, "MANAGE_CONTACT">>,
     <<"findContact" \in s, "SEARCH_CONTACT">>,
     <<"calendar" \in s, "MANAGE_CALENDAR">>,
     <<"forward" \in s, "FORWARD_EMAIL">>,
     <<"reply" \in s, "REPLY_EMAIL">>,
     <<"readMail" \in s, "READ_EMAIL">>,
     <<"sendMail" \in s, "SEND_EMAIL">>,
     <<"replyMessage" \in s, "SEND_MESSAGE">>,
     <<"readMessages" \in s, "READ_MESSAGES">>,
     <<"findMessages" \in s, "SEARCH_MESSAGES">>,
     <<"sendMessage" \in s, "SEND_MESSAGE">>,
     <<"browser" \in s, "USE_BROWSER">>,
     <<s \cap {"search", "find"} # {} /\ "memory" \notin s, "SEARCH_RESOURCE">>,
     <<"startsRead" \in s \/ {"reads", "path"} \subseteq s, "READ_RESOURCE">>,
     <<"lists" \in s \/ {"local", "path"} \subseteq s, "LIST_DIRECTORY">>,
     <<"delete" \in s, "DELETE_RESOURCE">>,
     <<"move" \in s, "MOVE_RESOURCE">>,
     <<"copy" \in s, "COPY_RESOURCE">>,
     <<"rename" \in s, "RENAME_RESOURCE">>,
     <<"media" \in s, "PLAY_MEDIA">>,
     <<"code" \in s, "GENERATE_CODE">>,
     <<TRUE, "ANSWER_QUESTION">> >>

\* As if the file verbs were asked before the memory phrases
DetectIntentFilesFirst(s) ==
  IF "delete" \in s /\ ~StoresMemory(s) /\ ~WritesResource(s) THEN "DELETE_RESOURCE"
  ELSE LET rules == Rules(s) IN
       rules[CHOOSE i \in DOMAIN rules :
               rules[i][1] /\ \A j \in 1..(i - 1) : ~rules[j][1]][2]

DetectIntent(s) ==
  LET rules == Rules(s)
  IN rules[CHOOSE i \in DOMAIN rules :
             rules[i][1] /\ \A j \in 1..(i - 1) : ~rules[j][1]][2]

FileIntents == {"READ_RESOURCE", "SEARCH_RESOURCE", "DELETE_RESOURCE", "MOVE_RESOURCE",
                "COPY_RESOURCE", "RENAME_RESOURCE", "WRITE_RESOURCE"}

\* The tool domain a personal or communication intent is routed to
RoutedDomain ==
  [MANAGE_REMINDER |-> "reminder", MANAGE_NOTE |-> "note", MANAGE_TASK |-> "task",
   MANAGE_CONTACT |-> "contact", SEARCH_CONTACT |-> "contact",
   MANAGE_CALENDAR |-> "calendar", SEND_EMAIL |-> "email", READ_EMAIL |-> "email",
   REPLY_EMAIL |-> "email", FORWARD_EMAIL |-> "email", SEND_MESSAGE |-> "message",
   READ_MESSAGES |-> "message", SEARCH_MESSAGES |-> "message"]

NoDomain == "no domain"

\* capability_domain_for_intent
DomainOf(i) ==
  CASE i \in FileIntents \cup {"LIST_DIRECTORY"}                  -> "filesystem"
    [] i \in {"DELETE_MEMORY", "SEARCH_MEMORY", "MEMORY_STORE"}   -> "memory"
    [] i = "SEARCH_INTERNET"   -> "internet"
    [] i = "OPERATE_WINDOWS"   -> "windows"
    [] i = "RUN_COMMAND"       -> "shell"
    [] i = "CLIPBOARD"         -> "clipboard"
    [] i = "SEND_NOTIFICATION" -> "notification"
    [] i = "USE_BROWSER"       -> "browser"
    [] i = "PLAY_MEDIA"        -> "media"
    [] i \in DOMAIN RoutedDomain -> RoutedDomain[i]
    [] OTHER -> NoDomain

----------------------------------------------------------------------------
(* extract_intent_arguments: the action and the arguments it cannot do     *)
(* without, for each family of intents.                                    *)

FileArguments(i, s) ==
  CASE i = "WRITE_RESOURCE"  -> IF "mkdir" \in s THEN <<"mkdir", {"path"}>>
                                ELSE <<"write", {"path", "content"}>>
    [] i = "READ_RESOURCE"   -> <<"read", {"path"}>>
    [] i = "DELETE_RESOURCE" -> <<"delete", {"path"}>>
    [] i = "MOVE_RESOURCE"   -> <<"move", {"path", "destination"}>>
    [] i = "COPY_RESOURCE"   -> <<"copy", {"path", "destination"}>>
    [] i = "RENAME_RESOURCE" -> <<"rename", {"path", "destination"}>>
    [] OTHER -> <<"", {}>>

SystemArguments(i, s) ==
  CASE i = "RUN_COMMAND" -> <<"run", {"command"}>>
    [] i = "CLIPBOARD" -> IF s \cap {"copy", "write"} = {} THEN <<"read", {}>>
                          ELSE <<"write", {"content"}>>
    [] i = "SEND_NOTIFICATION" -> <<"send", {"message"}>>
    [] OTHER -> <<"", {}>>

PersonalArguments(i, s) ==
  CASE i = "SEARCH_CONTACT" -> <<"search", {"query"}>>
    [] i # "SEARCH_CONTACT" /\ "lists" \in s -> <<"list", {}>>
    [] i = "MANAGE_NOTE" /\ "lists" \notin s ->
         IF s \cap {"search", "find"} # {} THEN <<"search", {"query"}>>
         ELSE <<"create", {"title"}>>
    [] i = "MANAGE_TASK" /\ "lists" \notin s ->
         IF "complete" \in s THEN <<"complete", {"task_id"}>> ELSE <<"create", {"title"}>>
    [] i = "MANAGE_REMINDER" /\ "lists" \notin s -> <<"create", {"title", "due_at"}>>
    [] i = "MANAGE_CONTACT" /\ "lists" \notin s -> <<"create", {"name", "email_or_phone"}>>
    [] i = "MANAGE_CALENDAR" /\ "lists" \notin s -> <<"create", {"title", "start_at"}>>

LetterArguments(i, s) ==
  CASE i = "READ_EMAIL" -> IF s \cap {"search", "find"} # {} THEN <<"search", {"query"}>>
                           ELSE <<"list_folders", {}>>
    [] i = "REPLY_EMAIL" -> <<"reply", {"message_id", "body"}>>
    [] i = "FORWARD_EMAIL" -> <<"forward", {"message_id", "recipient"}>>
    [] i = "SEND_EMAIL" ->
         <<IF "draft" \in s THEN "draft" ELSE "send", {"recipient", "subject", "body"}>>
    [] i = "READ_MESSAGES" -> <<"history", {}>>
    [] i = "SEARCH_MESSAGES" -> <<"search", {"query"}>>
    [] i = "SEND_MESSAGE" ->
         <<IF "draft" \in s THEN "draft" ELSE IF "replyMessage" \in s THEN "reply" ELSE "send",
           {"recipient", "body"}>>

PersonalIntents == {"MANAGE_REMINDER", "MANAGE_NOTE", "MANAGE_TASK", "MANAGE_CONTACT",
                    "SEARCH_CONTACT", "MANAGE_CALENDAR"}
LetterIntents == {"SEND_EMAIL", "READ_EMAIL", "REPLY_EMAIL", "FORWARD_EMAIL", "SEND_MESSAGE",
                  "READ_MESSAGES", "SEARCH_MESSAGES"}

\* <<action, required arguments>> of an intent
ArgumentsOf(i, s) ==
  CASE i = "MEMORY_STORE" -> <<"store", {"content"}>>
    [] i = "SEARCH_INTERNET" ->
         <<"search", IF "vagueAgents" \in s THEN {"agent domain"} ELSE {}>>
    [] i \in FileIntents -> FileArguments(i, s)
    [] i \in {"RUN_COMMAND", "CLIPBOARD", "SEND_NOTIFICATION"} -> SystemArguments(i, s)
    [] i \in PersonalIntents -> PersonalArguments(i, s)
    [] i \in LetterIntents   -> LetterArguments(i, s)
    [] OTHER -> <<"", {}>>

\* parse, and the orchestrator's override for a follow-up on recalled memories
ParsedGoal(r) ==
  LET i == IF r.follows THEN "SEARCH_MEMORY" ELSE DetectIntent(r.says)
      a == ArgumentsOf(i, r.says)
  IN [intent |-> i, action |-> a[1], about |-> r.about, follows |-> r.follows,
      missing |-> IF r.follows THEN {} ELSE a[2] \cap r.lacks,
      paths |-> r.paths, long |-> "local" \in r.says, hard |-> r.hard, says |-> r.says]

----------------------------------------------------------------------------
(* TaskDecomposer. A task is its kind, the tool and action of a tool task, *)
(* the domain a tool is still to be found for, and the positions it        *)
(* depends on.                                                             *)

NoTool == "no tool"

\* _task, _tool_task
Step(kind) ==
  [kind |-> kind, tool |-> NoTool, domain |-> NoDomain, action |-> "", item |-> 0]
ToolStep(tool, domain, action) ==
  [kind |-> "EXECUTE", tool |-> tool, domain |-> domain, action |-> action, item |-> 0]
Provider == Step("EXECUTE")

IsToolTask(t) == t.action # ""

\* One resolver task for each path; what is read or found is then reasoned over.
ResolverSteps(g) ==
  LET action == CASE g.intent = "RENAME_RESOURCE" -> "move"
                  [] g.intent = "SEARCH_RESOURCE" -> "search"
                  [] OTHER -> g.action
      named == IF g.intent = "WRITE_RESOURCE" THEN g.paths ELSE <<1>>
  IN [n \in DOMAIN named |-> [ToolStep("resolver", NoDomain, action) EXCEPT !.item = named[n]]]

\* As if every resource task were reasoned over
FileStepsReasoned(g) == ResolverSteps(g) \o <<Provider>>

FileSteps(g) ==
  ResolverSteps(g)
  \o (IF g.intent \in {"READ_RESOURCE", "SEARCH_RESOURCE"} THEN <<Provider>> ELSE <<>>)

\* Which recalls go to the provider without a memory task
Synthesised(g) ==
  /\ g.about \in {"TARGETED", "PROFILE", "PREFERENCE", "WORKFLOW"}
  /\ ~({"search", "memory"} \subseteq g.says)
  /\ ~g.follows

RecallSteps(g) ==
  LET action == CASE g.follows -> "retrieve"
                  [] ~g.follows /\ g.about \in {"LAST_SESSION", "SESSION", "WORKFLOW"} ->
                       "last_session"
                  [] OTHER -> "search"
  IN IF Synthesised(g) THEN <<Provider>> ELSE <<ToolStep("memory", NoDomain, action)>>

\* _detect_memory_delete: the widest deletion is also the fallback
MemoryDelete(g) ==
  CASE g.about = "SESSION" -> "delete_session"
    [] g.about \in {"PREFERENCE", "CONVERSATION", "PROJECT"} -> "delete_type"
    [] g.about = "TARGETED" -> "delete"
    [] OTHER -> "delete_all"

\* decompose: the branch of the intent
Branch(g) ==
  CASE g.intent \in FileIntents     -> FileSteps(g)
    [] g.intent = "LIST_DIRECTORY"  -> <<ToolStep("resolver", NoDomain, "list")>>
    [] g.intent = "SEARCH_INTERNET" -> <<ToolStep("internet", NoDomain, "search"), Provider>>
    [] g.intent = "MEMORY_STORE"    -> <<ToolStep("memory", NoDomain, "store")>>
    [] g.intent = "SEARCH_MEMORY"   -> RecallSteps(g)
    [] g.intent = "DELETE_MEMORY"   -> <<ToolStep("memory", NoDomain, MemoryDelete(g))>>
    [] g.intent = "RUN_COMMAND"     -> <<ToolStep(NoTool, "shell", "run")>>
    [] g.intent = "CLIPBOARD"       -> <<ToolStep(NoTool, "clipboard", g.action)>>
    [] g.intent = "SEND_NOTIFICATION" -> <<ToolStep(NoTool, "notification", "send")>>
    [] g.intent = "OPERATE_WINDOWS" ->
         <<ToolStep("windows", NoDomain,
                    IF "processes" \in g.says THEN "processes" ELSE "terminal")>>
    [] g.intent \in DOMAIN RoutedDomain ->
         <<ToolStep(NoTool, RoutedDomain[g.intent], g.action)>>
    [] OTHER -> (IF g.long THEN <<Step("RETRIEVE_CONTEXT")>> ELSE <<>>) \o <<Provider>>

\* decompose: the steps of a plan
PlanSteps(g) == <<Step("UNDERSTAND")>> \o Branch(g)
            \o (IF g.hard THEN <<Step("VERIFY")>> ELSE <<>>) \o <<Step("REFLECT")>>

TaskOf(step, id, needs) ==
  [id |-> id, needs |-> needs, kind |-> step.kind, tool |-> step.tool,
   domain |-> step.domain, action |-> step.action, item |-> step.item]

\* As if prev_id were not moved on from the first task
ChainedToRoot(steps) ==
  [n \in DOMAIN steps |-> TaskOf(steps[n], n, IF n = 1 THEN {} ELSE {1})]

\* decompose: every task depends on the one before it (prev_id)
Chained(steps) ==
  [n \in DOMAIN steps |-> TaskOf(steps[n], n, IF n = 1 THEN {} ELSE {n - 1})]

----------------------------------------------------------------------------
(* Planner *)

ProductTools == {"resolver", "memory", "internet", "windows", "shell", "clipboard",
                 "notification", "reminder", "notes", "tasks", "contacts", "calendar",
                 "email", "message"}

ASSUME PlanningAssumption ==
  /\ Failing \subseteq ProductTools /\ IsFiniteSet(Learned)
  /\ Requests \subseteq
       [says : SUBSET Signals, about : STRING, lacks : SUBSET STRING, follows : BOOLEAN,
        paths : Seq(Nat), hard : BOOLEAN, context : BOOLEAN]

\* The tool composed for a domain
ToolFor(d) == CASE d = "filesystem" -> "resolver" [] d = "note" -> "notes"
                [] d = "task" -> "tasks" [] d = "contact" -> "contacts" [] OTHER -> d

\* ToolInfo.supported_actions of the composed tools
SupportedActions ==
  [resolver |-> {"read", "write", "list", "search", "move", "copy", "delete", "mkdir"},
   memory |-> {"store", "search", "retrieve", "last_session", "delete", "delete_type",
               "delete_all", "delete_session"},
   internet |-> {"search"}, windows |-> {"processes", "terminal"}, shell |-> {"run"},
   clipboard |-> {"read", "write"}, notification |-> {"send"},
   reminder |-> {"create", "list"}, notes |-> {"create", "search", "list"},
   tasks |-> {"create", "list", "complete"}, contacts |-> {"create", "search", "list"},
   calendar |-> {"create", "list"}, email |-> {"draft", "send"},
   message |-> {"send", "reply", "history", "draft", "search"}]

\* CapabilityRegistry.is_installed
IsInstalled(d) == d \in offered

\* PlanOptimizer.optimize: a task that says what an earlier one said is dropped;
\* the tasks that depend on it keep its id
SaysTheSame(t, u) == /\ t.kind = u.kind /\ t.tool = u.tool /\ t.domain = u.domain
                     /\ t.action = u.action /\ t.item = u.item

\* What a loop over s appends to its result: the elements at the positions in keep
Chosen(s, keep) ==
  LET taken[n \in 0..Len(s)] ==
        IF n = 0 THEN <<>> ELSE IF n \in keep THEN Append(taken[n - 1], s[n]) ELSE taken[n - 1]
  IN  taken[Len(s)]

\* As if the target were no part of what a task says
OptimizedByTool(tasks) ==
  Chosen(tasks, {n \in DOMAIN tasks : \A m \in 1..(n - 1) :
                   ~SaysTheSame([tasks[m] EXCEPT !.item = tasks[n].item], tasks[n])})

Optimized(tasks) ==
  Chosen(tasks, {n \in DOMAIN tasks :
                   \A m \in 1..(n - 1) : ~SaysTheSame(tasks[m], tasks[n])})

\* _resolve_tool_ids, through the ToolSelector's view of the installed domains
Resolved(tasks) ==
  [n \in DOMAIN tasks |->
     IF IsToolTask(tasks[n]) /\ tasks[n].tool = NoTool /\ IsInstalled(tasks[n].domain)
       THEN [tasks[n] EXCEPT !.tool = ToolFor(tasks[n].domain)] ELSE tasks[n]]

\* As if a tool that once was composed were taken for usable
InputErrorsComposed(tasks) ==
  {n \in DOMAIN tasks : IsToolTask(tasks[n]) /\ tasks[n].tool \notin ProductTools}

\* _tool_input_errors, against the live tool registry
InputErrors(tasks) ==
  {n \in DOMAIN tasks :
     /\ IsToolTask(tasks[n])
     /\ \/ tasks[n].tool \notin usable
        \/ tasks[n].action \notin SupportedActions[tasks[n].tool]}

\* _resolve_resource_destinations: a location that cannot be resolved
Unresolvable(tasks, s) ==
  "badPath" \in s /\ \E n \in DOMAIN tasks : tasks[n].tool = "resolver"

\* Learned skills go in front, with no dependencies
WithSkills(tasks, fitting) ==
  [n \in 1..Cardinality(fitting) |->
     TaskOf(Step("RETRIEVE_CONTEXT"), -n, {})] \o tasks

StageOrder == <<"ANALYZE", "PREPARE", "ACT", "VERIFY", "REFLECT">>

StageByKind == [UNDERSTAND |-> "ANALYZE", RETRIEVE_CONTEXT |-> "PREPARE", PLAN |-> "PREPARE",
                EXECUTE |-> "ACT", VERIFY |-> "VERIFY", REFLECT |-> "REFLECT"]

\* As if checks were packed with the actions they check
StageOfEarlyVerify(kind) == IF kind = "VERIFY" THEN "PREPARE" ELSE StageByKind[kind]

StageOf(kind) == StageByKind[kind]

\* PlanBuilder.build: the ids of each stage that has some
Staged(tasks) ==
  LET lots == [k \in DOMAIN StageOrder |->
                 {tasks[n].id : n \in {m \in DOMAIN tasks :
                                         StageOf(tasks[m].kind) = StageOrder[k]}}]
  IN Chosen(lots, {k \in DOMAIN StageOrder : lots[k] # {}})

Refused(why) == [NoPlan EXCEPT !.status = why]

\* plan_with_capability_check
PlanFor(r, fitting) ==
  LET goal  == ParsedGoal(r)
      chain == Chained(PlanSteps(goal))
      tasks == Resolved(IF r.context THEN Optimized(chain) ELSE chain)
      all   == WithSkills(tasks, fitting)
  IN IF \/ "pdf" \in r.says
        \/ DomainOf(goal.intent) # NoDomain /\ ~IsInstalled(DomainOf(goal.intent))
       THEN Refused("unavailable")
     ELSE IF goal.missing # {} \/ Unresolvable(tasks, r.says) \/ InputErrors(tasks) # {}
       THEN Refused("needs_input")
     ELSE [status |-> "ok", tasks |-> all, stages |-> Staged(all)]

\* AgentPlanner._task_kinds_for_goal: the kinds of a plan laid out for agents
AgentKinds(g) ==
  <<"UNDERSTAND">> \o (IF g.long THEN <<"RETRIEVE_CONTEXT">> ELSE <<>>)
  \o <<"PLAN", "EXECUTE">> \o (IF g.hard THEN <<"VERIFY">> ELSE <<>>) \o <<"REFLECT">>

\* AgentPlanner.plan_with_agents: one step per task, no tool and no capability check
AgentPlanFor(r) ==
  LET kinds == AgentKinds(ParsedGoal(r))
      tasks == Chained([n \in DOMAIN kinds |-> Step(kinds[n])])
  IN [status |-> "ok", tasks |-> tasks, stages |-> [n \in DOMAIN tasks |-> {tasks[n].id}]]

----------------------------------------------------------------------------
PlanningInit ==
  /\ usable \in {ProductTools} \cup {ProductTools \ {t} : t \in Failing}
  /\ offered = {d \in {"filesystem", "memory", "internet", "windows", "shell", "clipboard",
                       "notification", "reminder", "note", "task", "contact", "calendar",
                       "email", "message"} : ToolFor(d) \in usable}
  /\ request = NoRequest /\ plan = NoPlan /\ ran = {}

\* ToolRegistry.set_availability while the program runs; the capability registry
\* keeps the entries it was composed with
SetAvailability(t) ==
  /\ plan = NoPlan
  /\ usable' = IF t \in usable THEN usable \ {t} ELSE usable \cup {t}
  /\ Cardinality(ProductTools \ usable') <= 1
  /\ UNCHANGED <<offered, request, plan, ran>>

PlanWithCapabilityCheck(r, fitting) ==
  /\ request' = r
  /\ plan' = PlanFor(r, fitting)
  /\ UNCHANGED <<offered, usable, ran>>

\* _planner_plan: whatever the planner raised, it is asked again with the text
\* alone; the goal the orchestrator had resolved and the context are dropped
PlanFromText(r, fitting) ==
  PlanWithCapabilityCheck([r EXCEPT !.follows = FALSE, !.context = FALSE], fitting)

PlanWithAgents(r) ==
  /\ request' = r
  /\ plan' = AgentPlanFor(r)
  /\ UNCHANGED <<offered, usable, ran>>

TaskIds(tasks) == {tasks[n].id : n \in DOMAIN tasks}

\* The workflow engine runs a task whose dependencies have run.
RunTask(n) ==
  /\ plan.status = "ok"
  /\ plan.tasks[n].id \notin ran
  /\ plan.tasks[n].needs \subseteq ran
  /\ ran' = ran \cup {plan.tasks[n].id}
  /\ UNCHANGED <<offered, usable, request, plan>>

\* As if what ran were not forgotten with its plan
AnswerKeepsRan ==
  /\ plan # NoPlan
  /\ \A n \in DOMAIN plan.tasks :
       plan.tasks[n].id \in ran \/ ~(plan.tasks[n].needs \subseteq ran)
  /\ request' = NoRequest /\ plan' = NoPlan
  /\ UNCHANGED <<offered, usable, ran>>

\* The request is answered: a refusal is told to the user; a plan is over when
\* nothing is left to run, or when nothing can run ("Scheduling failure").
AnswerRequest ==
  /\ plan # NoPlan
  /\ \A n \in DOMAIN plan.tasks :
       plan.tasks[n].id \in ran \/ ~(plan.tasks[n].needs \subseteq ran)
  /\ request' = NoRequest /\ plan' = NoPlan /\ ran' = {}
  /\ UNCHANGED <<offered, usable>>

PlanningNext ==
  \/ \E t \in Failing : SetAvailability(t)
  \/ /\ plan = NoPlan
     /\ \E r \in Requests, fitting \in SUBSET Learned : PlanWithCapabilityCheck(r, fitting)
  \/ plan = NoPlan /\ \E r \in Requests : PlanFromText(r, {}) \/ PlanWithAgents(r)
  \/ \E n \in DOMAIN plan.tasks : RunTask(n)
  \/ AnswerRequest

----------------------------------------------------------------------------
(* Properties *)

Changing == {"write", "mkdir", "move", "copy", "delete", "delete_all", "delete_type",
             "delete_session", "store", "send", "run", "create", "reply"}

\* Every task has its place and every position run is one of the plan's tasks.
PlanningTypeOK ==
  /\ usable \subseteq ProductTools /\ ProductTools \ usable \subseteq Failing
  /\ plan.status \in {"none", "ok", "unavailable", "needs_input"}
  /\ ran \subseteq TaskIds(plan.tasks)
  /\ UNION {plan.stages[n] : n \in DOMAIN plan.stages} = TaskIds(plan.tasks)

\* A request whose text carries several signals reaches only the tool that
\* detect_intent's comments reserve it for: a request to forget never reaches a
\* file tool, a file payload is data whatever it mentions, a search of memory
\* never leaves the machine, and copying to the clipboard copies no file.
RoutedAsSaid ==
  \A n \in DOMAIN plan.tasks :
    LET t == plan.tasks[n]
        s == request.says
    IN /\ t.tool = "resolver" =>
            \/ WritesResource(s) /\ t.action \in {"write", "mkdir"}
            \/ ~IsMemoryDelete(s) /\ "clipboard" \notin s /\ "command" \notin s
       /\ WritesResource(s) /\ IsToolTask(t) =>
            t.tool = "resolver" \/ StoresMemory(s) \/ request.follows
       /\ t.tool = "internet" => "memory" \notin s /\ ~RecallsMemory(s)

\* What the provider reasons over is there when it is asked: a provider task of
\* a plan with tool tasks runs only after all of them (the prev_id chain).
EvidenceFirst ==
  \A n, m \in DOMAIN plan.tasks :
    /\ IsToolTask(plan.tasks[n])
    /\ plan.tasks[m].kind = "EXECUTE" /\ ~IsToolTask(plan.tasks[m])
    /\ plan.tasks[m].id \in ran
    => plan.tasks[n].id \in ran

\* A plan that is handed to the workflow engine names only tools that are
\* available and actions they support, although the capability registry still
\* offers the domain of a tool that went away after the start.
PlannedIsAvailable ==
  plan.status = "ok" =>
    \A n \in DOMAIN plan.tasks : IsToolTask(plan.tasks[n]) =>
      /\ plan.tasks[n].tool \in usable
      /\ plan.tasks[n].action \in SupportedActions[plan.tasks[n].tool]

\* No plan both changes something and asks the provider: what is written, sent,
\* run or deleted comes from the user's own words.
ActsOrAnswers ==
  ~ \E n, m \in DOMAIN plan.tasks :
      /\ plan.tasks[n].action \in Changing
      /\ plan.tasks[m].kind = "EXECUTE" /\ ~IsToolTask(plan.tasks[m])

\* The stages shown to the user never contradict the dependencies.
StagesFollowDependencies ==
  \A a, b \in DOMAIN plan.stages : \A n, m \in DOMAIN plan.tasks :
    /\ plan.tasks[n].id \in plan.stages[a] /\ plan.tasks[m].id \in plan.stages[b]
    /\ plan.tasks[m].id \in plan.tasks[n].needs
    => b <= a

\* A dependency names a task of the plan, so that the plan can run to its end;
\* only a write that names one path twice can lose a task others wait for.
NothingDangles ==
  \A n \in DOMAIN plan.tasks :
    \/ plan.tasks[n].needs \subseteq TaskIds(plan.tasks)
    \/ request.context /\ \E i, j \in DOMAIN request.paths :
                              i # j /\ request.paths[i] = request.paths[j]

(* A plan does what the text most plainly says with capabilities that      *)
(* exist, gathers before it answers, checks after it acts, and depends     *)
(* only on tasks it has.                                                   *)
PlanningSafe ==
  /\ PlanningTypeOK /\ RoutedAsSaid /\ EvidenceFirst /\ PlannedIsAvailable
  /\ ActsOrAnswers /\ StagesFollowDependencies /\ NothingDangles
==============================================================================
