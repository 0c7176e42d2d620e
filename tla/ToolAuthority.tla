--------------------------- MODULE ToolAuthority ---------------------------
(***************************************************************************)
(* What stands between a planned tool call and its effect: the CAP policy  *)
(* and the permit it issues, the human answer, the permit gate of the      *)
(* runtime, the tool guard, governance, tool security, and the dispatcher  *)
(* with its own timeout and retries; and the record governance keeps.      *)
(* One subject, one resource.  The event loop is given up while a human    *)
(* answers, while a tool runs and while a retry waits.                     *)
(***************************************************************************)
EXTENDS Naturals, FiniteSets

CONSTANTS
  Tasks,
  Scopes,     \* the permission scopes in play
  Plans,      \* the actions a task may be planned as
  Arguments,  \* digests of a task's inputs
  Grants,     \* permission sets a governance rule may grant
  Lifetime,   \* _PERMIT_LIFETIME, in ticks
  MaxRetries, \* ToolPolicy.max_retries
  Horizon,    \* bound on the clock
  MaxRuns     \* bound on the times a task is handed to the runtime again

ASSUME AuthorityAssumption ==
  /\ IsFiniteSet(Tasks) /\ Arguments # {} /\ 0 \notin Arguments
  /\ Scopes \subseteq {"read", "write", "delete", "execute", "network"}
  /\ \A p \in Plans : /\ p.requested \subseteq Scopes /\ p.declared \subseteq Scopes
                      /\ p.privacy \in {"public", "personal", "sensitive", "critical"}
                      /\ p.mutates \in BOOLEAN
  /\ Grants \subseteq SUBSET Scopes
  /\ Lifetime \in Nat \ {0} /\ MaxRetries \in Nat /\ Horizon \in Nat
  /\ MaxRuns \in Nat

VARIABLES
  now,
  permissions,  \* InMemoryPermissionStore: scope -> allowed, denied, unknown
  rule,         \* the tool's permission rule in the default policy, if any
  plan,         \* what each task was planned as
  arguments,    \* the inputs of each task, as they stand
  permit,       \* ApprovedRuntimeTask.permit
  task,         \* where each task is
  attempt,      \* the dispatcher's attempt in the current run
  handed,       \* how often a task was handed to the runtime again
  runs,         \* how often the tool was started for a task
  effects,      \* how often the effect of the current inputs landed
  records,      \* how many execution records governance appended for a task
  cancelled,    \* how many runs were cancelled
  allowed       \* the inputs a human, or the memory of one, allowed

vars == <<now, permissions, rule, plan, arguments, permit, task, attempt, handed, runs,
          effects, records, cancelled, allowed>>

NoRule   == [granted |-> {}, present |-> FALSE, approve |-> FALSE]
Rules    == {NoRule} \cup [granted: Grants, present: {TRUE}, approve: BOOLEAN]
NoPermit == [decision |-> "none", digest |-> 0, expires |-> 0, fresh |-> FALSE]
Permits  == [decision: {"none", "allow", "deny", "ask_user"},
             digest: Arguments \cup {0}, expires: 0..(Horizon + Lifetime),
             fresh: BOOLEAN]

TypeOK ==
  /\ now \in 0..Horizon
  /\ permissions \in [Scopes -> {"allowed", "denied", "unknown"}]
  /\ rule \in Rules
  /\ plan \in [Tasks -> Plans] /\ arguments \in [Tasks -> Arguments]
  /\ permit \in [Tasks -> Permits]
  /\ task \in [Tasks -> {"planned", "permitted", "paused", "running", "backoff",
                         "done", "failed"}]
  /\ attempt \in [Tasks -> 0..MaxRetries] /\ runs \in [Tasks -> 0..(MaxRuns + 1)]
  /\ handed \in [Tasks -> 0..MaxRuns]
  /\ effects \in [Tasks -> Nat]
  /\ records \in [Tasks -> Nat] /\ cancelled \in [Tasks -> Nat]
  /\ allowed \in [Tasks -> SUBSET Arguments]

Init ==
  /\ now = 0 /\ permissions = [s \in Scopes |-> "unknown"] /\ rule = NoRule
  /\ plan \in [Tasks -> Plans] /\ arguments \in [Tasks -> Arguments]
  /\ permit = [t \in Tasks |-> NoPermit] /\ task = [t \in Tasks |-> "planned"]
  /\ attempt = [t \in Tasks |-> 0] /\ runs = [t \in Tasks |-> 0]
  /\ handed = [t \in Tasks |-> 0]
  /\ effects = [t \in Tasks |-> 0] /\ records = [t \in Tasks |-> 0]
  /\ cancelled = [t \in Tasks |-> 0] /\ allowed = [t \in Tasks |-> {}]

-----------------------------------------------------------------------------
(* PolicyEngine: what the action type asks for is among p.requested.       *)
Risk(p) ==
  IF p.privacy = "critical" \/ p.requested \cap {"delete", "execute"} # {}
  THEN "critical"
  ELSE IF p.privacy = "sensitive" \/ p.requested \cap {"write", "network"} # {}
  THEN "high"
  ELSE IF p.privacy = "personal" \/ "read" \notin p.requested
  THEN "medium" ELSE "low"
ApprovalRequired(p) ==
  Risk(p) \in {"high", "critical"} \/ p.requested \cap Scopes # {}

(* ApprovalEngine._remembered_permission: the first scope that is not      *)
(* allowed decides; the scopes come in no order that matters here.         *)
Remembered(p) ==
  IF p.requested = {} THEN {"unknown"}
  ELSE IF \A s \in p.requested : permissions[s] = "allowed" THEN {"allowed"}
  ELSE {permissions[s] : s \in p.requested} \ {"allowed"}

(* Mutant: a permit lives on past its lifetime.                            *)
IssueLong(decision, digest) ==
  [decision |-> decision, digest |-> digest, expires |-> Horizon + Lifetime + 1,
   fresh |-> TRUE]

(* ApprovalEngine.decide                                                   *)
Decisions(p) ==
  IF ~ApprovalRequired(p) THEN {"allow"}
  ELSE {CASE r = "allowed" -> "allow" [] r = "denied" -> "deny"
          [] OTHER -> "ask_user" : r \in Remembered(p)}

(* ExecutionPermit.issue                                                   *)
Issue(decision, digest) ==
  [decision |-> decision, digest |-> digest, expires |-> now + Lifetime,
   fresh |-> TRUE]
Expired(pm) == now >= pm.expires

(* ApprovalEngine.authorize, for every task of a plan before it runs; it   *)
(* stores a permission only for scopes that ask no one.                    *)
Authorize(t) ==
  /\ task[t] = "planned"
  /\ \E d \in Decisions(plan[t]) :
       /\ permit' = [permit EXCEPT ![t] = Issue(d, arguments[t])]
       /\ allowed' = [allowed EXCEPT ![t] =
            IF d = "allow" /\ \A s \in plan[t].requested : permissions[s] = "allowed"
            THEN @ \cup {arguments[t]} ELSE @]
  /\ task' = [task EXCEPT ![t] = "permitted"]
  /\ UNCHANGED <<now, permissions, rule, plan, arguments, attempt, handed, runs, effects,
                 records, cancelled>>

(* PermissionStore.set and revoke, by an administrator.                    *)
SetPermission(s, d) ==
  /\ permissions' = [permissions EXCEPT ![s] = d]
  /\ UNCHANGED <<now, rule, plan, arguments, permit, task, attempt, handed, runs, effects,
                 records, cancelled, allowed>>

(* GovernanceEngine.set_default_policy                                     *)
SetDefaultPolicy(r) ==
  /\ rule # r /\ rule' = r
  /\ UNCHANGED <<now, permissions, plan, arguments, permit, task, attempt, handed, runs,
                 effects, records, cancelled, allowed>>

(* The workflow composes a task's inputs, or a checkpoint brings others    *)
(* back, after the permit was issued.                                      *)
ChangeInputs(t, a) ==
  /\ task[t] \in {"permitted", "paused"} /\ a # arguments[t]
  /\ arguments' = [arguments EXCEPT ![t] = a]
  /\ effects' = [effects EXCEPT ![t] = 0]
  /\ UNCHANGED <<now, permissions, rule, plan, permit, task, attempt, handed, runs,
                 records, cancelled, allowed>>

-----------------------------------------------------------------------------
(* GovernanceEngine.evaluate: RiskClassifier, ApprovalPolicyEngine and the *)
(* permit.                                                                 *)
Granted(p) == IF rule.present THEN rule.granted ELSE p.declared
Denied(p)  == (p.declared \cup p.requested) \ Granted(p)

(* Mutant: a valid permit overrides what governance denies.                *)
GovernanceAllowsPermit(t) == permit[t].decision = "allow" /\ ~Expired(permit[t])

GovernanceAllows(t) ==
  Denied(plan[t]) = {} /\ permit[t].decision = "allow" /\ ~Expired(permit[t])

(* enforce_cap_permit for a permit that says allow: intact, in its time    *)
(* and bound to the inputs as they are now.                                *)
GateOpens(t) ==
  /\ permit[t].decision = "allow" /\ ~Expired(permit[t])
  /\ permit[t].digest = arguments[t]

(* RuntimeEngine._run_once consumes the permit of a mutation.              *)
Consumed(t) == plan[t].mutates /\ ~permit[t].fresh
Consume(t) == permit' = [permit EXCEPT ![t].fresh = ~plan[t].mutates]

(* The gate: paused, refused, or on to the executor.                       *)
Pauses(t) ==
  /\ task[t] = "permitted" /\ permit[t].decision = "ask_user"
  /\ task' = [task EXCEPT ![t] = "paused"]
  /\ UNCHANGED <<now, permissions, rule, plan, arguments, permit, attempt, handed, runs,
                 effects, records, cancelled, allowed>>
GateRefuses(t) ==
  /\ task[t] = "permitted" /\ permit[t].decision # "ask_user"
  /\ ~GateOpens(t) \/ Consumed(t)
  /\ task' = [task EXCEPT ![t] = "failed"]
  /\ UNCHANGED <<now, permissions, rule, plan, arguments, permit, attempt, handed, runs,
                 effects, records, cancelled, allowed>>

Passes(t) == task[t] = "permitted" /\ GateOpens(t) /\ ~Consumed(t)

(* ToolExecutor.execute: the network constraint and the ToolGuard refuse   *)
(* without a record, governance and tool security with one.                *)
GuardRefuses(t) ==
  /\ Passes(t) /\ Consume(t)
  /\ task' = [task EXCEPT ![t] = "failed"]
  /\ UNCHANGED <<now, permissions, rule, plan, arguments, attempt, handed, runs, effects,
                 records, cancelled, allowed>>
GovernanceOrSecurityRefuses(t) ==
  /\ Passes(t) /\ Consume(t)
  /\ task' = [task EXCEPT ![t] = "failed"]
  /\ records' = [records EXCEPT ![t] = @ + 1]
  /\ UNCHANGED <<now, permissions, rule, plan, arguments, attempt, handed, runs, effects,
                 cancelled, allowed>>
StartTool(t) ==
  /\ Passes(t) /\ GovernanceAllows(t) /\ Consume(t)
  /\ runs' = [runs EXCEPT ![t] = @ + 1]
  /\ task' = [task EXCEPT ![t] = "running"]
  /\ attempt' = [attempt EXCEPT ![t] = 0]
  /\ UNCHANGED <<now, permissions, rule, plan, arguments, handed, effects, records,
                 cancelled, allowed>>

-----------------------------------------------------------------------------
(* Mutant: a mutating tool is retried like any other.                      *)
RetriesIgnoringEffects(p) == MaxRetries
(* ToolDispatcher: an unresolved, unhealthy or unpermitted tool, or bad    *)
(* arguments, fail before an effect; a timeout may come after one.         *)
Retries(p) == IF p.mutates THEN 0 ELSE MaxRetries

Lands(t) == effects' = [effects EXCEPT ![t] = @ + 1]
(* Mutant: only a completed run is recorded.                               *)
FinishUnrecorded(t, status) ==
  /\ task' = [task EXCEPT ![t] = status]
  /\ records' = [records EXCEPT ![t] = IF status = "done" THEN @ + 1 ELSE @]
  /\ UNCHANGED <<now, permissions, rule, plan, arguments, permit, handed, runs,
                 cancelled, allowed>>

Finish(t, status) ==
  /\ task' = [task EXCEPT ![t] = status]
  /\ records' = [records EXCEPT ![t] = @ + 1]
  /\ UNCHANGED <<now, permissions, rule, plan, arguments, permit, handed, runs, cancelled,
                 allowed>>
ToolReturns(t) ==
  task[t] = "running" /\ Lands(t) /\ Finish(t, "done") /\ UNCHANGED attempt
ToolFails(t) ==
  /\ task[t] = "running" /\ Finish(t, "failed") /\ UNCHANGED attempt
  /\ Lands(t) \/ UNCHANGED effects
(* Mutant: a timeout does not use up an attempt.                           *)
TimesOutForever(t) ==
  /\ task[t] = "running" /\ task' = [task EXCEPT ![t] = "backoff"]
  /\ UNCHANGED <<now, permissions, rule, plan, arguments, permit, attempt, handed,
                 runs, effects, records, cancelled, allowed>>

TimesOut(t) ==
  /\ task[t] = "running" /\ (Lands(t) \/ UNCHANGED effects)
  /\ \/ /\ attempt[t] < Retries(plan[t])
        /\ attempt' = [attempt EXCEPT ![t] = @ + 1]
        /\ task' = [task EXCEPT ![t] = "backoff"]
        /\ UNCHANGED <<now, permissions, rule, plan, arguments, permit, handed, runs,
                       records, cancelled, allowed>>
     \/ attempt[t] = Retries(plan[t]) /\ Finish(t, "failed") /\ UNCHANGED attempt
Retry(t) ==
  /\ task[t] = "backoff" /\ task' = [task EXCEPT ![t] = "running"]
  /\ UNCHANGED <<now, permissions, rule, plan, arguments, permit, attempt, handed, runs,
                 effects, records, cancelled, allowed>>

(* A cancellation leaves through the executor, past the record.            *)
CancelTool(t) ==
  /\ task[t] \in {"running", "backoff"}
  /\ task' = [task EXCEPT ![t] = "failed"]
  /\ cancelled' = [cancelled EXCEPT ![t] = @ + 1]
  /\ UNCHANGED <<now, permissions, rule, plan, arguments, permit, attempt, handed, runs,
                 effects, records, allowed>>

(* Mutant: the answer renews the permit for whatever the inputs are now.   *)
ReissueForCurrent(t, d) == Issue(d, arguments[t])

(* ExecutionPermit.resolve_pending keeps the binding of the pending one.   *)
Reissue(t, d) == Issue(d, permit[t].digest)

(* ApprovalEngine.resolve: an answer after the pending permit has expired  *)
(* is an error and changes nothing.                                        *)
Resolve(t, d) ==
  /\ task[t] = "paused" /\ ~Expired(permit[t])
  /\ permit' = [permit EXCEPT ![t] = Reissue(t, d)]
  /\ allowed' = [allowed EXCEPT ![t] =
                   IF d = "allow" THEN @ \cup {permit[t].digest} ELSE @]
  /\ task' = [task EXCEPT ![t] = "permitted"]
  /\ UNCHANGED <<now, permissions, rule, plan, arguments, attempt, handed, runs, effects,
                 records, cancelled>>

(* A recovery, or a second dispatch, hands a failed task to the gate as a  *)
(* first attempt.                                                          *)
RunAgain(t) ==
  /\ task[t] = "failed" /\ handed[t] < MaxRuns
  /\ handed' = [handed EXCEPT ![t] = @ + 1]
  /\ task' = [task EXCEPT ![t] = "permitted"]
  /\ UNCHANGED <<now, permissions, rule, plan, arguments, permit, attempt, runs,
                 effects, records, cancelled, allowed>>

Tick ==
  /\ now < Horizon /\ now' = now + 1
  /\ UNCHANGED <<permissions, rule, plan, arguments, permit, task, attempt, handed, runs,
                 effects, records, cancelled, allowed>>

Executor(t) ==
  \/ Authorize(t) \/ Pauses(t) \/ GateRefuses(t)
  \/ GuardRefuses(t) \/ GovernanceOrSecurityRefuses(t) \/ StartTool(t)
  \/ ToolReturns(t) \/ ToolFails(t) \/ TimesOut(t) \/ Retry(t)

Next ==
  \/ \E t \in Tasks : Executor(t) \/ CancelTool(t) \/ RunAgain(t)
  \/ \E t \in Tasks, a \in Arguments : ChangeInputs(t, a)
  \/ \E t \in Tasks, d \in {"allow", "deny"} : Resolve(t, d)
  \/ \E s \in Scopes, d \in {"allowed", "denied", "unknown"} : SetPermission(s, d)
  \/ \E r \in Rules : SetDefaultPolicy(r)
  \/ Tick

Spec == Init /\ [][Next]_vars

(* The event loop runs the pipeline; a tool that hangs meets its timeout.  *)
FairSpec == Spec /\ \A t \in Tasks : WF_vars(Executor(t))

-----------------------------------------------------------------------------
AtRest(t) == task[t] \notin {"running", "backoff"}

(* An effect that needs approval lands only with the inputs a human, or a  *)
(* permission remembered for every scope, allowed: inputs that change      *)
(* while the permit waits are refused.                                     *)
OnlyAuthorised ==
  \A t \in Tasks : effects[t] > 0 /\ ApprovalRequired(plan[t]) =>
                     arguments[t] \in allowed[t]

(* A mutation lands at most once on one permit, over the dispatcher's      *)
(* timeouts and retries and a second dispatch of the task.                 *)
MutatesOnce == \A t \in Tasks : plan[t].mutates => effects[t] <= 1

(* Governance has a record of every run of a tool that was not cancelled,  *)
(* whatever its end.                                                       *)
RunsRecorded ==
  \A t \in Tasks : AtRest(t) => runs[t] <= records[t] + cancelled[t]

(* No permit, human or remembered, starts a tool that governance denies a  *)
(* permission it declares or the permit asks for.                          *)
GovernanceHasTheLastWord ==
  [][\A t \in Tasks : runs[t]' > runs[t] => Denied(plan[t]) = {}]_vars

(* Every task comes to rest: done, refused, or waiting for its human.      *)
EveryTaskRests ==
  \A t \in Tasks : []<>(task[t] \in {"paused", "done", "failed"})

(* A tool runs only under a permit for these very arguments that the       *)
(* policy or the user gave and governance does not forbid by then, a       *)
(* mutation at most once, and every run is on record.                      *)
AuthoritySafe ==
  /\ [](/\ TypeOK /\ OnlyAuthorised /\ MutatesOnce /\ RunsRecorded)
  /\ GovernanceHasTheLastWord
=============================================================================
