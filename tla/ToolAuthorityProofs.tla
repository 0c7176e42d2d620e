------------------------- MODULE ToolAuthorityProofs -------------------------
(* Proofs about ToolAuthority: that no tool acts without authority, for any  *)
(* number of tasks, plans, permission scopes, retries and runs; and about    *)
(* Terminal, where the user gives that authority: that what the screen shows *)
(* and deletes is what the user meant, for any number of sessions, messages, *)
(* commands and buttons.  And about LocalFiles, the tools that act on a tree *)
(* of files: that they stay inside the root and lose only what they were     *)
(* asked to.                                                                 *)
EXTENDS ToolAuthority, Terminal, LocalFiles, Integers, WellFoundedInduction, TLAPS

-----------------------------------------------------------------------------
(* The inductive invariant, one task at a time                               *)

(* A permit is for certain inputs; one that allows what needs approval is    *)
(* for inputs someone allowed.                                               *)
PermitEarned(t) ==
  /\ permit[t].decision # "none" => permit[t].digest \in Arguments
  /\ permit[t].decision = "allow" /\ ApprovalRequired(plan[t])
       => permit[t].digest \in allowed[t]

(* What acts, or has acted, does so under such a permit for the inputs as    *)
(* they are; a mutation has used its permit up.                              *)
ActsByPermit(t) ==
  task[t] \in {"running", "backoff"} \/ effects[t] # 0 =>
    /\ permit[t].decision = "allow"
    /\ plan[t].mutates => permit[t].fresh = FALSE
    /\ ApprovalRequired(plan[t]) => arguments[t] \in allowed[t]

(* A mutation acts in one attempt.                                           *)
ActsOnce(t) ==
  plan[t].mutates =>
    /\ task[t] # "backoff" /\ effects[t] <= 1
    /\ task[t] = "running" => effects[t] = 0

(* A task that is to be authorized, or waits for its human, has not acted.   *)
NotYet(t) ==
  /\ task[t] = "planned" => effects[t] = 0
  /\ task[t] = "paused" => permit[t].decision = "ask_user"

(* The runs of a task are on record, but for the one that goes on; and each  *)
(* was handed to the runtime.                                                *)
OnRecord(t) ==
  IF AtRest(t) THEN runs[t] <= records[t] + cancelled[t]
               ELSE runs[t] <= records[t] + cancelled[t] + 1

Handed(t) ==
  IF task[t] \in {"planned", "permitted", "paused"}
  THEN runs[t] <= handed[t] ELSE runs[t] <= handed[t] + 1

Guarded(t) ==
  /\ PermitEarned(t) /\ ActsByPermit(t) /\ ActsOnce(t)
  /\ NotYet(t) /\ OnRecord(t) /\ Handed(t)

Authorised == TypeOK /\ \A t \in Tasks : Guarded(t)

(* The variables of a task.                                                  *)
Same(t) ==
  /\ plan'[t] = plan[t] /\ arguments'[t] = arguments[t]
  /\ permit'[t] = permit[t] /\ task'[t] = task[t] /\ attempt'[t] = attempt[t]
  /\ handed'[t] = handed[t] /\ runs'[t] = runs[t] /\ effects'[t] = effects[t]
  /\ records'[t] = records[t] /\ cancelled'[t] = cancelled[t]
  /\ allowed'[t] = allowed[t]

LEMMA SameGuarded ==
  ASSUME NEW t \in Tasks, Guarded(t), Same(t)
  PROVE  Guarded(t)'
BY DEF Guarded, PermitEarned, ActsByPermit, ActsOnce, NotYet, OnRecord, Handed,
       AtRest, Same

LEMMA AuthorisedInitially == Init => Authorised
<1> SUFFICES ASSUME Init PROVE Authorised  OBVIOUS
<1>1. TypeOK
  BY AuthorityAssumption DEF Init, TypeOK, Rules, NoRule, NoPermit, Permits
<1>2. \A t \in Tasks : Guarded(t)
  BY DEF Init, Guarded, PermitEarned, ActsByPermit, ActsOnce, NotYet, OnRecord,
         Handed, AtRest, NoPermit
<1> QED  BY <1>1, <1>2 DEF Authorised

(* The types of the one task.                                                *)
LEMMA TaskType ==
  ASSUME TypeOK, NEW t \in Tasks
  PROVE  /\ plan[t] \in Plans /\ arguments[t] \in Arguments
         /\ permit[t] \in Permits
         /\ permit[t].decision \in {"none", "allow", "deny", "ask_user"}
         /\ permit[t].digest \in Arguments \cup {0}
         /\ permit[t].expires \in 0..(Horizon + Lifetime)
         /\ permit[t].fresh \in BOOLEAN
         /\ plan[t].mutates \in BOOLEAN
         /\ plan[t].requested \subseteq Scopes
         /\ attempt[t] \in 0..MaxRetries /\ runs[t] \in 0..(MaxRuns + 1)
         /\ handed[t] \in 0..MaxRuns /\ effects[t] \in Nat
         /\ records[t] \in Nat /\ cancelled[t] \in Nat
         /\ allowed[t] \subseteq Arguments
         /\ MaxRetries \in Nat /\ MaxRuns \in Nat /\ Horizon \in Nat
         /\ Lifetime \in Nat /\ now \in 0..Horizon
BY AuthorityAssumption DEF TypeOK, Permits

LEMMA IssueType ==
  ASSUME TypeOK, NEW d \in {"none", "allow", "deny", "ask_user"},
         NEW a \in Arguments \cup {0}
  PROVE  /\ Issue(d, a) \in Permits
         /\ Issue(d, a).decision = d /\ Issue(d, a).digest = a
BY AuthorityAssumption DEF Issue, Permits, TypeOK

-----------------------------------------------------------------------------
(* One lemma per action: the types, and the task it is about                 *)

(* Only a permission remembered for every scope allows without a human.      *)
LEMMA DecidesAllow ==
  ASSUME TypeOK, NEW p \in Plans, "allow" \in Decisions(p), ApprovalRequired(p)
  PROVE  \A s \in p.requested : permissions[s] = "allowed"
<1>1. PICK r \in Remembered(p) :
        "allow" = CASE r = "allowed" -> "allow" [] r = "denied" -> "deny"
                    [] OTHER -> "ask_user"
  BY DEF Decisions
<1>2. r = "allowed"
  <2>1. CASE r = "denied"  BY <1>1, <2>1
  <2>2. CASE r # "denied" /\ r # "allowed"  BY <1>1, <2>2
  <2> QED  BY <2>1, <2>2
<1> QED  BY <1>1, <1>2 DEF Remembered

LEMMA DecisionType ==
  ASSUME NEW p, NEW d \in Decisions(p)
  PROVE  d \in {"allow", "deny", "ask_user"}
<1>1. CASE ~ApprovalRequired(p)  BY <1>1 DEF Decisions
<1>2. CASE ApprovalRequired(p)
  <2>1. PICK r \in Remembered(p) :
          d = CASE r = "allowed" -> "allow" [] r = "denied" -> "deny"
                [] OTHER -> "ask_user"
    BY <1>2 DEF Decisions
  <2>2. CASE r = "allowed"  BY <2>1, <2>2
  <2>3. CASE r = "denied"  BY <2>1, <2>3
  <2>4. CASE r # "denied" /\ r # "allowed"  BY <2>1, <2>4
  <2> QED  BY <2>2, <2>3, <2>4
<1> QED  BY <1>1, <1>2

LEMMA AuthorizeGuards ==
  ASSUME Authorised, NEW t \in Tasks, Authorize(t)
  PROVE  TypeOK' /\ Guarded(t)' /\ \A u \in Tasks \ {t} : Same(u)
<1>1. TypeOK /\ Guarded(t)  BY DEF Authorised
<1>2. PICK d \in Decisions(plan[t]) :
       /\ permit' = [permit EXCEPT ![t] = Issue(d, arguments[t])]
       /\ allowed' = [allowed EXCEPT ![t] =
            IF d = "allow" /\ \A s \in plan[t].requested : permissions[s] = "allowed"
            THEN @ \cup {arguments[t]} ELSE @]
  BY DEF Authorize
<1>3. /\ task[t] = "planned" /\ task' = [task EXCEPT ![t] = "permitted"]
      /\ UNCHANGED <<now, permissions, rule, plan, arguments, attempt, handed,
                     runs, effects, records, cancelled>>
  BY DEF Authorize
<1>4. d \in {"allow", "deny", "ask_user"}  BY DecisionType
<1>5. /\ Issue(d, arguments[t]) \in Permits
      /\ Issue(d, arguments[t]).decision = d
      /\ Issue(d, arguments[t]).digest = arguments[t]
  BY <1>1, <1>4, IssueType, TaskType
<1>6. /\ permit'[t].decision = d /\ permit'[t].digest = arguments[t]
      /\ permit' \in [Tasks -> Permits]
      /\ \A u \in Tasks \ {t} : permit'[u] = permit[u]
  BY <1>1, <1>2, <1>5 DEF TypeOK
<1>7. /\ allowed' \in [Tasks -> SUBSET Arguments]
      /\ allowed[t] \subseteq allowed'[t]
      /\ \A u \in Tasks \ {t} : allowed'[u] = allowed[u]
  BY <1>1, <1>2, TaskType DEF TypeOK
<1>8. task'[t] = "permitted" /\ \A u \in Tasks \ {t} : task'[u] = task[u]
  BY <1>1, <1>3 DEF TypeOK
<1>9. TypeOK'  BY <1>1, <1>3, <1>6, <1>7 DEF TypeOK
<1>10. PermitEarned(t)'
  <2> SUFFICES ASSUME d = "allow", ApprovalRequired(plan[t])
               PROVE  arguments[t] \in allowed'[t]
    BY <1>1, <1>3, <1>6, TaskType DEF PermitEarned, ApprovalRequired, Risk
  <2>1. \A s \in plan[t].requested : permissions[s] = "allowed"
    BY <1>1, <1>2, TaskType, DecidesAllow
  <2> QED  BY <1>1, <1>2, <2>1 DEF TypeOK
<1>11. effects[t] = 0  BY <1>1, <1>3 DEF Guarded, NotYet
<1>12. (ActsByPermit(t) /\ ActsOnce(t) /\ NotYet(t) /\ OnRecord(t) /\ Handed(t))'
  BY <1>1, <1>3, <1>8, <1>11
     DEF Guarded, ActsByPermit, ActsOnce, NotYet, OnRecord, Handed, AtRest
<1> QED  BY <1>3, <1>6, <1>7, <1>8, <1>9, <1>10, <1>12 DEF Guarded, Same

(* An action that only moves the task.                                       *)
LEMMA MoveType ==
  ASSUME TypeOK, NEW t \in Tasks, NEW s, task' = [task EXCEPT ![t] = s],
         s \in {"planned", "permitted", "paused", "running", "backoff", "done",
                "failed"}
  PROVE  /\ task'[t] = s /\ \A u \in Tasks \ {t} : task'[u] = task[u]
         /\ task' \in [Tasks -> {"planned", "permitted", "paused", "running",
                                 "backoff", "done", "failed"}]
BY DEF TypeOK

LEMMA PausesGuards ==
  ASSUME Authorised, NEW t \in Tasks, Pauses(t)
  PROVE  TypeOK' /\ Guarded(t)' /\ \A u \in Tasks \ {t} : Same(u)
<1>1. TypeOK /\ Guarded(t)  BY DEF Authorised
<1>2. task'[t] = "paused" /\ \A u \in Tasks \ {t} : task'[u] = task[u]
  BY <1>1, MoveType DEF Pauses
<1>3. TypeOK'  BY <1>1, MoveType DEF Pauses, TypeOK
<1>4. Guarded(t)'
  BY <1>1, <1>2, TaskType
     DEF Pauses, Guarded, PermitEarned, ActsByPermit, ActsOnce, NotYet, OnRecord,
         Handed, AtRest
<1> QED  BY <1>2, <1>3, <1>4 DEF Pauses, Same

LEMMA GateRefusesGuards ==
  ASSUME Authorised, NEW t \in Tasks, GateRefuses(t)
  PROVE  TypeOK' /\ Guarded(t)' /\ \A u \in Tasks \ {t} : Same(u)
<1>1. TypeOK /\ Guarded(t)  BY DEF Authorised
<1>2. task'[t] = "failed" /\ \A u \in Tasks \ {t} : task'[u] = task[u]
  BY <1>1, MoveType DEF GateRefuses
<1>3. TypeOK'  BY <1>1, MoveType DEF GateRefuses, TypeOK
<1>4. Guarded(t)'
  BY <1>1, <1>2, TaskType
     DEF GateRefuses, Guarded, PermitEarned, ActsByPermit, ActsOnce, NotYet,
         OnRecord, Handed, AtRest
<1> QED  BY <1>2, <1>3, <1>4 DEF GateRefuses, Same

(* Consuming a permit takes its freshness, if it is for a mutation, and       *)
(* nothing else.                                                             *)
LEMMA ConsumeParts ==
  ASSUME TypeOK, NEW t \in Tasks, Consume(t)
  PROVE  /\ permit' \in [Tasks -> Permits]
         /\ \A u \in Tasks \ {t} : permit'[u] = permit[u]
         /\ permit'[t].decision = permit[t].decision
         /\ permit'[t].digest = permit[t].digest
         /\ plan[t].mutates => permit'[t].fresh = FALSE
<1>1. /\ permit[t] \in Permits /\ plan[t].mutates \in BOOLEAN
      /\ permit \in [Tasks -> Permits]
  BY TaskType DEF TypeOK
<1>2. permit' = [permit EXCEPT ![t] = [permit[t] EXCEPT !.fresh = ~plan[t].mutates]]
  BY DEF Consume
<1> DEFINE after == [permit[t] EXCEPT !.fresh = ~plan[t].mutates]
<1>3. /\ after \in Permits /\ after.decision = permit[t].decision
      /\ after.digest = permit[t].digest /\ after.fresh = ~plan[t].mutates
  BY <1>1 DEF Permits
<1>4. permit' = [permit EXCEPT ![t] = after]  BY <1>2
<1> HIDE DEF after
<1>5. /\ permit'[t] = after /\ permit' \in [Tasks -> Permits]
      /\ \A u \in Tasks \ {t} : permit'[u] = permit[u]
  BY <1>1, <1>3, <1>4
<1> QED  BY <1>1, <1>3, <1>5

(* What passed the gate acts under its permit, and a mutation not yet.       *)
LEMMA PassesEarned ==
  ASSUME TypeOK, NEW t \in Tasks, Guarded(t), Passes(t)
  PROVE  /\ task[t] = "permitted" /\ permit[t].decision = "allow"
         /\ permit[t].digest = arguments[t]
         /\ ApprovalRequired(plan[t]) => arguments[t] \in allowed[t]
         /\ plan[t].mutates => effects[t] = 0
<1>1. /\ task[t] = "permitted" /\ permit[t].decision = "allow"
      /\ permit[t].digest = arguments[t]
      /\ ~(plan[t].mutates /\ ~permit[t].fresh)
  BY DEF Passes, GateOpens, Consumed
<1>2. ApprovalRequired(plan[t]) => arguments[t] \in allowed[t]
  BY <1>1 DEF Guarded, PermitEarned
<1>3. plan[t].mutates => effects[t] = 0
  BY <1>1 DEF Guarded, ActsByPermit
<1> QED  BY <1>1, <1>2, <1>3

LEMMA GuardRefusesGuards ==
  ASSUME Authorised, NEW t \in Tasks, GuardRefuses(t)
  PROVE  TypeOK' /\ Guarded(t)' /\ \A u \in Tasks \ {t} : Same(u)
<1>1. TypeOK /\ Guarded(t)  BY DEF Authorised
<1>2. task'[t] = "failed" /\ \A u \in Tasks \ {t} : task'[u] = task[u]
  BY <1>1, MoveType DEF GuardRefuses
<1>3. Consume(t) /\ Passes(t)  BY DEF GuardRefuses
<1>4. TypeOK'  BY <1>1, <1>3, MoveType, ConsumeParts DEF GuardRefuses, TypeOK
<1>5. Guarded(t)'
  <2>1. (PermitEarned(t) /\ ActsByPermit(t) /\ ActsOnce(t) /\ NotYet(t))'
    BY <1>1, <1>2, <1>3, TaskType, ConsumeParts, PassesEarned
       DEF GuardRefuses, Guarded, PermitEarned, ActsByPermit, ActsOnce, NotYet
  <2>2. (OnRecord(t) /\ Handed(t))'
    BY <1>1, <1>2, <1>3, TaskType, PassesEarned
       DEF GuardRefuses, Guarded, OnRecord, Handed, AtRest
  <2> QED  BY <2>1, <2>2 DEF Guarded
<1> QED  BY <1>1, <1>2, <1>3, <1>4, <1>5, ConsumeParts DEF GuardRefuses, Same

LEMMA GovernanceOrSecurityRefusesGuards ==
  ASSUME Authorised, NEW t \in Tasks, GovernanceOrSecurityRefuses(t)
  PROVE  TypeOK' /\ Guarded(t)' /\ \A u \in Tasks \ {t} : Same(u)
<1>1. TypeOK /\ Guarded(t)  BY DEF Authorised
<1>2. task'[t] = "failed" /\ \A u \in Tasks \ {t} : task'[u] = task[u]
  BY <1>1, MoveType DEF GovernanceOrSecurityRefuses
<1>3. Consume(t) /\ Passes(t)  BY DEF GovernanceOrSecurityRefuses
<1>4. /\ records'[t] = records[t] + 1 /\ records' \in [Tasks -> Nat]
      /\ \A u \in Tasks \ {t} : records'[u] = records[u]
  BY <1>1 DEF GovernanceOrSecurityRefuses, TypeOK
<1>5. TypeOK'
  BY <1>1, <1>3, <1>4, MoveType, ConsumeParts
     DEF GovernanceOrSecurityRefuses, TypeOK
<1>6. Guarded(t)'
  <2>1. (PermitEarned(t) /\ ActsByPermit(t) /\ ActsOnce(t) /\ NotYet(t))'
    BY <1>1, <1>2, <1>3, TaskType, ConsumeParts, PassesEarned
       DEF GovernanceOrSecurityRefuses, Guarded, PermitEarned, ActsByPermit,
           ActsOnce, NotYet
  <2>2. (OnRecord(t) /\ Handed(t))'
    BY <1>1, <1>2, <1>3, <1>4, TaskType, PassesEarned
       DEF GovernanceOrSecurityRefuses, Guarded, OnRecord, Handed, AtRest
  <2> QED  BY <2>1, <2>2 DEF Guarded
<1> QED
  BY <1>1, <1>2, <1>3, <1>4, <1>5, <1>6, ConsumeParts
     DEF GovernanceOrSecurityRefuses, Same

LEMMA StartToolGuards ==
  ASSUME Authorised, NEW t \in Tasks, StartTool(t)
  PROVE  TypeOK' /\ Guarded(t)' /\ \A u \in Tasks \ {t} : Same(u)
<1>1. TypeOK /\ Guarded(t)  BY DEF Authorised
<1>2. task'[t] = "running" /\ \A u \in Tasks \ {t} : task'[u] = task[u]
  BY <1>1, MoveType DEF StartTool
<1>3. Consume(t) /\ Passes(t)  BY DEF StartTool
<1>4. runs[t] <= handed[t] /\ task[t] = "permitted"
  BY <1>1, <1>3, PassesEarned DEF Guarded, Handed
<1>5. runs[t] + 1 \in 0..(MaxRuns + 1)  BY <1>1, <1>4, TaskType
<1>6. /\ runs'[t] = runs[t] + 1 /\ runs' \in [Tasks -> 0..(MaxRuns + 1)]
      /\ \A u \in Tasks \ {t} : runs'[u] = runs[u]
  BY <1>1, <1>5 DEF StartTool, TypeOK
<1>7. /\ attempt'[t] = 0 /\ attempt' \in [Tasks -> 0..MaxRetries]
      /\ \A u \in Tasks \ {t} : attempt'[u] = attempt[u]
  BY <1>1, TaskType DEF StartTool, TypeOK
<1>8. TypeOK'
  BY <1>1, <1>3, <1>6, <1>7, MoveType, ConsumeParts DEF StartTool, TypeOK
<1>9. Guarded(t)'
  <2>1. (PermitEarned(t) /\ ActsByPermit(t) /\ ActsOnce(t) /\ NotYet(t))'
    BY <1>1, <1>2, <1>3, TaskType, ConsumeParts, PassesEarned
       DEF StartTool, Guarded, PermitEarned, ActsByPermit, ActsOnce, NotYet
  <2>2. (OnRecord(t) /\ Handed(t))'
    BY <1>1, <1>2, <1>4, <1>6, TaskType
       DEF StartTool, Guarded, OnRecord, Handed, AtRest
  <2> QED  BY <2>1, <2>2 DEF Guarded
<1> QED
  BY <1>1, <1>2, <1>3, <1>6, <1>7, <1>8, <1>9, ConsumeParts DEF StartTool, Same

-----------------------------------------------------------------------------
(* The dispatcher                                                            *)

LEMMA LandsParts ==
  ASSUME TypeOK, NEW t \in Tasks, Lands(t) \/ UNCHANGED effects
  PROVE  /\ effects' \in [Tasks -> Nat]
         /\ effects'[t] \in {effects[t], effects[t] + 1}
         /\ \A u \in Tasks \ {t} : effects'[u] = effects[u]
BY DEF Lands, TypeOK

LEMMA FinishParts ==
  ASSUME TypeOK, NEW t \in Tasks, NEW s \in {"done", "failed"}, Finish(t, s)
  PROVE  /\ task'[t] = s /\ \A u \in Tasks \ {t} : task'[u] = task[u]
         /\ task' \in [Tasks -> {"planned", "permitted", "paused", "running",
                                 "backoff", "done", "failed"}]
         /\ records'[t] = records[t] + 1 /\ records' \in [Tasks -> Nat]
         /\ \A u \in Tasks \ {t} : records'[u] = records[u]
         /\ UNCHANGED <<now, permissions, rule, plan, arguments, permit, handed, runs,
                        cancelled, allowed>>
BY MoveType DEF Finish, TypeOK

(* A running tool that ends, with or without its effect.                     *)
LEMMA EndGuards ==
  ASSUME Authorised, NEW t \in Tasks, task[t] = "running",
         Lands(t) \/ UNCHANGED effects,
         NEW s \in {"done", "failed"}, Finish(t, s), UNCHANGED attempt
  PROVE  TypeOK' /\ Guarded(t)' /\ \A u \in Tasks \ {t} : Same(u)
<1>1. TypeOK /\ Guarded(t)  BY DEF Authorised
<1>2. /\ task'[t] = s /\ \A u \in Tasks \ {t} : task'[u] = task[u]
      /\ task' \in [Tasks -> {"planned", "permitted", "paused", "running",
                              "backoff", "done", "failed"}]
      /\ records'[t] = records[t] + 1 /\ records' \in [Tasks -> Nat]
      /\ \A u \in Tasks \ {t} : records'[u] = records[u]
      /\ UNCHANGED <<now, permissions, rule, plan, arguments, permit, handed, runs,
                     cancelled, allowed>>
  BY <1>1, FinishParts
<1>3. /\ effects' \in [Tasks -> Nat]
      /\ effects'[t] \in {effects[t], effects[t] + 1}
      /\ \A u \in Tasks \ {t} : effects'[u] = effects[u]
  BY <1>1, LandsParts
<1>4. TypeOK'  BY <1>1, <1>2, <1>3 DEF TypeOK
<1>5. (PermitEarned(t) /\ ActsByPermit(t) /\ ActsOnce(t) /\ NotYet(t))'
  BY <1>1, <1>2, <1>3, TaskType
     DEF Guarded, PermitEarned, ActsByPermit, ActsOnce, NotYet
<1>6. (OnRecord(t) /\ Handed(t))'
  BY <1>1, <1>2, TaskType DEF Guarded, OnRecord, Handed, AtRest
<1> QED  BY <1>2, <1>3, <1>4, <1>5, <1>6 DEF Guarded, Same

LEMMA ToolReturnsGuards ==
  ASSUME Authorised, NEW t \in Tasks, ToolReturns(t)
  PROVE  TypeOK' /\ Guarded(t)' /\ \A u \in Tasks \ {t} : Same(u)
BY EndGuards DEF ToolReturns

LEMMA ToolFailsGuards ==
  ASSUME Authorised, NEW t \in Tasks, ToolFails(t)
  PROVE  TypeOK' /\ Guarded(t)' /\ \A u \in Tasks \ {t} : Same(u)
BY EndGuards DEF ToolFails

LEMMA TimesOutGuards ==
  ASSUME Authorised, NEW t \in Tasks, TimesOut(t)
  PROVE  TypeOK' /\ Guarded(t)' /\ \A u \in Tasks \ {t} : Same(u)
<1>1. TypeOK /\ Guarded(t) /\ task[t] = "running"  BY DEF Authorised, TimesOut
<1>2. CASE Finish(t, "failed") /\ UNCHANGED attempt
  BY <1>1, <1>2, EndGuards DEF TimesOut
<1>3. CASE /\ attempt[t] < Retries(plan[t])
           /\ attempt' = [attempt EXCEPT ![t] = @ + 1]
           /\ task' = [task EXCEPT ![t] = "backoff"]
           /\ UNCHANGED <<now, permissions, rule, plan, arguments, permit, handed,
                          runs, records, cancelled, allowed>>
  <2>1. task'[t] = "backoff" /\ \A u \in Tasks \ {t} : task'[u] = task[u]
    BY <1>1, <1>3, MoveType
  <2>2. /\ effects' \in [Tasks -> Nat]
        /\ effects'[t] \in {effects[t], effects[t] + 1}
        /\ \A u \in Tasks \ {t} : effects'[u] = effects[u]
    BY <1>1, LandsParts DEF TimesOut
  <2>3. ~plan[t].mutates /\ attempt[t] + 1 \in 0..MaxRetries
    BY <1>1, <1>3, TaskType DEF Retries
  <2>4. /\ attempt' \in [Tasks -> 0..MaxRetries]
        /\ \A u \in Tasks \ {t} : attempt'[u] = attempt[u]
    BY <1>1, <1>3, <2>3 DEF TypeOK
  <2>5. TypeOK'  BY <1>1, <1>3, <2>2, <2>4, MoveType DEF TypeOK
  <2>6. (PermitEarned(t) /\ ActsByPermit(t) /\ ActsOnce(t) /\ NotYet(t))'
    BY <1>1, <1>3, <2>1, <2>3
       DEF Guarded, PermitEarned, ActsByPermit, ActsOnce, NotYet
  <2>7. (OnRecord(t) /\ Handed(t))'
    BY <1>1, <1>3, <2>1, TaskType DEF Guarded, OnRecord, Handed, AtRest
  <2> QED  BY <1>3, <2>1, <2>2, <2>4, <2>5, <2>6, <2>7 DEF Guarded, Same
<1> QED  BY <1>2, <1>3 DEF TimesOut

LEMMA RetryGuards ==
  ASSUME Authorised, NEW t \in Tasks, Retry(t)
  PROVE  TypeOK' /\ Guarded(t)' /\ \A u \in Tasks \ {t} : Same(u)
<1>1. TypeOK /\ Guarded(t)  BY DEF Authorised
<1>2. task'[t] = "running" /\ \A u \in Tasks \ {t} : task'[u] = task[u]
  BY <1>1, MoveType DEF Retry
<1>3. TypeOK'  BY <1>1, MoveType DEF Retry, TypeOK
<1>4. Guarded(t)'
  BY <1>1, <1>2, TaskType
     DEF Retry, Guarded, PermitEarned, ActsByPermit, ActsOnce, NotYet, OnRecord,
         Handed, AtRest
<1> QED  BY <1>2, <1>3, <1>4 DEF Retry, Same

LEMMA CancelToolGuards ==
  ASSUME Authorised, NEW t \in Tasks, CancelTool(t)
  PROVE  TypeOK' /\ Guarded(t)' /\ \A u \in Tasks \ {t} : Same(u)
<1>1. TypeOK /\ Guarded(t)  BY DEF Authorised
<1>2. task'[t] = "failed" /\ \A u \in Tasks \ {t} : task'[u] = task[u]
  BY <1>1, MoveType DEF CancelTool
<1>3. /\ cancelled'[t] = cancelled[t] + 1 /\ cancelled' \in [Tasks -> Nat]
      /\ \A u \in Tasks \ {t} : cancelled'[u] = cancelled[u]
  BY <1>1 DEF CancelTool, TypeOK
<1>4. TypeOK'  BY <1>1, <1>3, MoveType DEF CancelTool, TypeOK
<1>5. Guarded(t)'
  BY <1>1, <1>2, <1>3, TaskType
     DEF CancelTool, Guarded, PermitEarned, ActsByPermit, ActsOnce, NotYet,
         OnRecord, Handed, AtRest
<1> QED  BY <1>2, <1>3, <1>4, <1>5 DEF CancelTool, Same

-----------------------------------------------------------------------------
(* The human, the inputs and the clock                                       *)

(* The answer allows the inputs the pending permit was issued for.           *)
LEMMA ResolveGuards ==
  ASSUME Authorised, NEW t \in Tasks, NEW d \in {"allow", "deny"}, Resolve(t, d)
  PROVE  TypeOK' /\ Guarded(t)' /\ \A u \in Tasks \ {t} : Same(u)
<1>1. TypeOK /\ Guarded(t) /\ task[t] = "paused"  BY DEF Authorised, Resolve
<1>2. task'[t] = "permitted" /\ \A u \in Tasks \ {t} : task'[u] = task[u]
  BY <1>1, MoveType DEF Resolve
<1>3. /\ Reissue(t, d) \in Permits /\ Reissue(t, d).decision = d
      /\ Reissue(t, d).digest = permit[t].digest
  BY <1>1, IssueType, TaskType DEF Reissue
<1>4. /\ permit'[t].decision = d /\ permit'[t].digest = permit[t].digest
      /\ permit' \in [Tasks -> Permits]
      /\ \A u \in Tasks \ {t} : permit'[u] = permit[u]
  BY <1>1, <1>3 DEF Resolve, TypeOK
<1>5. permit[t].decision = "ask_user" /\ effects[t] = 0
  BY <1>1, TaskType DEF Guarded, NotYet, ActsByPermit
<1>6. /\ allowed' \in [Tasks -> SUBSET Arguments]
      /\ d = "allow" => permit[t].digest \in allowed'[t]
      /\ \A u \in Tasks \ {t} : allowed'[u] = allowed[u]
  <2>1. permit[t].digest \in Arguments
    BY <1>1, <1>5 DEF Guarded, PermitEarned
  <2> QED  BY <1>1, <2>1, TaskType DEF Resolve, TypeOK
<1>7. TypeOK'  BY <1>1, <1>4, <1>6, MoveType DEF Resolve, TypeOK
<1>8. Guarded(t)'
  BY <1>1, <1>2, <1>4, <1>5, <1>6, TaskType
     DEF Resolve, Guarded, PermitEarned, ActsByPermit, ActsOnce, NotYet, OnRecord,
         Handed, AtRest
<1> QED  BY <1>2, <1>4, <1>6, <1>7, <1>8 DEF Resolve, Same

LEMMA RunAgainGuards ==
  ASSUME Authorised, NEW t \in Tasks, RunAgain(t)
  PROVE  TypeOK' /\ Guarded(t)' /\ \A u \in Tasks \ {t} : Same(u)
<1>1. TypeOK /\ Guarded(t)  BY DEF Authorised
<1>2. task'[t] = "permitted" /\ \A u \in Tasks \ {t} : task'[u] = task[u]
  BY <1>1, MoveType DEF RunAgain
<1>3. handed[t] + 1 \in 0..MaxRuns  BY <1>1, TaskType DEF RunAgain
<1>4. /\ handed'[t] = handed[t] + 1 /\ handed' \in [Tasks -> 0..MaxRuns]
      /\ \A u \in Tasks \ {t} : handed'[u] = handed[u]
  BY <1>1, <1>3 DEF RunAgain, TypeOK
<1>5. TypeOK'  BY <1>1, <1>4, MoveType DEF RunAgain, TypeOK
<1>6. Guarded(t)'
  BY <1>1, <1>2, <1>4, TaskType
     DEF RunAgain, Guarded, PermitEarned, ActsByPermit, ActsOnce, NotYet, OnRecord,
         Handed, AtRest
<1> QED  BY <1>2, <1>4, <1>5, <1>6 DEF RunAgain, Same

LEMMA ChangeInputsGuards ==
  ASSUME Authorised, NEW t \in Tasks, NEW a \in Arguments, ChangeInputs(t, a)
  PROVE  TypeOK' /\ Guarded(t)' /\ \A u \in Tasks \ {t} : Same(u)
<1>1. /\ TypeOK /\ Guarded(t) /\ task[t] \in {"permitted", "paused"}
  BY DEF Authorised, ChangeInputs
<1>2. /\ arguments' \in [Tasks -> Arguments]
      /\ \A u \in Tasks \ {t} : arguments'[u] = arguments[u]
  BY <1>1 DEF ChangeInputs, TypeOK
<1>3. /\ effects'[t] = 0 /\ effects' \in [Tasks -> Nat]
      /\ \A u \in Tasks \ {t} : effects'[u] = effects[u]
  BY <1>1 DEF ChangeInputs, TypeOK
<1>4. TypeOK'  BY <1>1, <1>2, <1>3 DEF ChangeInputs, TypeOK
<1>5. Guarded(t)'
  BY <1>1, <1>3, TaskType
     DEF ChangeInputs, Guarded, PermitEarned, ActsByPermit, ActsOnce, NotYet,
         OnRecord, Handed, AtRest
<1> QED  BY <1>2, <1>3, <1>4, <1>5 DEF ChangeInputs, Same

LEMMA SurroundingsGuard ==
  ASSUME Authorised,
         \/ \E s \in Scopes, d \in {"allowed", "denied", "unknown"} : SetPermission(s, d)
         \/ \E r \in Rules : SetDefaultPolicy(r)
         \/ Tick
  PROVE  TypeOK' /\ \A u \in Tasks : Same(u)
<1>1. TypeOK  BY DEF Authorised
<1>2. CASE \E s \in Scopes, d \in {"allowed", "denied", "unknown"} : SetPermission(s, d)
  <2>1. permissions' \in [Scopes -> {"allowed", "denied", "unknown"}]
    BY <1>1, <1>2 DEF SetPermission, TypeOK
  <2> QED  BY <1>1, <1>2, <2>1 DEF SetPermission, TypeOK, Same
<1>3. CASE \E r \in Rules : SetDefaultPolicy(r)
  BY <1>1, <1>3 DEF SetDefaultPolicy, TypeOK, Same
<1>4. CASE Tick
  <2>1. now' \in 0..Horizon
    BY <1>1, <1>4, AuthorityAssumption DEF Tick, TypeOK
  <2> QED  BY <1>1, <1>4, <2>1 DEF Tick, TypeOK, Same
<1> QED  BY <1>2, <1>3, <1>4

-----------------------------------------------------------------------------
(* Every step                                                                *)

LEMMA AuthorisedStep == Authorised /\ [Next]_vars => Authorised'
<1> SUFFICES ASSUME Authorised, [Next]_vars PROVE Authorised'  OBVIOUS
<1>1. ASSUME NEW t \in Tasks, TypeOK', Guarded(t)',
             \A u \in Tasks \ {t} : Same(u)
      PROVE  Authorised'
  BY <1>1, SameGuarded DEF Authorised
<1>2. ASSUME NEW t \in Tasks, Executor(t) \/ CancelTool(t) \/ RunAgain(t)
      PROVE  Authorised'
  BY <1>1, <1>2, AuthorizeGuards, PausesGuards, GateRefusesGuards,
     GuardRefusesGuards, GovernanceOrSecurityRefusesGuards, StartToolGuards,
     ToolReturnsGuards, ToolFailsGuards, TimesOutGuards, RetryGuards,
     CancelToolGuards, RunAgainGuards
     DEF Executor
<1>3. ASSUME NEW t \in Tasks, NEW a \in Arguments, ChangeInputs(t, a)
      PROVE  Authorised'
  BY <1>1, <1>3, ChangeInputsGuards
<1>4. ASSUME NEW t \in Tasks, NEW d \in {"allow", "deny"}, Resolve(t, d)
      PROVE  Authorised'
  BY <1>1, <1>4, ResolveGuards
<1>5. ASSUME TypeOK', \A u \in Tasks : Same(u) PROVE Authorised'
  BY <1>5, SameGuarded DEF Authorised
<1>6. CASE \/ \E s \in Scopes, d \in {"allowed", "denied", "unknown"} :
                SetPermission(s, d)
           \/ \E r \in Rules : SetDefaultPolicy(r)
           \/ Tick
  BY <1>5, <1>6, SurroundingsGuard
<1>7. CASE UNCHANGED vars
  BY <1>5, <1>7 DEF vars, Authorised, TypeOK, Same
<1> QED  BY <1>2, <1>3, <1>4, <1>6, <1>7 DEF Next

LEMMA AuthorisedAct ==
  Authorised => TypeOK /\ OnlyAuthorised /\ MutatesOnce /\ RunsRecorded
<1> SUFFICES ASSUME Authorised
             PROVE  TypeOK /\ OnlyAuthorised /\ MutatesOnce /\ RunsRecorded
  OBVIOUS
<1>1. TypeOK /\ \A t \in Tasks : Guarded(t)  BY DEF Authorised
<1>2. OnlyAuthorised
  BY <1>1, TaskType DEF OnlyAuthorised, Guarded, ActsByPermit
<1>3. MutatesOnce  BY <1>1 DEF MutatesOnce, Guarded, ActsOnce
<1>4. RunsRecorded  BY <1>1 DEF RunsRecorded, Guarded, OnRecord
<1> QED  BY <1>1, <1>2, <1>3, <1>4

(* Only the executor, past governance, starts a tool.                        *)
LEMMA OnlyStartToolRuns ==
  ASSUME Authorised, [Next]_vars, NEW t \in Tasks, runs'[t] > runs[t]
  PROVE  StartTool(t)
<1>1. TypeOK /\ runs[t] \in Nat  BY TaskType DEF Authorised
<1>2. ~UNCHANGED runs  BY <1>1
<1>3. \E u \in Tasks : StartTool(u)
  BY <1>2
     DEF Next, vars, Executor, Authorize, Pauses, GateRefuses, GuardRefuses,
         GovernanceOrSecurityRefuses, ToolReturns, ToolFails, TimesOut, Finish,
         Retry, CancelTool, RunAgain, ChangeInputs, Resolve, SetPermission,
         SetDefaultPolicy, Tick
<1>4. PICK u \in Tasks : StartTool(u)  BY <1>3
<1>5. CASE u = t  BY <1>4, <1>5
<1>6. CASE u # t
  BY <1>1, <1>4, <1>6, StartToolGuards DEF Same
<1> QED  BY <1>5, <1>6

(* No tool acts without authority: a permit of the policy or the user for    *)
(* the very inputs, unused if it is a mutation; governance has the last      *)
(* word when a tool is started, and a record of every run that was not       *)
(* cancelled.                                                                *)
THEOREM AuthorityIsSafe == Spec => AuthoritySafe
<1>1. Init => Authorised  BY AuthorisedInitially
<1>2. Authorised /\ [Next]_vars => Authorised'  BY AuthorisedStep
<1>3. Authorised => TypeOK /\ OnlyAuthorised /\ MutatesOnce /\ RunsRecorded
  BY AuthorisedAct
<1>4. Authorised /\ [Next]_vars =>
        [\A t \in Tasks : runs[t]' > runs[t] => Denied(plan[t]) = {}]_vars
  BY OnlyStartToolRuns DEF StartTool, GovernanceAllows
<1>5. Spec => []Authorised  BY <1>1, <1>2, PTL DEF Spec
<1>6. Spec => [](TypeOK /\ OnlyAuthorised /\ MutatesOnce /\ RunsRecorded)
  BY <1>3, <1>5, PTL
<1>7. Spec => GovernanceHasTheLastWord
  BY <1>4, <1>5, PTL DEF Spec, GovernanceHasTheLastWord
<1> QED  BY <1>6, <1>7, PTL DEF AuthoritySafe

-----------------------------------------------------------------------------
(* The terminal: for any number of sessions, messages, commands, buttons   *)
(* and items of a stream.                                                  *)

Buttons == {"allow", "deny"}
TaskShapes == [does : Openers \cup {"show", "new", "exit", "clear", "switch", "delete"},
               of : Sessions \cup {Nobody} \cup Exchanges, id : Exchanges \cup {0}]

(* What may be queued once these buttons were pressed: an answer has a     *)
(* number, and an approval was pressed.                                    *)
Queueable(pressed) ==
  {t \in TaskShapes : /\ t.does \in Openers => t.id \in Exchanges
                      /\ t.does \in Buttons => <<t.of, t.does>> \in pressed}

(* Without a key or button in mid-answer there is one task or one stream,  *)
(* and the input bar is on only while no answer runs.                      *)
Orderly ==
  /\ Len(tasks) <= 1
  /\ tasks # <<>> => streams = {}
  /\ enabled => streams = {}
  /\ tasks # <<>> /\ Head(tasks).does = "say" => ~enabled
  /\ \A x, y \in streams : x = y
  /\ \A x \in streams : x.started => current = x.id
  /\ strayed = {}

(* The variables of the store, of the questions and of the answers.        *)
StoreKept ==
  /\ active \in Sessions /\ stored \subseteq Sessions /\ recalled \subseteq Sessions
  /\ deleted \subseteq Sessions /\ excused \subseteq deleted
  /\ screen \in {"open", "closed"}
  /\ ActiveIsStored /\ DeletedIsGone
  /\ \A x \in streams : x.session \in deleted => x.session \in excused
QuestionsKept ==
  /\ asked \in Sessions \cup {Nobody} /\ toDelete \in Sessions \cup {Nobody}
  /\ asked # Nobody => asked = toDelete
AnswersKept ==
  /\ latest \in [Sessions -> Exchanges \cup {0}]
  /\ waiting \subseteq Exchanges /\ offered \subseteq Exchanges
  /\ clicks \subseteq Exchanges \X Buttons /\ answers \subseteq clicks
PanelKept ==
  /\ enabled \in BOOLEAN /\ nudged \in BOOLEAN
  /\ streams \subseteq StreamRecords /\ current \in Exchanges \cup {0}
  /\ strayed \subseteq Exchanges
  /\ exchanges \in Nat /\ lines \in Nat /\ exchanges + lines <= MaxInputs
  /\ tasks \in Seq(Queueable(clicks))
  /\ nudged \/ Orderly

TerminalInv == StoreKept /\ QuestionsKept /\ AnswersKept /\ PanelKept

LEMMA SeqGrows ==
  ASSUME NEW S, NEW T, S \subseteq T, NEW q \in Seq(S)
  PROVE  q \in Seq(T)
OBVIOUS

LEMMA OneMore ==
  ASSUME NEW S, NEW q \in Seq(S), NEW t \in S
  PROVE  /\ Append(q, t) \in Seq(S) /\ Append(q, t) # <<>>
         /\ q = <<>> => Len(Append(q, t)) <= 1 /\ Head(Append(q, t)) = t
<1>1. Append(q, t) \in Seq(S) /\ Len(Append(q, t)) = Len(q) + 1 /\ Len(q) \in Nat
  OBVIOUS
<1>2. Len(Append(q, t)) # 0  BY <1>1
<1>3. \A r : r = <<>> => Len(r) = 0  OBVIOUS
<1>4. q = <<>> => Len(Append(q, t)) <= 1 /\ Head(Append(q, t)) = t  OBVIOUS
<1> QED  BY <1>1, <1>2, <1>3, <1>4

LEMMA OneLess ==
  ASSUME NEW S, NEW q \in Seq(S), q # <<>>
  PROVE  /\ Head(q) \in S /\ Tail(q) \in Seq(S)
         /\ Len(q) <= 1 => Tail(q) = <<>>
<1>1. Head(q) \in S /\ Tail(q) \in Seq(S)  OBVIOUS
<1>2. ASSUME Len(q) <= 1 PROVE Tail(q) = <<>>
  <2>1. Len(q) \in Nat /\ Len(q) # 0 /\ Len(Tail(q)) = Len(q) - 1  OBVIOUS
  <2>2. Len(Tail(q)) = 0  BY <1>2, <2>1
  <2>3. \A r \in Seq(S) : Len(r) = 0 => r = <<>>  OBVIOUS
  <2> QED  BY <1>1, <2>2, <2>3
<1> QED  BY <1>1, <1>2

LEMMA NoTasks == \A S : <<>> \in Seq(S) /\ Len(<<>>) = 0
OBVIOUS

(* One more task, next to buttons pressed before and since.                *)
LEMMA Queues ==
  ASSUME tasks \in Seq(Queueable(clicks)), NEW pressed, clicks \subseteq pressed,
         NEW t \in Queueable(pressed)
  PROVE  /\ Append(tasks, t) \in Seq(Queueable(pressed)) /\ Append(tasks, t) # <<>>
         /\ tasks = <<>> => Len(Append(tasks, t)) <= 1 /\ Head(Append(tasks, t)) = t
<1>1. Queueable(clicks) \subseteq Queueable(pressed)  BY DEF Queueable
<1>2. tasks \in Seq(Queueable(pressed))  BY <1>1, SeqGrows
<1> QED  BY <1>2, OneMore

(* A step that leaves the store alone, and begins no answer.               *)
LEMMA StoreSame ==
  ASSUME StoreKept, UNCHANGED storeVars, screen' \in {screen, "closed"},
         \A x \in streams' : \E y \in streams : x.session = y.session
  PROVE  StoreKept'
BY DEF StoreKept, storeVars, ActiveIsStored, DeletedIsGone

(* What the end of the interface leaves.                                   *)
LEMMA ClosedIsKept ==
  ASSUME TerminalInv, Closes,
         UNCHANGED <<exchanges, lines, strayed, nudged, clicks, answers>>
  PROVE  QuestionsKept' /\ AnswersKept' /\ PanelKept'
<1>1. QuestionsKept'  BY DEF Closes, QuestionsKept
<1>2. AnswersKept'  BY DEF TerminalInv, AnswersKept, Closes
<1>3. tasks' \in Seq(Queueable(clicks')) /\ Len(tasks') = 0 /\ tasks' = <<>>
  BY NoTasks DEF Closes
<1>4. nudged' \/ Orderly'
  BY <1>3 DEF TerminalInv, PanelKept, Orderly, Closes
<1>5. PanelKept'  BY <1>3, <1>4 DEF TerminalInv, PanelKept, Closes
<1> QED  BY <1>1, <1>2, <1>5

-----------------------------------------------------------------------------
(* What is typed and pressed.                                              *)

LEMMA SaysKept == ASSUME TerminalInv, Says PROVE TerminalInv'
<1> DEFINE t == [does |-> "say", of |-> Nobody, id |-> exchanges + 1]
           q == Append(tasks, t)
<1>0. /\ tasks \in Seq(Queueable(clicks)) /\ nudged \in BOOLEAN
      /\ exchanges \in Nat /\ lines \in Nat /\ exchanges + lines < MaxInputs
  BY DEF TerminalInv, PanelKept, Says, MoreInput
<1>1. exchanges + 1 \in Exchanges /\ exchanges + 1 + lines <= MaxInputs
  BY <1>0, SessionsAssumption DEF Exchanges
<1>2. t \in Queueable(clicks)
  BY <1>1 DEF Queueable, TaskShapes, Openers, Buttons
<1>3. /\ q \in Seq(Queueable(clicks)) /\ q # <<>>
      /\ tasks = <<>> => Len(q) <= 1 /\ Head(q) = t
  BY <1>0, <1>2, Queues
<1>4. StoreKept' /\ QuestionsKept' /\ AnswersKept'
  <2>1. StoreKept'  BY StoreSame DEF TerminalInv, Says
  <2>2. QuestionsKept'  BY DEF TerminalInv, Says, QuestionsKept
  <2>3. AnswersKept'  BY DEF TerminalInv, Says, AnswersKept, approvalVars
  <2> QED  BY <2>1, <2>2, <2>3
<1>5. tasks' = q /\ clicks' = clicks /\ streams' = streams /\ current' = current
      /\ strayed' = strayed /\ enabled' = FALSE /\ enabled = TRUE /\ lines' = lines
      /\ exchanges' = exchanges + 1 /\ nudged' = (nudged \/ tasks # <<>>)
  BY DEF Says, TurnsOff, approvalVars, TerminalInv, PanelKept
<1> HIDE DEF q
<1>6. nudged' \/ Orderly'
  <2>1. CASE nudged \/ tasks # <<>>  BY <2>1, <1>5
  <2>2. CASE ~nudged /\ tasks = <<>>
    <3>1. Orderly  BY <2>2 DEF TerminalInv, PanelKept
    <3>2. streams' = {} /\ strayed' = {}  BY <3>1, <1>5 DEF Orderly
    <3>3. tasks' = q  BY <1>5
    <3>4. Len(q) <= 1 /\ q # <<>>  BY <2>2, <1>3
    <3>5. Len(tasks') <= 1 /\ tasks' # <<>>  BY <3>3, <3>4
    <3> QED  BY <3>2, <3>5, <1>5 DEF Orderly
  <2> QED  BY <2>1, <2>2
<1>7. nudged' \in BOOLEAN /\ enabled' \in BOOLEAN  BY <1>5
<1>8. PanelKept'
  BY <1>0, <1>1, <1>3, <1>5, <1>6, <1>7 DEF TerminalInv, PanelKept
<1> QED  BY <1>4, <1>8 DEF TerminalInv

(* A command, typed or F1, while nothing runs or not.                      *)
LEMMA SlashKept ==
  ASSUME TerminalInv, NEW c \in ShellLines, Slash(c), enabled \/ nudged' \/ ~Busy,
         nudged' \in BOOLEAN, nudged => nudged', tasks # <<>> => nudged',
         UNCHANGED <<screen, toDelete, enabled, exchanges, streams, current, strayed>>,
         UNCHANGED storeVars, UNCHANGED approvalVars
  PROVE  TerminalInv'
<1> DEFINE t == [does |-> c.does, of |-> c.of, id |-> 0]
           q == Append(tasks, t)
<1>0. /\ tasks \in Seq(Queueable(clicks))
      /\ exchanges \in Nat /\ lines \in Nat /\ exchanges + lines < MaxInputs
  BY DEF TerminalInv, PanelKept, Slash, MoreInput
<1>1. lines + 1 \in Nat /\ exchanges + (lines + 1) <= MaxInputs
  BY <1>0, SessionsAssumption
<1>2. /\ c.does \in {"show", "new", "exit", "clear", "switch", "delete"}
      /\ c.of \in Sessions \cup {Nobody}
  BY DEF ShellLines
<1>3. t \in Queueable(clicks) /\ t.does \notin Openers
  BY <1>2 DEF Queueable, TaskShapes, Openers, Buttons
<1>4. /\ q \in Seq(Queueable(clicks)) /\ q # <<>>
      /\ tasks = <<>> => Len(q) <= 1 /\ Head(q) = t
  BY <1>0, <1>3, Queues
<1>5. StoreKept' /\ QuestionsKept' /\ AnswersKept'
  <2>1. StoreKept'  BY StoreSame DEF TerminalInv
  <2>2. QuestionsKept'  BY DEF TerminalInv, Slash, QuestionsKept
  <2>3. AnswersKept'  BY DEF TerminalInv, AnswersKept, approvalVars
  <2> QED  BY <2>1, <2>2, <2>3
<1>6. tasks' = q /\ clicks' = clicks /\ lines' = lines + 1
  BY DEF Slash, approvalVars
<1>7. t.does # "say"  BY <1>3 DEF Openers
<1> HIDE DEF q, t
<1>8. nudged' \/ Orderly'
  <2>1. CASE nudged'  BY <2>1
  <2>2. CASE ~nudged'
    <3>1. Orderly /\ tasks = <<>>  BY <2>2 DEF TerminalInv, PanelKept
    <3>2. streams = {}  BY <3>1, <2>2 DEF Orderly, Busy
    <3>3. streams' = {} /\ strayed' = {}  BY <3>1, <3>2 DEF Orderly
    <3>4. tasks' = q  BY <1>6
    <3>a. Len(q) <= 1 /\ q # <<>>  BY <3>1, <1>4
    <3>b. Head(q) = t  BY <3>1, <1>4
    <3>c. Head(q).does # "say"  BY <3>b, <1>7
    <3>5. Len(q) <= 1 /\ q # <<>> /\ Head(q).does # "say"
      BY <3>a, <3>c
    <3>6. Len(tasks') <= 1 /\ tasks' # <<>> /\ Head(tasks').does # "say"
      BY <3>4, <3>5
    <3> QED  BY <3>3, <3>6 DEF Orderly
  <2> QED  BY <2>1, <2>2
<1>9. PanelKept'
  BY <1>0, <1>1, <1>4, <1>6, <1>8 DEF TerminalInv, PanelKept
<1> QED  BY <1>5, <1>9 DEF TerminalInv

LEMMA TypesKept ==
  ASSUME TerminalInv, NEW c \in ShellLines, Types(c) PROVE TerminalInv'
<1>1. nudged \in BOOLEAN  BY DEF TerminalInv, PanelKept
<1>2. nudged' \in BOOLEAN /\ (nudged => nudged') /\ (tasks # <<>> => nudged')
  BY <1>1 DEF Types
<1> QED  BY <1>2, SlashKept DEF Types

LEMMA HelpKept == ASSUME TerminalInv, PressesHelp PROVE TerminalInv'
<1> DEFINE c == [does |-> "show", of |-> Nobody]
<1>1. nudged \in BOOLEAN  BY DEF TerminalInv, PanelKept
<1>2. /\ nudged' \in BOOLEAN /\ (nudged => nudged') /\ (tasks # <<>> => nudged')
      /\ nudged' \/ ~Busy
  BY <1>1 DEF PressesHelp, Busy
<1>3. c \in ShellLines  BY DEF ShellLines
<1> QED  BY <1>2, <1>3, SlashKept DEF PressesHelp

LEMMA ClearKept == ASSUME TerminalInv, PressesClear PROVE TerminalInv'
<1>1. StoreKept'  BY StoreSame DEF TerminalInv, PressesClear, panelVars
<1>2. QuestionsKept'  BY DEF TerminalInv, PressesClear, QuestionsKept
<1>3. AnswersKept'  BY DEF TerminalInv, PressesClear, ClearsPanel, AnswersKept
<1>4. PanelKept'
  BY DEF TerminalInv, PressesClear, PanelKept, Orderly, panelVars
<1> QED  BY <1>1, <1>2, <1>3, <1>4 DEF TerminalInv

LEMMA QuitKept == ASSUME TerminalInv, PressesQuit PROVE TerminalInv'
<1>1. QuestionsKept' /\ AnswersKept' /\ PanelKept'
  BY ClosedIsKept DEF PressesQuit
<1>2. StoreKept'  BY StoreSame DEF TerminalInv, PressesQuit, Closes
<1> QED  BY <1>1, <1>2 DEF TerminalInv

-----------------------------------------------------------------------------
(* The deletion.                                                           *)

(* A session that is removed is the one the question named; what is left   *)
(* of it afterwards is excused.                                            *)
LEMMA FinishKept ==
  ASSUME TerminalInv, NEW s \in stored, NEW fails \in BOOLEAN,
         FinishDelete(s, fails), screen = "open",
         UNCHANGED <<exchanges, lines, strayed, nudged, clicks, answers>>
  PROVE  TerminalInv'
<1>0. /\ s \in Sessions /\ active \in Sessions /\ stored \subseteq Sessions
      /\ recalled \subseteq Sessions /\ deleted \subseteq Sessions
      /\ excused \subseteq deleted /\ active \in stored
      /\ (deleted \cap (stored \cup recalled)) \subseteq excused
      /\ \A x \in streams : x.session \in deleted => x.session \in excused
  BY DEF TerminalInv, StoreKept, ActiveIsStored, DeletedIsGone
<1>1. CASE /\ Forgets(s, fails)
           /\ deleted' = deleted \cup {s}
           /\ excused' = IF fails \/ Busy THEN excused \cup {s} ELSE excused
           /\ IF active = s
                THEN \E n \in Fresh : Creates(n) /\ stored' = (stored \ {s}) \cup {n}
                ELSE UNCHANGED active /\ stored' = stored \ {s}
           /\ asked' = Nobody /\ toDelete' = Nobody
           /\ UNCHANGED <<screen, tasks, streams, current, enabled, offered, latest,
                          waiting>>
  <2>1. /\ recalled' \subseteq recalled
        /\ (~fails => s \notin recalled')
    BY <1>1 DEF Forgets
  <2>2. /\ excused \subseteq excused' /\ excused' \subseteq deleted'
        /\ fails \/ streams # {} => s \in excused'
    <3>1. CASE fails \/ Busy  BY <3>1, <1>0, <1>1
    <3>2. CASE ~(fails \/ Busy)  BY <3>2, <1>0, <1>1 DEF Busy
    <3> QED  BY <3>1, <3>2
  <2>3. PICK n \in Sessions :
          /\ active' \in stored' /\ active' \in Sessions
          /\ stored' \subseteq (stored \ {s}) \cup {n}
          /\ n \in stored' => n \notin deleted'
    <3>1. CASE active = s
      <4>1. PICK n \in Fresh : Creates(n) /\ stored' = (stored \ {s}) \cup {n}
        BY <1>1, <3>1
      <4> QED  BY <4>1, <1>0, <1>1 DEF Creates, Fresh
    <3>2. CASE active # s
      <4>1. active' = active /\ stored' = stored \ {s}  BY <1>1, <3>2
      <4> QED  BY <4>1, <3>2, <1>0, <1>1
    <3> QED  BY <3>1, <3>2
  <2>4. DeletedIsGone'
    <3>1. SUFFICES ASSUME NEW e \in deleted', e \in stored' \/ e \in recalled'
                   PROVE  e \in excused'
      BY DEF DeletedIsGone
    <3>2. CASE e = s  BY <3>1, <3>2, <1>0, <2>1, <2>2, <2>3, <1>1
    <3>3. CASE e # s  BY <3>1, <3>3, <1>0, <2>1, <2>2, <2>3, <1>1
    <3> QED  BY <3>2, <3>3
  <2>5. StoreKept'
    BY <1>0, <1>1, <2>1, <2>2, <2>3, <2>4
    DEF TerminalInv, StoreKept, ActiveIsStored
  <2>6. QuestionsKept'  BY <1>1 DEF QuestionsKept
  <2>7. AnswersKept'  BY <1>1 DEF TerminalInv, AnswersKept
  <2>8. PanelKept'  BY <1>1 DEF TerminalInv, PanelKept, Orderly
  <2> QED  BY <2>5, <2>6, <2>7, <2>8 DEF TerminalInv
<1>2. CASE Forgets(s, fails) /\ Closes /\ UNCHANGED <<active, stored, deleted, excused>>
  <2>1. QuestionsKept' /\ AnswersKept' /\ PanelKept'  BY <1>2, ClosedIsKept
  <2>2. recalled' \subseteq recalled  BY <1>2 DEF Forgets
  <2>3. StoreKept'
    BY <1>2, <2>2 DEF TerminalInv, StoreKept, Closes, ActiveIsStored, DeletedIsGone
  <2> QED  BY <2>1, <2>3 DEF TerminalInv
<1> QED  BY <1>1, <1>2 DEF FinishDelete

LEMMA AnsweredKept ==
  ASSUME TerminalInv, asked' = Nobody, toDelete' = Nobody,
         UNCHANGED <<screen, enabled, tasks, exchanges, lines, streams, current,
                     strayed, nudged>>,
         UNCHANGED storeVars, UNCHANGED approvalVars
  PROVE  TerminalInv'
<1>1. StoreKept'  BY StoreSame DEF TerminalInv
<1>2. QuestionsKept'  BY DEF QuestionsKept
<1>3. AnswersKept'  BY DEF TerminalInv, AnswersKept, approvalVars
<1>4. PanelKept'  BY DEF TerminalInv, PanelKept, Orderly, approvalVars
<1> QED  BY <1>1, <1>2, <1>3, <1>4 DEF TerminalInv

LEMMA ConfirmsKept == ASSUME TerminalInv, Confirms PROVE TerminalInv'
<1>1. CASE toDelete \in stored /\ \E fails \in BOOLEAN : FinishDelete(toDelete, fails)
  <2>1. PICK fails \in BOOLEAN : FinishDelete(toDelete, fails)  BY <1>1
  <2> QED  BY <2>1, <1>1, FinishKept DEF Confirms
<1>2. CASE toDelete \notin stored
  BY <1>2, AnsweredKept DEF Confirms, approvalVars
<1> QED  BY <1>1, <1>2 DEF Confirms

LEMMA DeclinesKept == ASSUME TerminalInv, Declines PROVE TerminalInv'
BY AnsweredKept DEF Declines, panelVars

-----------------------------------------------------------------------------
(* The commands.                                                           *)

(* A command changes the sessions only to make one or to switch to one,    *)
(* and asks about a session it has just found.                             *)
LEMMA CommandChanges ==
  ASSUME TerminalInv, screen = "open", NEW c, Command(c)
  PROVE  /\ stored \subseteq stored' /\ stored' \subseteq Sessions
         /\ active' \in stored' /\ stored' \cap deleted \subseteq stored \cap deleted
         /\ QuestionsKept'
         /\ offered' \subseteq offered
<1>0. /\ active \in stored /\ stored \subseteq Sessions
      /\ asked \in Sessions \cup {Nobody} /\ toDelete \in Sessions \cup {Nobody}
      /\ asked # Nobody => asked = toDelete
  BY DEF TerminalInv, StoreKept, QuestionsKept, ActiveIsStored
<1>1. CASE c.does = "show" /\ ShowsOnly
  BY <1>0, <1>1 DEF ShowsOnly, QuestionsKept
<1>2. CASE ClearsPanel /\ UNCHANGED <<asked, toDelete, active, stored>>
  BY <1>0, <1>2 DEF ClearsPanel, QuestionsKept
<1>3. CASE /\ \/ \E s \in Fresh : Creates(s) /\ stored' = stored \cup {s}
              \/ Fresh = {} /\ UNCHANGED <<active, stored>>
           /\ UNCHANGED <<asked, toDelete, offered>>
  BY <1>0, <1>3 DEF Creates, Fresh, QuestionsKept
<1>4. CASE active' = SwitchedTo(c.of) /\ UNCHANGED <<asked, toDelete, stored, offered>>
  BY <1>0, <1>4 DEF SwitchedTo, QuestionsKept
<1>5. CASE Asks(c.of) /\ UNCHANGED <<active, stored, offered>>
  <2>1. QuestionsKept'
    <3>1. CASE c.of \in stored /\ asked' = c.of /\ toDelete' = c.of
      BY <3>1, <1>0 DEF QuestionsKept
    <3>2. CASE UNCHANGED <<asked, toDelete>>  BY <3>2, <1>0 DEF QuestionsKept
    <3> QED  BY <3>1, <3>2, <1>5 DEF Asks, ApproveDelete
  <2> QED  BY <2>1, <1>0, <1>5
<1> QED  BY <1>1, <1>2, <1>3, <1>4, <1>5 DEF Command

(* The task that is taken up is no longer queued; when it was the only     *)
(* one, none is.                                                           *)
LEMMA TakesUp ==
  ASSUME TerminalInv, tasks # <<>>
  PROVE  /\ Head(tasks) \in Queueable(clicks)
         /\ Tail(tasks) \in Seq(Queueable(clicks))
         /\ nudged \/ (Tail(tasks) = <<>> /\ streams = {})
         /\ nudged \/ (Head(tasks).does = "say" => ~enabled)
<1>1. tasks \in Seq(Queueable(clicks)) /\ (nudged \/ Orderly)
  BY DEF TerminalInv, PanelKept
<1>2. /\ Head(tasks) \in Queueable(clicks) /\ Tail(tasks) \in Seq(Queueable(clicks))
      /\ Len(tasks) <= 1 => Tail(tasks) = <<>>
  BY <1>1, OneLess
<1> QED  BY <1>1, <1>2 DEF Orderly

LEMMA RunsKept == ASSUME TerminalInv, RunsCommand PROVE TerminalInv'
<1>0. screen = "open" /\ tasks # <<>> /\ Head(tasks).does \notin Openers
      /\ UNCHANGED <<recalled, deleted, excused, strayed, nudged, clicks, answers,
                     exchanges, lines>>
  BY DEF RunsCommand
<1>1. CASE Closes /\ UNCHANGED <<active, stored>>
  <2>1. QuestionsKept' /\ AnswersKept' /\ PanelKept'  BY <1>0, <1>1, ClosedIsKept
  <2>2. StoreKept'
    BY <1>0, <1>1 DEF TerminalInv, StoreKept, Closes, ActiveIsStored, DeletedIsGone
  <2> QED  BY <2>1, <2>2 DEF TerminalInv
<1>2. CASE /\ Command(Head(tasks)) /\ tasks' = Tail(tasks) /\ enabled' = TRUE
           /\ UNCHANGED <<screen, streams, current, latest, waiting>>
  <2>1. /\ stored \subseteq stored' /\ stored' \subseteq Sessions
        /\ active' \in stored' /\ stored' \cap deleted \subseteq stored \cap deleted
        /\ QuestionsKept'
        /\ offered' \subseteq offered
    BY <1>0, <1>2, CommandChanges
  <2>2. StoreKept'
    BY <1>0, <1>2, <2>1
    DEF TerminalInv, StoreKept, ActiveIsStored, DeletedIsGone
  <2>3. AnswersKept'  BY <1>0, <1>2, <2>1 DEF TerminalInv, AnswersKept
  <2>4. /\ Tail(tasks) \in Seq(Queueable(clicks))
        /\ nudged \/ (Tail(tasks) = <<>> /\ streams = {})
    BY <1>0, TakesUp
  <2>5. nudged' \/ Orderly'
    <3>1. CASE nudged  BY <3>1, <1>0
    <3>2. CASE ~nudged
      <4>1. tasks' = <<>> /\ streams' = {} /\ Len(tasks') = 0
        BY <3>2, <2>4, <1>2, NoTasks
      <4>2. strayed' = {}  BY <3>2, <1>0 DEF TerminalInv, PanelKept, Orderly
      <4> QED  BY <4>1, <4>2 DEF Orderly
    <3> QED  BY <3>1, <3>2
  <2>6. PanelKept'
    BY <1>0, <1>2, <2>4, <2>5 DEF TerminalInv, PanelKept
  <2> QED  BY <2>1, <2>2, <2>3, <2>6 DEF TerminalInv
<1> QED  BY <1>1, <1>2 DEF RunsCommand

-----------------------------------------------------------------------------
(* The answers.                                                            *)

(* An answer begins for the session on the screen, which is not deleted    *)
(* unless excused.                                                         *)
LEMMA AnswerBegins ==
  ASSUME TerminalInv, screen = "open", tasks # <<>>, Head(tasks).does \in Openers,
         NEW r \in BOOLEAN,
         tasks' = Tail(tasks), clicks' = clicks, enabled' \in BOOLEAN,
         nudged \/ ~enabled',
         streams' = streams \cup {[id |-> Head(tasks).id, session |-> active,
                                   started |-> FALSE, items |-> 0, resumes |-> r]},
         UNCHANGED <<screen, asked, toDelete, exchanges, lines, current, strayed,
                     nudged>>,
         UNCHANGED storeVars
  PROVE  StoreKept' /\ QuestionsKept' /\ PanelKept'
<1> DEFINE x == [id |-> Head(tasks).id, session |-> active,
                 started |-> FALSE, items |-> 0, resumes |-> r]
<1>1. /\ Head(tasks) \in Queueable(clicks) /\ Tail(tasks) \in Seq(Queueable(clicks))
      /\ nudged \/ (Tail(tasks) = <<>> /\ streams = {})
  BY TakesUp
<1>2. Head(tasks).id \in Exchanges  BY <1>1 DEF Queueable
<1>3. active \in Sessions  BY DEF TerminalInv, StoreKept
<1>4. x \in StreamRecords
  BY <1>2, <1>3, SessionsAssumption DEF StreamRecords
<1>5. x.session = active /\ ~x.started  OBVIOUS
<1> HIDE DEF x
<1>6. streams' = streams \cup {x}  BY DEF x
<1>7. active \in deleted => active \in excused
  BY DEF TerminalInv, StoreKept, ActiveIsStored, DeletedIsGone
<1>8. \A y \in streams' : y.session \in deleted => y.session \in excused
  BY <1>5, <1>6, <1>7 DEF TerminalInv, StoreKept
<1>9. StoreKept'
  BY <1>8 DEF TerminalInv, StoreKept, storeVars, ActiveIsStored, DeletedIsGone
<1>10. QuestionsKept'  BY DEF TerminalInv, QuestionsKept
<1>11. nudged' \/ Orderly'
  <2>1. CASE nudged  BY <2>1
  <2>2. CASE ~nudged
    <3>1. tasks' = <<>> /\ Len(tasks') = 0  BY <2>2, <1>1, NoTasks
    <3>2. streams' = {x}  BY <2>2, <1>1, <1>6
    <3>3. strayed' = {} /\ ~enabled'  BY <2>2 DEF TerminalInv, PanelKept, Orderly
    <3>4. \A y \in streams' : y = x  BY <3>2
    <3>5. \A y, z \in streams' : y = z  BY <3>4
    <3>6. \A y \in streams' : ~y.started  BY <3>4, <1>5
    <3> QED  BY <3>1, <3>3, <3>5, <3>6 DEF Orderly
  <2> QED  BY <2>1, <2>2
<1>12. streams' \subseteq StreamRecords
  BY <1>4, <1>6 DEF TerminalInv, PanelKept
<1>13. tasks' \in Seq(Queueable(clicks'))  BY <1>1
<1>14. PanelKept'
  BY <1>11, <1>12, <1>13 DEF TerminalInv, PanelKept
<1> QED  BY <1>9, <1>10, <1>14

LEMMA MessageKept == ASSUME TerminalInv, StartsMessage PROVE TerminalInv'
<1>1. screen = "open" /\ tasks # <<>> /\ Head(tasks).does = "say"
  BY DEF StartsMessage
<1>2. Head(tasks).does \in Openers /\ tasks' = Tail(tasks) /\ clicks' = clicks
  BY <1>1 DEF StartsMessage, approvalVars, Openers
<1>3. enabled' = enabled /\ enabled \in BOOLEAN
  BY DEF StartsMessage, TerminalInv, PanelKept
<1>4. nudged \/ ~enabled'  BY <1>1, <1>3, TakesUp
<1>5. streams' = streams \cup {[id |-> Head(tasks).id, session |-> active,
                                started |-> FALSE, items |-> 0, resumes |-> FALSE]}
  BY DEF StartsMessage
<1>6. /\ UNCHANGED <<screen, asked, toDelete, exchanges, lines, current, strayed,
                     nudged>>
      /\ UNCHANGED storeVars
  BY DEF StartsMessage
<1>7. enabled' \in BOOLEAN  BY <1>3
<1>8. StoreKept' /\ QuestionsKept' /\ PanelKept'
  BY <1>1, <1>2, <1>4, <1>5, <1>6, <1>7, AnswerBegins
<1>9. AnswersKept'
  BY DEF TerminalInv, StartsMessage, AnswersKept, approvalVars
<1> QED  BY <1>8, <1>9 DEF TerminalInv

LEMMA ResumeKept == ASSUME TerminalInv, StartsResume PROVE TerminalInv'
<1>1. /\ Head(tasks).does \in Openers /\ Head(tasks).does \in Buttons
      /\ enabled' \in BOOLEAN /\ ~enabled' /\ clicks' = clicks
      /\ screen = "open" /\ tasks # <<>>
  BY DEF StartsResume, Openers, Buttons
<1>2. StoreKept' /\ QuestionsKept' /\ PanelKept'
  BY <1>1, AnswerBegins DEF StartsResume
<1>3. <<Head(tasks).of, Head(tasks).does>> \in clicks
  BY <1>1, TakesUp DEF Queueable
<1>4. answers' \subseteq clicks' /\ waiting' \subseteq waiting
  <2>1. CASE Takes(Head(tasks).of)
    BY <2>1, <1>1, <1>3 DEF Takes, StartsResume, TerminalInv, AnswersKept
  <2>2. CASE ~Takes(Head(tasks).of)
    BY <2>2, <1>1 DEF StartsResume, TerminalInv, AnswersKept
  <2> QED  BY <2>1, <2>2
<1>5. AnswersKept'
  BY <1>1, <1>4 DEF TerminalInv, StartsResume, AnswersKept
<1> QED  BY <1>2, <1>5 DEF TerminalInv

(* The buttons of an approval.                                             *)
LEMMA ButtonKept ==
  ASSUME TerminalInv, NEW n \in offered, NEW d \in Buttons, PressesButton(n, d)
  PROVE  TerminalInv'
<1> DEFINE t == [does |-> d, of |-> n, id |-> exchanges + 1]
           q == Append(tasks, t)
<1>0. /\ tasks \in Seq(Queueable(clicks)) /\ nudged \in BOOLEAN
      /\ exchanges \in Nat /\ lines \in Nat /\ exchanges + lines < MaxInputs
      /\ offered \subseteq Exchanges
  BY DEF TerminalInv, PanelKept, AnswersKept, PressesButton, MoreInput
<1>1. exchanges + 1 \in Exchanges /\ exchanges + 1 + lines <= MaxInputs
  BY <1>0, SessionsAssumption DEF Exchanges
<1>2. clicks \subseteq clicks' /\ <<n, d>> \in clicks' /\ tasks' = q
  BY DEF PressesButton
<1>3. t \in Queueable(clicks') /\ t.does # "say"
  BY <1>0, <1>1, <1>2 DEF Queueable, TaskShapes, Openers, Buttons
<1>4. /\ q \in Seq(Queueable(clicks')) /\ q # <<>>
      /\ tasks = <<>> => Len(q) <= 1 /\ Head(q) = t
  BY <1>0, <1>2, <1>3, Queues
<1>5. StoreKept'  BY StoreSame DEF TerminalInv, PressesButton
<1>6. QuestionsKept'  BY DEF TerminalInv, PressesButton, QuestionsKept
<1>7. AnswersKept'
  BY <1>0 DEF TerminalInv, PressesButton, AnswersKept, Buttons
<1> HIDE DEF q, t
<1>8. nudged' = (nudged \/ Busy)
      /\ UNCHANGED <<enabled, streams, current, strayed>>
  BY DEF PressesButton
<1>9. nudged' \/ Orderly'
  <2>1. CASE nudged \/ Busy  BY <2>1, <1>8
  <2>2. CASE ~nudged /\ ~Busy
    <3>1. Orderly /\ tasks = <<>> /\ streams = {}
      BY <2>2 DEF TerminalInv, PanelKept, Busy
    <3>2. streams' = {} /\ strayed' = {}  BY <3>1, <1>8 DEF Orderly
    <3>3. Len(q) <= 1 /\ q # <<>> /\ Head(q) = t  BY <3>1, <1>4
    <3>4. Head(q).does # "say"  BY <3>3, <1>3
    <3>5. Len(tasks') <= 1 /\ tasks' # <<>> /\ Head(tasks').does # "say"
      BY <3>3, <3>4, <1>2
    <3> QED  BY <3>2, <3>5 DEF Orderly
  <2> QED  BY <2>1, <2>2
<1>10. nudged' \in BOOLEAN  BY <1>0, <1>8
<1>11. exchanges' = exchanges + 1 /\ lines' = lines  BY DEF PressesButton
<1>12. PanelKept'
  BY <1>0, <1>1, <1>2, <1>4, <1>8, <1>9, <1>10, <1>11 DEF TerminalInv, PanelKept
<1> QED  BY <1>5, <1>6, <1>7, <1>12 DEF TerminalInv

(* An item of the stream.                                                  *)
LEMMA ConsumesKept ==
  ASSUME TerminalInv, NEW x \in streams, Consumes(x) PROVE TerminalInv'
<1>1. /\ x \in StreamRecords /\ streams \subseteq StreamRecords
      /\ current \in Exchanges \cup {0} /\ strayed \subseteq Exchanges
  BY DEF TerminalInv, PanelKept
<1>2. PICK y \in StreamRecords :
        /\ streams' = (streams \ {x}) \cup {y}
        /\ y.session = x.session /\ y.id = x.id
        /\ current' \in Exchanges \cup {0} /\ strayed' \subseteq Exchanges
        /\ nudged \/ (strayed' = {} /\ (y.started => current' = y.id))
  <2>1. x.items + 1 \in 0..MaxItems
    BY <1>1, SessionsAssumption DEF Consumes, StreamRecords
  <2>2. CASE Token(x)
    <3> DEFINE y == [x EXCEPT !.started = TRUE, !.items = @ + 1]
    <3>1. y \in StreamRecords /\ y.session = x.session /\ y.id = x.id
      BY <1>1, <2>1 DEF StreamRecords
    <3>2. x.id \in Exchanges  BY <1>1 DEF StreamRecords
    <3>3. /\ streams' = (streams \ {x}) \cup {y}
          /\ current' = IF x.started THEN current ELSE x.id
          /\ strayed' = IF current' = x.id THEN strayed ELSE strayed \cup {x.id}
      BY <2>2 DEF Token
    <3>4. nudged \/ (strayed = {} /\ (x.started => current = x.id))
      BY DEF TerminalInv, PanelKept, Orderly
    <3> HIDE DEF y
    <3>5. nudged \/ (current' = x.id /\ strayed' = {})  BY <3>3, <3>4
    <3>6. current' \in Exchanges \cup {0} /\ strayed' \subseteq Exchanges
      BY <1>1, <3>2, <3>3
    <3> QED  BY <3>1, <3>3, <3>5, <3>6
  <2>3. CASE OtherItem(x)
    <3> DEFINE y == [x EXCEPT !.items = @ + 1]
    <3>1. /\ y \in StreamRecords /\ y.session = x.session /\ y.id = x.id
          /\ y.started = x.started
      BY <1>1, <2>1 DEF StreamRecords
    <3>2. streams' = (streams \ {x}) \cup {y} /\ current' = current /\ strayed' = strayed
      BY <2>3 DEF OtherItem
    <3>3. nudged \/ (strayed = {} /\ (x.started => current = x.id))
      BY DEF TerminalInv, PanelKept, Orderly
    <3> HIDE DEF y
    <3> QED  BY <1>1, <3>1, <3>2, <3>3
  <2> QED  BY <2>2, <2>3 DEF Consumes
<1>3. /\ UNCHANGED <<screen, asked, toDelete, enabled, tasks, exchanges, lines, nudged>>
      /\ UNCHANGED storeVars /\ UNCHANGED approvalVars
  BY DEF Consumes
<1>4. StoreKept'
  <2>1. \A z \in streams' : \E v \in streams : z.session = v.session  BY <1>2
  <2> QED  BY <1>3, <2>1, StoreSame DEF TerminalInv
<1>5. QuestionsKept'  BY <1>3 DEF TerminalInv, QuestionsKept
<1>6. AnswersKept'  BY <1>3 DEF TerminalInv, AnswersKept, approvalVars
<1>7. nudged' \/ Orderly'
  <2>1. CASE nudged  BY <2>1, <1>3
  <2>2. CASE ~nudged
    <3>1. Orderly  BY <2>2 DEF TerminalInv, PanelKept
    <3>2. streams' = {y} /\ tasks = <<>> /\ ~enabled /\ Len(tasks) <= 1
      BY <1>2, <3>1 DEF Orderly
    <3>3. \A z \in streams' : z = y  BY <3>2
    <3>4. \A z, v \in streams' : z = v  BY <3>3
    <3>5. strayed' = {} /\ (y.started => current' = y.id)  BY <2>2, <1>2
    <3>6. \A z \in streams' : z.started => current' = z.id  BY <3>3, <3>5
    <3>7. tasks' = <<>> /\ ~enabled' /\ Len(tasks') <= 1  BY <3>2, <1>3
    <3> QED  BY <3>4, <3>5, <3>6, <3>7 DEF Orderly
  <2> QED  BY <2>1, <2>2
<1>8. PanelKept'
  BY <1>1, <1>2, <1>3, <1>7 DEF TerminalInv, PanelKept, approvalVars
<1> QED  BY <1>4, <1>5, <1>6, <1>8 DEF TerminalInv

(* The end of an answer writes its session again; one that was deleted     *)
(* meanwhile is excused.                                                   *)
LEMMA EndsKept ==
  ASSUME TerminalInv, NEW x \in streams, EndsStream(x) PROVE TerminalInv'
<1>1. x.session \in Sessions /\ x.id \in Exchanges /\ streams \subseteq StreamRecords
  BY DEF TerminalInv, PanelKept, StreamRecords
<1>2. /\ streams' = streams \ {x} /\ current' = 0
      /\ stored' = stored \cup {x.session} /\ recalled' = recalled \cup {x.session}
      /\ UNCHANGED <<screen, active, asked, toDelete, tasks, exchanges, lines, deleted,
                     excused, strayed, nudged, clicks, answers>>
  BY DEF EndsStream
<1>3. StoreKept'
  <2>1. x.session \in deleted => x.session \in excused  BY DEF TerminalInv, StoreKept
  <2> QED
    BY <1>1, <1>2, <2>1 DEF TerminalInv, StoreKept, ActiveIsStored, DeletedIsGone
<1>4. QuestionsKept'  BY <1>2 DEF TerminalInv, QuestionsKept
<1>5. AnswersKept'
  <2>1. latest' \in [Sessions -> Exchanges \cup {0}]
    BY <1>1 DEF EndsStream, TerminalInv, AnswersKept
  <2>2. waiting' \subseteq Exchanges /\ offered' \subseteq Exchanges
    BY <1>1 DEF EndsStream, TerminalInv, AnswersKept
  <2> QED  BY <1>2, <2>1, <2>2 DEF TerminalInv, AnswersKept
<1>6. enabled' = TRUE  BY DEF EndsStream, Restores
<1>7. nudged' \/ Orderly'
  <2>1. CASE nudged  BY <2>1, <1>2
  <2>2. CASE ~nudged
    <3>1. Orderly  BY <2>2 DEF TerminalInv, PanelKept
    <3>2. streams' = {} /\ tasks' = <<>> /\ Len(tasks') <= 1 /\ strayed' = {}
      BY <1>2, <3>1 DEF Orderly
    <3> QED  BY <3>2 DEF Orderly
  <2> QED  BY <2>1, <2>2
<1>8. PanelKept'
  BY <1>1, <1>2, <1>6, <1>7 DEF TerminalInv, PanelKept
<1> QED  BY <1>3, <1>4, <1>5, <1>8 DEF TerminalInv

LEMMA TerminalStarts == TerminalInit => TerminalInv
<1> SUFFICES ASSUME TerminalInit PROVE TerminalInv  OBVIOUS
<1>1. StoreKept
  BY SessionsAssumption
  DEF TerminalInit, StoreKept, ActiveIsStored, DeletedIsGone
<1>2. QuestionsKept  BY DEF TerminalInit, QuestionsKept
<1>3. AnswersKept  BY DEF TerminalInit, AnswersKept
<1>4. tasks = <<>> /\ tasks \in Seq(Queueable(clicks)) /\ Len(tasks) = 0
  BY NoTasks DEF TerminalInit
<1>5. Orderly  BY <1>4 DEF TerminalInit, Orderly
<1>6. enabled \in BOOLEAN /\ nudged \in BOOLEAN  BY DEF TerminalInit
<1>7. exchanges \in Nat /\ lines \in Nat /\ exchanges + lines <= MaxInputs
  BY SessionsAssumption DEF TerminalInit
<1>8. streams = {} /\ current = 0 /\ strayed = {}  BY DEF TerminalInit
<1>9. PanelKept  BY <1>4, <1>5, <1>6, <1>7, <1>8 DEF PanelKept
<1> QED  BY <1>1, <1>2, <1>3, <1>9 DEF TerminalInv

LEMMA TerminalStep == TerminalInv /\ [TerminalNext]_terminalVars => TerminalInv'
<1> SUFFICES ASSUME TerminalInv, [TerminalNext]_terminalVars PROVE TerminalInv'
  OBVIOUS
<1>1. CASE Says  BY <1>1, SaysKept
<1>2. CASE PressesHelp  BY <1>2, HelpKept
<1>3. CASE PressesClear  BY <1>3, ClearKept
<1>4. CASE PressesQuit  BY <1>4, QuitKept
<1>5. CASE Confirms  BY <1>5, ConfirmsKept
<1>6. CASE Declines  BY <1>6, DeclinesKept
<1>7. CASE RunsCommand  BY <1>7, RunsKept
<1>8. CASE StartsMessage  BY <1>8, MessageKept
<1>9. CASE StartsResume  BY <1>9, ResumeKept
<1>10. CASE \E c \in ShellLines : Types(c)  BY <1>10, TypesKept
<1>11. CASE \E n \in offered, d \in {"allow", "deny"} : PressesButton(n, d)
  BY <1>11, ButtonKept DEF Buttons
<1>12. CASE \E x \in streams : Consumes(x) \/ EndsStream(x)
  BY <1>12, ConsumesKept, EndsKept
<1>13. CASE UNCHANGED terminalVars
  <2>1. UNCHANGED storeVars /\ UNCHANGED panelVars /\ UNCHANGED approvalVars
        /\ UNCHANGED <<screen, asked, toDelete, enabled, tasks, exchanges, lines>>
    BY <1>13 DEF terminalVars, storeVars, panelVars, approvalVars
  <2>2. StoreKept'  BY <2>1, StoreSame DEF TerminalInv, panelVars
  <2>3. QuestionsKept'  BY <2>1 DEF TerminalInv, QuestionsKept
  <2>4. AnswersKept'  BY <2>1 DEF TerminalInv, AnswersKept, approvalVars
  <2>5. PanelKept'
    BY <2>1 DEF TerminalInv, PanelKept, Orderly, panelVars, approvalVars
  <2> QED  BY <2>2, <2>3, <2>4, <2>5 DEF TerminalInv
<1> QED
  BY <1>1, <1>2, <1>3, <1>4, <1>5, <1>6, <1>7, <1>8, <1>9, <1>10, <1>11, <1>12,
     <1>13
  DEF TerminalNext

(* Sessions go by the answer to a question about them: every other step    *)
(* keeps what is stored.                                                   *)
LEMMA RemovesTheAsked ==
  TerminalInv /\ [TerminalNext]_terminalVars
    => [\A s \in stored \ stored' : asked = s]_terminalVars
<1> SUFFICES ASSUME TerminalInv, TerminalNext, NEW s \in stored \ stored'
             PROVE  asked = s
  OBVIOUS
<1>1. CASE Confirms
  <2>1. asked # Nobody /\ stored' # stored  BY <1>1 DEF Confirms
  <2>2. asked = toDelete  BY <2>1 DEF TerminalInv, QuestionsKept
  <2>3. PICK fails \in BOOLEAN : FinishDelete(toDelete, fails)
    BY <1>1, <2>1 DEF Confirms, storeVars
  <2>4. stored \ stored' \subseteq {toDelete}  BY <2>3 DEF FinishDelete
  <2> QED  BY <2>2, <2>4
<1>2. CASE RunsCommand
  <2>1. screen = "open" /\ (stored' = stored \/ Command(Head(tasks)))
    BY <1>2 DEF RunsCommand
  <2> QED  BY <2>1, CommandChanges
<1>3. CASE \E x \in streams : EndsStream(x)  BY <1>3 DEF EndsStream
<1>4. CASE UNCHANGED storeVars  BY <1>4 DEF storeVars
<1> QED
  BY <1>1, <1>2, <1>3, <1>4
  DEF TerminalNext, Says, PressesHelp, PressesClear, PressesQuit, Declines,
      StartsMessage, StartsResume, Types, PressesButton, Consumes

(* What every state of the terminal satisfies, for any number of sessions, *)
(* messages, commands and buttons.                                         *)
THEOREM TerminalInvariance == TerminalInit /\ [][TerminalNext]_terminalVars => []TerminalInv
BY TerminalStarts, TerminalStep, PTL

(* The session on the screen exists, an answer goes where it was pressed,  *)
(* tokens stay with their answer, and only the session that was asked      *)
(* about is deleted, wholly (MainScreen, CommandRouter.confirm_delete).    *)
THEOREM TerminalIsSafe == TerminalInit /\ [][TerminalNext]_terminalVars => TerminalSafe
<1>1. TerminalInv => /\ TerminalTypeOK /\ ActiveIsStored /\ AnsweredAsPressed
                     /\ TokensStayTogether /\ DeletedIsGone
  <2> SUFFICES ASSUME TerminalInv
               PROVE  /\ TerminalTypeOK /\ ActiveIsStored /\ AnsweredAsPressed
                      /\ TokensStayTogether /\ DeletedIsGone
    OBVIOUS
  <2>1. \A i \in DOMAIN tasks : tasks[i].id \in Exchanges \cup {0}
    <3>1. tasks \in Seq(TaskShapes)
      <4>1. Queueable(clicks) \subseteq TaskShapes  BY DEF Queueable
      <4> QED  BY <4>1, SeqGrows DEF TerminalInv, PanelKept
    <3>2. \A i \in DOMAIN tasks : tasks[i] \in TaskShapes  BY <3>1
    <3> QED  BY <3>2 DEF TaskShapes
  <2>2. exchanges \in 0..MaxInputs /\ lines \in 0..MaxInputs
    BY SessionsAssumption DEF TerminalInv, PanelKept
  <2>3. TerminalTypeOK
    BY <2>1, <2>2
    DEF TerminalInv, StoreKept, QuestionsKept, AnswersKept, PanelKept, Buttons,
        TerminalTypeOK
  <2>4. AnsweredAsPressed  BY DEF TerminalInv, AnswersKept, AnsweredAsPressed
  <2>5. TokensStayTogether
    BY DEF TerminalInv, PanelKept, Orderly, TokensStayTogether
  <2> QED  BY <2>3, <2>4, <2>5 DEF TerminalInv, StoreKept
<1>2. TerminalInv /\ [TerminalNext]_terminalVars
        => [\A s \in stored \ stored' : asked = s]_terminalVars
  BY RemovesTheAsked
<1> QED
  BY <1>1, <1>2, TerminalInvariance, PTL DEF TerminalSafe, DeletesOnlyTheAsked

-----------------------------------------------------------------------------
(* The file tools, for any tree, root, protected paths, links and texts: no  *)
(* operation reaches what lies outside the root, and none loses a text or a  *)
(* protected path but where it was asked to.                                 *)

(* Paths                                                                     *)

Paths == Seq(STRING)

(* A prefix agrees with the path as far as it goes.                          *)
LEMMA PrefixIs ==
  ASSUME NEW p \in Paths, NEW q \in Paths
  PROVE  IsPrefix(p, q) <=> /\ Len(p) <= Len(q)
                            /\ \A i \in 1..Len(p) : p[i] = q[i]
<1>1. ASSUME Len(p) <= Len(q)
      PROVE  SubSeq(p, 1, Len(p)) = SubSeq(q, 1, Len(p)) <=> \A i \in 1..Len(p) : p[i] = q[i]
  <2>1. PICK n \in Nat : n = Len(p) /\ n <= Len(q)  BY <1>1 DEF Paths
  <2>2. PICK a \in Paths : a = SubSeq(p, 1, n) /\ Len(a) = n /\ \A i \in 1..n : a[i] = p[i]
    BY <2>1 DEF Paths
  <2>3. PICK b \in Paths : b = SubSeq(q, 1, n) /\ Len(b) = n /\ \A i \in 1..n : b[i] = q[i]
    <3>1. n \in Nat /\ n <= Len(q) /\ q \in Seq(STRING)  BY <2>1 DEF Paths
    <3>2. SubSeq(q, 1, n) \in Seq(STRING) /\ Len(SubSeq(q, 1, n)) = n  BY <3>1
    <3>3. \A i \in 1..n : SubSeq(q, 1, n)[i] = q[i]  BY <3>1
    <3> QED  BY <3>2, <3>3 DEF Paths
  <2>4. a = b <=> \A i \in 1..n : a[i] = b[i]  BY <2>2, <2>3 DEF Paths
  <2> QED  BY <2>1, <2>2, <2>3, <2>4
<1> QED  BY <1>1 DEF IsPrefix

LEMMA SamePath ==
  ASSUME NEW p \in Paths, NEW q \in Paths, Len(p) = Len(q), \A i \in 1..Len(p) : p[i] = q[i]
  PROVE  p = q
BY DEF Paths

(* The prefixes of a path are ordered, one below the other.                  *)
LEMMA PrefixOrder ==
  ASSUME NEW p \in Paths, NEW q \in Paths
  PROVE  /\ IsPrefix(p, p)
         /\ IsPrefix(p, q) /\ IsPrefix(q, p) => p = q
         /\ \A r \in Paths : IsPrefix(p, q) /\ IsPrefix(q, r) => IsPrefix(p, r)
         /\ \A r \in Paths : IsPrefix(p, r) /\ IsPrefix(q, r) => IsPrefix(p, q) \/ IsPrefix(q, p)
<1>1. Len(p) \in Nat /\ Len(q) \in Nat /\ \A r \in Paths : Len(r) \in Nat  BY DEF Paths
<1>2. IsPrefix(p, p)  BY <1>1, PrefixIs
<1>3. ASSUME IsPrefix(p, q), IsPrefix(q, p) PROVE p = q
  <2>1. Len(p) = Len(q) /\ \A i \in 1..Len(p) : p[i] = q[i]  BY <1>1, <1>3, PrefixIs
  <2> QED  BY <2>1 DEF Paths
<1>4. ASSUME NEW r \in Paths, IsPrefix(p, q), IsPrefix(q, r) PROVE IsPrefix(p, r)
  <2>1. /\ Len(p) <= Len(q) /\ \A i \in 1..Len(p) : p[i] = q[i]
        /\ Len(q) <= Len(r) /\ \A i \in 1..Len(q) : q[i] = r[i]  BY <1>4, PrefixIs
  <2>2. \A i \in 1..Len(p) : i \in 1..Len(q)  BY <1>1, <2>1
  <2>3. Len(p) <= Len(r)  BY <1>1, <2>1
  <2>4. \A i \in 1..Len(p) : p[i] = r[i]  BY <2>1, <2>2
  <2> QED  BY <2>3, <2>4, PrefixIs
<1>5. ASSUME NEW r \in Paths, IsPrefix(p, r), IsPrefix(q, r)
      PROVE  IsPrefix(p, q) \/ IsPrefix(q, p)
  <2>1. /\ \A i \in 1..Len(p) : p[i] = r[i]
        /\ \A i \in 1..Len(q) : q[i] = r[i]  BY <1>5, PrefixIs
  <2>2. CASE Len(p) <= Len(q)
    <3>1. \A i \in 1..Len(p) : i \in 1..Len(q)  BY <1>1, <2>2
    <3>2. \A i \in 1..Len(p) : p[i] = q[i]  BY <2>1, <3>1
    <3> QED  BY <2>2, <3>2, PrefixIs
  <2>3. CASE Len(q) <= Len(p)
    <3>1. \A i \in 1..Len(q) : i \in 1..Len(p)  BY <1>1, <2>3
    <3>2. \A i \in 1..Len(q) : q[i] = p[i]  BY <2>1, <3>1
    <3> QED  BY <2>3, <3>2, PrefixIs
  <2> QED  BY <1>1, <2>2, <2>3
<1> QED  BY <1>2, <1>3, <1>4, <1>5

(* The directories above a path are its proper prefixes.                     *)
LEMMA AncestorIs ==
  ASSUME NEW p \in Paths
  PROVE  /\ Ancestors(p) \subseteq Paths \ {<<>>}
         /\ \A q \in Paths \ {<<>>} : q \in Ancestors(p) <=> IsPrefix(q, p) /\ q # p
<1>1. Len(p) \in Nat  BY DEF Paths
<1>2. ASSUME NEW n \in 1..(Len(p) - 1)
      PROVE  /\ SubSeq(p, 1, n) \in Paths /\ Len(SubSeq(p, 1, n)) = n
             /\ SubSeq(p, 1, n) # <<>>
             /\ \A i \in 1..n : SubSeq(p, 1, n)[i] = p[i]
  <2>1. n \in Nat /\ n # 0 /\ n <= Len(p)  BY <1>1, <1>2
  <2>2. SubSeq(p, 1, n) \in Paths /\ Len(SubSeq(p, 1, n)) = n  BY <1>1, <2>1 DEF Paths
  <2>3. \A i \in 1..n : SubSeq(p, 1, n)[i] = p[i]  BY <1>1, <2>1 DEF Paths
  <2> QED  BY <2>1, <2>2, <2>3
<1>3. Ancestors(p) \subseteq Paths \ {<<>>}  BY <1>2 DEF Ancestors
<1>4. ASSUME NEW q \in Ancestors(p) PROVE IsPrefix(q, p) /\ q # p
  <2>1. PICK n \in 1..(Len(p) - 1) : q = SubSeq(p, 1, n)  BY <1>4 DEF Ancestors
  <2>2. q \in Paths /\ Len(q) = n /\ \A i \in 1..n : q[i] = p[i]  BY <1>2, <2>1
  <2>3. Len(q) <= Len(p) /\ Len(q) # Len(p)  BY <1>1, <2>1, <2>2
  <2>4. \A i \in 1..Len(q) : q[i] = p[i]  BY <2>2
  <2>5. IsPrefix(q, p)  BY <2>2, <2>3, <2>4, PrefixIs
  <2> QED  BY <2>3, <2>5
<1>5. ASSUME NEW q \in Paths \ {<<>>}, IsPrefix(q, p), q # p PROVE q \in Ancestors(p)
  <2>1. PICK n \in Nat : n = Len(q) /\ n # 0 /\ n <= Len(p) /\ \A i \in 1..n : q[i] = p[i]
    <3>1. Len(q) \in Nat /\ Len(q) # 0  BY <1>5 DEF Paths
    <3>2. Len(q) <= Len(p) /\ \A i \in 1..Len(q) : q[i] = p[i]  BY <1>5, PrefixIs
    <3> QED  BY <3>1, <3>2
  <2>2. n # Len(p)
    <3>1. ASSUME n = Len(p) PROVE FALSE
      <4>1. Len(q) = Len(p) /\ \A i \in 1..Len(p) : q[i] = p[i]  BY <2>1, <3>1
      <4>2. q = p  BY <4>1 DEF Paths
      <4> QED  BY <1>5, <4>2
    <3> QED  BY <3>1
  <2>3. n \in 1..(Len(p) - 1)  BY <1>1, <2>1, <2>2
  <2>4. q = SubSeq(p, 1, n)
    <3>1. PICK a \in Paths : a = SubSeq(p, 1, n) /\ Len(a) = n /\ \A i \in 1..n : a[i] = p[i]
      BY <1>2, <2>3
    <3>2. q \in Paths /\ Len(q) = Len(a) /\ \A i \in 1..Len(a) : q[i] = a[i]
      BY <1>5, <2>1, <3>1
    <3>3. q = a  BY <3>1, <3>2 DEF Paths
    <3> QED  BY <3>1, <3>3
  <2> QED  BY <2>3, <2>4 DEF Ancestors
<1> QED  BY <1>3, <1>4, <1>5

(* What lies at or below source goes to the same place at or below dest, and *)
(* back.                                                                     *)
Shifts(source, dest, q, r, m, n, k) ==
  /\ Len(dest) = m /\ Len(source) = n /\ Len(q) = n + k
  /\ r \in Paths /\ Len(r) = m + k
  /\ \A i \in 1..m : r[i] = dest[i]
  /\ \A i \in 1..k : r[m + i] = q[n + i]

LEMMA MovedIs ==
  ASSUME NEW source \in Paths, NEW dest \in Paths, NEW q \in Paths, IsPrefix(source, q)
  PROVE  \E m, n, k \in Nat : Shifts(source, dest, q, Moved(q, source, dest), m, n, k)
<1>1. PICK m \in Nat, n \in Nat, k \in Nat :
        m = Len(dest) /\ n = Len(source) /\ Len(q) = n + k
  <2>1. Len(source) <= Len(q)  BY PrefixIs
  <2>2. PICK m \in Nat, n \in Nat, l \in Nat : m = Len(dest) /\ n = Len(source) /\ l = Len(q)
    BY DEF Paths
  <2>3. l - n \in Nat /\ l = n + (l - n)  BY <2>1, <2>2
  <2> QED  BY <2>2, <2>3
<1>2. PICK t \in Paths : /\ t = SubSeq(q, n + 1, n + k) /\ Len(t) = k
                         /\ \A i \in 1..k : t[i] = q[n + i]
  <2>1. q \in Seq(STRING) /\ Len(q) = n + k /\ n + 1 \in Nat /\ n + k \in Nat
    BY <1>1 DEF Paths
  <2>2. SubSeq(q, n + 1, n + k) \in Seq(STRING)
    <3>1. \A i \in (n + 1)..(n + k) : q[i] \in STRING  BY <1>1, <2>1
    <3> QED  BY <2>1, <3>1
  <2>3. Len(SubSeq(q, n + 1, n + k)) = k  BY <1>1, <2>1
  <2>4. \A i \in 1..k : SubSeq(q, n + 1, n + k)[i] = q[n + i]  BY <1>1, <2>1
  <2> QED  BY <2>2, <2>3, <2>4 DEF Paths
<1>3. PICK r : r = dest \o t  OBVIOUS
<1>4. r = Moved(q, source, dest)  BY <1>1, <1>2, <1>3 DEF Moved
<1>5. r \in Paths /\ Len(r) = m + k  BY <1>1, <1>2, <1>3 DEF Paths
<1>6. \A i \in 1..m : r[i] = dest[i]  BY <1>1, <1>2, <1>3 DEF Paths
<1>7. \A i \in 1..k : r[m + i] = q[n + i]
  <2>1. \A i \in 1..k : r[m + i] = t[i]  BY <1>1, <1>2, <1>3 DEF Paths
  <2> QED  BY <1>2, <2>1
<1> QED  BY <1>1, <1>4, <1>5, <1>6, <1>7 DEF Shifts

LEMMA MovedThere ==
  ASSUME NEW source \in Paths, NEW dest \in Paths, NEW q \in Paths, IsPrefix(source, q)
  PROVE  /\ Moved(q, source, dest) \in Paths
         /\ dest # <<>> => Moved(q, source, dest) # <<>>
         /\ IsPrefix(dest, Moved(q, source, dest))
         /\ Moved(Moved(q, source, dest), dest, source) = q
         /\ q = source <=> Moved(q, source, dest) = dest
<1>1. PICK m, n, k \in Nat : Shifts(source, dest, q, Moved(q, source, dest), m, n, k)
  BY MovedIs
<1>2. PICK r \in Paths : /\ r = Moved(q, source, dest) /\ Len(r) = m + k
                         /\ Len(dest) = m /\ Len(source) = n /\ Len(q) = n + k
                         /\ \A i \in 1..m : r[i] = dest[i]
                         /\ \A i \in 1..k : r[m + i] = q[n + i]
  BY <1>1 DEF Shifts
<1>3. dest # <<>> => r # <<>>
  <2>1. ASSUME dest # <<>> PROVE m # 0  BY <1>2, <2>1 DEF Paths
  <2>2. ASSUME r = <<>> PROVE m = 0  BY <1>2, <2>2
  <2> QED  BY <2>1, <2>2
<1>4. IsPrefix(dest, r)
  <2>1. Len(dest) <= Len(r)  BY <1>2
  <2>2. \A i \in 1..Len(dest) : dest[i] = r[i]  BY <1>2
  <2> QED  BY <2>1, <2>2, PrefixIs
<1>5. PICK b \in Paths : /\ b = Moved(r, dest, source) /\ Len(b) = n + k
                         /\ \A i \in 1..n : b[i] = source[i]
                         /\ \A i \in 1..k : b[n + i] = r[m + i]
  <2>1. PICK x, y, z \in Nat : Shifts(dest, source, r, Moved(r, dest, source), x, y, z)
    BY <1>4, MovedIs
  <2>2. x = n /\ y = m /\ z = k  BY <1>2, <2>1 DEF Shifts
  <2> QED  BY <2>1, <2>2 DEF Shifts
<1>6. b = q
  <2>1. \A i \in 1..n : source[i] = q[i]  BY <1>2, PrefixIs
  <2>2. ASSUME NEW i \in 1..(n + k) PROVE b[i] = q[i]
    <3>1. CASE i <= n
      <4>1. i \in 1..n  BY <2>2, <3>1
      <4> QED  BY <1>5, <2>1, <4>1
    <3>2. CASE ~(i <= n)
      <4>1. PICK j \in 1..k : i = n + j
        <5>1. i - n \in 1..k /\ i = n + (i - n)  BY <2>2, <3>2
        <5> QED  BY <5>1
      <4> QED  BY <1>2, <1>5, <4>1
    <3> QED  BY <3>1, <3>2
  <2>3. Len(b) = Len(q) /\ \A i \in 1..Len(q) : b[i] = q[i]  BY <1>2, <1>5, <2>2
  <2> QED  BY <2>3, SamePath
<1>7. ASSUME q = source PROVE r = dest
  <2>1. k = 0  BY <1>2, <1>7
  <2>2. Len(r) = Len(dest) /\ \A i \in 1..Len(dest) : r[i] = dest[i]  BY <1>2, <2>1
  <2> QED  BY <2>2, SamePath
<1>8. ASSUME r = dest PROVE q = source
  <2>1. k = 0  BY <1>2, <1>8
  <2>2. \A i \in 1..n : source[i] = q[i]  BY <1>2, PrefixIs
  <2>3. Len(q) = Len(source) /\ \A i \in 1..Len(q) : q[i] = source[i]  BY <1>2, <2>1, <2>2
  <2> QED  BY <2>3, SamePath
<1> QED  BY <1>2, <1>3, <1>4, <1>5, <1>6, <1>7, <1>8

LEMMA MovedInOrder ==
  ASSUME NEW source \in Paths, NEW dest \in Paths, NEW p \in Paths, NEW q \in Paths,
         IsPrefix(source, p), IsPrefix(p, q)
  PROVE  IsPrefix(Moved(p, source, dest), Moved(q, source, dest))
<1>1. IsPrefix(source, q)  BY PrefixOrder
<1>2. PICK m, n, k \in Nat : Shifts(source, dest, p, Moved(p, source, dest), m, n, k)
  BY MovedIs
<1>3. PICK m1, n1, l \in Nat : Shifts(source, dest, q, Moved(q, source, dest), m1, n1, l)
  BY <1>1, MovedIs
<1>4. PICK r \in Paths, t \in Paths :
        /\ r = Moved(p, source, dest) /\ Len(r) = m + k
        /\ \A i \in 1..m : r[i] = dest[i]
        /\ \A i \in 1..k : r[m + i] = p[n + i]
        /\ t = Moved(q, source, dest) /\ Len(t) = m + l /\ Len(p) = n + k /\ Len(q) = n + l
        /\ \A i \in 1..m : t[i] = dest[i]
        /\ \A i \in 1..l : t[m + i] = q[n + i]
        /\ k <= l
  <2>1. m1 = m /\ n1 = n  BY <1>2, <1>3 DEF Shifts
  <2>2. Len(p) <= Len(q)  BY PrefixIs
  <2>3. k <= l  BY <1>2, <1>3, <2>1, <2>2 DEF Shifts
  <2> QED  BY <1>2, <1>3, <2>1, <2>3 DEF Shifts
<1>5. ASSUME NEW i \in 1..(m + k) PROVE r[i] = t[i]
  <2>1. CASE i <= m
    <3>1. i \in 1..m  BY <1>5, <2>1
    <3> QED  BY <1>4, <3>1
  <2>2. CASE ~(i <= m)
    <3>1. PICK j \in 1..k : i = m + j
      <4>1. i - m \in 1..k /\ i = m + (i - m)  BY <1>5, <2>2
      <4> QED  BY <4>1
    <3>2. j \in 1..l /\ n + j \in 1..Len(p)  BY <1>4, <3>1
    <3>3. p[n + j] = q[n + j]  BY <3>2, PrefixIs
    <3> QED  BY <1>4, <3>1, <3>2, <3>3
  <2> QED  BY <2>1, <2>2
<1>6. Len(r) <= Len(t) /\ \A i \in 1..Len(r) : r[i] = t[i]  BY <1>4, <1>5
<1> QED  BY <1>4, <1>6, PrefixIs

-----------------------------------------------------------------------------
(* Trees                                                                     *)

Nodes == {Absent, Dir} \cup {File(t) : t \in AllTexts} \cup {Link(q) : q \in LinkTargets}

(* A tree that hangs together, with the outside as it was and nothing of it  *)
(* inside.                                                                   *)
Sound(f) ==
  /\ f \in [Tree -> Nodes] /\ WellFormed(f)
  /\ \A p \in Tree : IF InScope(p) THEN f[p] # File(OutsideText) ELSE f[p] = OutsideNode(p)

LEMMA TreeIs ==
  /\ Tree \subseteq Paths \ {<<>>} /\ Root \in Tree
  /\ \A p \in Tree : Ancestors(p) \subseteq Tree
  /\ \A p \in Tree, q \in Paths \ {<<>>} : IsPrefix(q, p) => q \in Tree
<1>1. /\ Tree \subseteq Paths \ {<<>>} /\ Root \in Tree
      /\ \A p \in Tree : Ancestors(p) \subseteq Tree
  BY FilesAssumption DEF Paths
<1>2. ASSUME NEW p \in Tree, NEW q \in Paths \ {<<>>}, IsPrefix(q, p) PROVE q \in Tree
  BY <1>1, <1>2, AncestorIs
<1> QED  BY <1>1, <1>2

LEMMA KindIs ==
  /\ Absent.kind = "none" /\ Dir.kind = "dir"
  /\ \A t : File(t).kind = "file" /\ File(t).text = t
  /\ \A q : Link(q).kind = "link" /\ Link(q).to = q
  /\ \A p : OutsideNode(p).kind \in {"dir", "file"}
  /\ \A n \in Nodes : /\ n.kind = "none" <=> n = Absent
                      /\ n.kind = "dir" <=> n = Dir
                      /\ n.kind = "file" => n = File(n.text) /\ n.text \in AllTexts
                      /\ n.kind = "link" => n.to \in LinkTargets
<1>1. /\ Absent.kind = "none" /\ Dir.kind = "dir"
      /\ \A t : File(t).kind = "file" /\ File(t).text = t
      /\ \A q : Link(q).kind = "link" /\ Link(q).to = q
  BY DEF Absent, Dir, File, Link
<1>2. \A p : OutsideNode(p).kind \in {"dir", "file"}  BY <1>1 DEF OutsideNode
<1>3. ASSUME NEW n \in Nodes
      PROVE  /\ n.kind = "none" <=> n = Absent
             /\ n.kind = "dir" <=> n = Dir
             /\ n.kind = "file" => n = File(n.text) /\ n.text \in AllTexts
             /\ n.kind = "link" => n.to \in LinkTargets
  <2>1. CASE n \in {Absent, Dir}  BY <1>1, <2>1
  <2>2. CASE \E t \in AllTexts : n = File(t)  BY <1>1, <2>2
  <2>3. CASE \E q \in LinkTargets : n = Link(q)  BY <1>1, <2>3
  <2> QED  BY <2>1, <2>2, <2>3 DEF Nodes
<1> QED  BY <1>1, <1>2, <1>3

(* Above what exists there are directories.                                  *)
LEMMA AboveIsDir ==
  ASSUME NEW f, Sound(f), NEW p \in Tree, f[p] # Absent,
         NEW q \in Paths \ {<<>>}, IsPrefix(q, p), q # p
  PROVE  q \in Tree /\ f[q] = Dir
BY TreeIs, AncestorIs DEF Sound, WellFormed

(* Outside there is nothing absent, and no link.                             *)
LEMMA OutsideIs ==
  ASSUME NEW f, Sound(f), NEW p \in Tree, ~InScope(p)
  PROVE  f[p] = OutsideNode(p) /\ f[p] # Absent /\ f[p].kind # "link"
<1>1. f[p] = OutsideNode(p)  BY DEF Sound
<1> QED  BY <1>1, KindIs

(* What lies below a path in scope is in scope.                              *)
LEMMA ScopeGoesDown ==
  ASSUME NEW p \in Paths, NEW q \in Paths, InScope(p), IsPrefix(p, q)
  PROVE  InScope(q)
BY TreeIs, PrefixOrder DEF InScope

LEMMA ProtectionGoesDown ==
  ASSUME NEW p \in Paths, NEW q \in Paths, Protected \subseteq Paths,
         IsProtected(p), IsPrefix(p, q)
  PROVE  IsProtected(q)
BY PrefixOrder DEF IsProtected

(* Making the directories above a path.                                      *)
LEMMA ParentsMade ==
  ASSUME NEW f, Sound(f), NEW p \in Paths,
         \A q \in Ancestors(p) : q \in Tree => f[q] \in {Absent, Dir}
  PROVE  /\ Sound(WithParents(f, p))
         /\ \A q \in Tree : q \in Ancestors(p) => WithParents(f, p)[q] = Dir
         /\ \A q \in Tree : q \notin Ancestors(p) \/ f[q] # Absent
                              => WithParents(f, p)[q] = f[q]
<1>1. PICK g : g = WithParents(f, p)  OBVIOUS
<1>2. f \in [Tree -> Nodes] /\ Dir \in Nodes /\ Dir # Absent
  BY KindIs DEF Sound, Nodes
<1>3. g = [q \in Tree |-> IF q \in Ancestors(p) /\ f[q] = Absent THEN Dir ELSE f[q]]
  BY <1>1 DEF WithParents
<1>4. g \in [Tree -> Nodes]  BY <1>2, <1>3
<1>5. \A q \in Tree : q \in Ancestors(p) => g[q] = Dir  BY <1>3
<1>6. \A q \in Tree : q \notin Ancestors(p) \/ f[q] # Absent => g[q] = f[q]  BY <1>3
<1>7. ASSUME NEW q \in Tree, g[q] # Absent, NEW a \in Ancestors(q) PROVE g[a] = Dir
  <2>1. a \in Tree /\ a \in Paths \ {<<>>} /\ q \in Paths \ {<<>>} /\ IsPrefix(a, q) /\ a # q
    BY <1>7, TreeIs, AncestorIs
  <2>2. CASE f[q] # Absent
    <3>1. f[a] = Dir  BY <1>7, <2>2 DEF Sound, WellFormed
    <3> QED  BY <1>2, <1>6, <2>1, <3>1
  <2>3. CASE f[q] = Absent
    <3>1. q \in Ancestors(p)  BY <1>6, <1>7, <2>3
    <3>2. IsPrefix(q, p) /\ q # p  BY <2>1, <3>1, AncestorIs
    <3>3. IsPrefix(a, p) /\ a # p  BY <2>1, <3>2, PrefixOrder
    <3>4. a \in Ancestors(p)  BY <2>1, <3>3, AncestorIs
    <3> QED  BY <1>5, <2>1, <3>4
  <2> QED  BY <2>2, <2>3
<1>8. ASSUME NEW q \in Tree
      PROVE  IF InScope(q) THEN g[q] # File(OutsideText) ELSE g[q] = OutsideNode(q)
  <2>1. CASE InScope(q)
    <3>1. f[q] # File(OutsideText) /\ Dir # File(OutsideText)  BY <2>1, KindIs DEF Sound
    <3> QED  BY <1>3, <2>1, <3>1
  <2>2. CASE ~InScope(q)  BY <1>6, <2>2, OutsideIs
  <2> QED  BY <2>1, <2>2
<1>9. Sound(g)  BY <1>4, <1>7, <1>8 DEF Sound, WellFormed
<1> QED  BY <1>1, <1>5, <1>6, <1>9

(* Putting a file or a directory where there is none.                        *)
LEMMA NodePut ==
  ASSUME NEW f, Sound(f), NEW p \in Tree, InScope(p), f[p] # Dir,
         \A q \in Ancestors(p) : q \in Tree => f[q] \in {Absent, Dir},
         NEW n \in Nodes, n # File(OutsideText)
  PROVE  /\ Sound([WithParents(f, p) EXCEPT ![p] = n])
         /\ \A q \in Tree : q # p /\ (q \notin Ancestors(p) \/ f[q] # Absent)
                              => [WithParents(f, p) EXCEPT ![p] = n][q] = f[q]
<1>1. PICK g : g = WithParents(f, p)  OBVIOUS
<1>2. PICK h : h = [g EXCEPT ![p] = n]  OBVIOUS
<1>3. p \in Paths \ {<<>>}  BY TreeIs
<1>4. /\ Sound(g)
      /\ \A q \in Tree : q \in Ancestors(p) => g[q] = Dir
      /\ \A q \in Tree : q \notin Ancestors(p) \/ f[q] # Absent => g[q] = f[q]
  BY <1>1, <1>3, ParentsMade
<1>5. g \in [Tree -> Nodes]  BY <1>4 DEF Sound
<1>6. h \in [Tree -> Nodes] /\ h[p] = n /\ \A q \in Tree : q # p => h[q] = g[q]
  BY <1>2, <1>5
<1>7. ASSUME NEW q \in Tree, h[q] # Absent, NEW a \in Ancestors(q) PROVE h[a] = Dir
  <2>1. a \in Tree /\ a \in Paths \ {<<>>} /\ q \in Paths \ {<<>>} /\ IsPrefix(a, q) /\ a # q
    BY <1>7, TreeIs, AncestorIs
  <2>2. CASE q = p
    <3>1. a # p /\ g[a] = Dir  BY <1>4, <1>7, <2>1, <2>2
    <3> QED  BY <1>6, <2>1, <3>1
  <2>3. CASE q # p
    <3>1. g[q] # Absent  BY <1>6, <1>7, <2>3
    <3>2. g[a] = Dir  BY <1>4, <1>7, <3>1 DEF Sound, WellFormed
    <3>3. a # p
      <4>1. SUFFICES ASSUME a = p PROVE FALSE  OBVIOUS
      <4>2. p \notin Ancestors(p)  BY <1>3, AncestorIs
      <4>3. g[p] = f[p]  BY <1>4, <4>2
      <4> QED  BY <3>2, <4>1, <4>3
    <3> QED  BY <1>6, <2>1, <3>2, <3>3
  <2> QED  BY <2>2, <2>3
<1>8. ASSUME NEW q \in Tree
      PROVE  IF InScope(q) THEN h[q] # File(OutsideText) ELSE h[q] = OutsideNode(q)
  <2>1. CASE q = p  BY <1>6, <2>1
  <2>2. CASE q # p
    <3>1. h[q] = g[q]  BY <1>6, <2>2
    <3> QED  BY <1>4, <3>1 DEF Sound
  <2> QED  BY <2>1, <2>2
<1>9. Sound(h)  BY <1>6, <1>7, <1>8 DEF Sound, WellFormed
<1>10. \A q \in Tree : q # p /\ (q \notin Ancestors(p) \/ f[q] # Absent) => h[q] = f[q]
  BY <1>4, <1>6
<1> QED  BY <1>1, <1>2, <1>9, <1>10

(* Removing all at and below a path in scope.                                *)
Cut(f, p) == [q \in Tree |-> IF IsPrefix(p, q) THEN Absent ELSE f[q]]

LEMMA CutSound ==
  ASSUME NEW f, Sound(f), NEW p \in Paths, InScope(p)
  PROVE  Sound(Cut(f, p))
<1>1. PICK g : g = Cut(f, p)  OBVIOUS
<1>2. f \in [Tree -> Nodes] /\ Absent \in Nodes /\ Dir # Absent
  BY KindIs DEF Sound, Nodes
<1>3. /\ g \in [Tree -> Nodes]
      /\ \A q \in Tree : g[q] = IF IsPrefix(p, q) THEN Absent ELSE f[q]
  BY <1>1, <1>2 DEF Cut
<1>4. ASSUME NEW q \in Tree, g[q] # Absent, NEW a \in Ancestors(q) PROVE g[a] = Dir
  <2>1. a \in Tree /\ a \in Paths \ {<<>>} /\ q \in Paths \ {<<>>} /\ IsPrefix(a, q) /\ a # q
    BY <1>4, TreeIs, AncestorIs
  <2>2. ~IsPrefix(p, q) /\ f[q] # Absent  BY <1>3, <1>4
  <2>3. f[a] = Dir  BY <1>4, <2>2 DEF Sound, WellFormed
  <2>4. ~IsPrefix(p, a)  BY <2>1, <2>2, PrefixOrder
  <2> QED  BY <1>3, <2>1, <2>3, <2>4
<1>5. ASSUME NEW q \in Tree
      PROVE  IF InScope(q) THEN g[q] # File(OutsideText) ELSE g[q] = OutsideNode(q)
  <2>1. CASE IsPrefix(p, q)
    <3>1. InScope(q)  BY <2>1, TreeIs, ScopeGoesDown
    <3>2. Absent # File(OutsideText)  BY KindIs
    <3> QED  BY <1>3, <2>1, <3>1, <3>2
  <2>2. CASE ~IsPrefix(p, q)
    <3>1. g[q] = f[q]  BY <1>3, <2>2
    <3> QED  BY <3>1 DEF Sound
  <2> QED  BY <2>1, <2>2
<1>6. Sound(g)  BY <1>3, <1>4, <1>5 DEF Sound, WellFormed
<1> QED  BY <1>1, <1>6

(* Copying what exists at and below source to dest.                          *)
UnderIn(f, p) == {q \in Tree : IsPrefix(p, q) /\ f[q] # Absent}
LandsAt(f, source, dest, q) == \E s \in UnderIn(f, source) : Moved(s, source, dest) = q

OnTree(h) == h = [q \in Tree |-> h[q]]

LEMMA CopySound ==
  ASSUME NEW f, Sound(f), NEW source \in Tree, NEW dest \in Tree,
         InScope(source), InScope(dest),
         \A s \in UnderIn(f, source) : f[Moved(s, source, dest)] # Absent
            => (f[s] = Dir <=> f[Moved(s, source, dest)] = Dir),
         \A q \in Ancestors(dest) : q \in Tree => f[q] \in {Absent, Dir},
         NEW h, OnTree(h),
         \A s \in UnderIn(f, source) : h[Moved(s, source, dest)] = f[s],
         \A q \in Tree : ~LandsAt(f, source, dest, q) => h[q] = WithParents(f, dest)[q]
  PROVE  /\ Sound(h)
         /\ \A q \in Tree : ~LandsAt(f, source, dest, q) /\ (q \notin Ancestors(dest) \/ f[q] # Absent)
                              => h[q] = f[q]
<1>1. PICK g : g = WithParents(f, dest)  OBVIOUS
<1>2. source \in Paths \ {<<>>} /\ dest \in Paths \ {<<>>}  BY TreeIs
<1>3. /\ Sound(g)
      /\ \A q \in Tree : q \in Ancestors(dest) => g[q] = Dir
      /\ \A q \in Tree : q \notin Ancestors(dest) \/ f[q] # Absent => g[q] = f[q]
  BY <1>1, <1>2, ParentsMade
<1>4. f \in [Tree -> Nodes] /\ g \in [Tree -> Nodes] /\ Dir # Absent
  BY <1>3, KindIs DEF Sound
<1>5. \A q \in Tree : ~LandsAt(f, source, dest, q) => h[q] = g[q]  BY <1>1
<1>6. ASSUME NEW s \in UnderIn(f, source)
      PROVE  /\ s \in Tree /\ s \in Paths \ {<<>>} /\ IsPrefix(source, s) /\ f[s] # Absent
             /\ Moved(s, source, dest) \in Paths \ {<<>>}
             /\ IsPrefix(dest, Moved(s, source, dest))
             /\ Moved(Moved(s, source, dest), dest, source) = s
             /\ h[Moved(s, source, dest)] = f[s]
             /\ InScope(s)
  <2>1. s \in Tree /\ IsPrefix(source, s) /\ f[s] # Absent  BY DEF UnderIn
  <2>2. s \in Paths \ {<<>>}  BY <2>1, TreeIs
  <2>3. InScope(s)  BY <1>2, <2>1, <2>2, ScopeGoesDown
  <2>4. h[Moved(s, source, dest)] = f[s]  OBVIOUS
  <2>5. /\ Moved(s, source, dest) \in Paths \ {<<>>}
        /\ IsPrefix(dest, Moved(s, source, dest))
        /\ Moved(Moved(s, source, dest), dest, source) = s
    BY <1>2, <2>1, <2>2, MovedThere
  <2> QED  BY <2>1, <2>2, <2>3, <2>4, <2>5
<1>7. ASSUME NEW q \in Tree PROVE h[q] \in Nodes
  <2>1. CASE LandsAt(f, source, dest, q)
    <3>1. PICK s \in UnderIn(f, source) : q = Moved(s, source, dest)  BY <2>1 DEF LandsAt
    <3>2. h[q] = f[s] /\ s \in Tree  BY <1>6, <3>1
    <3> QED  BY <1>4, <3>2
  <2>2. CASE ~LandsAt(f, source, dest, q)  BY <1>4, <1>5, <2>2
  <2> QED  BY <2>1, <2>2
<1>8. ASSUME NEW q \in Tree, h[q] # Absent, NEW a \in Ancestors(q) PROVE h[a] = Dir
  <2>1. a \in Tree /\ a \in Paths \ {<<>>} /\ q \in Paths \ {<<>>} /\ IsPrefix(a, q) /\ a # q
    BY <1>8, TreeIs, AncestorIs
  <2>2. CASE LandsAt(f, source, dest, q)
    <3>1. PICK s \in UnderIn(f, source) : q = Moved(s, source, dest)  BY <2>2 DEF LandsAt
    <3>2. IsPrefix(dest, q)  BY <1>6, <3>1
    <3>3. CASE IsPrefix(dest, a)
      <4>1. PICK b \in Paths : b = Moved(a, dest, source) /\ b # <<>> /\ IsPrefix(source, b)
                               /\ Moved(b, source, dest) = a
        BY <1>2, <2>1, <3>3, MovedThere
      <4>2. IsPrefix(b, s)
        <5>1. IsPrefix(Moved(a, dest, source), Moved(q, dest, source))
          BY <1>2, <2>1, <3>3, MovedInOrder
        <5> QED  BY <1>6, <3>1, <4>1, <5>1
      <4>3. b # s  BY <2>1, <3>1, <4>1
      <4>4. b \in Tree /\ f[b] = Dir  BY <1>6, <4>1, <4>2, <4>3, AboveIsDir
      <4>5. b \in UnderIn(f, source)  BY <1>4, <4>1, <4>4 DEF UnderIn
      <4> QED  BY <4>1, <4>4, <4>5
    <3>4. CASE ~IsPrefix(dest, a)
      <4>1. IsPrefix(a, dest) /\ a # dest
        BY <1>2, <2>1, <3>2, <3>4, PrefixOrder
      <4>2. a \in Ancestors(dest)  BY <1>2, <2>1, <4>1, AncestorIs
      <4>3. ~LandsAt(f, source, dest, a)  BY <1>6, <3>4 DEF LandsAt
      <4> QED  BY <1>3, <1>5, <2>1, <4>2, <4>3
    <3> QED  BY <3>3, <3>4
  <2>3. CASE ~LandsAt(f, source, dest, q)
    <3>1. g[q] # Absent  BY <1>5, <1>8, <2>3
    <3>2. g[a] = Dir  BY <1>3, <1>8, <3>1 DEF Sound, WellFormed
    <3>3. CASE ~LandsAt(f, source, dest, a)  BY <1>5, <2>1, <3>2, <3>3
    <3>4. CASE LandsAt(f, source, dest, a)
      <4>1. PICK s \in UnderIn(f, source) : a = Moved(s, source, dest)  BY <3>4 DEF LandsAt
      <4>2. IsPrefix(dest, a)  BY <1>6, <4>1
      <4>3. a \notin Ancestors(dest)
        BY <1>2, <2>1, <4>2, AncestorIs, PrefixOrder
      <4>4. f[a] = Dir  BY <1>3, <2>1, <3>2, <4>3
      <4>5. f[s] = Dir  BY <1>4, <4>1, <4>4
      <4> QED  BY <1>6, <4>1, <4>5
    <3> QED  BY <3>3, <3>4
  <2> QED  BY <2>2, <2>3
<1>9. ASSUME NEW q \in Tree
      PROVE  IF InScope(q) THEN h[q] # File(OutsideText) ELSE h[q] = OutsideNode(q)
  <2>1. CASE LandsAt(f, source, dest, q)
    <3>1. PICK s \in UnderIn(f, source) : q = Moved(s, source, dest)  BY <2>1 DEF LandsAt
    <3>2. InScope(q)
      <4>1. q \in Paths /\ IsPrefix(dest, q)  BY <1>6, <3>1
      <4> QED  BY <1>2, <4>1, ScopeGoesDown
    <3>3. f[s] # File(OutsideText)  BY <1>6 DEF Sound
    <3> QED  BY <1>6, <3>1, <3>2, <3>3
  <2>2. CASE ~LandsAt(f, source, dest, q)
    <3>1. h[q] = g[q]  BY <1>5, <2>2
    <3> QED  BY <1>3, <3>1 DEF Sound
  <2> QED  BY <2>1, <2>2
<1>10. h \in [Tree -> Nodes]
  <2>1. h = [q \in Tree |-> h[q]]  BY DEF OnTree
  <2> QED  BY <1>7, <2>1
<1>11. Sound(h)  BY <1>8, <1>9, <1>10 DEF Sound, WellFormed
<1>12. \A q \in Tree : ~LandsAt(f, source, dest, q) /\ (q \notin Ancestors(dest) \/ f[q] # Absent)
                         => h[q] = f[q]
  BY <1>3, <1>5
<1> QED  BY <1>11, <1>12

(* Renaming source to dest, once what was at dest is gone.                   *)
Renamed(f, source, dest) ==
  LET made == WithParents(Cut(f, dest), dest)
  IN  [q \in Tree |->
         IF IsPrefix(dest, q) /\ Moved(q, dest, source) \in Tree
           THEN made[Moved(q, dest, source)]
         ELSE IF IsPrefix(source, q) THEN Absent ELSE made[q]]

LEMMA ClearedAndMade ==
  ASSUME NEW f, Sound(f), NEW dest \in Paths \ {<<>>}, InScope(dest),
         \A q \in Ancestors(dest) : q \in Tree => f[q] \in {Absent, Dir}
  PROVE  /\ Sound(WithParents(Cut(f, dest), dest))
         /\ \A q \in Tree : q \in Ancestors(dest) => WithParents(Cut(f, dest), dest)[q] = Dir
         /\ \A q \in Tree : IsPrefix(dest, q) => WithParents(Cut(f, dest), dest)[q] = Absent
         /\ \A q \in Tree : ~IsPrefix(dest, q) /\ (q \notin Ancestors(dest) \/ f[q] # Absent)
              => WithParents(Cut(f, dest), dest)[q] = f[q]
<1>1. PICK c : c = Cut(f, dest)  OBVIOUS
<1>2. Sound(c)  BY <1>1, CutSound
<1>3. \A q \in Tree : c[q] = IF IsPrefix(dest, q) THEN Absent ELSE f[q]  BY <1>1 DEF Cut
<1>4. \A q \in Ancestors(dest) : q \in Tree => c[q] \in {Absent, Dir}  BY <1>3
<1>5. PICK g : g = WithParents(c, dest)  OBVIOUS
<1>6. /\ Sound(g)
      /\ \A q \in Tree : q \in Ancestors(dest) => g[q] = Dir
      /\ \A q \in Tree : q \notin Ancestors(dest) \/ c[q] # Absent => g[q] = c[q]
  BY <1>2, <1>4, <1>5, ParentsMade
<1>7. ASSUME NEW q \in Tree, IsPrefix(dest, q) PROVE g[q] = Absent
  <2>1. q \in Paths \ {<<>>}  BY TreeIs
  <2>2. q \notin Ancestors(dest)  BY <1>7, <2>1, AncestorIs, PrefixOrder
  <2> QED  BY <1>3, <1>6, <1>7, <2>2
<1>8. \A q \in Tree : ~IsPrefix(dest, q) /\ (q \notin Ancestors(dest) \/ f[q] # Absent)
        => g[q] = f[q]
  BY <1>3, <1>6
<1> QED  BY <1>1, <1>5, <1>6, <1>7, <1>8

LEMMA RenameSound ==
  ASSUME NEW f, Sound(f), NEW source \in Tree, NEW dest \in Paths \ {<<>>},
         InScope(source), InScope(dest),
         ~IsPrefix(source, dest), ~IsPrefix(dest, source),
         \A q \in Ancestors(dest) : q \in Tree => f[q] \in {Absent, Dir}
  PROVE  /\ Sound(Renamed(f, source, dest))
         /\ \A q \in Tree : IsPrefix(source, q) =>
              /\ ~IsPrefix(dest, q) /\ Renamed(f, source, dest)[q] = Absent
              /\ Moved(q, source, dest) \in Tree
                   => Renamed(f, source, dest)[Moved(q, source, dest)] = f[q]
         /\ \A q \in Tree : /\ ~IsPrefix(source, q) /\ ~IsPrefix(dest, q)
                            /\ q \notin Ancestors(dest) \/ f[q] # Absent
              => Renamed(f, source, dest)[q] = f[q]
<1>1. PICK g : g = WithParents(Cut(f, dest), dest)  OBVIOUS
<1>2. source \in Paths \ {<<>>}  BY TreeIs
<1>3. /\ Sound(g)
      /\ \A q \in Tree : q \in Ancestors(dest) => g[q] = Dir
      /\ \A q \in Tree : IsPrefix(dest, q) => g[q] = Absent
      /\ \A q \in Tree : ~IsPrefix(dest, q) /\ (q \notin Ancestors(dest) \/ f[q] # Absent)
           => g[q] = f[q]
  BY <1>1, ClearedAndMade
<1>4. g \in [Tree -> Nodes] /\ f \in [Tree -> Nodes] /\ Absent \in Nodes /\ Dir # Absent
  BY <1>3, KindIs DEF Sound, Nodes
<1>5. PICK h : h = Renamed(f, source, dest)  OBVIOUS
<1>6. h = [q \in Tree |-> IF IsPrefix(dest, q) /\ Moved(q, dest, source) \in Tree
                            THEN g[Moved(q, dest, source)]
                          ELSE IF IsPrefix(source, q) THEN Absent ELSE g[q]]
  BY <1>1, <1>5 DEF Renamed
<1>7. ASSUME NEW q \in Tree, IsPrefix(source, q)
      PROVE  ~IsPrefix(dest, q) /\ q \notin Ancestors(dest) /\ g[q] = f[q]
  <2>1. q \in Paths \ {<<>>}  BY TreeIs
  <2>2. ~IsPrefix(dest, q)  BY <1>2, <1>7, <2>1, PrefixOrder
  <2>3. q \notin Ancestors(dest)
    <3>1. q \in Ancestors(dest) => IsPrefix(q, dest)  BY <2>1, AncestorIs
    <3> QED  BY <1>2, <1>7, <2>1, <3>1, PrefixOrder
  <2> QED  BY <1>3, <2>2, <2>3
<1>8. ASSUME NEW q \in Tree, IsPrefix(dest, q)
      PROVE  \/ /\ Moved(q, dest, source) \in Tree
                /\ IsPrefix(source, Moved(q, dest, source))
                /\ h[q] = f[Moved(q, dest, source)]
             \/ h[q] = Absent
  <2>1. q \in Paths \ {<<>>}  BY TreeIs
  <2>2. IsPrefix(source, Moved(q, dest, source))  BY <1>2, <1>8, <2>1, MovedThere
  <2>3. CASE Moved(q, dest, source) \in Tree
    <3>1. h[q] = g[Moved(q, dest, source)]  BY <1>6, <1>8, <2>3
    <3> QED  BY <1>7, <2>2, <2>3, <3>1
  <2>4. CASE Moved(q, dest, source) \notin Tree  BY <1>3, <1>6, <1>8, <2>4
  <2> QED  BY <2>3, <2>4
<1>9. \A q \in Tree : IsPrefix(source, q) => h[q] = Absent  BY <1>6, <1>7
<1>10. \A q \in Tree : ~IsPrefix(source, q) /\ ~IsPrefix(dest, q) => h[q] = g[q]  BY <1>6
<1>11. ASSUME NEW q \in Tree PROVE h[q] \in Nodes
  <2>1. CASE IsPrefix(dest, q)  BY <1>4, <1>8, <2>1
  <2>2. CASE ~IsPrefix(dest, q)  BY <1>4, <1>9, <1>10, <2>2
  <2> QED  BY <2>1, <2>2
<1>12. ASSUME NEW q \in Tree, h[q] # Absent, NEW a \in Ancestors(q) PROVE h[a] = Dir
  <2>1. a \in Tree /\ a \in Paths \ {<<>>} /\ q \in Paths \ {<<>>} /\ IsPrefix(a, q) /\ a # q
    BY <1>12, TreeIs, AncestorIs
  <2>2. CASE IsPrefix(dest, q)
    <3>1. PICK x \in Tree : /\ x = Moved(q, dest, source) /\ IsPrefix(source, x)
                            /\ f[x] # Absent
      BY <1>8, <1>12, <2>2
    <3>2. CASE IsPrefix(dest, a)
      <4>1. PICK y \in Paths : y = Moved(a, dest, source) /\ y # <<>> /\ IsPrefix(source, y)
                               /\ Moved(y, source, dest) = a
        BY <1>2, <2>1, <3>2, MovedThere
      <4>2. IsPrefix(y, x)  BY <1>2, <2>1, <3>1, <3>2, <4>1, MovedInOrder
      <4>3. y # x
        <5>1. Moved(Moved(q, dest, source), source, dest) = q
          BY <1>2, <2>1, <2>2, MovedThere
        <5> QED  BY <2>1, <3>1, <4>1, <5>1
      <4>4. y \in Tree /\ f[y] = Dir  BY <3>1, <4>1, <4>2, <4>3, AboveIsDir
      <4>5. h[a] = g[y]  BY <1>6, <2>1, <3>2, <4>1, <4>4
      <4> QED  BY <1>7, <4>1, <4>4, <4>5
    <3>3. CASE ~IsPrefix(dest, a)
      <4>1. IsPrefix(a, dest) /\ a # dest  BY <2>1, <2>2, <3>3, PrefixOrder
      <4>2. a \in Ancestors(dest)  BY <2>1, <4>1, AncestorIs
      <4>3. ~IsPrefix(source, a)  BY <1>2, <2>1, <4>1, PrefixOrder
      <4> QED  BY <1>3, <1>10, <2>1, <3>3, <4>2, <4>3
    <3> QED  BY <3>2, <3>3
  <2>3. CASE ~IsPrefix(dest, q)
    <3>1. ~IsPrefix(source, q) /\ g[q] # Absent  BY <1>9, <1>10, <1>12, <2>3
    <3>2. g[a] = Dir  BY <1>3, <1>12, <3>1 DEF Sound, WellFormed
    <3>3. ~IsPrefix(source, a) /\ ~IsPrefix(dest, a)
      BY <1>2, <2>1, <2>3, <3>1, PrefixOrder
    <3> QED  BY <1>10, <2>1, <3>2, <3>3
  <2> QED  BY <2>2, <2>3
<1>13. ASSUME NEW q \in Tree
       PROVE  IF InScope(q) THEN h[q] # File(OutsideText) ELSE h[q] = OutsideNode(q)
  <2>1. q \in Paths \ {<<>>}  BY TreeIs
  <2>2. Absent # File(OutsideText)  BY KindIs
  <2>3. CASE IsPrefix(dest, q)
    <3>1. InScope(q)  BY <2>1, <2>3, ScopeGoesDown
    <3>2. CASE h[q] = Absent  BY <2>2, <3>1, <3>2
    <3>3. CASE h[q] # Absent
      <4>1. PICK x \in Tree : IsPrefix(source, x) /\ h[q] = f[x]  BY <1>8, <2>3, <3>3
      <4>2. InScope(x)  BY <1>2, <4>1, TreeIs, ScopeGoesDown
      <4> QED  BY <3>1, <4>1, <4>2 DEF Sound
    <3> QED  BY <3>2, <3>3
  <2>4. CASE ~IsPrefix(dest, q) /\ IsPrefix(source, q)
    <3>1. InScope(q) /\ h[q] = Absent  BY <1>2, <1>9, <2>1, <2>4, ScopeGoesDown
    <3> QED  BY <2>2, <3>1
  <2>5. CASE ~IsPrefix(dest, q) /\ ~IsPrefix(source, q)
    <3>1. h[q] = g[q]  BY <1>10, <2>5
    <3> QED  BY <1>3, <3>1 DEF Sound
  <2> QED  BY <2>3, <2>4, <2>5
<1>14. h \in [Tree -> Nodes]  BY <1>6, <1>11
<1>15. Sound(h)  BY <1>12, <1>13, <1>14 DEF Sound, WellFormed
<1>16. ASSUME NEW q \in Tree, IsPrefix(source, q), Moved(q, source, dest) \in Tree
       PROVE  h[Moved(q, source, dest)] = f[q]
  <2>1. q \in Paths \ {<<>>}  BY TreeIs
  <2>2. /\ IsPrefix(dest, Moved(q, source, dest))
        /\ Moved(Moved(q, source, dest), dest, source) = q
    BY <1>2, <1>16, <2>1, MovedThere
  <2>3. h[Moved(q, source, dest)] = g[q]  BY <1>6, <1>16, <2>2
  <2> QED  BY <1>7, <1>16, <2>3
<1>17. \A q \in Tree : /\ ~IsPrefix(source, q) /\ ~IsPrefix(dest, q)
                       /\ q \notin Ancestors(dest) \/ f[q] # Absent
         => h[q] = f[q]
  BY <1>3, <1>10
<1> QED  BY <1>5, <1>7, <1>9, <1>15, <1>16, <1>17

-----------------------------------------------------------------------------
(* Following links                                                           *)

NodeOf(f, p) == IF p \in Tree THEN f[p] ELSE Absent
Enter(f, r) == IF NodeOf(f, r).kind = "link" THEN NodeOf(f, r).to ELSE r

LEMMA EnterIs ==
  ASSUME NEW f, Sound(f), NEW r \in Paths \ {<<>>}
  PROVE  /\ Enter(f, r) \in Paths \ {<<>>}
         /\ NodeOf(f, Enter(f, r)).kind # "link"
         /\ NodeOf(f, r).kind # "link" => Enter(f, r) = r
         /\ NodeOf(f, r).kind = "link" => ~InScope(Enter(f, r))
<1>1. CASE NodeOf(f, r).kind = "link"
  <2>1. r \in Tree /\ f[r].kind = "link" /\ f[r] \in Nodes
    BY <1>1, KindIs DEF NodeOf, Sound
  <2>2. f[r].to \in LinkTargets  BY <2>1, KindIs
  <2>3. f[r].to \in Tree /\ ~InScope(f[r].to)  BY <2>2, FilesAssumption
  <2>4. Enter(f, r) = f[r].to  BY <1>1, <2>1 DEF Enter, NodeOf
  <2>5. f[f[r].to].kind # "link"  BY <2>3, OutsideIs
  <2> QED  BY <1>1, <2>3, <2>4, <2>5, TreeIs DEF NodeOf
<1>2. CASE NodeOf(f, r).kind # "link"  BY <1>2 DEF Enter
<1> QED  BY <1>1, <1>2

LEMMA AppendOne ==
  ASSUME NEW S, NEW a \in Seq(S), NEW x \in S
  PROVE  Append(a, x) \in Seq(S)
OBVIOUS

LEMMA AppendIs ==
  /\ <<>> \in Paths
  /\ \A a \in Paths, x \in STRING : Append(a, x) \in Paths \ {<<>>}
  /\ \A a \in Paths : SubSeq(a, 1, 0) = <<>>
<1>1. <<>> \in Paths  BY DEF Paths
<1>2. ASSUME NEW a \in Paths, NEW x \in STRING PROVE Append(a, x) \in Paths \ {<<>>}
  <2>1. a \in Seq(STRING)  BY DEF Paths
  <2>2. Append(a, x) \in Seq(STRING)  BY <2>1, AppendOne
  <2>3. Len(Append(a, x)) = Len(a) + 1  BY <2>1
  <2>4. Len(a) \in Nat  BY <2>1
  <2>5. ASSUME Append(a, x) = <<>> PROVE FALSE
    <3>1. Len(Append(a, x)) = 0  BY <2>5
    <3> QED  BY <2>3, <2>4, <3>1
  <2> QED  BY <2>2, <2>5 DEF Paths
<1>3. ASSUME NEW a \in Paths PROVE SubSeq(a, 1, 0) = <<>>  BY DEF Paths
<1> QED  BY <1>1, <1>2, <1>3

LEMMA LeastOf ==
  ASSUME NEW S \in SUBSET Nat, S # {}
  PROVE  \E n \in S : \A m \in S : n <= m
<1>1. IsWellFoundedOn(OpToRel(<, Nat), Nat)  BY NatLessThanWellFounded
<1>2. PICK n \in S : \A m \in S : <<m, n>> \notin OpToRel(<, Nat)
  BY <1>1, WFMin
<1>3. \A m \in S : ~(m < n)  BY <1>2 DEF OpToRel
<1> QED  BY <1>3

(* The recursion enters one component after the other: it has a value at     *)
(* every step, by the first place where it would not.                        *)
LEMMA CanonicalEnters ==
  ASSUME Sound(files), NEW p \in Paths
  PROVE  \E u : /\ u[0] = <<>> /\ Canonical(p) = u[Len(p)]
                /\ \A n \in 1..Len(p) : u[n] = Enter(files, Append(u[n - 1], p[n]))
<1>1. PICK N \in Nat : N = Len(p) /\ \A n \in 1..N : p[n] \in STRING  BY DEF Paths
<1>2. PICK f : f = files /\ Sound(f)  OBVIOUS
<1> DEFINE Good(n) == \E g \in [0..n -> Paths] :
                        /\ g[0] = <<>>
                        /\ \A m \in 1..n : g[m] = Enter(f, Append(g[m - 1], p[m]))
<1>3. ASSUME NEW n \in 0..N, ~Good(n) PROVE FALSE
  <2> DEFINE Bad == {m \in 0..N : ~Good(m)}
  <2>1. PICK b \in Bad : \A m \in Bad : b <= m
    <3>1. n \in Bad /\ Bad \in SUBSET Nat  BY <1>1, <1>3
    <3> HIDE DEF Bad
    <3> QED  BY <3>1, LeastOf
  <2>2. b \in 0..N /\ ~Good(b)  BY <2>1
  <2>3. CASE b = 0
    <3>1. <<>> \in Paths  BY DEF Paths
    <3>2. [m \in 0..0 |-> <<>>] \in [0..0 -> Paths]  BY <3>1
    <3>3. 1..0 = {}  OBVIOUS
    <3>4. [m \in 0..0 |-> <<>>][0] = <<>>  OBVIOUS
    <3>5. Good(0)  BY <3>2, <3>3, <3>4
    <3> QED  BY <2>2, <2>3, <3>5
  <2>4. CASE b # 0
    <3>1. b - 1 \in 0..N /\ b - 1 < b /\ b \in 1..N  BY <1>1, <2>2, <2>4
    <3>2. b - 1 \notin Bad
      <4>1. ~(b <= b - 1)  BY <1>1, <2>2
      <4> HIDE DEF Bad
      <4> QED  BY <2>1, <4>1
    <3>3. Good(b - 1)  BY <3>1, <3>2
    <3>4. PICK g \in [0..(b - 1) -> Paths] :
            /\ g[0] = <<>>
            /\ \A m \in 1..(b - 1) : g[m] = Enter(f, Append(g[m - 1], p[m]))
      BY <3>3
    <3>5. PICK v \in Paths : v = Enter(f, Append(g[b - 1], p[b]))
      <4>1. g[b - 1] \in Paths /\ p[b] \in STRING  BY <1>1, <3>1, <3>4
      <4>2. Append(g[b - 1], p[b]) \in Paths /\ Append(g[b - 1], p[b]) # <<>>
        BY <4>1, AppendIs
      <4> QED  BY <1>2, <4>2, EnterIs
    <3>6. PICK h : h = [m \in 0..b |-> IF m = b THEN v ELSE g[m]]  OBVIOUS
    <3>7. h \in [0..b -> Paths] /\ h[0] = <<>>
      BY <2>2, <3>1, <3>4, <3>5, <3>6
    <3>8. ASSUME NEW m \in 1..b PROVE h[m] = Enter(f, Append(h[m - 1], p[m]))
      <4>1. m \in 0..b /\ m - 1 \in 0..b /\ m - 1 # b /\ m - 1 \in 0..(b - 1)  BY <3>1, <3>8
      <4>2. h[m - 1] = g[m - 1]  BY <3>6, <4>1
      <4>3. CASE m = b  BY <3>5, <3>6, <4>1, <4>2, <4>3
      <4>4. CASE m # b
        <5>1. m \in 1..(b - 1)  BY <3>1, <3>8, <4>4
        <5>2. h[m] = g[m]  BY <3>6, <4>1, <4>4
        <5> QED  BY <3>4, <4>2, <5>1, <5>2
      <4> QED  BY <4>3, <4>4
    <3>9. Good(b)  BY <3>7, <3>8
    <3> QED  BY <2>2, <3>9
  <2> QED  BY <2>3, <2>4
<1>4. Good(N)  BY <1>1, <1>3
<1>5. PICK g \in [0..N -> Paths] :
        g[0] = <<>> /\ \A m \in 1..N : g[m] = Enter(f, Append(g[m - 1], p[m]))
  BY <1>4
<1> HIDE DEF Good
<1>6. g = [n \in 0..N |-> IF n = 0 THEN <<>> ELSE Enter(f, Append(g[n - 1], p[n]))]
  <2>1. ASSUME NEW n \in 0..N
        PROVE  g[n] = IF n = 0 THEN <<>> ELSE Enter(f, Append(g[n - 1], p[n]))
    <3>1. n = 0 \/ n \in 1..N  BY <1>1, <2>1
    <3> QED  BY <1>5, <3>1
  <2> QED  BY <1>5, <2>1
<1>7. \E u : /\ u = [n \in 0..Len(p) |->
                        IF n = 0 THEN <<>> ELSE Enter(files, Append(u[n - 1], p[n]))]
             /\ Canonical(p) = u[Len(p)]
  <2>1. \E u : u = [n \in 0..Len(p) |->
                      IF n = 0 THEN <<>> ELSE Enter(files, Append(u[n - 1], p[n]))]
    BY <1>1, <1>2, <1>6
  <2>2. \E u : u = [n \in 0..Len(p) |->
                      IF n = 0 THEN <<>>
                      ELSE IF Is(Append(u[n - 1], p[n]), "link")
                             THEN Node(Append(u[n - 1], p[n])).to
                             ELSE Append(u[n - 1], p[n])]
    BY <2>1, Zenon DEF Enter, NodeOf, Is, Node
  <2>3. \E u : /\ u = [n \in 0..Len(p) |->
                      IF n = 0 THEN <<>>
                      ELSE IF Is(Append(u[n - 1], p[n]), "link")
                             THEN Node(Append(u[n - 1], p[n])).to
                             ELSE Append(u[n - 1], p[n])]
               /\ Canonical(p) = u[Len(p)]
    BY <2>2, Zenon DEF Canonical
  <2> QED  BY <2>3, Zenon DEF Enter, NodeOf, Is, Node
<1>8. PICK u : /\ u = [n \in 0..N |->
                         IF n = 0 THEN <<>> ELSE Enter(f, Append(u[n - 1], p[n]))]
               /\ Canonical(p) = u[N]
  BY <1>1, <1>2, <1>7
<1>9. /\ u[0] = <<>>
      /\ \A n \in 1..N : u[n] = Enter(f, Append(u[n - 1], p[n]))
  <2>1. \A n \in 0..N : u[n] = IF n = 0 THEN <<>> ELSE Enter(f, Append(u[n - 1], p[n]))
    BY <1>8, Zenon
  <2>2. 0 \in 0..N  BY <1>1
  <2>3. \A n \in 1..N : n \in 0..N /\ n # 0  BY <1>1
  <2> QED  BY <2>1, <2>2, <2>3
<1> QED  BY <1>1, <1>2, <1>8, <1>9

(* What a path leads to is no link; what exists leads to itself, but for a   *)
(* link, which leads out of the root.                                        *)
LEMMA CanonicalIs ==
  ASSUME Sound(files), NEW p \in Paths \ {<<>>}
  PROVE  /\ Canonical(p) \in Paths \ {<<>>}
         /\ Node(Canonical(p)).kind # "link"
         /\ p \in Tree /\ files[p] # Absent /\ InScope(Canonical(p)) => Canonical(p) = p
<1>1. PICK N \in Nat : N = Len(p) /\ N # 0 /\ \A n \in 1..N : p[n] \in STRING
  BY DEF Paths
<1>2. PICK f : f = files /\ Sound(f)  OBVIOUS
<1>3. PICK u : /\ u[0] = <<>> /\ Canonical(p) = u[N]
               /\ \A n \in 1..N : u[n] = Enter(f, Append(u[n - 1], p[n]))
  <2>1. p \in Paths  OBVIOUS
  <2> QED  BY <1>1, <1>2, <2>1, CanonicalEnters
<1>4. \A n \in 0..N : u[n] \in Paths
  <2> DEFINE Bad == {m \in 0..N : u[m] \notin Paths}
  <2>1. SUFFICES ASSUME Bad # {} PROVE FALSE  OBVIOUS
  <2>2. PICK b \in Bad : \A m \in Bad : b <= m
    <3>1. Bad \in SUBSET Nat  BY <1>1
    <3> HIDE DEF Bad
    <3> QED  BY <2>1, <3>1, LeastOf
  <2>3. b \in 0..N /\ u[b] \notin Paths  BY <2>2
  <2>4. b # 0  BY <1>3, <2>3, AppendIs
  <2>5. b - 1 \in 0..N /\ ~(b <= b - 1) /\ b \in 1..N  BY <1>1, <2>3, <2>4
  <2>6. u[b - 1] \in Paths  BY <2>2, <2>5
  <2>7. Append(u[b - 1], p[b]) \in Paths /\ Append(u[b - 1], p[b]) # <<>>
    BY <1>1, <2>5, <2>6, AppendIs
  <2>8. u[b] \in Paths  BY <1>2, <1>3, <2>5, <2>7, EnterIs
  <2> QED  BY <2>3, <2>8
<1>5. PICK r \in Paths \ {<<>>} : r = Append(u[N - 1], p[N]) /\ u[N] = Enter(f, r)
  <2>1. N - 1 \in 0..N /\ N \in 1..N  BY <1>1
  <2>2. Append(u[N - 1], p[N]) \in Paths /\ Append(u[N - 1], p[N]) # <<>>
    BY <1>1, <1>4, <2>1, AppendIs
  <2> QED  BY <1>3, <2>1, <2>2
<1>6. Canonical(p) \in Paths \ {<<>>} /\ Node(Canonical(p)).kind # "link"
  <2>1. PICK c : c = Canonical(p)  OBVIOUS
  <2>2. c = Enter(f, r)  BY <1>3, <1>5, <2>1
  <2>3. c \in Paths \ {<<>>} /\ NodeOf(f, c).kind # "link"  BY <1>2, <2>2, EnterIs
  <2>4. NodeOf(files, c) = Node(c)  BY DEF Node, NodeOf
  <2> QED  BY <1>2, <2>1, <2>3, <2>4
<1>7. ASSUME p \in Tree, files[p] # Absent, InScope(Canonical(p)) PROVE Canonical(p) = p
  <2> DEFINE Bad == {m \in 0..(N - 1) : u[m] # SubSeq(p, 1, m)}
  <2>1. Bad = {}
    <3>1. SUFFICES ASSUME Bad # {} PROVE FALSE  OBVIOUS
    <3>2. PICK b \in Bad : \A m \in Bad : b <= m
      <4>1. Bad \in SUBSET Nat  BY <1>1
      <4> HIDE DEF Bad
      <4> QED  BY <3>1, <4>1, LeastOf
    <3>3. b \in 0..(N - 1) /\ u[b] # SubSeq(p, 1, b)  BY <3>2
    <3>4. b # 0
      <4>1. p \in Paths  OBVIOUS
      <4> QED  BY <1>3, <3>3, <4>1, AppendIs
    <3>5. b - 1 \in 0..(N - 1) /\ ~(b <= b - 1) /\ b \in 1..N /\ b \in 1..(N - 1)
      BY <1>1, <3>3, <3>4
    <3>6. u[b - 1] = SubSeq(p, 1, b - 1)  BY <3>2, <3>5
    <3>7. Append(SubSeq(p, 1, b - 1), p[b]) = SubSeq(p, 1, b)
      BY <1>1, <3>5 DEF Paths
    <3>8. PICK a : a = SubSeq(p, 1, b)  OBVIOUS
    <3>9. a \in Ancestors(p)  BY <1>1, <3>5, <3>8 DEF Ancestors
    <3>10. a \in Tree /\ a \in Paths \ {<<>>}  BY <1>7, <3>9, TreeIs
    <3>11. f[a] = Dir  BY <1>2, <1>7, <3>9 DEF Sound, WellFormed
    <3>12. NodeOf(f, a).kind # "link"  BY <3>10, <3>11, KindIs DEF NodeOf
    <3>13. u[b] = Enter(f, a)  BY <1>3, <3>5, <3>6, <3>7, <3>8
    <3>14. u[b] = a  BY <1>2, <3>10, <3>12, <3>13, EnterIs
    <3> QED  BY <3>3, <3>8, <3>14
  <2>2. N - 1 \in 0..(N - 1)  BY <1>1
  <2>3. u[N - 1] = SubSeq(p, 1, N - 1)  BY <2>1, <2>2
  <2>4. Append(SubSeq(p, 1, N - 1), p[N]) = p  BY <1>1 DEF Paths
  <2>5. r = p  BY <1>5, <2>3, <2>4
  <2> QED  BY <1>2, <1>3, <1>5, <1>7, <2>5, EnterIs
<1> QED  BY <1>6, <1>7

-----------------------------------------------------------------------------
(* The inductive invariant: the tree is sound, and the last operation lost   *)
(* only what it may.  With no operation there is nothing it could have lost. *)

FilesInv ==
  /\ Sound(files) /\ prior \in [Tree -> Nodes]
  /\ said \in AllTexts \cup {Unseen} /\ said # OutsideText
  /\ op = NoOp => prior = files
  /\ LostOnlyIfAsked /\ ProtectedKept

(* What an operation o that turns the tree f into h may lose.                *)
AskedOf(o, p) ==
  \/ o.do = "delete" /\ IsPrefix(o.target, p)
  \/ o.overwrite /\ o.do = "write" /\ p = o.target
  \/ o.overwrite /\ o.do \in {"copy", "move"} /\ IsPrefix(o.dest, p)
ArrivesAt(f, o, p) ==
  /\ o.do \in {"copy", "move"} /\ IsPrefix(o.dest, p)
  /\ (f[p] = Absent \/ o.overwrite)
KeptAt(f, h, o, p) ==
  /\ f[p].kind = "file" => Holds(h, f[p].text) \/ AskedOf(o, p)
  /\ IsProtected(p) => h[p] = f[p] \/ ArrivesAt(f, o, p)

LEMMA Acted ==
  ASSUME FilesInv, prior' = files, said' = said, op'.do # "none", Sound(files'),
         \A p \in Tree : KeptAt(files, files', op', p)
  PROVE  FilesInv'
<1>1. op' # NoOp  BY DEF NoOp
<1>2. files \in [Tree -> Nodes]  BY DEF FilesInv, Sound
<1>3. ASSUME NEW p \in Tree, prior'[p].kind = "file"
      PROVE  Holds(files', prior'[p].text) \/ AskedFor(p)'
  BY <1>3 DEF KeptAt, AskedOf, AskedFor
<1>4. LostOnlyIfAsked'  BY <1>3 DEF LostOnlyIfAsked
<1>5. ASSUME NEW p \in Tree, IsProtected(p)
      PROVE  \/ files'[p] = prior'[p]
             \/ /\ op'.do \in {"copy", "move"} /\ IsPrefix(op'.dest, p)
                /\ (prior'[p] = Absent \/ op'.overwrite)
  BY <1>5 DEF KeptAt, ArrivesAt
<1>6. ProtectedKept'  BY <1>5 DEF ProtectedKept
<1> QED  BY <1>1, <1>2, <1>4, <1>6 DEF FilesInv

(* What stays where it is, is kept.                                          *)
LEMMA SameIsKept ==
  ASSUME NEW f, f \in [Tree -> Nodes], NEW h, NEW o, NEW p \in Tree, h[p] = f[p]
  PROVE  KeptAt(f, h, o, p)
<1>1. f[p].kind = "file" => f[p] = File(f[p].text)  BY KindIs
<1> QED  BY <1>1 DEF KeptAt, Holds

LEMMA NodeIs ==
  ASSUME Sound(files), NEW p
  PROVE  /\ Exists(p) <=> p \in Tree /\ files[p] # Absent
         /\ Is(p, "dir") <=> p \in Tree /\ files[p] = Dir
         /\ p \in Tree => Node(p) = files[p]
         /\ Is(p, "file") => p \in Tree /\ files[p] = File(files[p].text)
<1>1. PICK f : f = files /\ f \in [Tree -> Nodes]  BY DEF Sound
<1>2. CASE p \in Tree
  <2>1. f[p] \in Nodes  BY <1>1, <1>2
  <2>2. Node(p) = f[p]  BY <1>1, <1>2 DEF Node
  <2> QED  BY <1>1, <1>2, <2>1, <2>2, KindIs DEF Exists, Is
<1>3. CASE p \notin Tree
  <2>1. Node(p) = Absent  BY <1>3 DEF Node
  <2> QED  BY <1>3, <2>1, KindIs DEF Exists, Is
<1> QED  BY <1>2, <1>3

LEMMA CanHoldIs ==
  ASSUME Sound(files), NEW p, CanHold(p)
  PROVE  \A q \in Ancestors(p) : q \in Tree => files[q] \in {Absent, Dir}
<1>1. ASSUME NEW q \in Ancestors(p), q \in Tree PROVE files[q] \in {Absent, Dir}
  <2>1. Is(q, "dir") \/ Is(q, "none")  BY DEF CanHold
  <2>2. Is(q, "none") <=> ~Exists(q)  BY DEF Exists
  <2> QED  BY <1>1, <2>1, <2>2, NodeIs
<1> QED  BY <1>1

(* What the enforcer lets through.                                           *)
LEMMA MayTouchIs ==
  ASSUME Sound(files), NEW p \in Tree, NEW do, MayTouch(do, p)
  PROVE  /\ Canonical(p) \in Paths \ {<<>>} /\ Node(Canonical(p)).kind # "link"
         /\ InScope(Canonical(p)) /\ ~IsProtected(Canonical(p))
BY TreeIs, CanonicalIs DEF MayTouch, Permitted

(* Above a path that is not protected nothing is.                            *)
LEMMA AboveUnprotected ==
  ASSUME NEW p \in Paths, ~IsProtected(p), NEW q \in Ancestors(p)
  PROVE  ~IsProtected(q)
<1>1. q \in Paths \ {<<>>} /\ IsPrefix(q, p)  BY AncestorIs
<1>2. Protected \subseteq Paths  BY FilesAssumption DEF Paths
<1> QED  BY <1>1, <1>2, ProtectionGoesDown

(* A node is put at c, and the directories above it made.                    *)
LEMMA PutKept ==
  ASSUME NEW f, Sound(f), NEW c \in Tree, InScope(c), ~IsProtected(c), f[c] # Dir,
         \A q \in Ancestors(c) : q \in Tree => f[q] \in {Absent, Dir},
         NEW n \in Nodes, n # File(OutsideText), NEW o,
         f[c].kind = "file" => AskedOf(o, c)
  PROVE  /\ Sound([WithParents(f, c) EXCEPT ![c] = n])
         /\ \A p \in Tree : KeptAt(f, [WithParents(f, c) EXCEPT ![c] = n], o, p)
<1>1. PICK h : h = [WithParents(f, c) EXCEPT ![c] = n]  OBVIOUS
<1>2. /\ Sound(h)
      /\ \A q \in Tree : q # c /\ (q \notin Ancestors(c) \/ f[q] # Absent) => h[q] = f[q]
  <2>1. /\ Sound([WithParents(f, c) EXCEPT ![c] = n])
        /\ \A q \in Tree : q # c /\ (q \notin Ancestors(c) \/ f[q] # Absent)
                             => [WithParents(f, c) EXCEPT ![c] = n][q] = f[q]
    BY NodePut
  <2> QED  BY <1>1, <2>1
<1>3. f \in [Tree -> Nodes]  BY DEF Sound
<1>4. ASSUME NEW p \in Tree PROVE KeptAt(f, h, o, p)
  <2>1. CASE p = c  BY <2>1 DEF KeptAt
  <2>2. CASE p # c /\ p \in Ancestors(c) /\ f[p] = Absent
    <3>1. ~IsProtected(p)  BY <2>2, TreeIs, AboveUnprotected
    <3>2. f[p].kind # "file"  BY <2>2, KindIs
    <3> QED  BY <3>1, <3>2 DEF KeptAt
  <2>3. CASE p # c /\ (p \notin Ancestors(c) \/ f[p] # Absent)
    <3>1. h[p] = f[p]  BY <1>2, <2>3
    <3> QED  BY <1>3, <3>1, SameIsKept
  <2> QED  BY <2>1, <2>2, <2>3
<1> QED  BY <1>1, <1>2, <1>4

LEMMA WriteKeeps ==
  ASSUME FilesInv, NEW p \in Tree, NEW t \in Texts, NEW overwrite \in BOOLEAN,
         WritesFile(p, t, overwrite)
  PROVE  FilesInv'
<1>1. Sound(files)  BY DEF FilesInv
<1>2. PICK f, c, o, put :
        /\ f = files /\ c = Canonical(p) /\ o = op' /\ put \in {t, Torn}
        /\ files' = [WithParents(f, c) EXCEPT ![c] = File(put)]
        /\ c \in Tree /\ ~Is(c, "dir") /\ CanHold(c)
        /\ MayTouch("write", p) /\ MayReplace(p, overwrite)
        /\ o = [do |-> "write", target |-> c, dest |-> <<>>, overwrite |-> overwrite]
        /\ prior' = files /\ said' = said
  BY DEF WritesFile, Did
<1>3. InScope(c) /\ ~IsProtected(c)  BY <1>1, <1>2, MayTouchIs
<1>4. f[c] # Dir /\ \A q \in Ancestors(c) : q \in Tree => f[q] \in {Absent, Dir}
  BY <1>1, <1>2, NodeIs, CanHoldIs
<1>5. File(put) \in Nodes /\ File(put) # File(OutsideText)
  <2>1. put \in AllTexts /\ put # OutsideText  BY <1>2, FilesAssumption DEF AllTexts
  <2> QED  BY <2>1, KindIs DEF Nodes
<1>6. f[c].kind = "file" => AskedOf(o, c)
  <2>1. ASSUME f[c].kind = "file" PROVE overwrite
    <3>1. f[c] # Absent  BY <2>1, KindIs
    <3> QED  BY <1>1, <1>2, <3>1, NodeIs DEF MayReplace
  <2> QED  BY <1>2, <2>1 DEF AskedOf
<1>7. /\ Sound([WithParents(f, c) EXCEPT ![c] = File(put)])
      /\ \A q \in Tree : KeptAt(f, [WithParents(f, c) EXCEPT ![c] = File(put)], o, q)
  BY <1>1, <1>2, <1>3, <1>4, <1>5, <1>6, PutKept
<1>8. Sound(files') /\ \A q \in Tree : KeptAt(files, files', op', q)  BY <1>2, <1>7
<1>9. op'.do # "none"  BY <1>2
<1> QED  BY <1>2, <1>8, <1>9, Acted

LEMMA MakeDirKeeps ==
  ASSUME FilesInv, NEW p \in Tree, MakesDir(p)
  PROVE  FilesInv'
<1>1. Sound(files)  BY DEF FilesInv
<1>2. PICK f, c, o :
        /\ f = files /\ c = Canonical(p) /\ o = op'
        /\ files' = [WithParents(f, c) EXCEPT ![c] = Dir]
        /\ c \in Tree /\ ~Exists(c) /\ CanHold(c) /\ MayTouch("mkdir", p)
        /\ o = [do |-> "mkdir", target |-> c, dest |-> <<>>, overwrite |-> FALSE]
        /\ prior' = files /\ said' = said
  BY DEF MakesDir, Did
<1>3. InScope(c) /\ ~IsProtected(c)  BY <1>1, <1>2, MayTouchIs
<1>4. /\ f[c] = Absent
      /\ \A q \in Ancestors(c) : q \in Tree => f[q] \in {Absent, Dir}
  BY <1>1, <1>2, NodeIs, CanHoldIs
<1>5. /\ Dir \in Nodes /\ Dir # File(OutsideText) /\ Absent # Dir
      /\ f[c].kind # "file"
  BY <1>4, KindIs DEF Nodes
<1>6. /\ Sound([WithParents(f, c) EXCEPT ![c] = Dir])
      /\ \A q \in Tree : KeptAt(f, [WithParents(f, c) EXCEPT ![c] = Dir], o, q)
  BY <1>1, <1>2, <1>3, <1>4, <1>5, PutKept
<1>7. Sound(files') /\ \A q \in Tree : KeptAt(files, files', op', q)  BY <1>2, <1>6
<1>8. op'.do # "none"  BY <1>2
<1> QED  BY <1>2, <1>7, <1>8, Acted

(* A tree that may be deleted, copied or moved holds nothing protected, and  *)
(* no link.                                                                  *)
LEMMA TreeOKIs ==
  ASSUME Sound(files), NEW c \in Tree, InScope(c), ~IsProtected(c),
         files[c] # Absent, files[c].kind # "link", TreeOK(c)
  PROVE  \A q \in UnderIn(files, c) : ~IsProtected(q) /\ files[q].kind # "link"
<1>1. ASSUME NEW q \in UnderIn(files, c), q # c
      PROVE  ~IsProtected(q) /\ files[q].kind # "link"
  <2>1. q \in Tree /\ q \in Paths \ {<<>>} /\ c \in Paths \ {<<>>}
        /\ IsPrefix(c, q) /\ files[q] # Absent
    BY TreeIs DEF UnderIn
  <2>2. files[c] = Dir  BY <1>1, <2>1, AboveIsDir
  <2>3. Is(c, "dir")  BY <2>2, NodeIs
  <2>4. q \in Below(c)  BY <1>1, <2>1, NodeIs DEF Below, Under
  <2>5. Permitted(q)  BY <2>3, <2>4 DEF TreeOK
  <2>6. Canonical(q) = q /\ Node(q).kind # "link"
    BY <2>1, <2>5, CanonicalIs DEF Permitted
  <2> QED  BY <2>1, <2>5, <2>6, NodeIs DEF Permitted
<1> QED  BY <1>1

LEMMA DeleteKeeps ==
  ASSUME FilesInv, NEW p \in Tree, Deletes(p)
  PROVE  FilesInv'
<1>1. Sound(files)  BY DEF FilesInv
<1>2. PICK f, c, o :
        /\ f = files /\ c = Canonical(p) /\ o = op'
        /\ files' = Cut(f, c) /\ Exists(c) /\ TreeOK(c) /\ MayTouch("delete", p)
        /\ o = [do |-> "delete", target |-> c, dest |-> <<>>, overwrite |-> FALSE]
        /\ prior' = files /\ said' = said
  BY DEF Deletes, Did, Cut
<1>3. InScope(c) /\ ~IsProtected(c) /\ Node(c).kind # "link"  BY <1>1, <1>2, MayTouchIs
<1>4. c \in Tree /\ f[c] # Absent /\ f[c].kind # "link"  BY <1>1, <1>2, <1>3, NodeIs
<1>5. \A q \in UnderIn(f, c) : ~IsProtected(q)  BY <1>1, <1>2, <1>3, <1>4, TreeOKIs
<1>6. PICK h : h = Cut(f, c)  OBVIOUS
<1>7. Sound(h)  BY <1>1, <1>2, <1>3, <1>4, <1>6, TreeIs, CutSound
<1>8. ASSUME NEW q \in Tree PROVE KeptAt(f, h, o, q)
  <2>1. h[q] = IF IsPrefix(c, q) THEN Absent ELSE f[q]  BY <1>6 DEF Cut
  <2>2. CASE IsPrefix(c, q)
    <3>1. AskedOf(o, q)  BY <1>2, <2>2 DEF AskedOf
    <3>2. IsProtected(q) => f[q] = Absent  BY <1>5, <2>2 DEF UnderIn
    <3> QED  BY <2>1, <2>2, <3>1, <3>2 DEF KeptAt
  <2>3. CASE ~IsPrefix(c, q)
    <3>1. f \in [Tree -> Nodes]  BY <1>1, <1>2 DEF Sound
    <3> QED  BY <2>1, <2>3, <3>1, SameIsKept
  <2> QED  BY <2>2, <2>3
<1>9. Sound(files') /\ \A q \in Tree : KeptAt(files, files', op', q)
  BY <1>2, <1>6, <1>7, <1>8
<1>10. op'.do # "none"  BY <1>2
<1> QED  BY <1>2, <1>9, <1>10, Acted

LEMMA ElementIs ==
  ASSUME NEW S, NEW a \in Seq(S), NEW i \in 1..Len(a)
  PROVE  a[i] \in S
OBVIOUS

(* A directory's own place is above what goes into it, and nothing is        *)
(* between.                                                                  *)
LEMMA IntoIs ==
  ASSUME NEW d \in Paths, NEW x \in STRING
  PROVE  /\ Append(d, x) \in Paths \ {<<>>} /\ IsPrefix(d, Append(d, x))
         /\ \A q \in Ancestors(Append(d, x)) : q = d \/ q \in Ancestors(d)
<1>1. PICK e \in Paths \ {<<>>} : e = Append(d, x)  BY AppendIs
<1>2. Len(d) \in Nat /\ Len(e) = Len(d) + 1 /\ \A i \in 1..Len(d) : e[i] = d[i]
  <2>1. d \in Seq(STRING)  BY DEF Paths
  <2> QED  BY <1>1, <2>1
<1>3. IsPrefix(d, e)  BY <1>2, PrefixIs
<1>4. ASSUME NEW q \in Ancestors(e), q \notin Ancestors(d) PROVE q = d
  <2>1. q \in Paths \ {<<>>} /\ IsPrefix(q, e) /\ q # e  BY AncestorIs
  <2>2. CASE IsPrefix(q, d)  BY <1>4, <2>1, <2>2, AncestorIs
  <2>3. CASE IsPrefix(d, q)
    <3>1. /\ Len(q) <= Len(e) /\ \A i \in 1..Len(q) : q[i] = e[i]
          /\ Len(d) <= Len(q) /\ \A i \in 1..Len(d) : d[i] = q[i]
      BY <2>1, <2>3, PrefixIs
    <3>2. Len(q) \in Nat  BY <2>1 DEF Paths
    <3>3. Len(q) # Len(e)  BY <2>1, <3>1, SamePath
    <3>4. Len(q) = Len(d)  BY <1>2, <3>1, <3>2, <3>3
    <3> QED  BY <2>1, <3>1, <3>4, SamePath
  <2> QED  BY <1>3, <2>1, <2>2, <2>3, PrefixOrder
<1> QED  BY <1>1, <1>3, <1>4

(* Where a copy lands is at or just inside its destination.                  *)
LEMMA LandingIs ==
  ASSUME Sound(files), NEW source \in Tree, NEW dest \in Paths \ {<<>>}, CanHold(dest)
  PROVE  /\ Landing(source, dest) \in Paths \ {<<>>}
         /\ IsPrefix(dest, Landing(source, dest))
         /\ \A q \in Ancestors(Landing(source, dest)) :
              /\ q = dest \/ q \in Ancestors(dest)
              /\ q \in Tree => files[q] \in {Absent, Dir}
<1>1. CASE Is(source, "file") /\ Is(dest, "dir")
  <2>1. PICK x \in STRING : x = Last(source)
    <3>1. source \in Paths \ {<<>>}  BY TreeIs
    <3>2. Len(source) \in 1..Len(source) /\ source \in Seq(STRING)
      BY <3>1 DEF Paths
    <3>3. source[Len(source)] \in STRING  BY <3>2, ElementIs
    <3> QED  BY <3>3 DEF Last
  <2>2. Landing(source, dest) = Append(dest, x)  BY <1>1, <2>1 DEF Landing
  <2>3. /\ Append(dest, x) \in Paths \ {<<>>} /\ IsPrefix(dest, Append(dest, x))
        /\ \A q \in Ancestors(Append(dest, x)) : q = dest \/ q \in Ancestors(dest)
    BY IntoIs
  <2>4. files[dest] = Dir  BY <1>1, NodeIs
  <2>5. \A q \in Ancestors(dest) : q \in Tree => files[q] \in {Absent, Dir}  BY CanHoldIs
  <2> QED  BY <2>2, <2>3, <2>4, <2>5
<1>2. CASE ~(Is(source, "file") /\ Is(dest, "dir"))
  <2>1. Landing(source, dest) = dest  BY <1>2 DEF Landing
  <2>2. IsPrefix(dest, dest)  BY PrefixOrder
  <2> QED  BY <2>1, <2>2, CanHoldIs
<1> QED  BY <1>1, <1>2

LEMMA CopyKeeps ==
  ASSUME FilesInv, NEW p \in Tree, NEW d \in Tree, NEW overwrite \in BOOLEAN,
         Copies(p, d, overwrite)
  PROVE  FilesInv'
<1>1. Sound(files)  BY DEF FilesInv
<1>2. PICK f, s, e, l, o, U :
        /\ f = files /\ s = Canonical(p) /\ e = Canonical(d) /\ l = Landing(s, e)
        /\ o = op' /\ U = UnderIn(f, s)
  OBVIOUS
<1>3. /\ Exists(s) /\ MayTouch("copy", p) /\ MayTouch("write", d) /\ MayReplace(d, overwrite)
      /\ TreeOK(s) /\ CanHold(e)
      /\ {Moved(q, s, l) : q \in Under(s)} \subseteq Tree
      /\ \A q \in Under(s) :
           Exists(Moved(q, s, l)) => (Is(q, "dir") <=> Is(Moved(q, s, l), "dir"))
  BY <1>2 DEF Copies
<1>4. files' = Copied(s, l)  BY <1>2 DEF Copies
<1>5. /\ o.do = "copy" /\ o.dest = e /\ o.overwrite = overwrite
      /\ prior' = files /\ said' = said
  <2>1. Did("copy", p, d, overwrite)  BY DEF Copies
  <2>2. d # <<>>  BY TreeIs
  <2> QED  BY <1>2, <2>1, <2>2 DEF Did
<1>6. /\ s \in Tree /\ f[s] # Absent /\ InScope(s) /\ ~IsProtected(s) /\ f[s].kind # "link"
      /\ e \in Paths \ {<<>>} /\ InScope(e) /\ ~IsProtected(e)
  BY <1>1, <1>2, <1>3, MayTouchIs, NodeIs
<1>7. Under(s) = U  BY <1>1, <1>2, NodeIs DEF Under, UnderIn
<1>8. \A q \in U : ~IsProtected(q) /\ f[q].kind # "link"
  BY <1>1, <1>2, <1>3, <1>6, TreeOKIs
<1>9. /\ l \in Paths \ {<<>>} /\ IsPrefix(e, l)
      /\ \A q \in Ancestors(l) : /\ q = e \/ q \in Ancestors(e)
                                 /\ q \in Tree => f[q] \in {Absent, Dir}
  BY <1>1, <1>2, <1>3, <1>6, LandingIs
<1>10. s \in Paths \ {<<>>} /\ f \in [Tree -> Nodes] /\ Sound(f)
  BY <1>1, <1>2, <1>6, TreeIs DEF Sound
<1>11. ASSUME NEW q \in U
       PROVE  /\ q \in Tree /\ q \in Paths /\ IsPrefix(s, q) /\ Moved(q, s, l) \in Tree
              /\ IsPrefix(l, Moved(q, s, l)) /\ Moved(Moved(q, s, l), l, s) = q
              /\ f[Moved(q, s, l)] # Absent => (f[q] = Dir <=> f[Moved(q, s, l)] = Dir)
  <2>1. q \in Tree /\ q \in Paths /\ IsPrefix(s, q)  BY <1>2, TreeIs DEF UnderIn
  <2>2. Moved(q, s, l) \in Tree  BY <1>3, <1>7
  <2>3. IsPrefix(l, Moved(q, s, l)) /\ Moved(Moved(q, s, l), l, s) = q
    BY <1>9, <1>10, <2>1, MovedThere
  <2>4. f[Moved(q, s, l)] # Absent => (f[q] = Dir <=> f[Moved(q, s, l)] = Dir)
    <3>1. Exists(Moved(q, s, l)) => (Is(q, "dir") <=> Is(Moved(q, s, l), "dir"))
      BY <1>3, <1>7
    <3> QED  BY <1>1, <1>2, <2>1, <2>2, <3>1, NodeIs
  <2> QED  BY <2>1, <2>2, <2>3, <2>4
<1>12. l \in Tree /\ InScope(l)
  <2>1. s \in U /\ Moved(s, s, l) = l
    <3>1. IsPrefix(s, s)  BY <1>10, PrefixOrder
    <3>2. s \in U  BY <1>2, <1>6, <3>1 DEF UnderIn
    <3> QED  BY <1>9, <1>10, <3>1, <3>2, MovedThere
  <2>2. l \in Tree  BY <1>11, <2>1
  <2> QED  BY <1>6, <1>9, <2>2, ScopeGoesDown
<1>13. PICK h : h = files'  OBVIOUS
<1>14. /\ OnTree(h)
       /\ \A q \in Tree :
            h[q] = IF CopiedTo(q, s, l) = {} THEN WithParents(files, l)[q]
                   ELSE Taken(CHOOSE x \in CopiedTo(q, s, l) : TRUE)
  BY <1>4, <1>13 DEF Copied, OnTree
<1>15. ASSUME NEW q \in U PROVE h[Moved(q, s, l)] = f[q]
  <2>1. PICK r \in Tree : r = Moved(q, s, l)  BY <1>11
  <2>2. CopiedTo(r, s, l) = {q}  BY <1>7, <1>11, <2>1 DEF CopiedTo
  <2>3. (CHOOSE x \in {q} : TRUE) = q  OBVIOUS
  <2>4. h[r] = Taken(q)  BY <1>14, <2>2, <2>3
  <2>5. ~Is(q, "link")  BY <1>1, <1>2, <1>8, <1>11, NodeIs DEF Is
  <2>6. Taken(q) = files[q]  BY <2>5 DEF Taken
  <2> QED  BY <1>2, <2>1, <2>4, <2>6
<1>16. ASSUME NEW q \in Tree, ~LandsAt(f, s, l, q) PROVE h[q] = WithParents(f, l)[q]
  <2>1. CopiedTo(q, s, l) = {}  BY <1>2, <1>7, <1>16 DEF LandsAt, CopiedTo
  <2>2. h[q] = WithParents(files, l)[q]  BY <1>14, <2>1
  <2> QED  BY <1>2, <2>2
<1>17. /\ Sound(h)
       /\ \A q \in Tree : ~LandsAt(f, s, l, q) /\ (q \notin Ancestors(l) \/ f[q] # Absent)
                            => h[q] = f[q]
  <2>1. \A q \in UnderIn(f, s) : f[Moved(q, s, l)] # Absent
           => (f[q] = Dir <=> f[Moved(q, s, l)] = Dir)
    BY <1>2, <1>11
  <2>2. \A q \in Ancestors(l) : q \in Tree => f[q] \in {Absent, Dir}  BY <1>9
  <2>3. \A q \in UnderIn(f, s) : h[Moved(q, s, l)] = f[q]  BY <1>2, <1>15
  <2>4. \A q \in Tree : ~LandsAt(f, s, l, q) => h[q] = WithParents(f, l)[q]  BY <1>16
  <2> QED  BY <1>6, <1>10, <1>12, <1>14, <2>1, <2>2, <2>3, <2>4, CopySound
<1>18. ASSUME NEW q \in Tree PROVE KeptAt(f, h, o, q)
  <2>1. q \in Paths \ {<<>>}  BY TreeIs
  <2>2. CASE LandsAt(f, s, l, q)
    <3>1. IsPrefix(l, q)  BY <1>2, <1>11, <2>2 DEF LandsAt
    <3>2. IsPrefix(e, q)  BY <1>6, <1>9, <2>1, <3>1, PrefixOrder
    <3>3. f[q] # Absent => overwrite
      <4>1. SUFFICES ASSUME f[q] # Absent PROVE overwrite  OBVIOUS
      <4>2. e \in Tree /\ f[e] # Absent
        <5>1. CASE e = q  BY <4>1, <5>1
        <5>2. CASE e # q
          <6>1. e \in Tree /\ f[e] = Dir  BY <1>6, <1>10, <3>2, <4>1, <5>2, AboveIsDir
          <6> QED  BY <6>1, KindIs
        <5> QED  BY <5>1, <5>2
      <4>3. Exists(e)  BY <1>1, <1>2, <4>2, NodeIs
      <4> QED  BY <1>2, <1>3, <4>3 DEF MayReplace
    <3>4. f[q].kind = "file" => f[q] # Absent  BY KindIs
    <3> QED  BY <1>5, <3>2, <3>3, <3>4 DEF KeptAt, AskedOf, ArrivesAt
  <2>3. CASE ~LandsAt(f, s, l, q) /\ q \in Ancestors(l) /\ f[q] = Absent
    <3>1. q = e \/ q \in Ancestors(e)  BY <1>9, <2>3
    <3>2. ~IsProtected(q)  BY <1>6, <3>1, AboveUnprotected
    <3>3. f[q].kind # "file"  BY <2>3, KindIs
    <3> QED  BY <3>2, <3>3 DEF KeptAt
  <2>4. CASE ~LandsAt(f, s, l, q) /\ (q \notin Ancestors(l) \/ f[q] # Absent)
    <3>1. h[q] = f[q]  BY <1>17, <2>4
    <3> QED  BY <1>10, <3>1, SameIsKept
  <2> QED  BY <2>2, <2>3, <2>4
<1>19. Sound(files') /\ \A q \in Tree : KeptAt(files, files', op', q)
  BY <1>2, <1>13, <1>17, <1>18
<1>20. op'.do # "none"  BY <1>2, <1>5
<1> QED  BY <1>5, <1>19, <1>20, Acted

LEMMA MoveKeeps ==
  ASSUME FilesInv, NEW p \in Tree, NEW d \in Tree, NEW overwrite \in BOOLEAN,
         Moves(p, d, overwrite)
  PROVE  FilesInv'
<1>1. Sound(files)  BY DEF FilesInv
<1>2. PICK f, s, e, o, g :
        /\ f = files /\ s = Canonical(p) /\ e = Canonical(d) /\ o = op'
        /\ g = WithParents(Cut(f, e), e)
  OBVIOUS
<1>3. /\ Exists(s) /\ MayTouch("move", p) /\ MayTouch("write", d) /\ MayReplace(d, overwrite)
      /\ TreeOK(s) /\ CanHold(e)
  BY <1>2 DEF Moves
<1>4. /\ g[s] # Absent /\ ~IsPrefix(s, e) =>
           /\ {Moved(q, s, e) : q \in Under(s)} \subseteq Tree
           /\ files' = Renamed(f, s, e)
      /\ ~(g[s] # Absent /\ ~IsPrefix(s, e)) => files' = g
  BY <1>2 DEF Moves, Renamed, Cut
<1>5. /\ o.do = "move" /\ o.dest = e /\ o.overwrite = overwrite
      /\ prior' = files /\ said' = said
  <2>1. Did("move", p, d, overwrite)  BY DEF Moves
  <2>2. d # <<>>  BY TreeIs
  <2> QED  BY <1>2, <2>1, <2>2 DEF Did
<1>6. /\ s \in Tree /\ f[s] # Absent /\ InScope(s) /\ ~IsProtected(s) /\ f[s].kind # "link"
      /\ e \in Paths \ {<<>>} /\ InScope(e) /\ ~IsProtected(e)
  BY <1>1, <1>2, <1>3, MayTouchIs, NodeIs
<1>7. \A q \in Tree : IsPrefix(s, q) /\ f[q] # Absent => q \in Under(s) /\ ~IsProtected(q)
  <2>1. \A q \in UnderIn(f, s) : ~IsProtected(q)
    BY <1>1, <1>2, <1>3, <1>6, TreeOKIs
  <2> QED  BY <1>1, <1>2, <2>1, NodeIs DEF Under, UnderIn
<1>8. \A q \in Ancestors(e) : q \in Tree => f[q] \in {Absent, Dir}
  BY <1>1, <1>2, <1>3, CanHoldIs
<1>9. /\ Sound(g)
      /\ \A q \in Tree : IsPrefix(e, q) => g[q] = Absent
      /\ \A q \in Tree : ~IsPrefix(e, q) /\ (q \notin Ancestors(e) \/ f[q] # Absent)
           => g[q] = f[q]
  BY <1>1, <1>2, <1>6, <1>8, ClearedAndMade
<1>10. s \in Paths \ {<<>>} /\ f \in [Tree -> Nodes] /\ Sound(f)
  BY <1>1, <1>2, <1>6, TreeIs DEF Sound
<1>11. ASSUME NEW h, NEW q \in Tree, IsPrefix(e, q) PROVE KeptAt(f, h, o, q)
  <2>1. f[q] # Absent => overwrite
    <3>1. SUFFICES ASSUME f[q] # Absent PROVE overwrite  OBVIOUS
    <3>2. e \in Tree /\ f[e] # Absent
      <4>1. CASE e = q  BY <3>1, <4>1
      <4>2. CASE e # q
        <5>1. e \in Tree /\ f[e] = Dir  BY <1>6, <1>10, <1>11, <3>1, <4>2, AboveIsDir
        <5> QED  BY <5>1, KindIs
      <4> QED  BY <4>1, <4>2
    <3>3. Exists(e)  BY <1>1, <1>2, <3>2, NodeIs
    <3> QED  BY <1>2, <1>3, <3>3 DEF MayReplace
  <2>2. f[q].kind = "file" => f[q] # Absent  BY KindIs
  <2> QED  BY <1>5, <1>11, <2>1, <2>2 DEF KeptAt, AskedOf, ArrivesAt
<1>12. ASSUME NEW h, NEW q \in Ancestors(e), f[q] = Absent PROVE KeptAt(f, h, o, q)
  <2>1. ~IsProtected(q)  BY <1>6, AboveUnprotected
  <2>2. f[q].kind # "file"  BY <1>12, KindIs
  <2> QED  BY <2>1, <2>2 DEF KeptAt
<1>13. CASE g[s] # Absent /\ ~IsPrefix(s, e)
  <2>1. ~IsPrefix(e, s)  BY <1>6, <1>9, <1>13
  <2>2. PICK h : h = Renamed(f, s, e)  OBVIOUS
  <2>3. /\ Sound(h)
        /\ \A q \in Tree : IsPrefix(s, q) =>
             /\ h[q] = Absent
             /\ Moved(q, s, e) \in Tree => h[Moved(q, s, e)] = f[q]
        /\ \A q \in Tree : /\ ~IsPrefix(s, q) /\ ~IsPrefix(e, q)
                           /\ q \notin Ancestors(e) \/ f[q] # Absent
             => h[q] = f[q]
    BY <1>6, <1>8, <1>10, <1>13, <2>1, <2>2, RenameSound
  <2>4. ASSUME NEW q \in Tree PROVE KeptAt(f, h, o, q)
    <3>1. CASE IsPrefix(e, q)  BY <1>11, <3>1
    <3>2. CASE IsPrefix(s, q) /\ f[q] # Absent
      <4>1. q \in Under(s) /\ ~IsProtected(q)  BY <1>7, <3>2
      <4>2. Moved(q, s, e) \in Tree  BY <1>4, <1>13, <4>1
      <4>3. h[Moved(q, s, e)] = f[q]  BY <2>3, <3>2, <4>2
      <4>4. f[q].kind = "file" => f[q] = File(f[q].text)  BY <1>10, KindIs
      <4> QED  BY <4>1, <4>2, <4>3, <4>4 DEF KeptAt, Holds
    <3>3. CASE IsPrefix(s, q) /\ f[q] = Absent
      <4>1. h[q] = f[q]  BY <2>3, <3>3
      <4> QED  BY <1>10, <4>1, SameIsKept
    <3>4. CASE q \in Ancestors(e) /\ f[q] = Absent  BY <1>12, <3>4
    <3>5. CASE /\ ~IsPrefix(s, q) /\ ~IsPrefix(e, q)
               /\ q \notin Ancestors(e) \/ f[q] # Absent
      <4>1. h[q] = f[q]  BY <2>3, <3>5
      <4> QED  BY <1>10, <4>1, SameIsKept
    <3> QED  BY <3>1, <3>2, <3>3, <3>4, <3>5
  <2>5. files' = h  BY <1>4, <1>13, <2>2
  <2>6. Sound(files') /\ \A q \in Tree : KeptAt(files, files', op', q)
    BY <1>2, <2>3, <2>4, <2>5
  <2>7. op'.do # "none"  BY <1>2, <1>5
  <2> QED  BY <1>5, <2>6, <2>7, Acted
<1>14. CASE ~(g[s] # Absent /\ ~IsPrefix(s, e))
  <2>1. ASSUME NEW q \in Tree PROVE KeptAt(f, g, o, q)
    <3>1. CASE IsPrefix(e, q)  BY <1>11, <3>1
    <3>2. CASE q \in Ancestors(e) /\ f[q] = Absent  BY <1>12, <3>2
    <3>3. CASE ~IsPrefix(e, q) /\ (q \notin Ancestors(e) \/ f[q] # Absent)
      <4>1. g[q] = f[q]  BY <1>9, <3>3
      <4> QED  BY <1>10, <4>1, SameIsKept
    <3> QED  BY <3>1, <3>2, <3>3
  <2>2. files' = g  BY <1>4, <1>14
  <2>3. Sound(files') /\ \A q \in Tree : KeptAt(files, files', op', q)
    BY <1>2, <1>9, <2>1, <2>2
  <2>4. op'.do # "none"  BY <1>2, <1>5
  <2> QED  BY <1>5, <2>3, <2>4, Acted
<1> QED  BY <1>13, <1>14

LEMMA ReadKeeps ==
  ASSUME FilesInv, NEW p \in Tree, ReadsFile(p)
  PROVE  FilesInv'
<1>1. Sound(files) /\ op = NoOp /\ prior = files  BY DEF FilesInv, ReadsFile
<1>2. PICK f, c : f = files /\ c = Canonical(p) /\ f \in [Tree -> Nodes]
  BY <1>1 DEF Sound
<1>3. /\ MayTouch("read", p) /\ Is(c, "file") /\ said' = Node(c).text
      /\ files' = files /\ prior' = prior /\ op'.do = "read"
  BY <1>2 DEF ReadsFile, NoOp
<1>4. InScope(c) /\ c \in Tree /\ f[c] = File(f[c].text) /\ Node(c) = f[c]
  BY <1>1, <1>2, <1>3, MayTouchIs, NodeIs
<1>5. f[c] # File(OutsideText)  BY <1>1, <1>2, <1>4 DEF Sound
<1>6. said' \in AllTexts /\ said' # OutsideText
  <2>1. f[c].kind = "file"  BY <1>4, KindIs
  <2>2. f[c].text \in AllTexts  BY <1>2, <1>4, <2>1, KindIs
  <2> QED  BY <1>3, <1>4, <1>5, <2>2
<1>7. op' # NoOp  BY <1>3 DEF NoOp
<1>8. files' = f /\ prior' = f  BY <1>1, <1>2, <1>3
<1>9. ASSUME NEW q \in Tree, f[q].kind = "file" PROVE Holds(f, f[q].text)
  BY <1>2, <1>9, KindIs DEF Holds
<1>10. LostOnlyIfAsked'  BY <1>8, <1>9 DEF LostOnlyIfAsked
<1>11. ProtectedKept'  BY <1>8 DEF ProtectedKept
<1>12. Sound(files') /\ prior' \in [Tree -> Nodes]  BY <1>1, <1>2, <1>8
<1> QED  BY <1>6, <1>7, <1>10, <1>11, <1>12 DEF FilesInv

LEMMA AnswerKeeps ==
  ASSUME FilesInv, Answers
  PROVE  FilesInv'
<1>1. PICK f : f = files /\ f \in [Tree -> Nodes] /\ Sound(f)  BY DEF FilesInv, Sound
<1>2. files' = f /\ prior' = f /\ op' = NoOp /\ said' = Unseen  BY <1>1 DEF Answers
<1>3. ASSUME NEW q \in Tree, f[q].kind = "file" PROVE Holds(f, f[q].text)
  BY <1>1, <1>3, KindIs DEF Holds
<1>4. LostOnlyIfAsked'  BY <1>2, <1>3 DEF LostOnlyIfAsked
<1>5. ProtectedKept'  BY <1>2 DEF ProtectedKept
<1>6. Unseen # OutsideText  BY FilesAssumption
<1>7. Sound(files') /\ prior' \in [Tree -> Nodes]  BY <1>1, <1>2
<1> QED  BY <1>2, <1>4, <1>5, <1>6, <1>7 DEF FilesInv

LEMMA FilesInvStarts ==
  ASSUME FilesInit
  PROVE  FilesInv
<1>1. PICK mine \in [{p \in Tree : InScope(p) /\ p # Root} -> UserNodes] :
        files = [p \in Tree |-> IF p = Root THEN Dir
                                ELSE IF InScope(p) THEN mine[p] ELSE OutsideNode(p)]
  BY DEF FilesInit
<1>2. WellFormed(files) /\ prior = files /\ op = NoOp /\ said = Unseen  BY DEF FilesInit
<1>3. PICK f : f = files  OBVIOUS
<1>4. UserNodes \subseteq Nodes /\ Dir \in Nodes /\ \A p \in Tree : OutsideNode(p) \in Nodes
  BY DEF UserNodes, Nodes, OutsideNode, AllTexts
<1>5. File(OutsideText) \notin UserNodes /\ Dir # File(OutsideText)
  BY KindIs, FilesAssumption DEF UserNodes
<1>6. ASSUME NEW p \in Tree
      PROVE  /\ f[p] \in Nodes
             /\ IF InScope(p) THEN f[p] # File(OutsideText) ELSE f[p] = OutsideNode(p)
  <2>1. f[p] = IF p = Root THEN Dir ELSE IF InScope(p) THEN mine[p] ELSE OutsideNode(p)
    BY <1>1, <1>3
  <2>2. InScope(Root)
    <3>1. Root \in Paths  BY TreeIs
    <3> QED  BY <3>1, PrefixOrder DEF InScope
  <2>3. CASE p = Root  BY <1>4, <1>5, <2>1, <2>2, <2>3
  <2>4. CASE p # Root /\ InScope(p)
    <3>1. mine[p] \in UserNodes  BY <2>4
    <3> QED  BY <1>4, <1>5, <2>1, <2>4, <3>1
  <2>5. CASE p # Root /\ ~InScope(p)  BY <1>4, <2>1, <2>5
  <2> QED  BY <2>3, <2>4, <2>5
<1>7. f \in [Tree -> Nodes]
  <2>1. f = [p \in Tree |-> f[p]]  BY <1>1, <1>3
  <2> QED  BY <1>6, <2>1
<1>8. Sound(files)  BY <1>2, <1>3, <1>6, <1>7 DEF Sound
<1>9. LostOnlyIfAsked
  <2>1. ASSUME NEW q \in Tree, f[q].kind = "file" PROVE Holds(f, f[q].text)
    BY <1>7, <2>1, KindIs DEF Holds
  <2> QED  BY <1>2, <1>3, <2>1 DEF LostOnlyIfAsked
<1>10. ProtectedKept  BY <1>2 DEF ProtectedKept
<1>11. Unseen # OutsideText  BY FilesAssumption
<1> QED  BY <1>2, <1>3, <1>7, <1>8, <1>9, <1>10, <1>11 DEF FilesInv

(* Every operation of the file tool keeps the invariant.                     *)
THEOREM FilesInvariance == FilesInit /\ [][FilesNext]_filesVars => []FilesInv
<1>1. FilesInit => FilesInv  BY FilesInvStarts
<1>2. FilesInv /\ [FilesNext]_filesVars => FilesInv'
  <2> SUFFICES ASSUME FilesInv, [FilesNext]_filesVars PROVE FilesInv'
    OBVIOUS
  <2>1. CASE \E p \in Tree : MakesDir(p)  BY <2>1, MakeDirKeeps
  <2>2. CASE \E p \in Tree : Deletes(p)  BY <2>2, DeleteKeeps
  <2>3. CASE \E p \in Tree : ReadsFile(p)  BY <2>3, ReadKeeps
  <2>4. CASE \E p \in Tree, overwrite \in BOOLEAN, t \in Texts : WritesFile(p, t, overwrite)
    BY <2>4, WriteKeeps
  <2>5. CASE \E p \in Tree, overwrite \in BOOLEAN, d \in Tree : Copies(p, d, overwrite)
    BY <2>5, CopyKeeps
  <2>6. CASE \E p \in Tree, overwrite \in BOOLEAN, d \in Tree : Moves(p, d, overwrite)
    BY <2>6, MoveKeeps
  <2>7. CASE Answers  BY <2>7, AnswerKeeps
  <2>8. CASE UNCHANGED filesVars
    <3>1. files' = files /\ prior' = prior /\ op' = op /\ said' = said  BY <2>8 DEF filesVars
    <3> QED  BY <3>1 DEF FilesInv, LostOnlyIfAsked, AskedFor, ProtectedKept
  <2> QED
    BY <2>1, <2>2, <2>3, <2>4, <2>5, <2>6, <2>7, <2>8 DEF FilesNext
<1> QED  BY <1>1, <1>2, PTL

(* The file tools stay inside the root, through links too, leak nothing of   *)
(* what is outside, and lose a text or a protected path only where they were *)
(* asked to: FileSystemTool.run under ToolSecurityEnforcer.                  *)
THEOREM FilesAreSafe == FilesInit /\ [][FilesNext]_filesVars => []FilesSafe
<1>1. FilesInv => FilesSafe
  <2> SUFFICES ASSUME FilesInv PROVE FilesSafe
    OBVIOUS
  <2>1. FilesTypeOK  BY DEF FilesInv, Sound, FilesTypeOK
  <2>2. OutsideStaysOutside  BY DEF FilesInv, Sound, Node, OutsideStaysOutside
  <2> QED  BY <2>1, <2>2 DEF FilesInv, FilesSafe
<1> QED  BY <1>1, FilesInvariance, PTL
=============================================================================
