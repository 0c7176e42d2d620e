--------------------------- MODULE WorkflowRuntime ---------------------------
(***************************************************************************)
(* One execution's plan, as WorkflowEngine.execute schedules it in batches *)
(* (app/workflow/engine.py) and RuntimeEngine.run dispatches each task     *)
(* (app/runtime/engine.py), with the reliability checkpoints both save and *)
(* the recovery of the plan after a crash.  One action is one run of the   *)
(* event loop between two awaits; the tasks of a batch interleave, and the *)
(* effect of a dispatched task lands in the world at a moment of its own,  *)
(* possibly after its executor has given up on it.                         *)
(***************************************************************************)
EXTENDS Naturals, FiniteSets

CONSTANTS
  Tasks,          \* plan task ids: numbers, in plan order
  Deps,           \* PlanTask.dependencies
  Class,          \* the side effect class, or "internal" for a planning step
  NeedsApproval,  \* tasks whose permit is ASK_USER until the user answers
  Unroutable,     \* tasks for which a Router implementation may raise
  MayMatchMany,   \* can a tool answer MULTIPLE_MATCHES?
  MayAbort,       \* can run() itself raise (a checkpoint write, an OSError)?
  MaxAttempts,    \* RetryPolicy.max_attempts
  MaxCrashes      \* bound on process crashes

ASSUME PlanAssumption ==
  /\ Tasks \subseteq Nat \ {0} /\ IsFiniteSet(Tasks)
  /\ Deps \in [Tasks -> SUBSET Tasks]
  /\ \A t \in Tasks : \A d \in Deps[t] : d < t
  /\ Class \in [Tasks -> {"internal", "read_only", "idempotent",
                          "non_idempotent"}]
  /\ NeedsApproval \subseteq Tasks /\ Unroutable \subseteq Tasks
  /\ MayMatchMany \in BOOLEAN /\ MayAbort \in BOOLEAN
  /\ MaxAttempts \in Nat \ {0} /\ MaxCrashes \in Nat

VARIABLES
  status,    \* where the execution is
  pending,   \* the paused task an awaiting execution waits for
  done,      \* WorkflowState.completed_task_ids
  failed,    \* WorkflowState.failed_task_ids
  marked,    \* ParallelWorkflowScheduler.completed_task_ids
  final,     \* what _final_runtime_result would return
  pc,        \* where RuntimeEngine.run is for each task of the batch
  verdict,   \* the RuntimeResult run returned
  attempt,   \* run's attempt counter
  resolved,  \* record.resolved_approvals: pauses the user has answered
  approved,  \* tasks whose permit was resolved to ALLOW
  consumed,  \* _consumed_mutation_permits
  results,   \* record.operation_results: operations with a saved result
  replay,    \* context.metadata["recovered_operation_results"]
  armed,     \* a dispatched effect that has not landed and still may
  effects,   \* how often each task's effect landed, counted up to Many
  disk,      \* the durable checkpoint
  crashes

flow  == <<done, failed, marked, final>>
world == <<armed, effects>>
vars  == <<status, pending, done, failed, marked, final, pc, verdict, attempt,
           resolved, approved, consumed, results, replay, armed, effects,
           disk, crashes>>

Many == 2

NonIdempotent == {t \in Tasks : Class[t] = "non_idempotent"}
Internal      == {t \in Tasks : Class[t] = "internal"}

(* "resuming" is the wait_for between the transition to RUNNING and the    *)
(* checkpoint of resume_pipeline; "settling" the post-processing between   *)
(* the workflow's return and _settle_pipeline.                             *)
Ended  == {"completed", "failed", "denied"}
States == {"resuming", "running", "settling", "awaiting", "down"} \cup Ended

NoPause == 0
Pauses  == Tasks \cup {NoPause}

(* "unroutable" and "aborted" are FAILED results without a routing: the     *)
(* router raised, or run() raised or timed out.                            *)
Routed   == {"completed", "failed", "paused"}
Verdicts == Routed \cup {"none", "unroutable", "aborted"}

Checkpoint == [status: {"running", "awaiting"} \cup Ended, safe: BOOLEAN,
               done: SUBSET Tasks, failed: SUBSET Tasks,
               results: SUBSET Tasks, resolved: SUBSET Tasks,
               approved: SUBSET Tasks, pending: Pauses]

TypeOK ==
  /\ status \in States
  /\ pending \in Pauses
  /\ done \subseteq Tasks /\ failed \subseteq Tasks /\ marked \subseteq Tasks
  /\ final \in Routed \cup {"none"}
  /\ pc \in [Tasks -> {"idle", "dispatched", "running", "returned"}]
  /\ verdict \in [Tasks -> Verdicts]
  /\ attempt \in [Tasks -> 1..MaxAttempts]
  /\ resolved \subseteq Tasks /\ approved \subseteq Tasks
  /\ consumed \subseteq Tasks
  /\ results \subseteq Tasks /\ replay \subseteq Tasks
  /\ armed \in [Tasks -> BOOLEAN]
  /\ effects \in [Tasks -> 0..Many]
  /\ disk \in Checkpoint
  /\ crashes \in 0..MaxCrashes

-----------------------------------------------------------------------------
(* ExecutionGraph and the scheduler *)

(* Mutant: a failed dependency is as good as a completed one. *)
ReadyOnceHandled(completed, bad) ==
  {t \in Tasks \ (completed \cup bad) : Deps[t] \subseteq completed \cup bad}

(* get_ready_tasks *)
Ready(completed, bad) ==
  {t \in Tasks \ (completed \cup bad) : Deps[t] \subseteq completed \ bad}

(* Mutant: only the direct dependents of a failed task are blocked. *)
BlockedDirectly(bad) == {t \in Tasks \ bad : Deps[t] \cap bad # {}}

(* get_blocked_tasks: what a failed task is upstream of. *)
Blocked(bad) ==
  LET blocked[t \in Tasks] ==
        t \notin bad /\ \E d \in Deps[t] : d \in bad \/ blocked[d]
  IN  {t \in Tasks : blocked[t]}

(* Mutant: blocked tasks are waited for. *)
FinishedUnblocked == Tasks \subseteq marked \cup failed

(* ParallelWorkflowScheduler.is_finished *)
Finished == Tasks \subseteq marked \cup failed \cup Blocked(failed)

Batch == {t \in Tasks : pc[t] # "idle"}

-----------------------------------------------------------------------------
(* Permits and checkpoints *)

(* The user denied the pending task: resume_pipeline runs the plan on, with  *)
(* that permit a denial, and the public status stays AWAITING_APPROVAL.    *)
Denying == pending \in resolved \ approved

Permitted(t) == t \notin NeedsApproval \/ t \in approved

(* The coordinator's _save_checkpoint, called through reliability_checkpoint *)
SaveAs(st, safe, p) ==
  disk' = [status |-> st, safe |-> safe, done |-> done', failed |-> failed',
           results |-> results', resolved |-> resolved',
           approved |-> approved', pending |-> p]

SaveRunning(safe) ==
  SaveAs(IF pending \in resolved' \ approved' THEN "awaiting" ELSE "running",
         safe, pending)

(* WorkflowEngine.execute begins with the ids of a WorkflowState. *)
EngineStarts(completed, bad) ==
  /\ done' = completed
  /\ failed' = bad
  /\ marked' = completed
  /\ final' = "none"
  /\ pc' = [t \in Tasks |-> "idle"]
  /\ verdict' = [t \in Tasks |-> "none"]
  /\ attempt' = [t \in Tasks |-> 1]

(* run_pipeline has planned, authorized and checkpointed the plan. *)
Init ==
  /\ status = "running" /\ pending = NoPause
  /\ done = {} /\ failed = {} /\ marked = {} /\ final = "none"
  /\ pc = [t \in Tasks |-> "idle"]
  /\ verdict = [t \in Tasks |-> "none"]
  /\ attempt = [t \in Tasks |-> 1]
  /\ resolved = {} /\ approved = {} /\ consumed = {}
  /\ results = {} /\ replay = {}
  /\ armed = [t \in Tasks |-> FALSE]
  /\ effects = [t \in Tasks |-> 0]
  /\ disk = [status |-> "running", safe |-> TRUE, done |-> {}, failed |-> {},
             results |-> {}, resolved |-> {}, approved |-> {},
             pending |-> NoPause]
  /\ crashes = 0

-----------------------------------------------------------------------------
(* WorkflowEngine.execute *)

(* One turn of the loop up to run_batch: the ready internal tasks are done *)
(* at once, the others are routed and handed to the runtime.  With acyclic *)
(* dependencies some task is always ready (NeverStranded), so the          *)
(* "Scheduling failure" branch is not a step of this model.                *)
NextBatch ==
  /\ status = "running" /\ Batch = {} /\ ~Finished
  /\ LET ready == Ready(marked, failed)
         work  == ready \ Internal
     IN  /\ ready # {}
         /\ marked' = marked \cup (ready \cap Internal)
         /\ \E lost \in SUBSET (work \cap Unroutable) :
              /\ pc' = [t \in Tasks |-> CASE t \in lost -> "returned"
                                          [] t \in work \ lost -> "dispatched"
                                          [] OTHER -> "idle"]
              /\ verdict' = [t \in Tasks |-> IF t \in lost THEN "unroutable"
                                                           ELSE "none"]
  /\ attempt' = [t \in Tasks |-> 1]
  /\ UNCHANGED <<status, pending, done, failed, final, resolved, approved,
                 consumed, results, replay, world, disk, crashes>>

(* The results of a batch that the loop over batch_results looks at: the   *)
(* routing failures come first, and a PAUSED result returns from execute   *)
(* without a look at the results behind it.                                *)
Seen(paused) ==
  {t \in Batch : verdict[t] = "unroutable" \/ \A p \in paused : t <= p}

FinishBatch ==
  /\ status = "running" /\ Batch # {}
  /\ \A t \in Batch : pc[t] = "returned"
  /\ LET paused == {t \in Batch : verdict[t] = "paused"}
         seen   == Seen(paused)
         ok     == {t \in seen : verdict[t] = "completed"}
         bad    == seen \ (ok \cup paused)
         routed == {t \in seen : verdict[t] \in Routed}
     IN  /\ done' = done \cup ok
         /\ marked' = marked \cup ok
         /\ failed' = failed \cup bad
         /\ final' = IF routed = {} THEN final
                     ELSE verdict[CHOOSE t \in routed :
                                    \A u \in routed : u <= t]
         /\ UNCHANGED <<resolved, approved, results>>
         /\ IF paused = {}
            THEN SaveRunning(TRUE) /\ UNCHANGED <<status, pending>>
            ELSE /\ status' = "settling"
                 /\ pending' = IF Denying THEN pending
                               ELSE CHOOSE t \in paused :
                                      \A u \in paused : t <= u
                 /\ UNCHANGED disk
  /\ pc' = [t \in Tasks |-> "idle"]
  /\ verdict' = [t \in Tasks |-> "none"]
  /\ attempt' = [t \in Tasks |-> 1]
  /\ UNCHANGED <<consumed, replay, world, crashes>>

(* execute returns; the results of blocked tasks carry no routing. *)
FinishWorkflow ==
  /\ status = "running" /\ Batch = {} /\ Finished
  /\ status' = "settling"
  /\ UNCHANGED <<pending, flow, pc, verdict, attempt, resolved, approved,
                 consumed, results, replay, world, disk, crashes>>

(* Mutant: an execution without a result counts as completed. *)
SettledStatusHopeful ==
  IF Denying THEN "denied"
  ELSE CASE final = "paused"                -> "awaiting"
         [] final \in {"completed", "none"} -> "completed"
         [] OTHER                           -> "failed"

(* The status the coordinator gives the execution: DENIED after a denial,  *)
(* otherwise what _final_runtime_result says.                              *)
SettledStatus ==
  IF Denying THEN "denied"
  ELSE CASE final = "paused"    -> "awaiting"
         [] final = "completed" -> "completed"
         [] OTHER               -> "failed"

(* _settle_pipeline, and the denial at the end of _run_resume. *)
Settle ==
  LET p == IF SettledStatus = "awaiting" THEN pending ELSE NoPause
  IN  /\ status = "settling"
      /\ status' = SettledStatus
      /\ pending' = p
      /\ UNCHANGED <<flow, resolved, approved, results>>
      /\ SaveAs(SettledStatus, FALSE, p)
      /\ UNCHANGED <<pc, verdict, attempt, consumed, replay, world, crashes>>

-----------------------------------------------------------------------------
(* RuntimeEngine.run *)

Returns(t, v) ==
  /\ pc' = [pc EXCEPT ![t] = "returned"]
  /\ verdict' = [verdict EXCEPT ![t] = v]
  /\ UNCHANGED attempt

Begins(t) == status = "running" /\ pc[t] = "dispatched"

(* Mutant: every checkpoint of run() is marked safe. *)
SaveOutcomeSafe(t) ==
  /\ UNCHANGED <<done, failed, results, resolved, approved>>
  /\ SaveRunning(TRUE)

(* A checkpoint of run() for task t with outcome not COMPLETED. *)
SaveOutcome(t) ==
  /\ UNCHANGED <<done, failed, results, resolved, approved>>
  /\ SaveRunning(t \notin NonIdempotent)

(* A result recovered from the checkpoint stands for the operation. *)
RestoreResult(t) ==
  /\ Begins(t) /\ t \in replay /\ Permitted(t)
  /\ Returns(t, "completed")
  /\ UNCHANGED <<status, pending, flow, resolved, approved, consumed, results,
                 replay, world, disk, crashes>>

(* The gate runs before a recovered result is reused, without a checkpoint, *)
(* and before a dispatch, between two checkpoints.                         *)
GateSaves(t) ==
  IF t \in replay
  THEN UNCHANGED <<done, failed, results, resolved, approved, disk>>
  ELSE SaveOutcome(t)

(* enforce_cap_permit refuses: denied, or the permit expired meanwhile. *)
GateRefuses(t) ==
  /\ Begins(t)
  /\ Permitted(t) \/ t \in resolved
  /\ Returns(t, "failed")
  /\ GateSaves(t)
  /\ UNCHANGED <<status, pending, marked, final, consumed, replay, world,
                 crashes>>

(* enforce_cap_permit asks for the user's approval. *)
GatePauses(t) ==
  /\ Begins(t) /\ ~Permitted(t) /\ t \notin resolved
  /\ Returns(t, "paused")
  /\ GateSaves(t)
  /\ UNCHANGED <<status, pending, marked, final, consumed, replay, world,
                 crashes>>

(* Mutant: permits are not claimed. *)
ClaimedNever(t) == FALSE

(* One process does not dispatch a mutation permit twice. *)
Claimed(t) == t \in NonIdempotent /\ attempt[t] = 1 /\ t \in consumed

PermitReplayed(t) ==
  /\ Begins(t) /\ t \notin replay /\ Permitted(t)
  /\ Claimed(t)
  /\ Returns(t, "failed")
  /\ SaveOutcome(t)
  /\ UNCHANGED <<status, pending, marked, final, consumed, replay, world,
                 crashes>>

(* The STARTED checkpoint, the claim on the permit, executor.execute. *)
Dispatch(t) ==
  /\ Begins(t) /\ t \notin replay /\ Permitted(t)
  /\ ~Claimed(t)
  /\ pc' = [pc EXCEPT ![t] = "running"]
  /\ consumed' = IF t \in NonIdempotent THEN consumed \cup {t} ELSE consumed
  /\ armed' = [armed EXCEPT ![t] = TRUE]
  /\ SaveOutcome(t)
  /\ UNCHANGED <<status, pending, marked, final, verdict, attempt, replay,
                 effects, crashes>>

(* The operation takes effect outside the process. *)
Land(t) ==
  /\ status # "down" /\ armed[t]
  /\ armed' = [armed EXCEPT ![t] = FALSE]
  /\ effects' = [effects EXCEPT ![t] = IF @ < Many THEN @ + 1 ELSE Many]
  /\ UNCHANGED <<status, pending, flow, pc, verdict, attempt, resolved,
                 approved, consumed, results, replay, disk, crashes>>

InExecutor(t) == status = "running" /\ pc[t] = "running"

(* The executor reports success: the effect has landed, its result is kept. *)
ExecutorCompletes(t) ==
  /\ InExecutor(t) /\ ~armed[t]
  /\ Returns(t, "completed")
  /\ results' = results \cup {t}
  /\ UNCHANGED <<done, failed, resolved, approved>>
  /\ SaveRunning(TRUE)
  /\ UNCHANGED <<status, pending, marked, final, consumed, replay, world,
                 crashes>>

(* Mutant: the attempts are not counted. *)
MayRetryAlways(t, before) == t \notin NonIdempotent \/ before

(* Mutant: a mutation is retried after an unknown outcome. *)
MayRetryUnknown(t, before) == attempt[t] < MaxAttempts

(* RetryPolicy.allows, for a retryable failure type. *)
MayRetry(t, before) ==
  attempt[t] < MaxAttempts /\ (t \notin NonIdempotent \/ before)

(* A failed attempt returns, or sleeps for the next one. *)
GivesUpOrRetries(t, before) ==
  \/ Returns(t, "failed")
  \/ /\ MayRetry(t, before)
     /\ pc' = [pc EXCEPT ![t] = "dispatched"]
     /\ attempt' = [attempt EXCEPT ![t] = @ + 1]
     /\ UNCHANGED verdict

(* FAILED_BEFORE_EFFECT: a check refused the operation before it began. *)
FailsBeforeEffect(t) ==
  /\ InExecutor(t) /\ armed[t]
  /\ GivesUpOrRetries(t, TRUE)
  /\ armed' = [armed EXCEPT ![t] = FALSE]
  /\ UNCHANGED <<done, failed, results, resolved, approved>>
  /\ SaveRunning(TRUE)
  /\ UNCHANGED <<status, pending, marked, final, consumed, replay, effects,
                 crashes>>

(* Mutant: the result is kept whatever the outcome was. *)
FailsUnknownKept(t) ==
  /\ InExecutor(t)
  /\ GivesUpOrRetries(t, FALSE)
  /\ results' = results \cup {t}
  /\ UNCHANGED <<done, failed, resolved, approved>>
  /\ SaveRunning(t \notin NonIdempotent)
  /\ UNCHANGED <<status, pending, marked, final, consumed, replay, world,
                 crashes>>

(* FAILED_AFTER_EFFECT_UNKNOWN or TIMED_OUT_UNKNOWN: the effect may have   *)
(* landed, and may land later still.                                       *)
FailsUnknown(t) ==
  /\ InExecutor(t)
  /\ GivesUpOrRetries(t, FALSE)
  /\ SaveOutcome(t)
  /\ UNCHANGED <<status, pending, marked, final, consumed, replay, world,
                 crashes>>

(* A tool answers MULTIPLE_MATCHES instead of acting. *)
MatchesMany(t) ==
  /\ InExecutor(t) /\ MayMatchMany /\ armed[t]
  /\ Returns(t, "paused")
  /\ armed' = [armed EXCEPT ![t] = FALSE]
  /\ SaveOutcome(t)
  /\ UNCHANGED <<status, pending, marked, final, consumed, replay, effects,
                 crashes>>

(* run() itself raises or the worker timeout cancels it: no checkpoint. *)
RunAborts(t) ==
  /\ MayAbort /\ (Begins(t) \/ InExecutor(t))
  /\ Returns(t, "aborted")
  /\ UNCHANGED <<status, pending, flow, resolved, approved, consumed, results,
                 replay, world, disk, crashes>>

-----------------------------------------------------------------------------
(* Answers and crashes *)

(* The user answers the pause of a permit that asked for it; the plan runs *)
(* on from the WorkflowState of the pause.                                 *)
Answer(allow) ==
  /\ status = "awaiting"
  /\ pending \in NeedsApproval \ resolved
  /\ resolved' = resolved \cup {pending}
  /\ approved' = IF allow THEN approved \cup {pending} ELSE approved
  /\ status' = "running"
  /\ EngineStarts(done, failed)
  /\ UNCHANGED results
  /\ SaveRunning(TRUE)
  /\ UNCHANGED <<pending, consumed, replay, world, crashes>>

(* A pause that is not about a permit: ApprovalEngine.resolve raises, so   *)
(* allowing fails the execution, and denying leaves it waiting.            *)
AnswerRaises(allow) ==
  /\ status = "awaiting"
  /\ pending \notin NeedsApproval \cup resolved
  /\ resolved' = resolved \cup {pending}
  /\ status' = IF allow THEN "failed" ELSE status
  /\ UNCHANGED <<done, failed, results, approved>>
  /\ SaveAs(status', FALSE, pending)
  /\ UNCHANGED <<pending, marked, final, pc, verdict, attempt, consumed,
                 replay, world, crashes>>

Crash ==
  /\ status # "down" /\ crashes < MaxCrashes
  /\ crashes' = crashes + 1
  /\ status' = "down"
  /\ pending' = NoPause
  /\ EngineStarts({}, {})
  /\ resolved' = {} /\ approved' = {} /\ consumed' = {}
  /\ results' = {} /\ replay' = {}
  /\ armed' = [t \in Tasks |-> FALSE]
  /\ UNCHANGED <<effects, disk>>

(* What _restore_checkpoints makes of the durable checkpoint. *)
RestoredStatus ==
  IF disk.status # "running" THEN disk.status
  ELSE IF disk.safe THEN "resuming" ELSE "failed"

(* _restore_checkpoints, and recover_pending up to the transition to       *)
(* RUNNING, which saves an unsafe checkpoint.                              *)
Restart ==
  /\ status = "down"
  /\ status' = RestoredStatus
  /\ EngineStarts(disk.done, disk.failed)
  /\ pending' = disk.pending
  /\ resolved' = disk.resolved
  /\ approved' = disk.approved
  /\ results' = disk.results
  /\ replay' = disk.results
  /\ disk' = IF RestoredStatus = "resuming" THEN [disk EXCEPT !.safe = FALSE]
                                            ELSE disk
  /\ UNCHANGED <<consumed, world, crashes>>

(* resume_pipeline of a recovered execution. *)
ResumePipeline ==
  /\ status = "resuming"
  /\ status' = "running"
  /\ UNCHANGED <<done, failed, results, resolved, approved>>
  /\ SaveRunning(TRUE)
  /\ UNCHANGED <<pending, marked, final, pc, verdict, attempt, consumed,
                 replay, world, crashes>>

-----------------------------------------------------------------------------
RunStep(t) ==
  \/ RestoreResult(t) \/ GateRefuses(t) \/ GatePauses(t)
  \/ PermitReplayed(t) \/ Dispatch(t)
  \/ ExecutorCompletes(t) \/ FailsBeforeEffect(t) \/ FailsUnknown(t)
  \/ MatchesMany(t) \/ RunAborts(t)

EngineStep ==
  \/ NextBatch \/ FinishBatch \/ FinishWorkflow \/ Settle
  \/ Restart \/ ResumePipeline

Next ==
  \/ EngineStep
  \/ \E t \in Tasks : RunStep(t) \/ Land(t)
  \/ \E allow \in BOOLEAN : Answer(allow) \/ AnswerRaises(allow)
  \/ Crash

Spec == Init /\ [][Next]_vars

(* The event loop goes on and every executor returns (tools have timeouts, *)
(* providers request timeouts).  Nothing is assumed of the user.           *)
FairSpec ==
  /\ Spec
  /\ WF_vars(EngineStep)
  /\ \A t \in Tasks : WF_vars(RunStep(t))

-----------------------------------------------------------------------------
(* Properties: effects in the world, what is reported of them, and what a *)
(* checkpoint may be used for.                                             *)

(* The dispatches of t whose effect has landed or still may. *)
Exposure(t) == effects[t] + (IF armed[t] THEN 1 ELSE 0)

(* A non-idempotent operation takes effect at most once, through retries,  *)
(* pauses, crashes and recoveries: the consumed permits, the retry policy, *)
(* recovery_safe and the recovered results together (runtime/engine.py).   *)
AtMostOnce == \A t \in NonIdempotent : Exposure(t) <= 1

(* Until the process first crashes, that holds of plans with parallel      *)
(* tasks too, although a pause makes the engine forget siblings that ran:  *)
(* _consumed_mutation_permits remembers them.                              *)
AtMostOncePerProcess == crashes = 0 => AtMostOnce

(* A checkpoint that a restart will run the plan from accounts for every   *)
(* non-idempotent operation that was ever dispatched: recovery_safe is     *)
(* true only when the interrupted operation cannot have begun unrecorded.  *)
SafeCheckpointCovers ==
  (disk.status = "running" /\ disk.safe) \/ disk.status = "awaiting" =>
    \A t \in NonIdempotent :
      Exposure(t) > 0 => t \in disk.done \cup disk.failed \cup disk.results

(* A task counts as completed, in memory or on disk, only if its effect    *)
(* really landed: neither a recovered result nor a merged WorkflowState    *)
(* makes one up.                                                           *)
DoneIsReal ==
  \A t \in done \cup results \cup disk.done \cup disk.results :
    effects[t] > 0

(* An execution reported COMPLETED has had every task of its plan take     *)
(* effect (_final_runtime_result decides the report).                      *)
CompletedMeansDone ==
  status = "completed" => \A t \in Tasks \ Internal : effects[t] > 0

(* The scheduler never finds the plan unfinished with nothing ready and    *)
(* nothing in flight: "Scheduling failure: deadlocked or unresolved        *)
(* dependencies" is unreachable for acyclic plans, after any recovery.     *)
NeverStranded ==
  status = "running" /\ Batch = {} /\ ~Finished => Ready(marked, failed) # {}

(* A task is in flight only when everything it depends on has taken effect, *)
(* also when completed siblings or internal tasks were forgotten by a pause *)
(* or a restart.                                                           *)
DependenciesFirst ==
  \A t \in Batch : \A d \in Deps[t] \ Internal : effects[d] > 0

(* A plan whose every task is durably completed is not reported as failed. *)
FinishedIsReported ==
  disk.done = Tasks \ Internal /\ status \in Ended => status = "completed"

(* Every execution keeps coming to rest: it ends, or waits for its user.   *)
ComesToRest == []<>(status \in Ended \cup {"awaiting"})

(* A plan that is a chain, through pauses, retries and crashes: no         *)
(* mutation takes effect twice, a checkpoint marked safe accounts for what *)
(* was dispatched, and COMPLETED means that every task was done.           *)
ChainSafe ==
  /\ TypeOK /\ AtMostOnce /\ SafeCheckpointCovers /\ CompletedMeansDone

(* A plan with branches: within a process no mutation is dispatched twice, *)
(* what counts as done took effect, no task is left without a way to run   *)
(* or to be blocked, and none runs before what it depends on.              *)
JoinSafe ==
  /\ AtMostOncePerProcess /\ DoneIsReal /\ NeverStranded
  /\ DependenciesFirst
=============================================================================
