------------------------ MODULE ExecutionCoordinator ------------------------
(***************************************************************************)
(* ExecutionCoordinator (app/core/execution_coordinator.py): the public    *)
(* lifecycle of executions inside one asyncio process, their durable       *)
(* checkpoints, and what survives a crash and restart of that process.     *)
(*                                                                         *)
(* One action is one run of the event loop between two awaits, so the      *)
(* code of an action is atomic for the other coroutines.  It is not atomic *)
(* for a crash: a handler that saves several checkpoints can be cut off    *)
(* after any of them.  `window' holds the checkpoints the latest handler   *)
(* wrote and then replaced; Crash may leave any of them as the durable     *)
(* one.  The pipeline the coordinator drives (the orchestrator) is         *)
(* external to this module: it checkpoints, produces a result, raises or   *)
(* hangs on as it likes.                                                   *)
(***************************************************************************)
EXTENDS Naturals, FiniteSets

CONSTANTS
  Execs,          \* execution ids: numbers, whose order is the ids' sort order
  Tasks,          \* plan task ids, which are the approval ids too
  NoTask,
  MaxActive,      \* max_active_executions
  MaxPending,     \* max_pending_executions
  MaxRetained,    \* max_retained_executions
  MaxCrashes,     \* bound on process crashes
  ResumeMayRaise, \* can resume_pipeline raise (permit expired, no provider)?
  MayRepause      \* can an approved task pause again (MULTIPLE_MATCHES)?

ASSUME ConstantsAssumption ==
  /\ Execs \subseteq Nat /\ IsFiniteSet(Execs)
  /\ NoTask \notin Tasks
  /\ MaxActive \in Nat \ {0} /\ MaxRetained \in Nat \ {0}
  /\ MaxPending \in Nat /\ MaxCrashes \in Nat
  /\ ResumeMayRaise \in BOOLEAN /\ MayRepause \in BOOLEAN

VARIABLES
  up,         \* the process is running
  known,      \* the keys of self._executions
  rec,        \* each execution's record: the part a checkpoint saves
  age,        \* how many executions entered self._executions later
  task,       \* where the execution's asyncio task is suspended
  kind,       \* which coroutine that task runs
  cancelling, \* task.cancel() was called, CancelledError not yet delivered
  waiters,    \* cancel_execution / timeout_execution calls awaiting the task
  disk,       \* the durable checkpoint of each execution
  window,     \* checkpoints the latest handler saved before its last save
  crashes

vars == <<up, known, rec, age, task, kind, cancelling, waiters, disk,
          window, crashes>>

-----------------------------------------------------------------------------
(* The public statuses of app/core/contracts/state.py.  PENDING and PAUSED *)
(* are internal to a workflow and take no part in the public lifecycle.    *)

(* ExecutionState.terminal *)
Terminal == {"completed", "failed", "denied", "cancelled", "timed_out"}

Status ==
  Terminal \cup {"created", "planning", "awaiting_approval", "approved",
                 "running", "recovering"}

(* _PUBLIC_TRANSITIONS: the statuses each status may move to. *)
PublicTransitions ==
  [s \in Status |->
     CASE s = "created" ->
            {"planning", "recovering", "failed", "cancelled", "timed_out"}
       [] s = "planning" ->
            {"awaiting_approval", "running", "completed", "failed", "denied",
             "cancelled", "timed_out", "recovering"}
       [] s = "awaiting_approval" ->
            {"approved", "denied", "cancelled", "timed_out", "recovering"}
       [] s = "approved" ->
            {"running", "awaiting_approval", "completed", "failed",
             "cancelled", "timed_out"}
       [] s = "running" ->
            {"awaiting_approval", "completed", "failed", "cancelled",
             "timed_out", "recovering"}
       [] s = "recovering" ->
            {"planning", "running", "awaiting_approval", "completed",
             "failed", "cancelled", "timed_out"}
       [] OTHER -> {}]

(* ExecutionState.transition raises ValueError unless this holds: staying  *)
(* put is always accepted, a terminal status accepts nothing else.         *)
CanMove(from, to) == to = from \/ to \in PublicTransitions[from]

-----------------------------------------------------------------------------
(* Where an asyncio task can be suspended: created but never stepped,      *)
(* waiting for the capacity semaphore, inside the pipeline, or inside the  *)
(* pipeline's post-processing with runtime_result already assigned.        *)
TaskPoint == {"none", "created", "queued", "pipeline", "finishing"}

(* _run_initial, _run_resume("allow") and _run_resume("deny"). *)
TaskKind == {"initial", "allow", "deny"}

(* What pipeline_state.runtime_result and its report say. *)
Result == {"none", "paused"} \cup Terminal

Record == [status: Status \cup {"absent"}, result: Result,
           pending: Tasks \cup {NoTask}, resolved: SUBSET Tasks]

NoRecord == [status |-> "absent", result |-> "none", pending |-> NoTask,
             resolved |-> {}]

Checkpoint == [rec: Record, safe: BOOLEAN]

(* RecoveryCheckpoint as _save_checkpoint builds it. *)
Saved(r, safe) == [rec |-> r, safe |-> safe]

NoCheckpoint == Saved(NoRecord, FALSE)

TypeOK ==
  /\ up \in BOOLEAN
  /\ known \subseteq Execs
  /\ rec \in [Execs -> Record]
  /\ age \in [Execs -> Nat]
  /\ task \in [Execs -> TaskPoint]
  /\ kind \in [Execs -> TaskKind]
  /\ cancelling \in [Execs -> BOOLEAN]
  /\ waiters \in [Execs -> SUBSET {"cancel", "timeout"}]
  /\ disk \in [Execs -> Checkpoint]
  /\ window \in [Execs -> SUBSET Checkpoint]
  /\ crashes \in 0..MaxCrashes

-----------------------------------------------------------------------------
(* Helpers *)

TerminalIn(keys, r) == {e \in keys : r[e].status \in Terminal}

(* Mutant: one terminal record too many is kept. *)
PrunedOffByOne(keys, r, order, preserve) ==
  LET dead == TerminalIn(keys, r)
      Older(e) == {x \in dead \ preserve : order[x] > order[e]}
  IN  {e \in dead \ preserve :
         Cardinality(Older(e)) + MaxRetained + 1 < Cardinality(dead)}

(* _prune_terminal_records: drop the oldest terminal records until         *)
(* MaxRetained are left, never the one whose transition asked for it.      *)
Pruned(keys, r, order, preserve) ==
  LET dead == TerminalIn(keys, r)
      Older(e) == {x \in dead \ preserve : order[x] > order[e]}
  IN  {e \in dead \ preserve :
         Cardinality(Older(e)) + MaxRetained < Cardinality(dead)}

(* The record r of e after a handler that last saved checkpoint c and      *)
(* saved the checkpoints w before it.  Reaching a terminal status prunes.  *)
Commit(e, r, c, w) ==
  LET new == [rec EXCEPT ![e] = r]
  IN  /\ rec' = new
      /\ known' = IF r.status \in Terminal
                  THEN known \ Pruned(known, new, age, {e})
                  ELSE known
      /\ disk' = [disk EXCEPT ![e] = c]
      /\ window' = [x \in Execs |-> IF x = e THEN w \ {c} ELSE {}]

Quiet == window' = [x \in Execs |-> {}]

EndTask(e) ==
  /\ task' = [task EXCEPT ![e] = "none"]
  /\ cancelling' = [cancelling EXCEPT ![e] = FALSE]

Live(e) == task[e] # "none"

InPipeline(e) == task[e] \in {"pipeline", "finishing"}

(* Holders of self._capacity. *)
Holders == {e \in Execs : InPipeline(e) /\ kind[e] = "initial"}

NonTerminal == known \ TerminalIn(known, rec)

(* _set_terminal_result *)
WithResult(r, status) == [r EXCEPT !.result = status]

-----------------------------------------------------------------------------
(* The capacity test of start_execution, over all that has not ended.      *)
Admits == Cardinality(NonTerminal) < MaxActive + MaxPending

(* start_execution: a fresh id, admitted while fewer than MaxActive +      *)
(* MaxPending executions are open.  A conflict or a full house raises and  *)
(* changes nothing.                                                        *)
StartExecution(e) ==
  /\ up
  /\ e \notin known /\ disk[e] = NoCheckpoint
  /\ Admits
  /\ LET created == [NoRecord EXCEPT !.status = "created"]
         planning == [created EXCEPT !.status = "planning"]
     IN  /\ rec' = [rec EXCEPT ![e] = planning]
         /\ disk' = [disk EXCEPT ![e] = Saved(planning, TRUE)]
         /\ window' = [x \in Execs |->
                         IF x = e THEN {Saved(created, TRUE)} ELSE {}]
  /\ known' = known \cup {e}
  /\ age' = [x \in Execs |-> IF x = e THEN 0
                             ELSE IF x \in known THEN age[x] + 1 ELSE age[x]]
  /\ task' = [task EXCEPT ![e] = "created"]
  /\ kind' = [kind EXCEPT ![e] = "initial"]
  /\ UNCHANGED <<up, cancelling, waiters, crashes>>

(* _run_initial past its semaphore: PLANNING or RECOVERING becomes RUNNING *)
(* and the pipeline starts.                                                *)
EnterPipeline(e) ==
  LET running == [rec[e] EXCEPT !.status = "running"]
  IN  /\ Cardinality(Holders) < MaxActive
      /\ Commit(e, running, Saved(running, FALSE), {})
      /\ task' = [task EXCEPT ![e] = "pipeline"]
      /\ UNCHANGED <<up, age, kind, cancelling, waiters, crashes>>

(* The first step of _run_initial finds a free slot and no queue, ... *)
RunInitial(e) ==
  /\ task[e] = "created" /\ ~cancelling[e] /\ kind[e] = "initial"
  /\ \A x \in Execs : task[x] # "queued"
  /\ EnterPipeline(e)

(* ... or waits for the semaphore, ... *)
QueueInitial(e) ==
  /\ task[e] = "created" /\ ~cancelling[e] /\ kind[e] = "initial"
  /\ \/ Cardinality(Holders) >= MaxActive
     \/ \E x \in Execs : task[x] = "queued"
  /\ task' = [task EXCEPT ![e] = "queued"]
  /\ Quiet
  /\ UNCHANGED <<up, known, rec, age, kind, cancelling, waiters, disk,
                 crashes>>

(* ... and takes a slot that was released. *)
AcquireCapacity(e) ==
  /\ task[e] = "queued" /\ ~cancelling[e]
  /\ EnterPipeline(e)

(* The first step of _run_resume, which takes no slot. *)
RunResume(e) ==
  /\ task[e] = "created" /\ ~cancelling[e] /\ kind[e] # "initial"
  /\ task' = [task EXCEPT ![e] = "pipeline"]
  /\ Quiet
  /\ UNCHANGED <<up, known, rec, age, kind, cancelling, waiters, disk,
                 crashes>>

(* _runtime_checkpoint, called from inside the pipeline at its own         *)
(* boundaries, which it marks safe to replay or not.                       *)
RuntimeCheckpoint(e, safe) ==
  /\ task[e] = "pipeline" /\ ~cancelling[e]
  /\ Commit(e, rec[e], Saved(rec[e], safe), {})
  /\ UNCHANGED <<up, age, task, kind, cancelling, waiters, crashes>>

(* The pipeline assigns runtime_result in place, then awaits its           *)
(* post-processing (memory formation).  With nothing to run it assigns     *)
(* None.  A denied resume runs the task against a DENY permit, which fails.*)
PipelineProduces(e, r) ==
  /\ task[e] = "pipeline" /\ ~cancelling[e]
  /\ kind[e] = "deny" => r = "failed"
  /\ rec' = [rec EXCEPT ![e] = WithResult(@, r)]
  /\ task' = [task EXCEPT ![e] = "finishing"]
  /\ Quiet
  /\ UNCHANGED <<up, known, age, kind, cancelling, waiters, disk, crashes>>

(* _settle_pipeline with a paused result: the approval id is the task id.  *)
SettlePaused(e, t) ==
  /\ task[e] = "finishing" /\ ~cancelling[e] /\ kind[e] # "deny"
  /\ rec[e].result = "paused"
  /\ t \in rec[e].resolved => MayRepause
  /\ LET waiting == [rec[e] EXCEPT !.status = "awaiting_approval",
                                   !.pending = t]
     IN  Commit(e, waiting, Saved(waiting, FALSE), {})
  /\ EndTask(e)
  /\ UNCHANGED <<up, age, kind, waiters, crashes>>

(* Mutant: the result's status is taken over as it is. *)
SettleVerdictRaw(r) == r

(* Mutant: whatever did not fail has completed. *)
SettleVerdictHopeful(r) ==
  IF r \in {"failed", "cancelled"} THEN r ELSE "completed"

(* _settle_pipeline otherwise; no result, or any other status, is FAILED.  *)
SettleVerdict(r) ==
  IF r \in {"completed", "cancelled"} THEN r ELSE "failed"

SettleFinal(e) ==
  /\ task[e] = "finishing" /\ ~cancelling[e] /\ kind[e] # "deny"
  /\ rec[e].result # "paused"
  /\ LET final == [rec[e] EXCEPT !.status = SettleVerdict(rec[e].result),
                                 !.pending = NoTask]
     IN  Commit(e, final, Saved(final, FALSE), {})
  /\ EndTask(e)
  /\ UNCHANGED <<up, age, kind, waiters, crashes>>

(* _run_resume after a denied resume returned. *)
SettleDenied(e) ==
  /\ task[e] = "finishing" /\ ~cancelling[e] /\ kind[e] = "deny"
  /\ LET denied == [rec[e] EXCEPT !.status = "denied", !.pending = NoTask,
                                  !.result = "denied"]
     IN  Commit(e, denied, Saved(denied, FALSE), {})
  /\ EndTask(e)
  /\ UNCHANGED <<up, age, kind, waiters, crashes>>

(* The pipeline of _run_initial raised: FAILED, or TIMED_OUT when          *)
(* asyncio.wait_for gave up on it.  The result is saved last.              *)
InitialRaises(e, verdict) ==
  /\ InPipeline(e) /\ ~cancelling[e] /\ kind[e] = "initial"
  /\ LET moved == [rec[e] EXCEPT !.status = verdict]
         final == WithResult(moved, verdict)
     IN  Commit(e, final, Saved(final, FALSE), {Saved(moved, FALSE)})
  /\ EndTask(e)
  /\ UNCHANGED <<up, age, kind, waiters, crashes>>

(* resume_pipeline raised.  The status is saved, the result written after  *)
(* it is not.  From AWAITING_APPROVAL (a denial) FAILED is no legal move:  *)
(* transition itself raises and the task dies with the record unchanged.   *)
ResumeRaises(e) ==
  /\ ResumeMayRaise
  /\ InPipeline(e) /\ ~cancelling[e] /\ kind[e] # "initial"
  /\ IF CanMove(rec[e].status, "failed")
     THEN LET moved == [rec[e] EXCEPT !.status = "failed"]
          IN  Commit(e, WithResult(moved, "failed"), Saved(moved, FALSE), {})
     ELSE Quiet /\ UNCHANGED <<known, rec, disk>>
  /\ EndTask(e)
  /\ UNCHANGED <<up, age, kind, waiters, crashes>>

(* CancelledError reaches a task that never ran: no handler is entered. *)
CancelBeforeStart(e) ==
  /\ cancelling[e] /\ task[e] = "created"
  /\ EndTask(e)
  /\ Quiet
  /\ UNCHANGED <<up, known, rec, age, kind, waiters, disk, crashes>>

(* CancelledError inside the try of _run_initial or _run_resume.  Only     *)
(* _run_initial saves the result as well.                                  *)
DeliverCancel(e) ==
  /\ cancelling[e] /\ task[e] \notin {"none", "created"}
  /\ LET moved == IF rec[e].status \in Terminal THEN rec[e]
                  ELSE [rec[e] EXCEPT !.status = "cancelled"]
         final == WithResult(moved, IF moved.status = "timed_out"
                                    THEN "timed_out" ELSE "cancelled")
     IN  IF kind[e] = "initial"
         THEN Commit(e, final, Saved(final, FALSE),
                     IF moved = rec[e] THEN {} ELSE {Saved(moved, FALSE)})
         ELSE Commit(e, final, IF moved = rec[e] THEN disk[e]
                               ELSE Saved(moved, FALSE), {})
  /\ EndTask(e)
  /\ UNCHANGED <<up, age, kind, waiters, crashes>>

Answered(r) == [r EXCEPT !.resolved = @ \cup {r.pending}]

(* Mutant: the status moves before the answer is recorded. *)
AllowTrailLate(r) ==
  {Saved([r EXCEPT !.status = "approved"], FALSE)}

(* What submit_approval("allow") saves on its way to RUNNING. *)
AllowTrail(r) ==
  {Saved(Answered(r), FALSE),
   Saved([Answered(r) EXCEPT !.status = "approved"], FALSE)}

(* submit_approval: the answer is saved as resolved before the status      *)
(* moves; "allow" then saves APPROVED and RUNNING, "deny" leaves the       *)
(* status to _run_resume.                                                  *)
SubmitApproval(e, decision) ==
  /\ up /\ e \in known
  /\ rec[e].status = "awaiting_approval"
  /\ rec[e].pending \in Tasks \ rec[e].resolved
  /\ LET answered == Answered(rec[e])
         running == [answered EXCEPT !.status = "running"]
     IN  IF decision = "allow"
         THEN Commit(e, running, Saved(running, FALSE), AllowTrail(rec[e]))
         ELSE Commit(e, answered, Saved(answered, FALSE), {})
  /\ task' = [task EXCEPT ![e] = "created"]
  /\ kind' = [kind EXCEPT ![e] = decision]
  /\ UNCHANGED <<up, age, cancelling, waiters, crashes>>

(* Mutant: cancelled again, whatever the record says by now. *)
FinishCancelUnchecked(e) ==
  LET final == [WithResult(rec[e], "cancelled")
                  EXCEPT !.status = "cancelled", !.pending = NoTask]
  IN  Commit(e, final, Saved(final, FALSE), {})

(* Mutant: the task is trusted to have moved the status. *)
FinishCancelTrusting(e) ==
  LET final == [WithResult(rec[e], "cancelled") EXCEPT !.pending = NoTask]
  IN  Commit(e, final, Saved(final, FALSE), {})

(* The tail of cancel_execution, after the task it waited for has ended.   *)
FinishCancel(e) ==
  LET moved == IF rec[e].status \in Terminal THEN rec[e]
               ELSE [rec[e] EXCEPT !.status = "cancelled"]
      final == [WithResult(moved, "cancelled") EXCEPT !.pending = NoTask]
  IN  Commit(e, final, Saved(final, FALSE),
             IF moved = rec[e] THEN {} ELSE {Saved(moved, FALSE)})

(* Mutant: only the cancel event is set, nothing reads it in time. *)
RequestCancelByEvent(e) == UNCHANGED cancelling

(* task.cancel(): CancelledError at the task's next step. *)
RequestCancel(e) == cancelling' = [cancelling EXCEPT ![e] = TRUE]

(* cancel_execution: cancel a live task and wait for it, or finish at once.*)
CancelExecution(e) ==
  /\ up /\ e \in known /\ rec[e].status \notin Terminal
  /\ "cancel" \notin waiters[e]
  /\ IF Live(e)
     THEN /\ RequestCancel(e)
          /\ waiters' = [waiters EXCEPT ![e] = @ \cup {"cancel"}]
          /\ Quiet
          /\ UNCHANGED <<known, rec, disk>>
     ELSE FinishCancel(e) /\ UNCHANGED <<cancelling, waiters>>
  /\ UNCHANGED <<up, age, task, kind, crashes>>

CancelWakes(e) ==
  /\ "cancel" \in waiters[e] /\ ~Live(e)
  /\ FinishCancel(e)
  /\ waiters' = [waiters EXCEPT ![e] = @ \ {"cancel"}]
  /\ UNCHANGED <<up, age, task, kind, cancelling, crashes>>

(* The tail of timeout_execution. *)
TimedOut(r) == [WithResult(r, "timed_out") EXCEPT !.pending = NoTask]

(* timeout_execution: TIMED_OUT first, then cancel the task and wait.      *)
TimeoutExecution(e) ==
  /\ up /\ e \in known /\ rec[e].status \notin Terminal
  /\ LET moved == [rec[e] EXCEPT !.status = "timed_out"]
         final == TimedOut(moved)
     IN  IF Live(e)
         THEN /\ Commit(e, moved, Saved(moved, FALSE), {})
              /\ RequestCancel(e)
              /\ waiters' = [waiters EXCEPT ![e] = @ \cup {"timeout"}]
         ELSE /\ Commit(e, final, Saved(final, FALSE), {Saved(moved, FALSE)})
              /\ UNCHANGED <<cancelling, waiters>>
  /\ UNCHANGED <<up, age, task, kind, crashes>>

(* Tasks wake their waiters in the order they came, and a cancel that      *)
(* waits came before the timeout: after it, it would have returned.        *)
TimeoutWakes(e) ==
  /\ "timeout" \in waiters[e] /\ ~Live(e) /\ "cancel" \notin waiters[e]
  /\ LET final == TimedOut(rec[e])
     IN  Commit(e, final, Saved(final, FALSE), {})
  /\ waiters' = [waiters EXCEPT ![e] = @ \ {"timeout"}]
  /\ UNCHANGED <<up, age, task, kind, cancelling, crashes>>

-----------------------------------------------------------------------------
(* Crash and restart *)

(* The process dies between two steps, or inside the latest one with one   *)
(* of that step's earlier checkpoints durable.                             *)
Crash ==
  /\ up /\ crashes < MaxCrashes
  /\ up' = FALSE /\ crashes' = crashes + 1
  /\ known' = {}
  /\ rec' = [e \in Execs |-> NoRecord]
  /\ age' = [e \in Execs |-> 0]
  /\ task' = [e \in Execs |-> "none"]
  /\ kind' = [e \in Execs |-> "initial"]
  /\ cancelling' = [e \in Execs |-> FALSE]
  /\ waiters' = [e \in Execs |-> {}]
  /\ Quiet
  /\ \/ UNCHANGED disk
     \/ \E e \in Execs : \E c \in window[e] : disk' = [disk EXCEPT ![e] = c]

(* Mutant: a timeout counts as an interruption. *)
InterruptedOrLate ==
  {"created", "planning", "approved", "running", "recovering", "timed_out"}

(* _restore_checkpoints: a status that implies interrupted work is         *)
(* recoverable only from a checkpoint marked safe.                         *)
Interrupted == {"created", "planning", "approved", "running", "recovering"}

(* Mutant: recover from any checkpoint. *)
RestoredStatusUnsafe(c) ==
  IF c.rec.status \in Interrupted THEN "recovering" ELSE c.rec.status

RestoredStatus(c) ==
  IF c.rec.status \notin Interrupted THEN c.rec.status
  ELSE IF c.safe THEN "recovering" ELSE "failed"

Restored(c) ==
  LET r == [c.rec EXCEPT !.status = RestoredStatus(c)]
  IN  IF c.rec.status \in Interrupted /\ ~c.safe
      THEN WithResult(r, "failed") ELSE r

(* Mutant: nobody calls recover_pending after a restart. *)
RecoverPendingNever(keys, r) == [e \in Execs |-> "none"]

(* recover_pending: a new _run_initial task for every recovering record.   *)
RecoverPending(keys, r) ==
  [e \in Execs |-> IF e \in keys /\ r[e].status = "recovering"
                   THEN "created" ELSE "none"]

(* __init__ registers every durable execution in id order and prunes; the  *)
(* application's startup then calls recover_pending.  ExecutionState would *)
(* raise on an illegal move and startup would not finish.                  *)
Restart ==
  /\ ~up
  /\ LET found == {e \in Execs : disk[e] # NoCheckpoint}
         r == [e \in Execs |-> Restored(disk[e])]
         order == [e \in Execs |-> Cardinality({x \in found : e < x})]
         keys == found \ Pruned(found, r, order, {})
     IN  /\ \A e \in found : CanMove(disk[e].rec.status, RestoredStatus(disk[e]))
         /\ rec' = r
         /\ known' = keys
         /\ age' = order
         /\ task' = RecoverPending(keys, r)
  /\ up' = TRUE
  /\ Quiet
  /\ UNCHANGED <<kind, cancelling, waiters, disk, crashes>>

-----------------------------------------------------------------------------
Init ==
  /\ up = TRUE
  /\ known = {}
  /\ rec = [e \in Execs |-> NoRecord]
  /\ age = [e \in Execs |-> 0]
  /\ task = [e \in Execs |-> "none"]
  /\ kind = [e \in Execs |-> "initial"]
  /\ cancelling = [e \in Execs |-> FALSE]
  /\ waiters = [e \in Execs |-> {}]
  /\ disk = [e \in Execs |-> NoCheckpoint]
  /\ window = [e \in Execs |-> {}]
  /\ crashes = 0

(* What the event loop does by itself. *)
TaskStep(e) ==
  \/ RunInitial(e) \/ QueueInitial(e) \/ AcquireCapacity(e) \/ RunResume(e)
  \/ \E r \in {"none", "paused", "completed", "failed", "cancelled"} :
       PipelineProduces(e, r)
  \/ \E t \in Tasks : SettlePaused(e, t)
  \/ SettleFinal(e) \/ SettleDenied(e)
  \/ \E v \in {"failed", "timed_out"} : InitialRaises(e, v)
  \/ ResumeRaises(e)
  \/ CancelBeforeStart(e) \/ DeliverCancel(e)
  \/ CancelWakes(e) \/ TimeoutWakes(e)

Next ==
  \/ \E e \in Execs :
       \/ TaskStep(e)
       \/ StartExecution(e)
       \/ \E safe \in BOOLEAN : RuntimeCheckpoint(e, safe)
       \/ \E d \in {"allow", "deny"} : SubmitApproval(e, d)
       \/ CancelExecution(e) \/ TimeoutExecution(e)
  \/ Crash \/ Restart

Spec == Init /\ [][Next]_vars

(* The loop runs every ready task and waiter, a pipeline ends (every       *)
(* provider and tool call under it has a timeout), a supervisor restarts   *)
(* the process.  Clients may start, answer, cancel or time out nothing.    *)
Fairness == (\A e \in Execs : WF_vars(TaskStep(e))) /\ WF_vars(Restart)

FairSpec == Spec /\ Fairness

-----------------------------------------------------------------------------
(* Properties: what must hold of every execution.                          *)

(* An execution with a final status has no pipeline still running for it,  *)
(* except one that has already been told to stop: the losers of the race   *)
(* between completion, cancel_execution and timeout_execution do no work.  *)
TerminalHasNoTask ==
  \A e \in Execs :
    rec[e].status \in Terminal => ~Live(e) \/ cancelling[e]

(* The checkpoints of e that a crash at this moment could leave. *)
Leavable(e) == {disk[e]} \cup window[e]

(* Whatever final status a client was shown, a process that crashes now    *)
(* and restarts shows the same one, whichever checkpoint it finds.         *)
VerdictKept(e) ==
  rec[e].status \in Terminal =>
    \A c \in Leavable(e) : RestoredStatus(c) = rec[e].status

VerdictDurable == \A e \in Execs : VerdictKept(e)

(* _restore_checkpoints never asks ExecutionState for an illegal move      *)
(* (APPROVED to RECOVERING is one), so a restart always gets through.      *)
Restorable(e) ==
  \A c \in Leavable(e) :
    c.rec.status # "absent" => CanMove(c.rec.status, RestoredStatus(c))

RestoreIsLegal == \A e \in Execs : Restorable(e)

(* COMPLETED is never reported without a completed result behind it, in    *)
(* memory or in any checkpoint (success is never fabricated).              *)
EarnedCompletion(e) ==
  \A r \in {rec[e]} \cup {c.rec : c \in Leavable(e)} :
    r.status = "completed" => r.result = "completed"

CompletedHasResult == \A e \in Execs : EarnedCompletion(e)

(* An accepted answer to an approval is in every checkpoint a crash could  *)
(* leave, so no restart lets the same approval be answered a second time.  *)
AnswersKept(e) ==
  \A c \in Leavable(e) : rec[e].resolved \subseteq c.rec.resolved

AnswersDurable == \A e \in Execs : AnswersKept(e)

(* The process keeps at most MaxRetained finished executions, and never    *)
(* forgets one that has not finished.                                      *)
RetentionBound ==
  /\ Cardinality(TerminalIn(known, rec)) <= MaxRetained
  /\ up => \A e \in Execs \ known :
             disk[e] # NoCheckpoint => RestoredStatus(disk[e]) \in Terminal

(* Every execution ends or waits for its user: none is left planning,      *)
(* running or recovering for ever, through crashes and restarts, and no    *)
(* cancel_execution or timeout_execution call waits for ever for its task. *)
Settled(e) == rec[e].status \in Terminal \cup {"awaiting_approval"}

EveryExecutionSettles ==
  \A e \in Execs :
    (up /\ (e \in known \/ waiters[e] # {}))
      ~> (waiters[e] = {} /\ (Settled(e) \/ e \notin known))

(* When a cancel_execution or timeout_execution call returns, the          *)
(* execution it was called for is final, whatever its task did meanwhile.  *)
CancelReturns ==
  [][\A e \in Execs : up' /\ waiters[e] \ waiters'[e] # {}
                        => rec'[e].status \in Terminal]_vars

-----------------------------------------------------------------------------
(* The coordinator implements Verdict: the verdict is the final status     *)
(* shown, or the one a restart would show when the record is gone.         *)
VerdictOf(e) ==
  LET s == IF up /\ e \in known THEN rec[e].status ELSE RestoredStatus(disk[e])
  IN  IF s \in Terminal THEN s ELSE "open"

V == INSTANCE Verdict WITH verdict <- [e \in Execs |-> VerdictOf(e)],
                            Verdicts <- Terminal

(* At most one verdict per execution, across races, pruning and crashes.   *)
OneVerdict == V!Spec

-----------------------------------------------------------------------------
(* Claims of the repository the code does not meet.                        *)

(* "ExecutionCoordinator must respect max_active_executions": pipelines    *)
(* running at once, resumed ones included.                                 *)
ActiveBound == Cardinality({e \in Execs : InPipeline(e)}) <= MaxActive

(* An execution that waits for an approval, while no answer, cancel or     *)
(* timeout is being processed for it, has an approval that can be given.   *)
AwaitingIsAnswerable ==
  \A e \in known :
    rec[e].status = "awaiting_approval" /\ ~Live(e) /\ waiters[e] = {} =>
      rec[e].pending \in Tasks \ rec[e].resolved

(* With nothing in flight, the stored result of a finished execution says  *)
(* what its status says (FAILED may have none).                            *)
ResultAgrees(r) ==
  r.status \in Terminal =>
    r.result = r.status \/ (r.status = "failed" /\ r.result = "none")

TerminalResultAgrees ==
  \A e \in known : ~Live(e) /\ waiters[e] = {} => ResultAgrees(rec[e])

(* What a client may rely on in every state and step: a decided execution  *)
(* does no more work, a verdict and an answer outlive a crash, a restart   *)
(* gets through, success is earned, and a cancel or timeout that returned  *)
(* has ended its execution.                                                *)
CoordinatorSafe ==
  /\ [](/\ TypeOK /\ TerminalHasNoTask /\ VerdictDurable /\ RestoreIsLegal
        /\ CompletedHasResult /\ AnswersDurable)
  /\ CancelReturns
=============================================================================
