--------------------- MODULE ExecutionCoordinatorProofs ---------------------
(***************************************************************************)
(* Proofs about ExecutionCoordinator: the type invariant, the inductive    *)
(* invariant Inv and the safety properties it contains, and that the       *)
(* coordinator implements Verdict.                                         *)
(***************************************************************************)
EXTENDS ExecutionCoordinator, FiniteSetTheorems,
        WellFoundedInduction, TLAPS

-----------------------------------------------------------------------------
(* The inductive invariant behind the proofs.                              *)

Blank(e) ==
  rec[e] = NoRecord /\ task[e] = "none" /\ waiters[e] = {} /\ window[e] = {}

(* A crashed process has no memory. *)
DownIsBlank(e) == ~up => e \notin known /\ Blank(e)

(* What a running process does not list has ended or has never started.    *)
UnlistedIsFinal(e) ==
  up /\ e \notin known =>
    rec[e].status \in Terminal \/ (Blank(e) /\ disk[e] = NoCheckpoint)

(* A final execution can only still have a task when timeout_execution     *)
(* decided it, and that task has been told to stop.                        *)
LiveWhenFinal(e) ==
  Live(e) /\ rec[e].status \in Terminal =>
    cancelling[e] /\ rec[e].status = "timed_out"

CancellingIsLive(e) == cancelling[e] => Live(e)

(* While a call waits for a task, the task can neither complete nor fail,  *)
(* and no answer can start another.                                        *)
WaitersBlock(e) ==
  waiters[e] # {} =>
    /\ Live(e) => cancelling[e]
    /\ rec[e].status \notin {"completed", "failed", "denied"}
    /\ rec[e].status = "awaiting_approval" => rec[e].pending \in rec[e].resolved
    /\ "timeout" \in waiters[e] => rec[e].status = "timed_out"

(* A task of an execution that awaits approval is processing a denial.     *)
AnswerInFlight(e) ==
  Live(e) /\ rec[e].status = "awaiting_approval" =>
    rec[e].pending \in rec[e].resolved

(* APPROVED is never left in memory: the same step goes on to RUNNING.     *)
NeverLeftApproved(e) == rec[e].status # "approved"

Sound(e) ==
  /\ DownIsBlank(e) /\ UnlistedIsFinal(e) /\ LiveWhenFinal(e)
  /\ CancellingIsLive(e) /\ WaitersBlock(e) /\ AnswerInFlight(e)
  /\ NeverLeftApproved(e) /\ VerdictKept(e) /\ Restorable(e)
  /\ EarnedCompletion(e) /\ AnswersKept(e)

Inv == TypeOK /\ \A e \in Execs : Sound(e)

(* The parts of a record keep it a record. *)
LEMMA RecordParts ==
  ASSUME NEW r \in Record, NEW s \in Status \cup {"absent"},
         NEW x \in Result, NEW t \in Tasks \cup {NoTask}
  PROVE  /\ [r EXCEPT !.status = s] \in Record
         /\ [r EXCEPT !.status = s, !.pending = t] \in Record
         /\ [r EXCEPT !.status = s, !.pending = t, !.result = x] \in Record
         /\ [r EXCEPT !.pending = t] \in Record
         /\ WithResult(r, x) \in Record
         /\ r.pending \in Tasks => Answered(r) \in Record
  BY DEF Record, WithResult, Answered

LEMMA SavedType ==
  ASSUME NEW r \in Record, NEW safe \in BOOLEAN
  PROVE  Saved(r, safe) \in Checkpoint
  BY DEF Saved, Checkpoint

LEMMA NoRecordType == NoRecord \in Record /\ NoCheckpoint \in Checkpoint
  BY SavedType DEF NoRecord, NoCheckpoint, Record, Result, Saved, Checkpoint

LEMMA QuietType ==
  ASSUME Quiet PROVE window' \in [Execs -> SUBSET Checkpoint]
  BY DEF Quiet

LEMMA EndTaskType ==
  ASSUME TypeOK, NEW e \in Execs, EndTask(e)
  PROVE  /\ task' \in [Execs -> TaskPoint]
         /\ cancelling' \in [Execs -> BOOLEAN]
  BY DEF TypeOK, EndTask, TaskPoint

LEMMA WaitersType ==
  ASSUME TypeOK, NEW e \in Execs, NEW w \in {"cancel", "timeout"}
  PROVE  /\ [waiters EXCEPT ![e] = @ \cup {w}]
              \in [Execs -> SUBSET {"cancel", "timeout"}]
         /\ [waiters EXCEPT ![e] = @ \ {w}]
              \in [Execs -> SUBSET {"cancel", "timeout"}]
  <1>1. waiters \in [Execs -> SUBSET {"cancel", "timeout"}]
    BY DEF TypeOK
  <1>2. /\ waiters[e] \cup {w} \in SUBSET {"cancel", "timeout"}
        /\ waiters[e] \ {w} \in SUBSET {"cancel", "timeout"}
    BY <1>1
  <1>3. QED
    BY <1>1, <1>2

LEMMA StatusFacts ==
  /\ \A s \in Terminal : s \in Status /\ s \in Result
  /\ "created" \in Status /\ "planning" \in Status /\ "running" \in Status
  /\ "awaiting_approval" \in Status /\ "approved" \in Status
  /\ "recovering" \in Status
  /\ "failed" \in Terminal /\ "timed_out" \in Terminal
  /\ "denied" \in Terminal /\ "cancelled" \in Terminal
  /\ "completed" \in Terminal
  /\ "none" \in Result /\ "paused" \in Result
  BY DEF Terminal, Status, Result

LEMMA RestoredType ==
  ASSUME NEW c \in Checkpoint
  PROVE  Restored(c) \in Record /\ Restored(c).status = RestoredStatus(c)
  <1>1. c.rec \in Record
    BY DEF Checkpoint
  <1>2. RestoredStatus(c) \in Status \cup {"absent"}
    BY <1>1, StatusFacts DEF RestoredStatus, Record
  <1>3. "failed" \in Result
    BY DEF Result, Terminal
  <1>4. [c.rec EXCEPT !.status = RestoredStatus(c)] \in Record
    BY <1>1, <1>2 DEF Record
  <1>5. QED
    BY <1>1, <1>2, <1>3, <1>4 DEF Restored, WithResult, Record

LEMMA CountType ==
  ASSUME NEW S \in SUBSET Execs
  PROVE  Cardinality(S) \in Nat
  BY ConstantsAssumption, FS_Subset, FS_CardinalityType

LEMMA TypeInit == Init => TypeOK
  BY NoRecordType, ConstantsAssumption
     DEF Init, TypeOK, TaskPoint, TaskKind

(* The step of every action keeps the types. *)
LEMMA TypeStep ==
  ASSUME TypeOK, [Next]_vars
  PROVE  TypeOK'
  <1> DEFINE Written == /\ known' \subseteq Execs /\ rec' \in [Execs -> Record]
                        /\ disk' \in [Execs -> Checkpoint]
                        /\ window' \in [Execs -> SUBSET Checkpoint]
  <1>1. CASE UNCHANGED vars
    BY <1>1 DEF vars, TypeOK
  <1>2. ASSUME NEW e \in Execs, StartExecution(e) PROVE TypeOK'
    <2> DEFINE created == [NoRecord EXCEPT !.status = "created"]
               planning == [created EXCEPT !.status = "planning"]
    <2>1. created \in Record /\ planning \in Record
      BY StatusFacts, NoRecordType DEF Record, NoRecord
    <2>2. Saved(created, TRUE) \in Checkpoint /\ Saved(planning, TRUE) \in Checkpoint
      BY <2>1, SavedType
    <2>3. /\ rec' = [rec EXCEPT ![e] = planning]
          /\ disk' = [disk EXCEPT ![e] = Saved(planning, TRUE)]
          /\ window' = [x \in Execs |-> IF x = e THEN {Saved(created, TRUE)} ELSE {}]
      BY <1>2 DEF StartExecution
    <2>4. rec' \in [Execs -> Record] /\ disk' \in [Execs -> Checkpoint]
          /\ window' \in [Execs -> SUBSET Checkpoint]
      BY <2>1, <2>2, <2>3 DEF TypeOK
    <2>5. age' \in [Execs -> Nat]
      BY <1>2 DEF StartExecution, TypeOK
    <2>6. QED
      BY <1>2, <2>4, <2>5 DEF StartExecution, TypeOK, TaskPoint, TaskKind
  <1>3. ASSUME NEW e \in Execs, EnterPipeline(e)
        PROVE  TypeOK'
    <2> DEFINE running == [rec[e] EXCEPT !.status = "running"]
    <2>1. running \in Record /\ Saved(running, FALSE) \in Checkpoint
      BY SavedType, StatusFacts DEF TypeOK, Record
    <2>2. QED
      BY <1>3, <2>1 DEF EnterPipeline, TaskPoint, Commit, TypeOK
  <1>4. ASSUME NEW e \in Execs, QueueInitial(e) \/ RunResume(e)
        PROVE  TypeOK'
    BY <1>4, QuietType DEF QueueInitial, RunResume, TypeOK, TaskPoint
  <1>5. ASSUME NEW e \in Execs, NEW safe \in BOOLEAN, RuntimeCheckpoint(e, safe)
        PROVE  TypeOK'
    <2>1. rec[e] \in Record /\ Saved(rec[e], safe) \in Checkpoint
      BY SavedType DEF TypeOK
    <2>2. QED
      BY <1>5, <2>1 DEF RuntimeCheckpoint, Commit, TypeOK
  <1>6. ASSUME NEW e \in Execs,
               NEW r \in {"none", "paused", "completed", "failed", "cancelled"},
               PipelineProduces(e, r)
        PROVE TypeOK'
    <2>1. WithResult(rec[e], r) \in Record
      BY RecordParts, StatusFacts DEF TypeOK, Result, Terminal
    <2>2. QED
      BY <1>6, <2>1, QuietType DEF PipelineProduces, TypeOK, TaskPoint
  <1>7. ASSUME NEW e \in Execs, NEW t \in Tasks, SettlePaused(e, t)
        PROVE  TypeOK'
    <2> DEFINE waiting == [rec[e] EXCEPT !.status = "awaiting_approval", !.pending = t]
    <2>1. waiting \in Record /\ Saved(waiting, FALSE) \in Checkpoint
      BY SavedType, StatusFacts DEF TypeOK, Record
    <2>2. QED
      BY <1>7, <2>1 DEF SettlePaused, EndTask, TaskPoint, Commit, TypeOK
  <1>8. ASSUME NEW e \in Execs, SettleFinal(e)
        PROVE  TypeOK'
    <2> DEFINE final == [rec[e] EXCEPT !.status = SettleVerdict(rec[e].result),
                                  !.pending = NoTask]
    <2>1. final \in Record /\ Saved(final, FALSE) \in Checkpoint
      BY SavedType, StatusFacts DEF TypeOK, Record, SettleVerdict
    <2>2. QED
      BY <1>8, <2>1 DEF SettleFinal, EndTask, TaskPoint, Commit, TypeOK
  <1>9. ASSUME NEW e \in Execs, SettleDenied(e)
        PROVE  TypeOK'
    <2> DEFINE denied == [rec[e] EXCEPT !.status = "denied", !.pending = NoTask,
                                   !.result = "denied"]
    <2>1. denied \in Record /\ Saved(denied, FALSE) \in Checkpoint
      BY SavedType, StatusFacts DEF TypeOK, Record
    <2>2. QED
      BY <1>9, <2>1 DEF SettleDenied, EndTask, TaskPoint, Commit, TypeOK
  <1>10. ASSUME NEW e \in Execs, NEW v \in {"failed", "timed_out"}, InitialRaises(e, v)
        PROVE  TypeOK'
    <2> DEFINE moved == [rec[e] EXCEPT !.status = v]
               final == WithResult(moved, v)
    <2>1. moved \in Record /\ Saved(moved, FALSE) \in Checkpoint
      BY SavedType, StatusFacts DEF TypeOK, Record, WithResult
    <2>2. final \in Record /\ Saved(final, FALSE) \in Checkpoint
      BY <2>1, SavedType, StatusFacts DEF TypeOK, Record, WithResult
    <2>3. QED
      BY <1>10, <2>1, <2>2 DEF InitialRaises, EndTask, TaskPoint, Commit, TypeOK
  <1>11. ASSUME NEW e \in Execs, ResumeRaises(e)
        PROVE  TypeOK'
    <2> DEFINE moved == [rec[e] EXCEPT !.status = "failed"]
               final == WithResult(moved, "failed")
    <2>1. moved \in Record /\ Saved(moved, FALSE) \in Checkpoint
      BY SavedType, StatusFacts DEF TypeOK, Record, WithResult
    <2>2. final \in Record /\ Saved(final, FALSE) \in Checkpoint
      BY <2>1, SavedType, StatusFacts DEF TypeOK, Record, WithResult
    <2>3. CASE CanMove(rec[e].status, "failed")
      <3>1. Commit(e, final, Saved(moved, FALSE), {})
        BY <1>11, <2>3 DEF ResumeRaises
      <3>2. Written
        BY <2>1, <2>2, <3>1 DEF Commit, TypeOK
      <3>3. QED
        BY <1>11, <3>2, EndTaskType DEF ResumeRaises, TypeOK
    <2>4. CASE ~CanMove(rec[e].status, "failed")
      BY <1>11, <2>4, EndTaskType DEF ResumeRaises, Quiet, TypeOK
    <2>5. QED
      BY <2>3, <2>4
  <1>12. ASSUME NEW e \in Execs, CancelBeforeStart(e)
        PROVE  TypeOK'
    BY <1>12 DEF CancelBeforeStart, EndTask, Quiet, TypeOK, TaskPoint
  <1>13. ASSUME NEW e \in Execs, DeliverCancel(e)
        PROVE  TypeOK'
    <2> DEFINE moved == IF rec[e].status \in Terminal THEN rec[e]
                        ELSE [rec[e] EXCEPT !.status = "cancelled"]
               final == WithResult(moved, IF moved.status = "timed_out"
                                     THEN "timed_out" ELSE "cancelled")
    <2>1. moved \in Record /\ Saved(moved, FALSE) \in Checkpoint
      BY SavedType, StatusFacts DEF TypeOK, Record, WithResult
    <2>2. final \in Record /\ Saved(final, FALSE) \in Checkpoint
      BY <2>1, SavedType, StatusFacts DEF TypeOK, Record, WithResult
    <2>3. \E c \in Checkpoint, w \in SUBSET Checkpoint : Commit(e, final, c, w)
      <3>1. CASE kind[e] = "initial"
        BY <1>13, <2>1, <2>2, <3>1 DEF DeliverCancel
      <3>2. CASE kind[e] # "initial"
        BY <1>13, <2>1, <2>2, <3>2 DEF DeliverCancel, TypeOK
      <3>3. QED
        BY <3>1, <3>2
    <2>4. Written
      BY <2>2, <2>3 DEF Commit, TypeOK
    <2>5. QED
      BY <1>13, <2>4, EndTaskType DEF DeliverCancel, TypeOK
  <1>14. ASSUME NEW e \in Execs, NEW d \in {"allow", "deny"}, SubmitApproval(e, d)
        PROVE  TypeOK'
    <2> DEFINE answered == Answered(rec[e])
               approved == [answered EXCEPT !.status = "approved"]
               running == [answered EXCEPT !.status = "running"]
    <2>1. answered \in Record /\ Saved(answered, FALSE) \in Checkpoint
      BY <1>14, SavedType DEF SubmitApproval, TypeOK, Record, Answered
    <2>2. approved \in Record /\ Saved(approved, FALSE) \in Checkpoint
      BY <2>1, SavedType, StatusFacts DEF Record
    <2>3. running \in Record /\ Saved(running, FALSE) \in Checkpoint
      BY <2>1, SavedType, StatusFacts DEF Record
    <2>4. AllowTrail(rec[e]) \in SUBSET Checkpoint
      BY <2>1, <2>2 DEF AllowTrail
    <2>5. \E r \in Record, c \in Checkpoint, w \in SUBSET Checkpoint :
            Commit(e, r, c, w)
      <3>1. CASE d = "allow"
        BY <1>14, <2>3, <2>4, <3>1 DEF SubmitApproval
      <3>2. CASE d # "allow"
        BY <1>14, <2>1, <3>2 DEF SubmitApproval
      <3>3. QED
        BY <3>1, <3>2
    <2>6. Written
      BY <2>5 DEF Commit, TypeOK
    <2>7. QED
      BY <1>14, <2>6 DEF SubmitApproval, TypeOK, TaskPoint, TaskKind
  <1>15. ASSUME NEW e \in Execs, FinishCancel(e)
        PROVE  Written
    <2> DEFINE moved == IF rec[e].status \in Terminal THEN rec[e]
                        ELSE [rec[e] EXCEPT !.status = "cancelled"]
               final == [WithResult(moved, "cancelled") EXCEPT !.pending = NoTask]
    <2>1. moved \in Record /\ Saved(moved, FALSE) \in Checkpoint
      BY SavedType, StatusFacts DEF TypeOK, Record, WithResult
    <2>2. final \in Record /\ Saved(final, FALSE) \in Checkpoint
      BY <2>1, SavedType, StatusFacts DEF TypeOK, Record, WithResult
    <2>3. QED
      BY <1>15, <2>1, <2>2 DEF FinishCancel, Commit, TypeOK
  <1>16. ASSUME NEW e \in Execs, CancelExecution(e) \/ CancelWakes(e)
        PROVE  TypeOK'
    <2>1. CASE FinishCancel(e)
      <3>1. Written
        BY <1>15, <2>1
      <3>2. /\ cancelling' \in [Execs -> BOOLEAN]
            /\ waiters' \in [Execs -> SUBSET {"cancel", "timeout"}]
        <4>1. CASE CancelWakes(e)
          BY <4>1, WaitersType DEF CancelWakes, TypeOK
        <4>2. CASE CancelExecution(e) /\ ~Live(e)
          BY <4>2 DEF CancelExecution, TypeOK
        <4>3. CASE CancelExecution(e) /\ Live(e)
          <5>1. waiters' \in [Execs -> SUBSET {"cancel", "timeout"}]
            BY <4>3, WaitersType DEF CancelExecution
          <5>2. cancelling' \in [Execs -> BOOLEAN]
            BY <4>3 DEF CancelExecution, RequestCancel, TypeOK
          <5>3. QED
            BY <5>1, <5>2
        <4>4. QED
          BY <1>16, <4>1, <4>2, <4>3
      <3>3. QED
        BY <1>16, <3>1, <3>2 DEF CancelExecution, CancelWakes, TypeOK
    <2>2. CASE CancelExecution(e) /\ Live(e)
      <3>1. waiters' \in [Execs -> SUBSET {"cancel", "timeout"}]
        BY <2>2, WaitersType DEF CancelExecution
      <3>2. QED
        BY <2>2, <3>1 DEF CancelExecution, RequestCancel, Quiet, TypeOK
    <2>3. QED
      BY <1>16, <2>1, <2>2 DEF CancelExecution, CancelWakes
  <1>17. ASSUME NEW e \in Execs, TimeoutExecution(e)
        PROVE  TypeOK'
    <2> DEFINE moved == [rec[e] EXCEPT !.status = "timed_out"]
               final == TimedOut(moved)
    <2>1. moved \in Record /\ Saved(moved, FALSE) \in Checkpoint
      BY SavedType, StatusFacts DEF TypeOK, Record, WithResult, TimedOut
    <2>2. final \in Record /\ Saved(final, FALSE) \in Checkpoint
      BY <2>1, SavedType, StatusFacts DEF TypeOK, Record, WithResult, TimedOut
    <2>3. \E r \in Record, c \in Checkpoint, w \in SUBSET Checkpoint :
            Commit(e, r, c, w)
      <3>1. CASE Live(e)
        BY <1>17, <2>1, <3>1 DEF TimeoutExecution
      <3>2. CASE ~Live(e)
        BY <1>17, <2>1, <2>2, <3>2 DEF TimeoutExecution
      <3>3. QED
        BY <3>1, <3>2
    <2>4. Written
      BY <2>3 DEF Commit, TypeOK
    <2>5. /\ cancelling' \in [Execs -> BOOLEAN]
          /\ waiters' \in [Execs -> SUBSET {"cancel", "timeout"}]
      <3>1. CASE Live(e)
        <4>1. waiters' \in [Execs -> SUBSET {"cancel", "timeout"}]
          BY <1>17, <3>1, WaitersType DEF TimeoutExecution
        <4>2. cancelling' \in [Execs -> BOOLEAN]
          BY <1>17, <3>1 DEF TimeoutExecution, RequestCancel, TypeOK
        <4>3. QED
          BY <4>1, <4>2
      <3>2. CASE ~Live(e)
        BY <1>17, <3>2 DEF TimeoutExecution, TypeOK
      <3>3. QED
        BY <3>1, <3>2
    <2>6. QED
      BY <1>17, <2>4, <2>5 DEF TimeoutExecution, TypeOK
  <1>18. ASSUME NEW e \in Execs, TimeoutWakes(e)
        PROVE  TypeOK'
    <2> DEFINE final == TimedOut(rec[e])
    <2>1. final \in Record /\ Saved(final, FALSE) \in Checkpoint
      BY SavedType, StatusFacts DEF TypeOK, Record, WithResult, TimedOut
    <2>2. QED
      BY <1>18, <2>1 DEF TimeoutWakes, Commit, TypeOK
  <1>19. CASE Crash
    <2>1. disk' \in [Execs -> Checkpoint]
      BY <1>19 DEF Crash, TypeOK
    <2>2. crashes' \in 0..MaxCrashes
      BY <1>19, ConstantsAssumption DEF Crash, TypeOK
    <2>3. rec' \in [Execs -> Record]
      BY <1>19, NoRecordType DEF Crash
    <2>4. QED
      BY <1>19, <2>1, <2>2, <2>3 DEF Crash, Quiet, TypeOK, TaskPoint, TaskKind
  <1>20. CASE Restart
    <2> DEFINE found == {e \in Execs : disk[e] # NoCheckpoint}
               r == [e \in Execs |-> Restored(disk[e])]
               order == [e \in Execs |-> Cardinality({x \in found : e < x})]
    <2>1. r \in [Execs -> Record]
      BY RestoredType DEF TypeOK
    <2>2. order \in [Execs -> Nat]
      BY CountType
    <2>3. /\ known' \subseteq found /\ rec' = r /\ age' = order
      BY <1>20 DEF Restart
    <2>4. task' \in [Execs -> TaskPoint]
      BY <1>20 DEF Restart, RecoverPending, TaskPoint
    <2>5. QED
      BY <1>20, <2>1, <2>2, <2>3, <2>4 DEF Restart, Quiet, TypeOK
  <1>21. QED
    BY <1>1, <1>2, <1>3, <1>4, <1>5, <1>6, <1>7, <1>8, <1>9, <1>10, <1>11, <1>12,
       <1>13, <1>14, <1>16, <1>17, <1>18, <1>19, <1>20
       DEF Next, TaskStep, RunInitial, AcquireCapacity

(* Every state the coordinator reaches is well typed, however many         *)
(* executions, tasks and crashes there are.                                *)
THEOREM TypeCorrect == Spec => []TypeOK
  BY TypeInit, TypeStep, PTL DEF Spec

-----------------------------------------------------------------------------
(* A step leaves x alone: at most it takes a finished x off the list.      *)
Same(x) ==
  /\ up' = up /\ rec'[x] = rec[x] /\ disk'[x] = disk[x]
  /\ window'[x] \subseteq window[x]
  /\ task'[x] = task[x] /\ cancelling'[x] = cancelling[x]
  /\ waiters'[x] = waiters[x]
  /\ x \in known' => x \in known
  /\ x \in known /\ x \notin known' => rec[x].status \in Terminal

LEMMA SameStaysSound ==
  ASSUME NEW x \in Execs, Sound(x), Same(x)
  PROVE  Sound(x)'
  <1>1. Leavable(x)' \subseteq Leavable(x)
    BY DEF Same, Leavable
  <1>2. /\ DownIsBlank(x)' /\ UnlistedIsFinal(x)'
    BY DEF Same, Sound, DownIsBlank, UnlistedIsFinal, Blank
  <1>3. /\ LiveWhenFinal(x)' /\ CancellingIsLive(x)' /\ WaitersBlock(x)'
        /\ AnswerInFlight(x)' /\ NeverLeftApproved(x)'
    BY DEF Same, Sound, LiveWhenFinal, CancellingIsLive, WaitersBlock,
           AnswerInFlight, NeverLeftApproved, Live
  <1>4. /\ VerdictKept(x)' /\ Restorable(x)' /\ AnswersKept(x)'
    BY <1>1 DEF Same, Sound, VerdictKept, Restorable, AnswersKept
  <1>5. EarnedCompletion(x)'
    BY <1>1 DEF Same, Sound, EarnedCompletion
  <1>6. QED
    BY <1>2, <1>3, <1>4, <1>5 DEF Sound

(* What Commit writes: the new record and checkpoints of e, nothing of the *)
(* others but that finished ones may be forgotten, never e itself.         *)
LEMMA CommitEffect ==
  ASSUME TypeOK, NEW e \in Execs, NEW r, NEW c, NEW w, Commit(e, r, c, w)
  PROVE  /\ rec'[e] = r /\ disk'[e] = c /\ window'[e] = w \ {c}
         /\ e \in known' <=> e \in known
         /\ \A x \in Execs \ {e} :
              /\ rec'[x] = rec[x] /\ disk'[x] = disk[x] /\ window'[x] = {}
              /\ x \in known' => x \in known
              /\ x \in known /\ x \notin known' => rec[x].status \in Terminal
  BY DEF TypeOK, Commit, Pruned, TerminalIn

(* A checkpoint c that a crash could leave goes with record r in memory. *)
Agrees(r, c) ==
  /\ r.status \in Terminal => RestoredStatus(c) = r.status
  /\ c.rec.status # "absent" => CanMove(c.rec.status, RestoredStatus(c))
  /\ c.rec.status = "completed" => c.rec.result = "completed"
  /\ r.resolved \subseteq c.rec.resolved

Fit(r, S) ==
  /\ r.status # "approved"
  /\ r.status = "completed" => r.result = "completed"
  /\ \A c \in S : Agrees(r, c)

(* A checkpoint that is not recovery safe restores to a legal status, and  *)
(* one with a final status to that status.                                 *)
LEMMA UnsafeCheckpoint ==
  ASSUME NEW q \in Record
  PROVE  /\ Saved(q, FALSE).rec = q
         /\ q.status \in Terminal => RestoredStatus(Saved(q, FALSE)) = q.status
         /\ q.status # "absent" =>
              CanMove(q.status, RestoredStatus(Saved(q, FALSE)))
  <1>1. Saved(q, FALSE).rec = q /\ Saved(q, FALSE).safe = FALSE
    BY DEF Saved
  <1>2. q.status \in Status \cup {"absent"}
    BY DEF Record
  <1>3. ASSUME NEW st \in Interrupted PROVE "failed" \in PublicTransitions[st]
    BY <1>3 DEF Interrupted, PublicTransitions, Status, Terminal
  <1>4. QED
    BY <1>1, <1>2, <1>3 DEF RestoredStatus, CanMove, Interrupted, Terminal

LEMMA UnsafeAgrees ==
  ASSUME NEW r \in Record, NEW q \in Record,
         r.status \in Terminal => q.status = r.status,
         q.status = "completed" => q.result = "completed",
         r.resolved \subseteq q.resolved
  PROVE  Agrees(r, Saved(q, FALSE))
  BY UnsafeCheckpoint DEF Agrees

(* The common case: the last checkpoint is the record itself. *)
LEMMA FitsItself ==
  ASSUME NEW r \in Record, r.status # "approved",
         r.status = "completed" => r.result = "completed"
  PROVE  Fit(r, {Saved(r, FALSE)} \cup {})
  <1>1. Agrees(r, Saved(r, FALSE))
    BY UnsafeAgrees
  <1>2. QED
    BY <1>1 DEF Fit

(* The other: on the way to it the record q was saved. *)
LEMMA FitsTrail ==
  ASSUME NEW r \in Record, NEW q \in Record, r.status # "approved",
         r.status # "completed", q.status = r.status, q.resolved = r.resolved
  PROVE  /\ Fit(r, {Saved(r, FALSE)} \cup {Saved(q, FALSE)})
         /\ Fit(r, {Saved(q, FALSE)} \cup {})
  <1>1. Agrees(r, Saved(r, FALSE)) /\ Agrees(r, Saved(q, FALSE))
    BY UnsafeAgrees
  <1>2. QED
    BY <1>1 DEF Fit

(* The step of one live process that writes e by Commit keeps e sound when *)
(* what it writes fits and e's control state is in order afterwards.       *)
LEMMA CommitSound ==
  ASSUME TypeOK, NEW e \in Execs, NEW r, NEW c, NEW w, Commit(e, r, c, w),
         Fit(r, {c} \cup w), up, up' = up,
         e \in known \/ r.status \in Terminal,
         LiveWhenFinal(e)', CancellingIsLive(e)', WaitersBlock(e)', AnswerInFlight(e)'
  PROVE  Sound(e)'
  <1>1. rec'[e] = r /\ Leavable(e)' \subseteq {c} \cup w
        /\ (e \in known' <=> e \in known)
    BY CommitEffect DEF Leavable
  <1>2. /\ NeverLeftApproved(e)' /\ VerdictKept(e)' /\ Restorable(e)'
        /\ AnswersKept(e)'
    BY <1>1 DEF Fit, Agrees, NeverLeftApproved, VerdictKept, Restorable, AnswersKept
  <1>3. DownIsBlank(e)' /\ UnlistedIsFinal(e)'
    BY <1>1 DEF DownIsBlank, UnlistedIsFinal
  <1>4. EarnedCompletion(e)'
    BY <1>1 DEF Fit, Agrees, EarnedCompletion
  <1>5. QED
    BY <1>2, <1>3, <1>4 DEF Sound

Elsewhere(e) == \A x \in Execs \ {e} : Same(x)

LEMMA StepSound ==
  ASSUME Inv, NEW e \in Execs, Sound(e)', Elsewhere(e)
  PROVE  \A x \in Execs : Sound(x)'
  BY SameStaysSound DEF Inv, Elsewhere

(* What is known of an execution whose task runs undisturbed. *)
LEMMA Undisturbed ==
  ASSUME Inv, NEW e \in Execs, Live(e), ~cancelling[e]
  PROVE  /\ up /\ e \in known /\ waiters[e] = {}
         /\ rec[e] \in Record /\ rec[e].status \notin Terminal
  BY DEF Inv, TypeOK, Sound, DownIsBlank, UnlistedIsFinal, LiveWhenFinal,
         WaitersBlock, Blank, Live

(* A Commit of e that ends its task. *)
LEMMA EndingCommitFrame ==
  ASSUME Inv, NEW e \in Execs, NEW r, NEW c, NEW w, Commit(e, r, c, w),
         EndTask(e), UNCHANGED <<up, waiters>>
  PROVE  /\ Elsewhere(e)
         /\ task'[e] = "none" /\ ~cancelling'[e] /\ waiters'[e] = waiters[e]
  BY CommitEffect DEF Inv, TypeOK, Elsewhere, Same, EndTask

(* An undisturbed task that ends with a Commit leaves e sound. *)
LEMMA EndingSound ==
  ASSUME Inv, NEW e \in Execs, Live(e), ~cancelling[e],
         NEW r, NEW c, NEW w, Commit(e, r, c, w), Fit(r, {c} \cup w),
         EndTask(e), UNCHANGED <<up, waiters>>
  PROVE  \A x \in Execs : Sound(x)'
  <1>1. up /\ e \in known /\ waiters[e] = {}
    BY Undisturbed
  <1>2. /\ Elsewhere(e)
        /\ task'[e] = "none" /\ ~cancelling'[e] /\ waiters'[e] = waiters[e]
    BY EndingCommitFrame
  <1>3. /\ LiveWhenFinal(e)' /\ CancellingIsLive(e)' /\ WaitersBlock(e)'
        /\ AnswerInFlight(e)'
    BY <1>1, <1>2 DEF LiveWhenFinal, CancellingIsLive, WaitersBlock,
                      AnswerInFlight, Live
  <1>4. Sound(e)'
    BY <1>1, <1>3, CommitSound DEF Inv
  <1>5. QED
    BY <1>2, <1>4, StepSound

LEMMA SettlePausedSound ==
  ASSUME Inv, NEW e \in Execs, NEW t \in Tasks, SettlePaused(e, t)
  PROVE  \A x \in Execs : Sound(x)'
  <1>1. Live(e) /\ ~cancelling[e] /\ EndTask(e) /\ UNCHANGED <<up, waiters>>
    BY DEF SettlePaused, Live
  <1>2. rec[e] \in Record
    BY DEF Inv, TypeOK
  <1>3. PICK r \in Record : r = [rec[e] EXCEPT !.status = "awaiting_approval",
                                              !.pending = t]
    BY <1>2, StatusFacts DEF Record
  <1>4. Commit(e, r, Saved(r, FALSE), {})
    BY <1>3, Zenon DEF SettlePaused
  <1>5. r.status = "awaiting_approval"
    BY <1>2, <1>3 DEF Record
  <1>6. Fit(r, {Saved(r, FALSE)} \cup {})
    BY <1>5, FitsItself
  <1>7. QED
    BY <1>1, <1>4, <1>6, EndingSound

LEMMA SettleFinalSound ==
  ASSUME Inv, NEW e \in Execs, SettleFinal(e)
  PROVE  \A x \in Execs : Sound(x)'
  <1>1. Live(e) /\ ~cancelling[e] /\ EndTask(e) /\ UNCHANGED <<up, waiters>>
    BY DEF SettleFinal, Live
  <1>2. rec[e] \in Record /\ SettleVerdict(rec[e].result) \in Status
    BY StatusFacts DEF Inv, TypeOK, SettleVerdict
  <1>3. PICK r \in Record : r = [rec[e] EXCEPT !.status = SettleVerdict(rec[e].result),
                                              !.pending = NoTask]
    BY <1>2 DEF Record
  <1>4. Commit(e, r, Saved(r, FALSE), {})
    BY <1>3, Zenon DEF SettleFinal
  <1>5. r.status = SettleVerdict(rec[e].result) /\ r.result = rec[e].result
    BY <1>2, <1>3 DEF Record
  <1>6. Fit(r, {Saved(r, FALSE)} \cup {})
    BY <1>5, FitsItself DEF SettleVerdict
  <1>7. QED
    BY <1>1, <1>4, <1>6, EndingSound

LEMMA SettleDeniedSound ==
  ASSUME Inv, NEW e \in Execs, SettleDenied(e)
  PROVE  \A x \in Execs : Sound(x)'
  <1>1. Live(e) /\ ~cancelling[e] /\ EndTask(e) /\ UNCHANGED <<up, waiters>>
    BY DEF SettleDenied, Live
  <1>2. rec[e] \in Record
    BY DEF Inv, TypeOK
  <1>3. PICK r \in Record : r = [rec[e] EXCEPT !.status = "denied",
                                              !.pending = NoTask,
                                              !.result = "denied"]
    BY <1>2, StatusFacts DEF Record
  <1>4. Commit(e, r, Saved(r, FALSE), {})
    BY <1>3, Zenon DEF SettleDenied
  <1>5. r.status = "denied"
    BY <1>2, <1>3 DEF Record
  <1>6. Fit(r, {Saved(r, FALSE)} \cup {})
    BY <1>5, FitsItself
  <1>7. QED
    BY <1>1, <1>4, <1>6, EndingSound

LEMMA InitialRaisesSound ==
  ASSUME Inv, NEW e \in Execs, NEW v \in {"failed", "timed_out"},
         InitialRaises(e, v)
  PROVE  \A x \in Execs : Sound(x)'
  <1>1. Live(e) /\ ~cancelling[e] /\ EndTask(e) /\ UNCHANGED <<up, waiters>>
    BY DEF InitialRaises, InPipeline, Live
  <1>2. rec[e] \in Record /\ v \in Status /\ v \in Result
    BY StatusFacts DEF Inv, TypeOK
  <1>3. PICK q \in Record : q = [rec[e] EXCEPT !.status = v]
    BY <1>2 DEF Record
  <1>4. PICK r \in Record : r = WithResult(q, v)
    BY <1>2 DEF Record, WithResult
  <1>5. Commit(e, r, Saved(r, FALSE), {Saved(q, FALSE)})
    BY <1>3, <1>4, Zenon DEF InitialRaises
  <1>6. q.status = v /\ r.status = v /\ q.resolved = r.resolved
    BY <1>2, <1>3, <1>4 DEF Record, WithResult
  <1>7. Fit(r, {Saved(r, FALSE)} \cup {Saved(q, FALSE)})
    BY <1>6, FitsTrail
  <1>8. QED
    BY <1>1, <1>5, <1>7, EndingSound

(* What a step that saves nothing for e keeps of its record. *)
LEMMA DataKept ==
  ASSUME Inv, NEW e \in Execs, rec'[e] = rec[e], disk'[e] = disk[e],
         window'[e] \subseteq window[e]
  PROVE  /\ NeverLeftApproved(e)' /\ VerdictKept(e)' /\ Restorable(e)'
         /\ EarnedCompletion(e)' /\ AnswersKept(e)'
  <1>1. Leavable(e)' \subseteq Leavable(e)
    BY DEF Leavable
  <1>2. /\ NeverLeftApproved(e)' /\ VerdictKept(e)' /\ Restorable(e)'
        /\ AnswersKept(e)'
    BY <1>1 DEF Inv, Sound, NeverLeftApproved, VerdictKept, Restorable, AnswersKept
  <1>3. EarnedCompletion(e)'
    BY <1>1 DEF Inv, Sound, EarnedCompletion
  <1>4. QED
    BY <1>2, <1>3

(* A task that ends without saving anything. *)
LEMMA SilentEndSound ==
  ASSUME Inv, NEW e \in Execs, Live(e), EndTask(e), Quiet,
         UNCHANGED <<up, known, rec, disk, waiters>>
  PROVE  \A x \in Execs : Sound(x)'
  <1>1. Sound(e) /\ TypeOK
    BY DEF Inv
  <1>2. Elsewhere(e) /\ window'[e] = {} /\ task'[e] = "none" /\ ~cancelling'[e]
    BY <1>1 DEF TypeOK, Elsewhere, Same, EndTask, Quiet
  <1>3. /\ NeverLeftApproved(e)' /\ VerdictKept(e)' /\ Restorable(e)'
        /\ EarnedCompletion(e)' /\ AnswersKept(e)'
    BY <1>2, DataKept
  <1>4. /\ DownIsBlank(e)' /\ UnlistedIsFinal(e)' /\ LiveWhenFinal(e)'
        /\ CancellingIsLive(e)' /\ WaitersBlock(e)' /\ AnswerInFlight(e)'
    BY <1>1, <1>2 DEF Sound, DownIsBlank, UnlistedIsFinal, LiveWhenFinal, Blank,
       CancellingIsLive, WaitersBlock, AnswerInFlight, Live
  <1>5. QED
    BY <1>2, <1>3, <1>4, StepSound DEF Sound

LEMMA ResumeRaisesSound ==
  ASSUME Inv, NEW e \in Execs, ResumeRaises(e)
  PROVE  \A x \in Execs : Sound(x)'
  <1>1. Live(e) /\ ~cancelling[e] /\ EndTask(e) /\ UNCHANGED <<up, waiters>>
    BY DEF ResumeRaises, InPipeline, Live
  <1>2. CASE CanMove(rec[e].status, "failed")
    <2>1. rec[e] \in Record /\ "failed" \in Status /\ "failed" \in Result
      BY StatusFacts DEF Inv, TypeOK
    <2>2. PICK q \in Record : q = [rec[e] EXCEPT !.status = "failed"]
      BY <2>1 DEF Record
    <2>3. PICK r \in Record : r = WithResult(q, "failed")
      BY <2>1 DEF Record, WithResult
    <2>4. Commit(e, r, Saved(q, FALSE), {})
      BY <1>2, <2>2, <2>3, Zenon DEF ResumeRaises
    <2>5. q.status = "failed" /\ r.status = "failed" /\ q.resolved = r.resolved
      BY <2>1, <2>2, <2>3 DEF Record, WithResult
    <2>6. Fit(r, {Saved(q, FALSE)} \cup {})
      BY <2>5, FitsTrail
    <2>7. QED
      BY <1>1, <2>4, <2>6, EndingSound
  <1>3. CASE ~CanMove(rec[e].status, "failed")
    <2>1. Quiet /\ UNCHANGED <<known, rec, disk>>
      BY <1>3 DEF ResumeRaises
    <2>2. QED
      BY <1>1, <2>1, SilentEndSound
  <1>4. QED
    BY <1>2, <1>3

LEMMA CancelBeforeStartSound ==
  ASSUME Inv, NEW e \in Execs, CancelBeforeStart(e)
  PROVE  \A x \in Execs : Sound(x)'
  BY SilentEndSound DEF CancelBeforeStart, Live

LEMMA StartExecutionSound ==
  ASSUME Inv, NEW e \in Execs, StartExecution(e)
  PROVE  \A x \in Execs : Sound(x)'
  <1>1. up /\ e \notin known /\ disk[e] = NoCheckpoint /\ Sound(e) /\ TypeOK
    BY DEF StartExecution, Inv
  <1>2. Blank(e) /\ ~cancelling[e]
    <2>1. RestoredStatus(NoCheckpoint) = "absent"
      BY DEF NoCheckpoint, Saved, NoRecord, RestoredStatus, Interrupted
    <2>2. rec[e].status \notin Terminal
      BY <1>1, <2>1 DEF Sound, VerdictKept, Leavable, Terminal
    <2>3. Blank(e)
      BY <1>1, <2>2 DEF Sound, UnlistedIsFinal
    <2>4. QED
      BY <1>1, <2>3 DEF Sound, CancellingIsLive, Live, Blank
  <1>3. PICK q \in Record : q = [NoRecord EXCEPT !.status = "created"]
    BY NoRecordType, StatusFacts DEF Record
  <1>4. PICK r \in Record : r = [q EXCEPT !.status = "planning"]
    BY StatusFacts DEF Record
  <1>5. /\ q.status = "created" /\ q.resolved = {} /\ r.status = "planning"
        /\ r.resolved = {}
    BY <1>3, <1>4, NoRecordType DEF Record, NoRecord
  <1>6. /\ rec' = [rec EXCEPT ![e] = r]
        /\ disk' = [disk EXCEPT ![e] = Saved(r, TRUE)]
        /\ window' = [x \in Execs |-> IF x = e THEN {Saved(q, TRUE)} ELSE {}]
    BY <1>3, <1>4, Zenon DEF StartExecution
  <1>7. /\ rec'[e] = r /\ e \in known' /\ up' /\ waiters'[e] = {}
        /\ Leavable(e)' \subseteq {Saved(r, TRUE), Saved(q, TRUE)}
        /\ ~cancelling'[e] /\ task'[e] = "created"
    <2>1. rec'[e] = r /\ Leavable(e)' \subseteq {Saved(r, TRUE), Saved(q, TRUE)}
      BY <1>1, <1>6 DEF TypeOK, Leavable
    <2>2. /\ known' = known \cup {e} /\ task' = [task EXCEPT ![e] = "created"]
          /\ UNCHANGED <<up, cancelling, waiters>>
      BY DEF StartExecution
    <2>3. QED
      BY <1>1, <1>2, <2>1, <2>2 DEF TypeOK, Blank
  <1>8. Elsewhere(e)
    BY <1>1, <1>6 DEF StartExecution, TypeOK, Elsewhere, Same
  <1>9. ASSUME NEW c \in {Saved(r, TRUE), Saved(q, TRUE)}
        PROVE  /\ CanMove(c.rec.status, RestoredStatus(c))
               /\ c.rec.status # "completed"
    BY <1>5, <1>9 DEF Saved, RestoredStatus, Interrupted, CanMove, Status,
                      Terminal, PublicTransitions
  <1>10. /\ NeverLeftApproved(e)' /\ VerdictKept(e)' /\ Restorable(e)'
         /\ AnswersKept(e)'
    BY <1>5, <1>7, <1>9 DEF NeverLeftApproved, VerdictKept, Restorable,
       AnswersKept, Terminal
  <1>11. EarnedCompletion(e)'
    BY <1>5, <1>7, <1>9 DEF EarnedCompletion
  <1>12. /\ DownIsBlank(e)' /\ UnlistedIsFinal(e)' /\ LiveWhenFinal(e)'
         /\ CancellingIsLive(e)' /\ WaitersBlock(e)' /\ AnswerInFlight(e)'
    BY <1>5, <1>7 DEF DownIsBlank, UnlistedIsFinal, LiveWhenFinal,
       CancellingIsLive, WaitersBlock, AnswerInFlight, Live, Terminal
  <1>13. QED
    BY <1>8, <1>10, <1>11, <1>12, StepSound DEF Sound

(* An undisturbed task that saves a record with an open status other than  *)
(* AWAITING_APPROVAL and goes on.                                          *)
LEMMA OngoingSound ==
  ASSUME Inv, NEW e \in Execs, Live(e), ~cancelling[e],
         NEW r, NEW c, NEW w, Commit(e, r, c, w), Fit(r, {c} \cup w),
         r.status \notin Terminal,
         r.status = "awaiting_approval" => r.pending \in r.resolved,
         UNCHANGED <<up, cancelling, waiters>>,
         task'[e] # "none", \A x \in Execs \ {e} : task'[x] = task[x]
  PROVE  \A x \in Execs : Sound(x)'
  <1>1. up /\ e \in known /\ waiters[e] = {} /\ TypeOK
    BY Undisturbed DEF Inv
  <1>2. Elsewhere(e) /\ rec'[e] = r
    BY <1>1, CommitEffect DEF Elsewhere, Same
  <1>3. /\ LiveWhenFinal(e)' /\ CancellingIsLive(e)' /\ WaitersBlock(e)'
        /\ AnswerInFlight(e)'
    BY <1>1, <1>2 DEF LiveWhenFinal, CancellingIsLive, WaitersBlock,
                      AnswerInFlight, Live
  <1>4. Sound(e)'
    BY <1>1, <1>3, CommitSound
  <1>5. QED
    BY <1>2, <1>4, StepSound

LEMMA EnterPipelineSound ==
  ASSUME Inv, NEW e \in Execs, Live(e), ~cancelling[e], EnterPipeline(e)
  PROVE  \A x \in Execs : Sound(x)'
  <1>1. rec[e] \in Record /\ TypeOK
    BY DEF Inv, TypeOK
  <1>2. PICK r \in Record : r = [rec[e] EXCEPT !.status = "running"]
    BY <1>1, StatusFacts DEF Record
  <1>3. Commit(e, r, Saved(r, FALSE), {})
    BY <1>2, Zenon DEF EnterPipeline
  <1>4. r.status = "running"
    BY <1>1, <1>2 DEF Record
  <1>5. Fit(r, {Saved(r, FALSE)} \cup {})
    BY <1>4, FitsItself
  <1>6. /\ task'[e] # "none" /\ \A x \in Execs \ {e} : task'[x] = task[x]
        /\ UNCHANGED <<up, cancelling, waiters>>
    BY <1>1 DEF EnterPipeline, TypeOK
  <1>7. QED
    BY <1>3, <1>4, <1>5, <1>6, OngoingSound DEF Terminal

LEMMA RuntimeCheckpointSound ==
  ASSUME Inv, NEW e \in Execs, NEW safe \in BOOLEAN, RuntimeCheckpoint(e, safe)
  PROVE  \A x \in Execs : Sound(x)'
  <1>1. Live(e) /\ ~cancelling[e] /\ UNCHANGED <<up, cancelling, waiters, task>>
    BY DEF RuntimeCheckpoint, Live
  <1>2. PICK r \in Record : r = rec[e]
    BY DEF Inv, TypeOK
  <1>3. PICK c \in Checkpoint : c = Saved(r, safe)
    BY SavedType
  <1>4. Commit(e, r, c, {})
    BY <1>2, <1>3, Zenon DEF RuntimeCheckpoint
  <1>5. r.status \notin Terminal /\ r.status # "approved"
    BY <1>1, <1>2, Undisturbed DEF Inv, Sound, NeverLeftApproved
  <1>6. r.status = "awaiting_approval" => r.pending \in r.resolved
    BY <1>1, <1>2 DEF Inv, Sound, AnswerInFlight
  <1>7. c.rec = r /\ c.safe = safe
    BY <1>3 DEF Saved
  <1>8. c.rec.status # "absent" => CanMove(c.rec.status, RestoredStatus(c))
    <2>1. r.status \in Status \cup {"absent"}
      BY DEF Record
    <2>2. QED
      BY <1>5, <1>7, <2>1 DEF RestoredStatus, CanMove, Interrupted,
         PublicTransitions, Status, Terminal
  <1>9. Fit(r, {c} \cup {})
    BY <1>5, <1>7, <1>8 DEF Fit, Agrees, Terminal
  <1>10. task'[e] # "none" /\ \A x \in Execs \ {e} : task'[x] = task[x]
    BY <1>1 DEF Live
  <1>11. QED
    BY <1>1, <1>4, <1>5, <1>6, <1>9, <1>10, OngoingSound

(* A live task that moves on without saving anything or changing e's       *)
(* status, pending approval or answers.                                    *)
LEMMA SilentMoveSound ==
  ASSUME Inv, NEW e \in Execs, Live(e), ~cancelling[e], Quiet,
         UNCHANGED <<up, known, disk, cancelling, waiters>>,
         task'[e] # "none",
         \A x \in Execs \ {e} : task'[x] = task[x] /\ rec'[x] = rec[x],
         rec'[e].status = rec[e].status, rec'[e].pending = rec[e].pending,
         rec'[e].resolved = rec[e].resolved
  PROVE  \A x \in Execs : Sound(x)'
  <1>1. up /\ e \in known /\ rec[e].status \notin Terminal /\ Sound(e)
    BY Undisturbed DEF Inv
  <1>2. Elsewhere(e) /\ Leavable(e)' \subseteq Leavable(e)
    BY DEF Elsewhere, Same, Quiet, Leavable
  <1>3. /\ NeverLeftApproved(e)' /\ VerdictKept(e)' /\ Restorable(e)'
        /\ AnswersKept(e)'
    BY <1>1, <1>2 DEF Sound, NeverLeftApproved, VerdictKept, Restorable, AnswersKept
  <1>4. EarnedCompletion(e)'
    BY <1>1, <1>2 DEF Sound, EarnedCompletion, Terminal
  <1>5. /\ DownIsBlank(e)' /\ UnlistedIsFinal(e)' /\ LiveWhenFinal(e)'
        /\ CancellingIsLive(e)' /\ WaitersBlock(e)' /\ AnswerInFlight(e)'
    BY <1>1 DEF Sound, DownIsBlank, UnlistedIsFinal, LiveWhenFinal,
       CancellingIsLive, WaitersBlock, AnswerInFlight, Live
  <1>6. QED
    BY <1>2, <1>3, <1>4, <1>5, StepSound DEF Sound

LEMMA SilentStepsSound ==
  ASSUME Inv, NEW e \in Execs,
         NEW r \in {"none", "paused", "completed", "failed", "cancelled"},
         QueueInitial(e) \/ RunResume(e) \/ PipelineProduces(e, r)
  PROVE  \A x \in Execs : Sound(x)'
  <1>1. TypeOK
    BY DEF Inv
  <1>2. CASE QueueInitial(e) \/ RunResume(e)
    BY <1>1, <1>2, SilentMoveSound DEF QueueInitial, RunResume, Live, TypeOK
  <1>3. CASE PipelineProduces(e, r)
    <2>1. rec[e] \in Record
      BY <1>1 DEF TypeOK
    <2>2. rec' = [rec EXCEPT ![e] = WithResult(rec[e], r)]
      BY <1>3 DEF PipelineProduces
    <2>3. /\ rec'[e].status = rec[e].status /\ rec'[e].pending = rec[e].pending
          /\ rec'[e].resolved = rec[e].resolved
          /\ \A x \in Execs \ {e} : rec'[x] = rec[x]
      BY <1>1, <2>1, <2>2 DEF TypeOK, Record, WithResult
    <2>4. /\ Live(e) /\ ~cancelling[e] /\ Quiet /\ task'[e] # "none"
          /\ UNCHANGED <<up, known, disk, cancelling, waiters>>
          /\ \A x \in Execs \ {e} : task'[x] = task[x]
      BY <1>1, <1>3 DEF PipelineProduces, Live, TypeOK
    <2>5. QED
      BY <2>3, <2>4, SilentMoveSound
  <1>4. QED
    BY <1>2, <1>3

(* A cancelled task, or a call that waits for none, ends e with CANCELLED  *)
(* or TIMED_OUT.                                                           *)
LEMMA CancelledSound ==
  ASSUME Inv, NEW e \in Execs, NEW r, NEW c, NEW w, Commit(e, r, c, w),
         Fit(r, {c} \cup w), r.status \in {"cancelled", "timed_out"},
         "timeout" \in waiters'[e] => r.status = "timed_out",
         up, up' = up, task'[e] = "none", ~cancelling'[e],
         \A x \in Execs \ {e} : /\ task'[x] = task[x]
                                /\ cancelling'[x] = cancelling[x]
                                /\ waiters'[x] = waiters[x]
  PROVE  \A x \in Execs : Sound(x)'
  <1>1. TypeOK
    BY DEF Inv
  <1>2. Elsewhere(e) /\ rec'[e] = r
    BY <1>1, CommitEffect DEF Elsewhere, Same
  <1>3. /\ LiveWhenFinal(e)' /\ CancellingIsLive(e)' /\ WaitersBlock(e)'
        /\ AnswerInFlight(e)'
    BY <1>2 DEF LiveWhenFinal, CancellingIsLive, WaitersBlock, AnswerInFlight, Live
  <1>4. Sound(e)'
    BY <1>1, <1>3, CommitSound DEF Terminal
  <1>5. QED
    BY <1>2, <1>4, StepSound

LEMMA DeliverCancelSound ==
  ASSUME Inv, NEW e \in Execs, DeliverCancel(e)
  PROVE  \A x \in Execs : Sound(x)'
  <1>1. /\ TypeOK /\ Sound(e) /\ Live(e) /\ up
        /\ rec[e].status \in Terminal => rec[e].status = "timed_out"
        /\ "timeout" \in waiters[e] => rec[e].status = "timed_out"
    BY DEF Inv, DeliverCancel, Live, Sound, DownIsBlank, Blank, LiveWhenFinal,
           WaitersBlock
  <1>2. rec[e] \in Record
    BY <1>1 DEF TypeOK
  <1>3. /\ up' = up /\ task'[e] = "none" /\ ~cancelling'[e]
        /\ waiters' = waiters
        /\ \A x \in Execs \ {e} : /\ task'[x] = task[x]
                                   /\ cancelling'[x] = cancelling[x]
                                   /\ waiters'[x] = waiters[x]
    BY <1>1 DEF DeliverCancel, EndTask, TypeOK
  <1>4. PICK q \in Record : q = IF rec[e].status \in Terminal THEN rec[e]
                               ELSE [rec[e] EXCEPT !.status = "cancelled"]
    BY <1>2, StatusFacts DEF Record
  <1>5. PICK v \in {"timed_out", "cancelled"} :
          v = IF q.status = "timed_out" THEN "timed_out" ELSE "cancelled"
    OBVIOUS
  <1>6. PICK r \in Record : r = WithResult(q, v)
    BY <1>5, StatusFacts DEF Record, WithResult
  <1>7. /\ q.status \in {"timed_out", "cancelled"} /\ r.status = q.status
        /\ r.resolved = q.resolved /\ q.resolved = rec[e].resolved
        /\ rec[e].status \in Terminal => q.status = rec[e].status
        /\ "timeout" \in waiters'[e] => r.status = "timed_out"
        /\ q = rec[e] => rec[e].status \in Terminal
    BY <1>1, <1>2, <1>3, <1>4, <1>6, StatusFacts DEF Record, WithResult
  <1>8. IF kind[e] = "initial"
        THEN Commit(e, r, Saved(r, FALSE),
                    IF q = rec[e] THEN {} ELSE {Saved(q, FALSE)})
        ELSE Commit(e, r, IF q = rec[e] THEN disk[e] ELSE Saved(q, FALSE), {})
    BY <1>4, <1>5, <1>6, Zenon DEF DeliverCancel
  <1>9. CASE kind[e] = "initial"
    <2>1. PICK w : w = IF q = rec[e] THEN {} ELSE {Saved(q, FALSE)}
      OBVIOUS
    <2>2. Commit(e, r, Saved(r, FALSE), w)
      BY <1>8, <1>9, <2>1
    <2>3. Fit(r, {Saved(r, FALSE)} \cup w)
      BY <1>7, <2>1, FitsItself, FitsTrail
    <2>4. QED
      BY <1>1, <1>3, <1>7, <2>2, <2>3, CancelledSound
  <1>10. CASE kind[e] # "initial" /\ q = rec[e]
    <2>1. PICK c : c = disk[e]
      OBVIOUS
    <2>2. Commit(e, r, c, {})
      BY <1>8, <1>10, <2>1
    <2>3. Agrees(r, c)
      <3>1. c \in Leavable(e) /\ rec[e].status \in Terminal
        BY <1>7, <1>10, <2>1 DEF Leavable
      <3>2. c.rec.status = "completed" => c.rec.result = "completed"
        BY <1>1, <3>1 DEF Sound, EarnedCompletion
      <3>3. QED
        BY <1>1, <1>7, <1>10, <3>1, <3>2
           DEF Sound, Agrees, VerdictKept, Restorable, AnswersKept
    <2>4. Fit(r, {c} \cup {})
      BY <1>7, <2>3 DEF Fit
    <2>5. QED
      BY <1>1, <1>3, <1>7, <2>2, <2>4, CancelledSound
  <1>11. CASE kind[e] # "initial" /\ q # rec[e]
    <2>1. Commit(e, r, Saved(q, FALSE), {})
      BY <1>8, <1>11
    <2>2. Fit(r, {Saved(q, FALSE)} \cup {})
      BY <1>7, FitsTrail
    <2>3. QED
      BY <1>1, <1>3, <1>7, <2>1, <2>2, CancelledSound
  <1>12. QED
    BY <1>9, <1>10, <1>11

LEMMA SubmitApprovalSound ==
  ASSUME Inv, NEW e \in Execs, NEW d \in {"allow", "deny"}, SubmitApproval(e, d)
  PROVE  \A x \in Execs : Sound(x)'
  <1>1. /\ TypeOK /\ Sound(e) /\ up /\ e \in known /\ rec[e] \in Record
        /\ rec[e].status = "awaiting_approval" /\ rec[e].pending \in Tasks
        /\ rec[e].pending \notin rec[e].resolved
    BY DEF Inv, TypeOK, SubmitApproval
  <1>2. ~Live(e) /\ ~cancelling[e] /\ waiters[e] = {}
    BY <1>1 DEF Sound, AnswerInFlight, CancellingIsLive, WaitersBlock
  <1>3. /\ UNCHANGED <<up, cancelling, waiters>> /\ task'[e] = "created"
        /\ \A x \in Execs \ {e} : task'[x] = task[x]
    BY <1>1 DEF SubmitApproval, TypeOK
  <1>4. PICK a \in Record : a = Answered(rec[e])
    BY <1>1 DEF Answered, Record
  <1>5. PICK q \in Record : q = [a EXCEPT !.status = "approved"]
    BY StatusFacts DEF Record
  <1>6. PICK run \in Record : run = [a EXCEPT !.status = "running"]
    BY StatusFacts DEF Record
  <1>7. /\ a.status = "awaiting_approval" /\ q.status = "approved"
        /\ run.status = "running" /\ a.resolved = q.resolved
        /\ run.resolved = a.resolved /\ a.pending \in a.resolved
    BY <1>1, <1>4, <1>5, <1>6 DEF Answered, Record
  <1>8. \E r, c, w :
          /\ r \in Record
          /\ Commit(e, r, c, w) /\ Fit(r, {c} \cup w)
          /\ r.status \in {"running", "awaiting_approval"}
          /\ r.status = "awaiting_approval" => r.pending \in r.resolved
    <2>1. CASE d = "allow"
      <3>1. PICK w : w = {Saved(a, FALSE), Saved(q, FALSE)}
        OBVIOUS
      <3>2. Commit(e, run, Saved(run, FALSE), w)
        BY <1>4, <1>5, <1>6, <2>1, <3>1, Zenon DEF SubmitApproval, AllowTrail
      <3>3. /\ Agrees(run, Saved(run, FALSE)) /\ Agrees(run, Saved(a, FALSE))
            /\ Agrees(run, Saved(q, FALSE))
        BY <1>7, UnsafeAgrees DEF Terminal
      <3>4. Fit(run, {Saved(run, FALSE)} \cup w)
        BY <1>7, <3>1, <3>3 DEF Fit
      <3>5. QED
        BY <1>7, <3>2, <3>4
    <2>2. CASE d = "deny"
      <3>1. Commit(e, a, Saved(a, FALSE), {})
        BY <1>4, <2>2, Zenon DEF SubmitApproval
      <3>2. Fit(a, {Saved(a, FALSE)} \cup {})
        BY <1>7, FitsItself
      <3>3. QED
        BY <1>7, <3>1, <3>2
    <2>3. QED
      BY <2>1, <2>2
  <1>9. PICK r, c, w :
          /\ r \in Record
          /\ Commit(e, r, c, w) /\ Fit(r, {c} \cup w)
          /\ r.status \in {"running", "awaiting_approval"}
          /\ r.status = "awaiting_approval" => r.pending \in r.resolved
    BY <1>8
  <1>10. Elsewhere(e) /\ rec'[e] = r
    BY <1>1, <1>3, <1>9, CommitEffect DEF Elsewhere, Same
  <1>11. /\ LiveWhenFinal(e)' /\ CancellingIsLive(e)' /\ WaitersBlock(e)'
         /\ AnswerInFlight(e)'
    BY <1>2, <1>3, <1>9, <1>10 DEF LiveWhenFinal, CancellingIsLive, WaitersBlock,
       AnswerInFlight, Live, Terminal
  <1>12. Sound(e)'
    BY <1>1, <1>3, <1>9, <1>11, CommitSound
  <1>13. QED
    BY <1>10, <1>12, StepSound

(* The tail of cancel_execution. *)
LEMMA FinishCancelSound ==
  ASSUME Inv, NEW e \in Execs, FinishCancel(e), up, ~Live(e),
         rec[e].status \in Terminal => rec[e].status \in {"cancelled", "timed_out"},
         "timeout" \in waiters'[e] => rec[e].status = "timed_out",
         UNCHANGED <<up, task, cancelling>>,
         \A x \in Execs \ {e} : waiters'[x] = waiters[x]
  PROVE  \A x \in Execs : Sound(x)'
  <1>1. /\ TypeOK /\ rec[e] \in Record /\ task'[e] = "none" /\ ~cancelling'[e]
    BY DEF Inv, TypeOK, Sound, CancellingIsLive, Live
  <1>2. PICK q \in Record : q = IF rec[e].status \in Terminal THEN rec[e]
                               ELSE [rec[e] EXCEPT !.status = "cancelled"]
    BY <1>1, StatusFacts DEF Record
  <1>3. PICK r \in Record : r = [WithResult(q, "cancelled") EXCEPT !.pending = NoTask]
    BY StatusFacts DEF Record, WithResult
  <1>4. /\ q.status \in {"cancelled", "timed_out"} /\ r.status = q.status
        /\ r.resolved = q.resolved
        /\ "timeout" \in waiters'[e] => r.status = "timed_out"
    BY <1>1, <1>2, <1>3, StatusFacts DEF Record, WithResult
  <1>5. PICK w : w = IF q = rec[e] THEN {} ELSE {Saved(q, FALSE)}
    OBVIOUS
  <1>6. Commit(e, r, Saved(r, FALSE), w)
    BY <1>2, <1>3, <1>5, Zenon DEF FinishCancel
  <1>7. Fit(r, {Saved(r, FALSE)} \cup w)
    BY <1>4, <1>5, FitsItself, FitsTrail
  <1>8. QED
    BY <1>1, <1>4, <1>6, <1>7, CancelledSound

LEMMA CancelExecutionSound ==
  ASSUME Inv, NEW e \in Execs, CancelExecution(e)
  PROVE  \A x \in Execs : Sound(x)'
  <1>1. /\ TypeOK /\ Sound(e) /\ up /\ e \in known
        /\ rec[e].status \notin Terminal
    BY DEF Inv, CancelExecution
  <1>2. "timeout" \notin waiters[e]
    BY <1>1, StatusFacts DEF Sound, WaitersBlock
  <1>3. CASE ~Live(e)
    BY <1>1, <1>2, <1>3, FinishCancelSound DEF CancelExecution
  <1>4. CASE Live(e)
    <2>1. /\ RequestCancel(e) /\ Quiet
          /\ waiters' = [waiters EXCEPT ![e] = @ \cup {"cancel"}]
          /\ UNCHANGED <<up, known, rec, disk, task>>
      BY <1>4 DEF CancelExecution
    <2>2. /\ cancelling'[e] /\ window'[e] = {} /\ "timeout" \notin waiters'[e]
          /\ Elsewhere(e)
      BY <1>1, <1>2, <2>1 DEF RequestCancel, Quiet, TypeOK, Elsewhere, Same
    <2>3. /\ NeverLeftApproved(e)' /\ VerdictKept(e)' /\ Restorable(e)'
          /\ EarnedCompletion(e)' /\ AnswersKept(e)'
      BY <2>1, <2>2, DataKept
    <2>4. /\ DownIsBlank(e)' /\ UnlistedIsFinal(e)' /\ LiveWhenFinal(e)'
          /\ CancellingIsLive(e)' /\ WaitersBlock(e)' /\ AnswerInFlight(e)'
      BY <1>1, <1>4, <2>1, <2>2, StatusFacts DEF Sound, DownIsBlank,
         UnlistedIsFinal, LiveWhenFinal, CancellingIsLive, WaitersBlock,
         AnswerInFlight, Live
    <2>5. QED
      BY <2>2, <2>3, <2>4, StepSound DEF Sound
  <1>5. QED
    BY <1>3, <1>4

LEMMA CancelWakesSound ==
  ASSUME Inv, NEW e \in Execs, CancelWakes(e)
  PROVE  \A x \in Execs : Sound(x)'
  <1>1. /\ TypeOK /\ Sound(e) /\ up /\ ~Live(e) /\ waiters[e] # {}
    BY DEF Inv, CancelWakes, Sound, DownIsBlank, Blank
  <1>2. /\ rec[e].status \in Terminal => rec[e].status \in {"cancelled", "timed_out"}
        /\ "timeout" \in waiters[e] => rec[e].status = "timed_out"
    BY <1>1 DEF Sound, WaitersBlock, Terminal
  <1>3. /\ "timeout" \in waiters'[e] => "timeout" \in waiters[e]
        /\ \A x \in Execs \ {e} : waiters'[x] = waiters[x]
        /\ FinishCancel(e) /\ UNCHANGED <<up, task, cancelling>>
    BY <1>1 DEF CancelWakes, TypeOK
  <1>4. QED
    BY <1>1, <1>2, <1>3, FinishCancelSound

LEMMA TimeoutExecutionSound ==
  ASSUME Inv, NEW e \in Execs, TimeoutExecution(e)
  PROVE  \A x \in Execs : Sound(x)'
  <1>1. /\ TypeOK /\ Sound(e) /\ up /\ e \in known /\ rec[e] \in Record
        /\ UNCHANGED <<up, task>>
    BY DEF Inv, TypeOK, TimeoutExecution
  <1>2. PICK q \in Record : q = [rec[e] EXCEPT !.status = "timed_out"]
    BY <1>1, StatusFacts DEF Record
  <1>3. PICK r \in Record : r = TimedOut(q)
    BY StatusFacts DEF Record, WithResult, TimedOut
  <1>4. /\ q.status = "timed_out" /\ r.status = "timed_out"
        /\ r.resolved = q.resolved
    BY <1>1, <1>2, <1>3 DEF Record, WithResult, TimedOut
  <1>5. CASE Live(e)
    <2>1. Commit(e, q, Saved(q, FALSE), {})
      BY <1>2, <1>5, Zenon DEF TimeoutExecution
    <2>2. /\ RequestCancel(e)
          /\ waiters' = [waiters EXCEPT ![e] = @ \cup {"timeout"}]
      BY <1>5 DEF TimeoutExecution
    <2>3. /\ Elsewhere(e) /\ rec'[e] = q /\ cancelling'[e]
      <3>1. /\ cancelling'[e]
            /\ \A x \in Execs \ {e} : /\ cancelling'[x] = cancelling[x]
                                       /\ waiters'[x] = waiters[x]
        BY <1>1, <2>2 DEF RequestCancel, TypeOK
      <3>2. QED
        BY <1>1, <2>1, <3>1, CommitEffect DEF Elsewhere, Same
    <2>4. Fit(q, {Saved(q, FALSE)} \cup {})
      BY <1>4, FitsItself
    <2>5. /\ LiveWhenFinal(e)' /\ CancellingIsLive(e)' /\ WaitersBlock(e)'
          /\ AnswerInFlight(e)'
      BY <1>1, <1>4, <1>5, <2>3 DEF LiveWhenFinal, CancellingIsLive,
         WaitersBlock, AnswerInFlight, Live
    <2>6. Sound(e)'
      BY <1>1, <2>1, <2>4, <2>5, CommitSound
    <2>7. QED
      BY <2>3, <2>6, StepSound
  <1>6. CASE ~Live(e)
    <2>1. Commit(e, r, Saved(r, FALSE), {Saved(q, FALSE)})
      BY <1>2, <1>3, <1>6, Zenon DEF TimeoutExecution
    <2>2. UNCHANGED <<cancelling, waiters>>
      BY <1>6 DEF TimeoutExecution
    <2>3. task'[e] = "none" /\ ~cancelling'[e]
      BY <1>1, <1>6, <2>2 DEF Sound, CancellingIsLive, Live
    <2>4. Fit(r, {Saved(r, FALSE)} \cup {Saved(q, FALSE)})
      BY <1>4, FitsTrail
    <2>5. QED
      BY <1>1, <1>4, <2>1, <2>2, <2>3, <2>4, CancelledSound
  <1>7. QED
    BY <1>5, <1>6

LEMMA TimeoutWakesSound ==
  ASSUME Inv, NEW e \in Execs, TimeoutWakes(e)
  PROVE  \A x \in Execs : Sound(x)'
  <1>1. /\ TypeOK /\ Sound(e) /\ up /\ rec[e] \in Record
        /\ rec[e].status = "timed_out"
    BY DEF Inv, TypeOK, TimeoutWakes, Sound, DownIsBlank, Blank, WaitersBlock
  <1>2. task[e] = "none" /\ ~cancelling[e]
    BY <1>1 DEF TimeoutWakes, Sound, CancellingIsLive, Live
  <1>3. PICK r \in Record : r = TimedOut(rec[e])
    BY <1>1, StatusFacts DEF Record, WithResult, TimedOut
  <1>4. Commit(e, r, Saved(r, FALSE), {})
    BY <1>3, Zenon DEF TimeoutWakes
  <1>5. r.status = "timed_out"
    BY <1>1, <1>3 DEF Record, WithResult, TimedOut
  <1>6. Fit(r, {Saved(r, FALSE)} \cup {})
    BY <1>5, FitsItself
  <1>7. /\ UNCHANGED <<up, task, cancelling>>
        /\ \A x \in Execs \ {e} : waiters'[x] = waiters[x]
    BY <1>1 DEF TimeoutWakes, TypeOK
  <1>8. QED
    BY <1>1, <1>2, <1>4, <1>5, <1>6, <1>7, CancelledSound

LEMMA CrashSound ==
  ASSUME Inv, Crash
  PROVE  \A x \in Execs : Sound(x)'
  <1> SUFFICES ASSUME NEW x \in Execs PROVE Sound(x)'
    OBVIOUS
  <1>1. TypeOK /\ Sound(x)
    BY DEF Inv
  <1>2. /\ ~up' /\ known' = {} /\ rec'[x] = NoRecord /\ task'[x] = "none"
        /\ ~cancelling'[x] /\ waiters'[x] = {} /\ window'[x] = {}
    BY DEF Crash, Quiet
  <1>3. disk'[x] \in Leavable(x)
    BY <1>1 DEF Crash, Leavable, TypeOK
  <1>4. Leavable(x)' \subseteq Leavable(x)
    BY <1>2, <1>3 DEF Leavable
  <1>5. /\ DownIsBlank(x)' /\ UnlistedIsFinal(x)' /\ LiveWhenFinal(x)'
        /\ CancellingIsLive(x)' /\ WaitersBlock(x)' /\ AnswerInFlight(x)'
    BY <1>2 DEF DownIsBlank, UnlistedIsFinal, LiveWhenFinal, Blank,
       CancellingIsLive, WaitersBlock, AnswerInFlight, Live
  <1>6. /\ NeverLeftApproved(x)' /\ VerdictKept(x)' /\ Restorable(x)'
        /\ AnswersKept(x)'
    BY <1>1, <1>2, <1>4 DEF Sound, NeverLeftApproved, VerdictKept, Restorable,
       AnswersKept, NoRecord, Terminal
  <1>7. EarnedCompletion(x)'
    BY <1>1, <1>2, <1>4 DEF Sound, EarnedCompletion, NoRecord
  <1>8. QED
    BY <1>5, <1>6, <1>7 DEF Sound

(* What a restored record has of its checkpoint. *)
LEMMA RestoredFacts ==
  ASSUME NEW c \in Checkpoint
  PROVE  /\ Restored(c).status = RestoredStatus(c)
         /\ RestoredStatus(c) # "approved"
         /\ Restored(c).resolved = c.rec.resolved
         /\ RestoredStatus(c) = "completed" =>
              c.rec.status = "completed" /\ Restored(c).result = c.rec.result
         /\ RestoredStatus(c) \in Terminal => RestoredStatus(c) # "recovering"
         /\ Restored(NoCheckpoint) = NoRecord
         /\ RestoredStatus(NoCheckpoint) = "absent"
  <1>1. c.rec \in Record
    BY DEF Checkpoint
  <1>2. c.rec.status \notin Interrupted => RestoredStatus(c) = c.rec.status
    BY DEF RestoredStatus
  <1>3. c.rec.status \in Interrupted => RestoredStatus(c) \in {"recovering", "failed"}
    BY DEF RestoredStatus
  <1>4. RestoredStatus(NoCheckpoint) = "absent"
    BY DEF NoCheckpoint, Saved, NoRecord, RestoredStatus, Interrupted
  <1>5. Restored(NoCheckpoint) = NoRecord
    BY <1>4 DEF NoCheckpoint, Saved, NoRecord, Restored, Interrupted
  <1>6. Restored(c).resolved = c.rec.resolved
    BY <1>1 DEF Restored, WithResult, Record
  <1>7. RestoredStatus(c) = "completed" =>
          c.rec.status = "completed" /\ Restored(c).result = c.rec.result
    BY <1>1, <1>2, <1>3 DEF Restored, Interrupted, Record
  <1>8. QED
    BY <1>2, <1>3, <1>4, <1>5, <1>6, <1>7, RestoredType DEF Interrupted, Terminal

LEMMA RestartSound ==
  ASSUME Inv, Restart
  PROVE  \A x \in Execs : Sound(x)'
  <1> SUFFICES ASSUME NEW x \in Execs PROVE Sound(x)'
    OBVIOUS
  <1>1. /\ TypeOK /\ Sound(x) /\ ~up /\ up' /\ disk[x] \in Checkpoint
        /\ UNCHANGED <<cancelling, waiters, disk>>
    BY DEF Inv, TypeOK, Restart
  <1>2. Blank(x) /\ ~cancelling[x]
    BY <1>1 DEF Sound, DownIsBlank, Blank, CancellingIsLive, Live
  <1>3. rec'[x] = Restored(disk[x]) /\ window'[x] = {}
    BY DEF Restart, Quiet
  <1>4. /\ x \notin known' =>
             disk[x] = NoCheckpoint \/ RestoredStatus(disk[x]) \in Terminal
        /\ task'[x] \in {"none", "created"}
        /\ task'[x] # "none" => rec'[x].status = "recovering"
    BY <1>1, RestoredFacts DEF Restart, Pruned, TerminalIn, RecoverPending
  <1>5. Leavable(x)' = {disk[x]} /\ {disk[x]} \subseteq Leavable(x)
    BY <1>1, <1>3 DEF Leavable
  <1>6. /\ rec'[x].status = RestoredStatus(disk[x])
        /\ rec'[x].status # "approved"
        /\ rec'[x].resolved = disk[x].rec.resolved
        /\ rec'[x].status = "completed" =>
             disk[x].rec.status = "completed" /\ rec'[x].result = disk[x].rec.result
        /\ disk[x] = NoCheckpoint => rec'[x] = NoRecord
    BY <1>1, <1>3, RestoredFacts
  <1>7. /\ DownIsBlank(x)' /\ UnlistedIsFinal(x)' /\ LiveWhenFinal(x)'
        /\ CancellingIsLive(x)' /\ WaitersBlock(x)' /\ AnswerInFlight(x)'
    <2>1. UnlistedIsFinal(x)' /\ DownIsBlank(x)'
      <3>1. disk[x] = NoCheckpoint => task'[x] = "none"
        BY <1>1, <1>4, <1>6 DEF NoRecord
      <3>2. QED
        BY <1>1, <1>2, <1>3, <1>4, <1>6, <3>1
           DEF UnlistedIsFinal, DownIsBlank, Blank
    <2>2. QED
      BY <1>1, <1>2, <1>4, <2>1 DEF LiveWhenFinal, CancellingIsLive, WaitersBlock,
         AnswerInFlight, Live, Blank, Terminal
  <1>8. /\ NeverLeftApproved(x)' /\ VerdictKept(x)' /\ Restorable(x)'
        /\ AnswersKept(x)'
    BY <1>1, <1>5, <1>6 DEF Sound, NeverLeftApproved, VerdictKept, Restorable,
       AnswersKept
  <1>9. EarnedCompletion(x)'
    <2>1. disk[x].rec.status = "completed" => disk[x].rec.result = "completed"
      BY <1>1, <1>5 DEF Sound, EarnedCompletion
    <2>2. QED
      BY <1>5, <1>6, <2>1 DEF EarnedCompletion
  <1>10. QED
    BY <1>7, <1>8, <1>9 DEF Sound

-----------------------------------------------------------------------------
LEMMA InvInit == Init => Inv
  <1> SUFFICES ASSUME Init PROVE Inv
    OBVIOUS
  <1>1. TypeOK
    BY TypeInit
  <1>2. ASSUME NEW e \in Execs PROVE Sound(e)
    <2>1. /\ up /\ rec[e] = NoRecord /\ disk[e] = NoCheckpoint /\ window[e] = {}
          /\ task[e] = "none" /\ ~cancelling[e] /\ waiters[e] = {}
      BY DEF Init
    <2>2. Leavable(e) = {NoCheckpoint} /\ NoCheckpoint.rec = NoRecord
      BY <2>1 DEF Leavable, NoCheckpoint, Saved
    <2>3. EarnedCompletion(e)
      BY <2>1, <2>2 DEF EarnedCompletion, NoRecord
    <2>4. /\ NeverLeftApproved(e) /\ VerdictKept(e) /\ Restorable(e)
          /\ AnswersKept(e)
      BY <2>1, <2>2 DEF NeverLeftApproved, VerdictKept, Restorable, AnswersKept,
         NoRecord, Terminal
    <2>5. QED
      BY <2>1, <2>3, <2>4 DEF Sound, DownIsBlank, UnlistedIsFinal, LiveWhenFinal,
         CancellingIsLive, WaitersBlock, AnswerInFlight, Blank, Live
  <1>3. QED
    BY <1>1, <1>2 DEF Inv

LEMMA InvStep ==
  ASSUME Inv, [Next]_vars
  PROVE  Inv'
  <1>1. TypeOK'
    BY TypeStep DEF Inv
  <1>2. CASE UNCHANGED vars
    <2>1. ASSUME NEW x \in Execs PROVE Sound(x)'
      BY <1>2, SameStaysSound DEF Inv, Same, vars
    <2>2. QED
      BY <1>1, <2>1 DEF Inv
  <1>3. CASE Next
    <2>1. ASSUME NEW e \in Execs, RunInitial(e) \/ AcquireCapacity(e)
          PROVE  \A x \in Execs : Sound(x)'
      BY <2>1, EnterPipelineSound DEF RunInitial, AcquireCapacity, Live
    <2>2. ASSUME NEW e \in Execs, TaskStep(e)
          PROVE  \A x \in Execs : Sound(x)'
      BY <2>1, <2>2, SilentStepsSound, SettlePausedSound, SettleFinalSound,
         SettleDeniedSound, InitialRaisesSound, ResumeRaisesSound,
         CancelBeforeStartSound, DeliverCancelSound, CancelWakesSound,
         TimeoutWakesSound DEF TaskStep
    <2>3. \A x \in Execs : Sound(x)'
      BY <1>3, <2>2, StartExecutionSound, RuntimeCheckpointSound,
         SubmitApprovalSound, CancelExecutionSound, TimeoutExecutionSound,
         CrashSound, RestartSound DEF Next
    <2>4. QED
      BY <1>1, <2>3 DEF Inv
  <1>4. QED
    BY <1>2, <1>3

(* The inductive invariant holds of every run. *)
THEOREM Invariance == Spec => []Inv
  BY InvInit, InvStep, PTL DEF Spec

(* No pipeline works on for an execution that has been decided, whichever  *)
(* of completion, cancellation and timeout won.                            *)
THEOREM DecidedStops == Spec => []TerminalHasNoTask
  <1>1. Inv => TerminalHasNoTask
    BY DEF Inv, Sound, LiveWhenFinal, TerminalHasNoTask
  <1>2. QED
    BY <1>1, Invariance, PTL

(* A crash at any moment, followed by a restart, shows the final status    *)
(* that was shown before it.                                               *)
THEOREM CrashKeepsVerdict == Spec => []VerdictDurable
  <1>1. Inv => VerdictDurable
    BY DEF Inv, Sound, VerdictDurable
  <1>2. QED
    BY <1>1, Invariance, PTL

(* No reachable checkpoint makes _restore_checkpoints attempt an illegal   *)
(* transition.                                                             *)
THEOREM RestartGetsThrough == Spec => []RestoreIsLegal
  <1>1. Inv => RestoreIsLegal
    BY DEF Inv, Sound, RestoreIsLegal
  <1>2. QED
    BY <1>1, Invariance, PTL

(* An approval that has been answered is answered in every checkpoint.     *)
THEOREM AnswersSurvive == Spec => []AnswersDurable
  <1>1. Inv => AnswersDurable
    BY DEF Inv, Sound, AnswersDurable
  <1>2. QED
    BY <1>1, Invariance, PTL

(* COMPLETED always has a completed result behind it.                      *)
THEOREM CompletionIsEarned == Spec => []CompletedHasResult
  <1>1. Inv => CompletedHasResult
    BY DEF Inv, Sound, CompletedHasResult
  <1>2. QED
    BY <1>1, Invariance, PTL

-----------------------------------------------------------------------------
(* The coordinator implements Verdict. *)

(* No final status changes. *)
Steady ==
  \A x \in Execs : rec[x].status \in Terminal => rec'[x].status = rec[x].status

(* No step of an undisturbed task starts from a final status. *)
LEMMA UndisturbedSteady ==
  ASSUME Inv, NEW e \in Execs,
         RunInitial(e) \/ QueueInitial(e) \/ AcquireCapacity(e) \/ RunResume(e)
         \/ (\E r \in Result : PipelineProduces(e, r))
         \/ (\E t \in Tasks : SettlePaused(e, t))
         \/ SettleFinal(e) \/ SettleDenied(e)
         \/ (\E v \in {"failed", "timed_out"} : InitialRaises(e, v))
         \/ ResumeRaises(e)
         \/ (\E safe \in BOOLEAN : RuntimeCheckpoint(e, safe))
  PROVE  Steady
  <1>1. Live(e) /\ ~cancelling[e]
    BY DEF RunInitial, QueueInitial, AcquireCapacity, RunResume,
       PipelineProduces, SettlePaused, SettleFinal, SettleDenied, InitialRaises,
       ResumeRaises, RuntimeCheckpoint, InPipeline, Live
  <1>2. rec[e].status \notin Terminal /\ TypeOK
    BY <1>1, Undisturbed DEF Inv
  <1>3. \A x \in Execs \ {e} : rec'[x] = rec[x]
    BY <1>2 DEF RunInitial, QueueInitial, AcquireCapacity, RunResume,
       EnterPipeline, PipelineProduces, SettlePaused, SettleFinal, SettleDenied,
       InitialRaises, ResumeRaises, RuntimeCheckpoint, Commit, TypeOK
  <1>4. QED
    BY <1>2, <1>3 DEF Steady

(* Cancellation and timeout keep a final status they find. *)
LEMMA CancelSteady ==
  ASSUME Inv, NEW e \in Execs, DeliverCancel(e) \/ FinishCancel(e)
  PROVE  Steady
  <1>1. rec \in [Execs -> Record]
    BY DEF Inv, TypeOK
  <1>2. PICK q \in Record : q = IF rec[e].status \in Terminal THEN rec[e]
                               ELSE [rec[e] EXCEPT !.status = "cancelled"]
    BY <1>1, StatusFacts DEF Record
  <1>3. \E r : /\ rec' = [rec EXCEPT ![e] = r]
              /\ r.status = q.status
    <2>1. CASE DeliverCancel(e)
      <3>1. PICK r \in Record :
              r = WithResult(q, IF q.status = "timed_out" THEN "timed_out"
                                ELSE "cancelled")
        BY StatusFacts DEF Record, WithResult
      <3>2. r.status = q.status
        BY <3>1 DEF Record, WithResult
      <3>3. rec' = [rec EXCEPT ![e] = r]
        BY <1>2, <2>1, <3>1, Zenon DEF DeliverCancel, Commit
      <3>4. QED
        BY <3>2, <3>3
    <2>2. CASE FinishCancel(e)
      <3>1. PICK r \in Record : r = [WithResult(q, "cancelled") EXCEPT !.pending = NoTask]
        BY StatusFacts DEF Record, WithResult
      <3>2. r.status = q.status
        BY <3>1 DEF Record, WithResult
      <3>3. rec' = [rec EXCEPT ![e] = r]
        BY <1>2, <2>2, <3>1, Zenon DEF FinishCancel, Commit
      <3>4. QED
        BY <3>2, <3>3
    <2>3. QED
      BY <2>1, <2>2
  <1>4. QED
    BY <1>1, <1>2, <1>3 DEF Steady

(* While the process lives, a final status is final. *)
LEMMA StatusSteady ==
  ASSUME Inv, Next, up, up'
  PROVE  Steady
  <1>1. TypeOK
    BY DEF Inv
  <1>2. ASSUME NEW e \in Execs, StartExecution(e) PROVE Steady
    <2>1. rec[e].status \notin Terminal
      <3>1. Sound(e) /\ disk[e] = NoCheckpoint
        BY <1>2 DEF Inv, StartExecution
      <3>2. RestoredStatus(NoCheckpoint) = "absent"
        BY DEF NoCheckpoint, Saved, NoRecord, RestoredStatus, Interrupted
      <3>3. QED
        BY <3>1, <3>2 DEF Sound, VerdictKept, Leavable, Terminal
    <2>2. \A x \in Execs \ {e} : rec'[x] = rec[x]
      BY <1>1, <1>2 DEF StartExecution, TypeOK
    <2>3. QED
      BY <2>1, <2>2 DEF Steady
  <1>3. ASSUME NEW e \in Execs, NEW d \in {"allow", "deny"}, SubmitApproval(e, d)
        PROVE Steady
    <2>1. rec[e].status \notin Terminal
      BY <1>3 DEF SubmitApproval, Terminal
    <2>2. \A x \in Execs \ {e} : rec'[x] = rec[x]
      BY <1>1, <1>3 DEF SubmitApproval, Commit, TypeOK
    <2>3. QED
      BY <2>1, <2>2 DEF Steady
  <1>4. ASSUME NEW e \in Execs, CancelExecution(e) \/ CancelWakes(e) PROVE Steady
    <2>1. CASE FinishCancel(e)
      BY <2>1, CancelSteady
    <2>2. CASE UNCHANGED rec
      BY <2>2 DEF Steady
    <2>3. QED
      BY <1>4, <2>1, <2>2 DEF CancelExecution, CancelWakes
  <1>5. ASSUME NEW e \in Execs, TimeoutExecution(e) PROVE Steady
    <2>1. \A x \in Execs \ {e} : rec'[x] = rec[x]
      BY <1>1, <1>5 DEF TimeoutExecution, Commit, TypeOK
    <2>2. QED
      BY <1>5, <2>1 DEF TimeoutExecution, Steady
  <1>6. ASSUME NEW e \in Execs, TimeoutWakes(e) PROVE Steady
    <2>1. rec[e] \in Record
      BY <1>1 DEF TypeOK
    <2>2. PICK r \in Record : r = TimedOut(rec[e])
      BY <2>1, StatusFacts DEF TimedOut, WithResult, Record
    <2>3. r.status = rec[e].status
      BY <2>1, <2>2 DEF TimedOut, WithResult, Record
    <2>4. rec' = [rec EXCEPT ![e] = r]
      BY <1>6, <2>2, Zenon DEF TimeoutWakes, Commit
    <2>5. QED
      BY <1>1, <2>3, <2>4 DEF Steady, TypeOK
  <1>7. ASSUME NEW e \in Execs, CancelBeforeStart(e) PROVE Steady
    BY <1>7 DEF CancelBeforeStart, Steady
  <1>8. ASSUME NEW e \in Execs, TaskStep(e) PROVE Steady
    BY <1>4, <1>6, <1>7, <1>8, UndisturbedSteady, CancelSteady, StatusFacts
       DEF TaskStep
  <1>9. QED
    BY <1>2, <1>3, <1>4, <1>5, <1>8, UndisturbedSteady DEF Next, Crash, Restart

(* A down process takes no step but Restart. *)
LEMMA DownOnlyRestarts ==
  ASSUME Inv, Next, ~up
  PROVE  Restart
  <1>1. \A e \in Execs : task[e] = "none" /\ waiters[e] = {} /\ ~cancelling[e]
    BY DEF Inv, Sound, DownIsBlank, Blank, CancellingIsLive, Live
  <1>2. QED
    BY <1>1 DEF Next, TaskStep, RunInitial, QueueInitial, AcquireCapacity,
       RunResume, PipelineProduces, SettlePaused, SettleFinal, SettleDenied,
       InitialRaises, ResumeRaises, CancelBeforeStart, DeliverCancel,
       CancelWakes, TimeoutWakes, StartExecution, RuntimeCheckpoint,
       SubmitApproval, CancelExecution, TimeoutExecution, Crash, InPipeline

(* In a running process the verdict is the status in memory, listed or not.*)
LEMMA VerdictShown ==
  ASSUME Inv, up, NEW e \in Execs
  PROVE  VerdictOf(e) = IF rec[e].status \in Terminal THEN rec[e].status ELSE "open"
  <1>1. Sound(e) /\ disk[e] \in Leavable(e)
    BY DEF Inv, Leavable
  <1>2. rec[e].status \in Terminal => RestoredStatus(disk[e]) = rec[e].status
    BY <1>1 DEF Sound, VerdictKept
  <1>3. e \notin known /\ rec[e].status \notin Terminal =>
          RestoredStatus(disk[e]) = "absent"
    BY <1>1 DEF Sound, UnlistedIsFinal, NoCheckpoint, Saved, NoRecord,
       RestoredStatus, Interrupted
  <1>4. QED
    BY <1>2, <1>3 DEF VerdictOf, Terminal

LEMMA VerdictShownNext ==
  ASSUME Inv', up', NEW e \in Execs
  PROVE  VerdictOf(e)' = IF rec'[e].status \in Terminal THEN rec'[e].status ELSE "open"
  <1>1. Sound(e)' /\ disk'[e] \in Leavable(e)'
    BY DEF Inv, Leavable
  <1>2. rec'[e].status \in Terminal => RestoredStatus(disk'[e]) = rec'[e].status
    BY <1>1 DEF Sound, VerdictKept
  <1>3. e \notin known' /\ rec'[e].status \notin Terminal =>
          RestoredStatus(disk'[e]) = "absent"
    BY <1>1 DEF Sound, UnlistedIsFinal, NoCheckpoint, Saved, NoRecord,
       RestoredStatus, Interrupted
  <1>4. QED
    BY <1>2, <1>3 DEF VerdictOf, Terminal

(* No step changes a verdict. *)
LEMMA VerdictSteady ==
  ASSUME Inv, Inv', [Next]_vars, NEW e \in Execs, VerdictOf(e) # "open"
  PROVE  VerdictOf(e)' = VerdictOf(e)
  <1>1. CASE UNCHANGED vars
    BY <1>1 DEF vars, VerdictOf
  <1>2. CASE Next /\ up /\ up'
    BY <1>2, StatusSteady, VerdictShown, VerdictShownNext DEF Steady
  <1>3. CASE Next /\ up /\ ~up'
    <2>1. Crash
      BY <1>3 DEF Next, TaskStep, RunInitial, QueueInitial, AcquireCapacity,
         EnterPipeline, RunResume, PipelineProduces, SettlePaused, SettleFinal,
         SettleDenied, InitialRaises, ResumeRaises, CancelBeforeStart,
         DeliverCancel, CancelWakes, TimeoutWakes, StartExecution,
         RuntimeCheckpoint, SubmitApproval, CancelExecution, TimeoutExecution,
         Restart
    <2>2. rec[e].status \in Terminal /\ VerdictOf(e) = rec[e].status
      BY <1>3, VerdictShown
    <2>3. disk'[e] \in Leavable(e)
      BY <2>1 DEF Crash, Leavable, Inv, TypeOK
    <2>4. RestoredStatus(disk'[e]) = rec[e].status
      BY <2>2, <2>3 DEF Inv, Sound, VerdictKept
    <2>5. QED
      BY <1>3, <2>2, <2>4 DEF VerdictOf
  <1>4. CASE Next /\ ~up
    <2>1. Restart
      BY <1>4, DownOnlyRestarts
    <2>2. up' /\ rec'[e] = Restored(disk[e]) /\ disk[e] \in Checkpoint
      BY <2>1 DEF Restart, Inv, TypeOK
    <2>3. rec'[e].status = RestoredStatus(disk[e])
      BY <2>2, RestoredFacts
    <2>4. QED
      BY <1>4, <2>2, <2>3, VerdictShownNext DEF VerdictOf
  <1>5. QED
    BY <1>1, <1>2, <1>3, <1>4

(* The coordinator implements Verdict: through races, pruning, crashes and *)
(* restarts, each execution gets at most one verdict.                      *)
THEOREM ImplementsVerdict == Spec => OneVerdict
  <1>1. Init => V!Init
    <2> SUFFICES ASSUME Init, NEW e \in Execs PROVE VerdictOf(e) = "open"
      BY DEF V!Init
    <2>1. RestoredStatus(disk[e]) = "absent" /\ e \notin known
      BY DEF Init, NoCheckpoint, Saved, NoRecord, RestoredStatus, Interrupted
    <2>2. QED
      BY <2>1 DEF VerdictOf, Terminal
  <1>2. Inv /\ Inv' /\ [Next]_vars => V!Decide
    <2> SUFFICES ASSUME Inv, Inv', [Next]_vars PROVE V!Decide
      OBVIOUS
    <2>1. \A e \in Execs : VerdictOf(e) # "open" => VerdictOf(e)' = VerdictOf(e)
      BY VerdictSteady
    <2>2. \A e \in Execs : VerdictOf(e)' \in Terminal \cup {"open"}
      BY DEF VerdictOf
    <2>3. QED
      BY <2>1, <2>2 DEF V!Decide, Terminal
  <1>3. QED
    BY <1>1, <1>2, Invariance, PTL DEF Spec, OneVerdict, V!Spec

-----------------------------------------------------------------------------
(* cancel_execution and timeout_execution return from a decided execution. *)

(* The call that returns has just written a final status: the cancel its   *)
(* own or the one it found, ...                                            *)
LEMMA CancelDecides ==
  ASSUME Inv, NEW e \in Execs, CancelWakes(e)
  PROVE  /\ rec'[e].status \in Terminal
         /\ \A x \in Execs \ {e} : waiters'[x] = waiters[x]
  <1>1. TypeOK /\ rec[e] \in Record
    BY DEF Inv, TypeOK
  <1>2. PICK q \in Record : q = IF rec[e].status \in Terminal THEN rec[e]
                               ELSE [rec[e] EXCEPT !.status = "cancelled"]
    BY <1>1, StatusFacts DEF Record
  <1>3. PICK r \in Record : r = [WithResult(q, "cancelled") EXCEPT !.pending = NoTask]
    BY StatusFacts DEF Record, WithResult
  <1>4. r.status = q.status /\ q.status \in Terminal
    BY <1>1, <1>2, <1>3, StatusFacts DEF Record, WithResult
  <1>5. PICK w : w = IF q = rec[e] THEN {} ELSE {Saved(q, FALSE)}
    OBVIOUS
  <1>6. Commit(e, r, Saved(r, FALSE), w)
    BY <1>2, <1>3, <1>5, Zenon DEF FinishCancel, CancelWakes
  <1>7. rec'[e] = r
    BY <1>1, <1>6, CommitEffect
  <1>8. \A x \in Execs \ {e} : waiters'[x] = waiters[x]
    BY <1>1 DEF CancelWakes, TypeOK
  <1>9. QED
    BY <1>4, <1>7, <1>8

(* ... the timeout the one it had written before it waited.                *)
LEMMA TimeoutDecides ==
  ASSUME Inv, NEW e \in Execs, TimeoutWakes(e)
  PROVE  /\ rec'[e].status \in Terminal
         /\ \A x \in Execs \ {e} : waiters'[x] = waiters[x]
  <1>1. TypeOK /\ rec[e] \in Record /\ rec[e].status = "timed_out"
    BY DEF Inv, TypeOK, TimeoutWakes, Sound, WaitersBlock
  <1>2. PICK r \in Record : r = TimedOut(rec[e])
    BY <1>1, StatusFacts DEF Record, WithResult, TimedOut
  <1>3. r.status = "timed_out"
    BY <1>1, <1>2 DEF Record, WithResult, TimedOut
  <1>4. Commit(e, r, Saved(r, FALSE), {})
    BY <1>2, Zenon DEF TimeoutWakes
  <1>5. rec'[e] = r
    BY <1>1, <1>4, CommitEffect
  <1>6. \A x \in Execs \ {e} : waiters'[x] = waiters[x]
    BY <1>1 DEF TimeoutWakes, TypeOK
  <1>7. QED
    BY <1>3, <1>5, <1>6, StatusFacts

(* No other step but a crash lets a call go.                               *)
LEMMA OthersKeepWaiting ==
  ASSUME Inv, NEW e \in Execs,
         \/ TaskStep(e) /\ ~CancelWakes(e) /\ ~TimeoutWakes(e)
         \/ StartExecution(e)
         \/ \E safe \in BOOLEAN : RuntimeCheckpoint(e, safe)
         \/ \E d \in {"allow", "deny"} : SubmitApproval(e, d)
         \/ CancelExecution(e) \/ TimeoutExecution(e)
  PROVE  \A x \in Execs : waiters[x] \subseteq waiters'[x]
  <1>1. waiters \in [Execs -> SUBSET {"cancel", "timeout"}]
    BY DEF Inv, TypeOK
  <1>2. CASE TaskStep(e) /\ ~CancelWakes(e) /\ ~TimeoutWakes(e)
    <2>1. UNCHANGED waiters
      BY <1>2, Zenon DEF TaskStep, RunInitial, AcquireCapacity, EnterPipeline,
         QueueInitial, RunResume, PipelineProduces, SettlePaused, SettleFinal,
         SettleDenied, InitialRaises, ResumeRaises, CancelBeforeStart,
         DeliverCancel
    <2>2. QED
      BY <2>1
  <1>3. CASE StartExecution(e)
    BY <1>3 DEF StartExecution
  <1>4. CASE \E safe \in BOOLEAN : RuntimeCheckpoint(e, safe)
    BY <1>4 DEF RuntimeCheckpoint
  <1>5. CASE \E d \in {"allow", "deny"} : SubmitApproval(e, d)
    BY <1>5 DEF SubmitApproval
  <1>6. CASE CancelExecution(e)
    <2>1. \/ waiters' = [waiters EXCEPT ![e] = @ \cup {"cancel"}]
          \/ waiters' = waiters
      BY <1>6 DEF CancelExecution
    <2>2. QED
      BY <1>1, <2>1
  <1>7. CASE TimeoutExecution(e)
    <2>1. \/ waiters' = [waiters EXCEPT ![e] = @ \cup {"timeout"}]
          \/ waiters' = waiters
      BY <1>7 DEF TimeoutExecution
    <2>2. QED
      BY <1>1, <2>1
  <1>8. QED
    BY <1>2, <1>3, <1>4, <1>5, <1>6, <1>7

Decides == \A e \in Execs : up' /\ waiters[e] \ waiters'[e] # {}
                               => rec'[e].status \in Terminal

LEMMA StepDecides ==
  ASSUME Inv, [Next]_vars
  PROVE  Decides
  <1>1. CASE UNCHANGED vars
    BY <1>1 DEF vars, Decides
  <1>2. CASE Crash
    BY <1>2 DEF Crash, Decides
  <1>3. CASE Restart
    BY <1>3 DEF Restart, Decides
  <1>4. ASSUME NEW e \in Execs, CancelWakes(e) PROVE Decides
    BY <1>4, CancelDecides DEF Decides
  <1>5. ASSUME NEW e \in Execs, TimeoutWakes(e) PROVE Decides
    BY <1>5, TimeoutDecides DEF Decides
  <1>6. ASSUME NEW e \in Execs,
               \/ TaskStep(e) /\ ~CancelWakes(e) /\ ~TimeoutWakes(e)
               \/ StartExecution(e)
               \/ \E safe \in BOOLEAN : RuntimeCheckpoint(e, safe)
               \/ \E d \in {"allow", "deny"} : SubmitApproval(e, d)
               \/ CancelExecution(e) \/ TimeoutExecution(e)
        PROVE  Decides
    <2>1. \A x \in Execs : waiters[x] \subseteq waiters'[x]
      BY <1>6, OthersKeepWaiting
    <2>2. QED
      BY <2>1 DEF Decides
  <1>7. QED
    BY <1>1, <1>2, <1>3, <1>4, <1>5, <1>6 DEF Next

(* A cancel_execution or timeout_execution that returns leaves a decided   *)
(* execution, whatever its task did while the call waited.                 *)
THEOREM CallsReturnDecided == Spec => CancelReturns
  <1>1. Inv /\ [Next]_vars => [Decides]_vars
    BY StepDecides
  <1>2. QED
    BY <1>1, Invariance, PTL DEF Spec, CancelReturns, Decides

(* All that a client of the coordinator may rely on in every state and     *)
(* step, for any number of executions, slots and crashes.                  *)
THEOREM CoordinatorIsSafe == Spec => CoordinatorSafe
  <1>1. QED
    BY TypeCorrect, DecidedStops, CrashKeepsVerdict, RestartGetsThrough,
       CompletionIsEarned, AnswersSurvive, CallsReturnDecided, PTL
       DEF CoordinatorSafe

-----------------------------------------------------------------------------
(* What pruning leaves.                                                    *)

LEMMA Least ==
  ASSUME NEW S \in SUBSET Nat, S # {}
  PROVE  \E n \in S : \A m \in S : n <= m
  <1>1. IsWellFoundedOn(OpToRel(<, Nat), Nat)
    BY NatLessThanWellFounded
  <1>2. PICK n \in S : \A m \in S : <<m, n>> \notin OpToRel(<, Nat)
    BY <1>1, WFMin
  <1>3. \A m \in S : ~(m < n)
    BY <1>2 DEF OpToRel
  <1>4. QED
    BY <1>3

(* The newest are kept: of those that are kept, the oldest has too many    *)
(* older ones to let more than MaxRetained be left, whether or not two are *)
(* of the same age.                                                        *)
LEMMA PruningBounds ==
  ASSUME NEW keys \in SUBSET Execs, NEW r, NEW order \in [Execs -> Nat],
         NEW preserve \in SUBSET Execs, Cardinality(preserve) <= 1
  PROVE  Cardinality(TerminalIn(keys \ Pruned(keys, r, order, preserve), r))
           <= MaxRetained
  <1> DEFINE dead == TerminalIn(keys, r)
             open == dead \ preserve
             Older(e) == {x \in open : order[x] > order[e]}
             kept == {e \in open : ~(Cardinality(Older(e)) + MaxRetained
                                       < Cardinality(dead))}
             left == TerminalIn(keys \ Pruned(keys, r, order, preserve), r)
  <1>1. /\ dead \in SUBSET Execs /\ open = dead \ preserve /\ kept \in SUBSET open
        /\ \A e \in kept : ~(Cardinality(Older(e)) + MaxRetained < Cardinality(dead))
        /\ \A e : Older(e) \in SUBSET open
        /\ \A e \in open, x \in open : x \in Older(e) <=> order[x] > order[e]
        /\ \A e \in open : order[e] \in Nat
    BY DEF TerminalIn
  <1>2. left = kept \cup (dead \cap preserve)
    BY DEF TerminalIn, Pruned
  <1> HIDE DEF dead, open, Older, kept, left
  <1>3. \A S \in SUBSET Execs : IsFiniteSet(S) /\ Cardinality(S) \in Nat
    BY ConstantsAssumption, CountType, FS_Subset
  <1>4. MaxRetained \in Nat /\ MaxRetained >= 1
    BY ConstantsAssumption
  <1>5. Cardinality(left) <= MaxRetained
    <2>1. CASE kept = {}
      <3>1. left \in SUBSET preserve
        BY <1>2, <2>1
      <3>2. Cardinality(left) <= Cardinality(preserve)
        BY <1>3, <3>1, FS_Subset
      <3>3. Cardinality(left) \in Nat /\ Cardinality(preserve) \in Nat
        BY <1>3, <3>1
      <3>4. QED
        BY <1>4, <3>2, <3>3
    <2>2. CASE kept # {}
      <3>1. \A e : Cardinality(Older(e)) \in Nat /\ IsFiniteSet(Older(e))
        BY <1>1, <1>3
      <3>2. PICK e \in kept :
              \A x \in kept : Cardinality(Older(e)) <= Cardinality(Older(x))
        <4> DEFINE counts == {Cardinality(Older(x)) : x \in kept}
        <4>1. counts \in SUBSET Nat /\ counts # {}
          BY <2>2, <3>1
        <4>2. PICK n \in counts : \A m \in counts : n <= m
          BY <4>1, Least
        <4>3. PICK e \in kept : n = Cardinality(Older(e))
          BY <4>2
        <4>4. \A x \in kept : Cardinality(Older(x)) \in counts
          OBVIOUS
        <4>5. QED
          BY <4>2, <4>3, <4>4
      <3>3. ASSUME NEW x \in kept, x \in Older(e)
            PROVE  FALSE
        <4>1. x \in open /\ e \in open /\ order[x] > order[e]
          BY <1>1, <3>2, <3>3
        <4>2. Older(x) \in SUBSET Older(e) /\ x \notin Older(x)
          BY <1>1, <4>1
        <4>3. /\ Cardinality(Older(x)) <= Cardinality(Older(e))
              /\ Cardinality(Older(e)) = Cardinality(Older(x)) => Older(e) = Older(x)
          BY <3>1, <4>2, FS_Subset
        <4>4. Cardinality(Older(e)) <= Cardinality(Older(x))
          BY <3>2
        <4>5. Cardinality(Older(e)) = Cardinality(Older(x))
          BY <3>1, <4>3, <4>4
        <4>6. QED
          BY <3>3, <4>2, <4>3, <4>5
      <3>4. Cardinality(kept) <= Cardinality(open \ Older(e))
        <4>1. kept \in SUBSET (open \ Older(e))
          BY <1>1, <3>3
        <4>2. IsFiniteSet(open \ Older(e))
          BY <1>1, <1>3
        <4>3. QED
          BY <4>1, <4>2, FS_Subset
      <3>5. Cardinality(open \ Older(e)) = Cardinality(open) - Cardinality(Older(e))
        <4>1. open \cap Older(e) = Older(e)
          BY <1>1
        <4>2. IsFiniteSet(open)
          BY <1>1, <1>3
        <4>3. QED
          BY <4>1, <4>2, FS_Difference
      <3>6. Cardinality(open) = Cardinality(dead) - Cardinality(dead \cap preserve)
        BY <1>1, <1>3, FS_Difference
      <3>7. /\ IsFiniteSet(kept) /\ IsFiniteSet(dead \cap preserve)
            /\ Cardinality(kept) \in Nat /\ Cardinality(dead \cap preserve) \in Nat
            /\ Cardinality(dead) \in Nat /\ Cardinality(open) \in Nat
        BY <1>1, <1>3
      <3>8. Cardinality(left) = Cardinality(kept) + Cardinality(dead \cap preserve)
        <4>1. kept \cap (dead \cap preserve) = {}
          BY <1>1
        <4>2. Cardinality(kept \cup (dead \cap preserve)) =
                Cardinality(kept) + Cardinality(dead \cap preserve)
                  - Cardinality(kept \cap (dead \cap preserve))
          BY <3>7, FS_Union
        <4>3. QED
          BY <1>2, <3>7, <4>1, <4>2, FS_EmptySet
      <3>9. ~(Cardinality(Older(e)) + MaxRetained < Cardinality(dead))
        BY <1>1, <3>2
      <3>10. Cardinality(Older(e)) \in Nat
        BY <3>1
      <3>11. QED
        BY <1>4, <3>4, <3>5, <3>6, <3>7, <3>8, <3>9, <3>10
    <2>3. QED
      BY <2>1, <2>2
  <1>6. QED
    BY <1>5 DEF left

(* The process keeps at most MaxRetained finished executions. *)
Retained == Cardinality(TerminalIn(known, rec)) <= MaxRetained

(* A step that leaves the list, and the record of all but perhaps one that *)
(* is not final afterwards.                                                *)
LEMMA NothingEnds ==
  ASSUME TypeOK, TypeOK', Retained, TerminalIn(known', rec') \subseteq TerminalIn(known, rec)
  PROVE  Retained'
  <1>1. /\ TerminalIn(known, rec) \in SUBSET Execs
        /\ TerminalIn(known', rec') \in SUBSET Execs
    BY DEF TypeOK, TerminalIn
  <1>2. /\ IsFiniteSet(TerminalIn(known, rec))
        /\ Cardinality(TerminalIn(known, rec)) \in Nat
        /\ Cardinality(TerminalIn(known', rec')) \in Nat
    BY <1>1, ConstantsAssumption, CountType, FS_Subset
  <1>3. Cardinality(TerminalIn(known', rec')) <= Cardinality(TerminalIn(known, rec))
    BY <1>2, FS_Subset
  <1>4. QED
    BY <1>2, <1>3, ConstantsAssumption DEF Retained

LEMMA CommitRetains ==
  ASSUME TypeOK, TypeOK', Retained, NEW e \in Execs, NEW r, NEW c, NEW w,
         Commit(e, r, c, w)
  PROVE  Retained'
  <1>1. CASE r.status \in Terminal
    <2>1. known' = known \ Pruned(known, rec', age, {e})
      BY <1>1 DEF Commit
    <2>2. Cardinality({e}) <= 1
      BY FS_Singleton
    <2>3. known \in SUBSET Execs /\ age \in [Execs -> Nat]
      BY DEF TypeOK
    <2>4. Cardinality(TerminalIn(known \ Pruned(known, rec', age, {e}), rec'))
            <= MaxRetained
      BY <2>2, <2>3, PruningBounds
    <2>5. QED
      BY <2>1, <2>4 DEF Retained
  <1>2. CASE r.status \notin Terminal
    <2>1. known' = known /\ rec'[e] = r /\ \A x \in Execs \ {e} : rec'[x] = rec[x]
      BY <1>2 DEF Commit, TypeOK
    <2>2. TerminalIn(known', rec') \subseteq TerminalIn(known, rec)
      BY <1>2, <2>1 DEF TerminalIn, TypeOK
    <2>3. QED
      BY <2>2, NothingEnds
  <1>3. QED
    BY <1>1, <1>2

LEMMA StartRetains ==
  ASSUME TypeOK, TypeOK', Retained, NEW e \in Execs, StartExecution(e)
  PROVE  Retained'
  <1>1. /\ known' = known \cup {e} /\ rec'[e].status = "planning"
        /\ \A x \in Execs \ {e} : rec'[x] = rec[x]
    BY DEF StartExecution, TypeOK, NoRecord
  <1>2. TerminalIn(known', rec') \subseteq TerminalIn(known, rec)
    BY <1>1 DEF TerminalIn, TypeOK, Terminal
  <1>3. QED
    BY <1>2, NothingEnds

LEMMA ProduceRetains ==
  ASSUME TypeOK, TypeOK', Retained, NEW e \in Execs, NEW r, PipelineProduces(e, r)
  PROVE  Retained'
  <1>1. /\ known' = known /\ rec'[e] = WithResult(rec[e], r)
        /\ \A x \in Execs \ {e} : rec'[x] = rec[x]
    BY DEF PipelineProduces, TypeOK
  <1>2. rec'[e].status = rec[e].status
    BY <1>1 DEF WithResult, TypeOK, Record
  <1>3. TerminalIn(known', rec') \subseteq TerminalIn(known, rec)
    BY <1>1, <1>2 DEF TerminalIn, TypeOK
  <1>4. QED
    BY <1>3, NothingEnds

LEMMA UnchangedRetains ==
  ASSUME Retained, UNCHANGED <<known, rec>>
  PROVE  Retained'
  BY DEF Retained

LEMMA RestartRetains ==
  ASSUME TypeOK, Restart
  PROVE  Retained'
  <1> DEFINE found == {e \in Execs : disk[e] # NoCheckpoint}
             order == [e \in Execs |-> Cardinality({x \in found : e < x})]
  <1>1. known' = found \ Pruned(found, rec', order, {})
    BY DEF Restart
  <1>2. order \in [Execs -> Nat]
    <2>1. \A e \in Execs : {x \in found : e < x} \in SUBSET Execs
      OBVIOUS
    <2>2. QED
      BY <2>1, CountType
  <1>3. Cardinality({}) <= 1 /\ found \in SUBSET Execs
    BY FS_EmptySet
  <1> HIDE DEF found, order
  <1>4. Cardinality(TerminalIn(found \ Pruned(found, rec', order, {}), rec'))
          <= MaxRetained
    BY <1>2, <1>3, PruningBounds
  <1>5. QED
    BY <1>1, <1>4 DEF Retained

LEMMA TaskRetains ==
  ASSUME TypeOK, TypeOK', Retained, NEW e \in Execs, TaskStep(e)
  PROVE  Retained'
  <1>1. CASE RunInitial(e) \/ AcquireCapacity(e)
    BY <1>1, CommitRetains DEF RunInitial, AcquireCapacity, EnterPipeline
  <1>2. CASE QueueInitial(e) \/ RunResume(e) \/ CancelBeforeStart(e)
    BY <1>2, UnchangedRetains DEF QueueInitial, RunResume, CancelBeforeStart
  <1>3. ASSUME NEW r, PipelineProduces(e, r)  PROVE Retained'
    BY <1>3, ProduceRetains
  <1>4. ASSUME NEW t \in Tasks, SettlePaused(e, t)  PROVE Retained'
    BY <1>4, CommitRetains, Zenon DEF SettlePaused
  <1>5. CASE SettleFinal(e) \/ SettleDenied(e)
    BY <1>5, CommitRetains, Zenon DEF SettleFinal, SettleDenied
  <1>6. ASSUME NEW v, InitialRaises(e, v)  PROVE Retained'
    BY <1>6, CommitRetains, Zenon DEF InitialRaises
  <1>7. CASE ResumeRaises(e)
    BY <1>7, CommitRetains, UnchangedRetains, Zenon DEF ResumeRaises
  <1>8. CASE DeliverCancel(e)
    BY <1>8, CommitRetains, Zenon DEF DeliverCancel
  <1>9. CASE CancelWakes(e)
    BY <1>9, CommitRetains, Zenon DEF CancelWakes, FinishCancel
  <1>10. CASE TimeoutWakes(e)
    BY <1>10, CommitRetains, Zenon DEF TimeoutWakes
  <1>11. QED
    BY <1>1, <1>2, <1>3, <1>4, <1>5, <1>6, <1>7, <1>8, <1>9, <1>10, Zenon
       DEF TaskStep

LEMMA StepRetains ==
  ASSUME Inv, Retained, [Next]_vars
  PROVE  Retained'
  <1>1. TypeOK /\ TypeOK'
    BY TypeStep DEF Inv
  <1>2. CASE UNCHANGED vars
    BY <1>2, UnchangedRetains DEF vars
  <1>3. ASSUME NEW e \in Execs, TaskStep(e)  PROVE Retained'
    BY <1>1, <1>3, TaskRetains
  <1>4. ASSUME NEW e \in Execs, StartExecution(e)  PROVE Retained'
    BY <1>1, <1>4, StartRetains
  <1>5. ASSUME NEW e \in Execs, NEW safe, RuntimeCheckpoint(e, safe)
        PROVE  Retained'
    BY <1>1, <1>5, CommitRetains, Zenon DEF RuntimeCheckpoint
  <1>6. ASSUME NEW e \in Execs, NEW d, SubmitApproval(e, d)  PROVE Retained'
    BY <1>1, <1>6, CommitRetains, Zenon DEF SubmitApproval
  <1>7. ASSUME NEW e \in Execs, CancelExecution(e)  PROVE Retained'
    BY <1>1, <1>7, CommitRetains, UnchangedRetains, Zenon
       DEF CancelExecution, FinishCancel
  <1>8. ASSUME NEW e \in Execs, TimeoutExecution(e)  PROVE Retained'
    BY <1>1, <1>8, CommitRetains, Zenon DEF TimeoutExecution
  <1>9. CASE Crash
    <2>1. TerminalIn(known', rec') = {}
      BY <1>9 DEF Crash, TerminalIn
    <2>2. QED
      BY <1>1, <2>1, NothingEnds
  <1>10. CASE Restart
    BY <1>1, <1>10, RestartRetains
  <1>11. QED
    BY <1>2, <1>3, <1>4, <1>5, <1>6, <1>7, <1>8, <1>9, <1>10, Zenon DEF Next

(* The process keeps at most MaxRetained finished executions, also right   *)
(* after a restart that finds more of them on disk, and one that it forgot *)
(* is final on disk: _prune_terminal_records never drops what still runs.  *)
THEOREM RetentionHolds == Spec => []RetentionBound
  <1>1. Init => Retained
    <2> SUFFICES ASSUME Init PROVE Retained
      OBVIOUS
    <2>1. TerminalIn(known, rec) = {}
      BY DEF Init, TerminalIn
    <2>2. QED
      BY <2>1, FS_EmptySet, ConstantsAssumption DEF Retained
  <1>2. Inv /\ Retained /\ [Next]_vars => Retained'
    BY StepRetains
  <1>3. Inv /\ Retained => RetentionBound
    <2> SUFFICES ASSUME Inv, Retained, up, NEW e \in Execs \ known,
                        disk[e] # NoCheckpoint
                 PROVE  RestoredStatus(disk[e]) \in Terminal
      BY DEF Retained, RetentionBound
    <2>1. rec[e].status \in Terminal
      BY DEF Inv, Sound, UnlistedIsFinal
    <2>2. QED
      BY <2>1 DEF Inv, Sound, VerdictKept, Leavable
  <1>4. QED
    BY <1>1, <1>2, <1>3, Invariance, PTL DEF Spec
=============================================================================
