------------------------ MODULE WorkflowRuntimeProofs ------------------------
(* What an execution does to the world, for plans of any number of tasks:    *)
(* in parallel branches within one process, and in chains, the shape the     *)
(* TaskDecomposer emits, through any number of pauses, retries and crashes.  *)
(* And what the planner promises of the plans it hands over, for any         *)
(* requests, tools that come and go, and learned skills.                     *)
EXTENDS WorkflowRuntime, Planning, Integers, FiniteSetTheorems, WellFoundedInduction, TLAPS

-----------------------------------------------------------------------------
(* The parts of a step *)

(* What a checkpoint written now contains.                                   *)
LEMMA SavedParts ==
  ASSUME NEW st, NEW safe, NEW p, SaveAs(st, safe, p)
  PROVE  /\ disk'.status = st /\ disk'.safe = safe /\ disk'.pending = p
         /\ disk'.done = done' /\ disk'.failed = failed'
         /\ disk'.results = results' /\ disk'.resolved = resolved'
         /\ disk'.approved = approved'
BY DEF SaveAs

LEMMA SavedType ==
  ASSUME NEW st \in {"running", "awaiting"} \cup Ended, NEW safe \in BOOLEAN,
         NEW p \in Pauses, SaveAs(st, safe, p),
         done' \subseteq Tasks, failed' \subseteq Tasks, results' \subseteq Tasks,
         resolved' \subseteq Tasks, approved' \subseteq Tasks
  PROVE  disk' \in Checkpoint
BY DEF SaveAs, Checkpoint

LEMMA SavedRunningType ==
  ASSUME NEW safe \in BOOLEAN, pending \in Pauses, SaveRunning(safe),
         done' \subseteq Tasks, failed' \subseteq Tasks, results' \subseteq Tasks,
         resolved' \subseteq Tasks, approved' \subseteq Tasks
  PROVE  disk' \in Checkpoint
<1>1. CASE pending \in resolved' \ approved'
  <2>1. SaveAs("awaiting", safe, pending)  BY <1>1 DEF SaveRunning
  <2> QED  BY <2>1, SavedType
<1>2. CASE pending \notin resolved' \ approved'
  <2>1. SaveAs("running", safe, pending)  BY <1>2 DEF SaveRunning
  <2> QED  BY <2>1, SavedType
<1> QED  BY <1>1, <1>2

LEMMA SavedRunningParts ==
  ASSUME TypeOK, NEW safe \in BOOLEAN, SaveRunning(safe),
         resolved' \subseteq Tasks
  PROVE  /\ disk'.status = IF pending \in resolved' \ approved' THEN "awaiting"
                                                               ELSE "running"
         /\ disk'.safe = safe /\ disk'.pending = pending
         /\ disk'.done = done' /\ disk'.failed = failed'
         /\ disk'.results = results' /\ disk'.resolved = resolved'
         /\ disk'.approved = approved'
         /\ disk'.status = "awaiting" => disk'.pending # NoPause
<1> DEFINE st == IF pending \in resolved' \ approved' THEN "awaiting"
                                                     ELSE "running"
<1>1. SaveAs(st, safe, pending)  BY DEF SaveRunning
<1>2. /\ disk'.status = st /\ disk'.safe = safe /\ disk'.pending = pending
      /\ disk'.done = done' /\ disk'.failed = failed'
      /\ disk'.results = results' /\ disk'.resolved = resolved'
      /\ disk'.approved = approved'
  BY <1>1, SavedParts
<1>3. NoPause \notin Tasks  BY PlanAssumption DEF NoPause
<1> QED  BY <1>2, <1>3

(* One step of run() for task t: what it leaves alone, ...                   *)
RunFrame(t) ==
  /\ status = "running" /\ pc[t] \in {"dispatched", "running"}
  /\ UNCHANGED <<status, pending, done, failed, marked, final, resolved,
                 approved, replay, effects, crashes>>
  /\ results \subseteq results' /\ results' \subseteq results \cup {t}
  /\ consumed \subseteq consumed' /\ consumed' \subseteq consumed \cup {t}
  /\ \A u \in Tasks \ {t} :
       /\ pc'[u] = pc[u] /\ verdict'[u] = verdict[u]
       /\ attempt'[u] = attempt[u] /\ armed'[u] = armed[u]
  /\ disk' = disk \/ \E safe \in BOOLEAN : SaveRunning(safe)

(* ... and what becomes of t: ...                                            *)
Returned(t, v) == pc'[t] = "returned" /\ verdict'[t] = v

Again(t) ==
  /\ pc'[t] = "dispatched" /\ verdict'[t] = verdict[t]
  /\ attempt'[t] = attempt[t] + 1

Unfelt(t) == armed'[t] = armed[t] /\ results' = results /\ consumed' = consumed

(* ... a recovered result, a gate, a dispatch, ...                           *)
Begun(t) ==
  /\ pc[t] = "dispatched"
  /\ \/ /\ Unfelt(t) /\ t \in replay /\ Permitted(t) /\ disk' = disk
        /\ Returned(t, "completed")
     \/ /\ Unfelt(t) /\ Returned(t, "failed")
        /\ disk' = disk \/ SaveRunning(t \notin NonIdempotent)
     \/ /\ Unfelt(t) /\ Returned(t, "paused")
        /\ disk' = disk \/ SaveRunning(t \notin NonIdempotent)
     \/ /\ pc'[t] = "running" /\ armed'[t] /\ results' = results
        /\ t \notin replay /\ Permitted(t) /\ ~Claimed(t)
        /\ t \in NonIdempotent => t \in consumed'
        /\ verdict'[t] = verdict[t] /\ attempt'[t] = attempt[t]
        /\ SaveRunning(t \notin NonIdempotent)

(* ... the end of an attempt, or an abort.                                   *)
Tried(t) ==
  /\ pc[t] = "running" /\ consumed' = consumed
  /\ \/ /\ ~armed[t] /\ ~armed'[t] /\ t \in results'
        /\ Returned(t, "completed") /\ SaveRunning(TRUE)
     \/ /\ armed[t] /\ ~armed'[t] /\ results' = results
        /\ (Returned(t, "failed") \/ Again(t)) /\ SaveRunning(TRUE)
     \/ /\ Unfelt(t)
        /\ Returned(t, "failed") \/ (Again(t) /\ t \notin NonIdempotent)
        /\ SaveRunning(t \notin NonIdempotent)
     \/ /\ armed[t] /\ ~armed'[t] /\ results' = results
        /\ Returned(t, "paused")
        /\ SaveRunning(t \notin NonIdempotent)

Aborted(t) ==
  MayAbort /\ Unfelt(t) /\ Returned(t, "aborted") /\ disk' = disk

RunChange(t) == RunFrame(t) /\ (Begun(t) \/ Tried(t) \/ Aborted(t))

LEMMA ReturnsParts ==
  ASSUME TypeOK, NEW t \in Tasks, NEW v \in Verdicts, Returns(t, v)
  PROVE  /\ pc' \in [Tasks -> {"idle", "dispatched", "running", "returned"}]
         /\ verdict' \in [Tasks -> Verdicts]
         /\ attempt' \in [Tasks -> 1..MaxAttempts]
         /\ Returned(t, v) /\ attempt' = attempt
         /\ \A u \in Tasks \ {t} : pc'[u] = pc[u] /\ verdict'[u] = verdict[u]
BY DEF TypeOK, Returns, Returned

LEMMA GivesUpParts ==
  ASSUME TypeOK, NEW t \in Tasks, NEW before \in BOOLEAN,
         GivesUpOrRetries(t, before)
  PROVE  /\ pc' \in [Tasks -> {"idle", "dispatched", "running", "returned"}]
         /\ verdict' \in [Tasks -> Verdicts]
         /\ attempt' \in [Tasks -> 1..MaxAttempts]
         /\ Returned(t, "failed") \/ (Again(t) /\ (t \notin NonIdempotent \/ before))
         /\ \A u \in Tasks \ {t} :
              /\ pc'[u] = pc[u] /\ verdict'[u] = verdict[u]
              /\ attempt'[u] = attempt[u]
<1>1. CASE Returns(t, "failed")
  <2>1. "failed" \in Verdicts  BY DEF Verdicts, Routed
  <2> QED  BY <1>1, <2>1, ReturnsParts
<1>2. CASE /\ MayRetry(t, before)
           /\ pc' = [pc EXCEPT ![t] = "dispatched"]
           /\ attempt' = [attempt EXCEPT ![t] = @ + 1]
           /\ UNCHANGED verdict
  <2>1. attempt[t] \in 1..MaxAttempts /\ attempt[t] < MaxAttempts
    BY <1>2 DEF TypeOK, MayRetry
  <2>2. attempt[t] + 1 \in 1..MaxAttempts  BY <2>1, PlanAssumption
  <2>3. attempt' \in [Tasks -> 1..MaxAttempts] /\ attempt'[t] = attempt[t] + 1
    BY <1>2, <2>2 DEF TypeOK
  <2>4. t \notin NonIdempotent \/ before  BY <1>2 DEF MayRetry
  <2> QED  BY <1>2, <2>3, <2>4 DEF TypeOK, Again
<1> QED  BY <1>1, <1>2 DEF GivesUpOrRetries
(* A saved checkpoint leaves the types as they are.                          *)
LEMMA OutcomeParts ==
  ASSUME TypeOK, NEW t \in Tasks, SaveOutcome(t)
  PROVE  /\ UNCHANGED <<done, failed, results, resolved, approved>>
         /\ SaveRunning(t \notin NonIdempotent) /\ disk' \in Checkpoint
<1>1. UNCHANGED <<done, failed, results, resolved, approved>>
  BY DEF SaveOutcome
<1>2. SaveRunning(t \notin NonIdempotent)  BY DEF SaveOutcome
<1>3. disk' \in Checkpoint
  BY <1>1, <1>2, SavedRunningType DEF TypeOK
<1> QED  BY <1>1, <1>2, <1>3

LEMMA GateParts ==
  ASSUME TypeOK, NEW t \in Tasks, GateSaves(t)
  PROVE  /\ UNCHANGED <<done, failed, results, resolved, approved>>
         /\ disk' = disk \/ SaveRunning(t \notin NonIdempotent)
         /\ disk' \in Checkpoint
<1>1. CASE t \in replay  BY <1>1 DEF GateSaves, TypeOK
<1>2. CASE t \notin replay
  <2>1. SaveOutcome(t)  BY <1>2 DEF GateSaves
  <2> QED  BY <2>1, OutcomeParts
<1> QED  BY <1>1, <1>2

(* Every step of run() is one of these changes, and keeps the types.         *)
LEMMA RunChanges ==
  ASSUME TypeOK, NEW t \in Tasks, RunStep(t)
  PROVE  RunChange(t) /\ TypeOK'
<1> USE DEF Verdicts, Routed
<1>1. CASE RestoreResult(t)
  <2>1. /\ Begins(t) /\ t \in replay /\ Permitted(t)
        /\ Returns(t, "completed")
        /\ UNCHANGED <<status, pending, flow, resolved, approved, consumed,
                       results, replay, world, disk, crashes>>
    BY <1>1 DEF RestoreResult
  <2>2. /\ pc' \in [Tasks -> {"idle", "dispatched", "running", "returned"}]
        /\ verdict' \in [Tasks -> Verdicts]
        /\ attempt' \in [Tasks -> 1..MaxAttempts]
        /\ Returned(t, "completed") /\ attempt' = attempt
        /\ \A u \in Tasks \ {t} : pc'[u] = pc[u] /\ verdict'[u] = verdict[u]
    BY <2>1, ReturnsParts
  <2>3. RunFrame(t)  BY <2>1, <2>2 DEF RunFrame, Begins, flow, world
  <2>4. Begun(t)  BY <2>1, <2>2 DEF Begun, Begins, Unfelt, flow, world
  <2>5. TypeOK'  BY <2>1, <2>2 DEF TypeOK, flow, world
  <2> QED  BY <2>3, <2>4, <2>5 DEF RunChange
<1>2. ASSUME NEW v \in {"failed", "paused"},
             Begins(t), Returns(t, v), GateSaves(t),
             UNCHANGED <<status, pending, marked, final, consumed, replay,
                         world, crashes>>
      PROVE  RunChange(t) /\ TypeOK'
  <2>2. /\ pc' \in [Tasks -> {"idle", "dispatched", "running", "returned"}]
        /\ verdict' \in [Tasks -> Verdicts]
        /\ attempt' \in [Tasks -> 1..MaxAttempts]
        /\ Returned(t, v) /\ attempt' = attempt
        /\ \A u \in Tasks \ {t} : pc'[u] = pc[u] /\ verdict'[u] = verdict[u]
    BY <1>2, ReturnsParts
  <2>3. /\ UNCHANGED <<done, failed, results, resolved, approved>>
        /\ disk' = disk \/ SaveRunning(t \notin NonIdempotent)
        /\ disk' \in Checkpoint
    BY <1>2, GateParts
  <2>4. RunFrame(t)  BY <1>2, <2>2, <2>3 DEF RunFrame, Begins, world
  <2>5. Begun(t)  BY <1>2, <2>2, <2>3 DEF Begun, Begins, Unfelt, world
  <2>6. TypeOK'  BY <1>2, <2>2, <2>3 DEF TypeOK, world
  <2> QED  BY <2>4, <2>5, <2>6 DEF RunChange
<1>3. CASE GateRefuses(t)  BY <1>2, <1>3 DEF GateRefuses
<1>4. CASE GatePauses(t)  BY <1>2, <1>4 DEF GatePauses
<1>5. CASE PermitReplayed(t)
  <2>1. GateSaves(t)  BY <1>5 DEF PermitReplayed, GateSaves
  <2> QED  BY <1>2, <1>5, <2>1 DEF PermitReplayed
<1>6. CASE Dispatch(t)
  <2>1. /\ Begins(t) /\ t \notin replay /\ Permitted(t) /\ ~Claimed(t)
        /\ pc' = [pc EXCEPT ![t] = "running"]
        /\ consumed' = IF t \in NonIdempotent THEN consumed \cup {t} ELSE consumed
        /\ armed' = [armed EXCEPT ![t] = TRUE]
        /\ SaveOutcome(t)
        /\ UNCHANGED <<status, pending, marked, final, verdict, attempt, replay,
                       effects, crashes>>
    BY <1>6 DEF Dispatch
  <2>2. /\ UNCHANGED <<done, failed, results, resolved, approved>>
        /\ SaveRunning(t \notin NonIdempotent) /\ disk' \in Checkpoint
    BY <2>1, OutcomeParts
  <2>3. /\ pc' \in [Tasks -> {"idle", "dispatched", "running", "returned"}]
        /\ pc'[t] = "running" /\ armed'[t]
        /\ armed' \in [Tasks -> BOOLEAN]
        /\ \A u \in Tasks \ {t} : pc'[u] = pc[u] /\ armed'[u] = armed[u]
    BY <2>1 DEF TypeOK
  <2>4. RunFrame(t)  BY <2>1, <2>2, <2>3 DEF RunFrame, Begins
  <2>5. Begun(t)  BY <2>1, <2>2, <2>3 DEF Begun, Begins
  <2>6. TypeOK'  BY <2>1, <2>2, <2>3 DEF TypeOK
  <2> QED  BY <2>4, <2>5, <2>6 DEF RunChange
<1>7. CASE ExecutorCompletes(t)
  <2>1. /\ InExecutor(t) /\ ~armed[t] /\ Returns(t, "completed")
        /\ results' = results \cup {t}
        /\ UNCHANGED <<done, failed, resolved, approved>>
        /\ SaveRunning(TRUE)
        /\ UNCHANGED <<status, pending, marked, final, consumed, replay, world,
                       crashes>>
    BY <1>7 DEF ExecutorCompletes
  <2>2. /\ pc' \in [Tasks -> {"idle", "dispatched", "running", "returned"}]
        /\ verdict' \in [Tasks -> Verdicts]
        /\ attempt' \in [Tasks -> 1..MaxAttempts]
        /\ Returned(t, "completed") /\ attempt' = attempt
        /\ \A u \in Tasks \ {t} : pc'[u] = pc[u] /\ verdict'[u] = verdict[u]
    BY <2>1, ReturnsParts
  <2>3. disk' \in Checkpoint  BY <2>1, SavedRunningType DEF TypeOK
  <2>4. RunFrame(t)  BY <2>1, <2>2 DEF RunFrame, InExecutor, world
  <2>5. Tried(t)
    <3>1. ~armed'[t] /\ t \in results'  BY <2>1 DEF world
    <3> QED  BY <2>1, <2>2, <3>1 DEF Tried, InExecutor
  <2>6. TypeOK'  BY <2>1, <2>2, <2>3 DEF TypeOK, world
  <2> QED  BY <2>4, <2>5, <2>6 DEF RunChange
<1>8. CASE FailsBeforeEffect(t)
  <2>1. /\ InExecutor(t) /\ armed[t]
        /\ GivesUpOrRetries(t, TRUE)
        /\ armed' = [armed EXCEPT ![t] = FALSE]
        /\ UNCHANGED <<done, failed, results, resolved, approved>>
        /\ SaveRunning(TRUE)
        /\ UNCHANGED <<status, pending, marked, final, consumed, replay, effects,
                       crashes>>
    BY <1>8 DEF FailsBeforeEffect
  <2>2. /\ pc' \in [Tasks -> {"idle", "dispatched", "running", "returned"}]
        /\ verdict' \in [Tasks -> Verdicts]
        /\ attempt' \in [Tasks -> 1..MaxAttempts]
        /\ Returned(t, "failed") \/ Again(t)
        /\ \A u \in Tasks \ {t} :
             /\ pc'[u] = pc[u] /\ verdict'[u] = verdict[u]
             /\ attempt'[u] = attempt[u]
    BY <2>1, GivesUpParts
  <2>3. disk' \in Checkpoint  BY <2>1, SavedRunningType DEF TypeOK
  <2>4. /\ armed' \in [Tasks -> BOOLEAN] /\ ~armed'[t]
        /\ \A u \in Tasks \ {t} : armed'[u] = armed[u]
    BY <2>1 DEF TypeOK
  <2>5. RunFrame(t)  BY <2>1, <2>2, <2>4 DEF RunFrame, InExecutor
  <2>6. Tried(t)  BY <2>1, <2>2, <2>4 DEF Tried, InExecutor
  <2>7. TypeOK'  BY <2>1, <2>2, <2>3, <2>4 DEF TypeOK
  <2> QED  BY <2>5, <2>6, <2>7 DEF RunChange
<1>9. CASE FailsUnknown(t)
  <2>1. /\ InExecutor(t) /\ GivesUpOrRetries(t, FALSE) /\ SaveOutcome(t)
        /\ UNCHANGED <<status, pending, marked, final, consumed, replay, world,
                       crashes>>
    BY <1>9 DEF FailsUnknown
  <2>2. /\ pc' \in [Tasks -> {"idle", "dispatched", "running", "returned"}]
        /\ verdict' \in [Tasks -> Verdicts]
        /\ attempt' \in [Tasks -> 1..MaxAttempts]
        /\ Returned(t, "failed") \/ (Again(t) /\ t \notin NonIdempotent)
        /\ \A u \in Tasks \ {t} :
             /\ pc'[u] = pc[u] /\ verdict'[u] = verdict[u]
             /\ attempt'[u] = attempt[u]
    BY <2>1, GivesUpParts
  <2>3. /\ UNCHANGED <<done, failed, results, resolved, approved>>
        /\ SaveRunning(t \notin NonIdempotent) /\ disk' \in Checkpoint
    BY <2>1, OutcomeParts
  <2>4. RunFrame(t)  BY <2>1, <2>2, <2>3 DEF RunFrame, InExecutor, world
  <2>5. Tried(t)
    <3>1. Unfelt(t)  BY <2>1, <2>3 DEF Unfelt, world
    <3> QED  BY <2>1, <2>2, <2>3, <3>1 DEF Tried, InExecutor
  <2>6. TypeOK'  BY <2>1, <2>2, <2>3 DEF TypeOK, world
  <2> QED  BY <2>4, <2>5, <2>6 DEF RunChange
<1>10. CASE MatchesMany(t)
  <2>1. /\ InExecutor(t) /\ armed[t] /\ Returns(t, "paused")
        /\ armed' = [armed EXCEPT ![t] = FALSE]
        /\ SaveOutcome(t)
        /\ UNCHANGED <<status, pending, marked, final, consumed, replay, effects,
                       crashes>>
    BY <1>10 DEF MatchesMany
  <2>2. /\ pc' \in [Tasks -> {"idle", "dispatched", "running", "returned"}]
        /\ verdict' \in [Tasks -> Verdicts]
        /\ attempt' \in [Tasks -> 1..MaxAttempts]
        /\ Returned(t, "paused") /\ attempt' = attempt
        /\ \A u \in Tasks \ {t} : pc'[u] = pc[u] /\ verdict'[u] = verdict[u]
    BY <2>1, ReturnsParts
  <2>3. /\ UNCHANGED <<done, failed, results, resolved, approved>>
        /\ SaveRunning(t \notin NonIdempotent) /\ disk' \in Checkpoint
    BY <2>1, OutcomeParts
  <2>4. /\ armed' \in [Tasks -> BOOLEAN] /\ ~armed'[t]
        /\ \A u \in Tasks \ {t} : armed'[u] = armed[u]
    BY <2>1 DEF TypeOK
  <2>5. RunFrame(t)  BY <2>1, <2>2, <2>3, <2>4 DEF RunFrame, InExecutor
  <2>6. Tried(t)  BY <2>1, <2>2, <2>3, <2>4 DEF Tried, InExecutor
  <2>7. TypeOK'  BY <2>1, <2>2, <2>3, <2>4 DEF TypeOK
  <2> QED  BY <2>5, <2>6, <2>7 DEF RunChange
<1>11. CASE RunAborts(t)
  <2>1. /\ MayAbort /\ (Begins(t) \/ InExecutor(t))
        /\ Returns(t, "aborted")
        /\ UNCHANGED <<status, pending, flow, resolved, approved, consumed,
                       results, replay, world, disk, crashes>>
    BY <1>11 DEF RunAborts
  <2>2. /\ pc' \in [Tasks -> {"idle", "dispatched", "running", "returned"}]
        /\ verdict' \in [Tasks -> Verdicts]
        /\ attempt' \in [Tasks -> 1..MaxAttempts]
        /\ Returned(t, "aborted") /\ attempt' = attempt
        /\ \A u \in Tasks \ {t} : pc'[u] = pc[u] /\ verdict'[u] = verdict[u]
    BY <2>1, ReturnsParts
  <2>3. RunFrame(t)
    BY <2>1, <2>2 DEF RunFrame, Begins, InExecutor, flow, world
  <2>4. Aborted(t)  BY <2>1, <2>2 DEF Aborted, Unfelt, flow, world
  <2>5. TypeOK'  BY <2>1, <2>2 DEF TypeOK, flow, world
  <2> QED  BY <2>3, <2>4, <2>5 DEF RunChange
<1> QED
  BY <1>1, <1>3, <1>4, <1>5, <1>6, <1>7, <1>8, <1>9, <1>10, <1>11 DEF RunStep
-----------------------------------------------------------------------------
(* Least and greatest task ids                                               *)

LEMMA Least ==
  ASSUME NEW S \in SUBSET Nat, S # {}
  PROVE  \E n \in S : \A m \in S : n <= m
<1>1. IsWellFoundedOn(OpToRel(<, Nat), Nat)  BY NatLessThanWellFounded
<1>2. PICK n \in S : \A m \in S : <<m, n>> \notin OpToRel(<, Nat)
  BY <1>1, WFMin
<1>3. \A m \in S : ~(m < n)  BY <1>2 DEF OpToRel
<1> QED  BY <1>3

(* The greatest has the fewest elements above it.                            *)
LEMMA Greatest ==
  ASSUME NEW S \in SUBSET Nat, S # {}, IsFiniteSet(S)
  PROVE  \E n \in S : \A m \in S : m <= n
<1> DEFINE Above(n) == {m \in S : m > n}
           counts   == {Cardinality(Above(n)) : n \in S}
<1>1. \A n \in S : IsFiniteSet(Above(n)) /\ Cardinality(Above(n)) \in Nat
  <2> TAKE n \in S
  <2>1. IsFiniteSet(Above(n))  BY FS_Subset
  <2> QED  BY <2>1, FS_CardinalityType
<1>2. counts \in SUBSET Nat /\ counts # {}  BY <1>1
<1>3. PICK c \in counts : \A k \in counts : c <= k  BY <1>2, Least
<1>4. PICK n \in S : c = Cardinality(Above(n))  BY <1>3
<1>5. ASSUME NEW m \in S, m > n  PROVE FALSE
  <2>1. Above(m) \in SUBSET Above(n) /\ m \in Above(n) /\ m \notin Above(m)
    <3>1. m \in Nat /\ n \in Nat /\ \A k \in S : k \in Nat  OBVIOUS
    <3>2. \A k \in S : k > m => k > n  BY <1>5, <3>1
    <3>3. Above(m) \subseteq Above(n)  BY <3>2
    <3>4. m \in Above(n)  BY <1>5
    <3>5. ~(m > m)  BY <3>1
    <3>6. m \notin Above(m)  BY <3>5
    <3> QED  BY <3>3, <3>4, <3>6
  <2>2. /\ Cardinality(Above(m)) <= Cardinality(Above(n))
        /\ Cardinality(Above(n)) = Cardinality(Above(m)) => Above(n) = Above(m)
    BY <1>1, <2>1, FS_Subset
  <2>3. Cardinality(Above(m)) \in counts  BY <1>5
  <2>4. c <= Cardinality(Above(m)) /\ c \in Nat /\ Cardinality(Above(m)) \in Nat
    BY <1>1, <1>2, <1>3, <1>5, <2>3
  <2>5. Cardinality(Above(n)) = Cardinality(Above(m))  BY <1>4, <2>2, <2>4
  <2> QED  BY <2>1, <2>2, <2>5
<1> QED  BY <1>4, <1>5

-----------------------------------------------------------------------------
(* The invariant of every plan: what counts as done took effect, the tasks   *)
(* in flight are none of those handled already, and within a process no      *)
(* mutation is dispatched a second time unless its effect was called off.    *)

Real(t) == effects[t] > 0

Earned(t) ==
  /\ t \in done \cup results \cup replay \cup disk.done \cup disk.results => Real(t)
  /\ verdict[t] = "completed" => Real(t)
  /\ pc[t] = "running" /\ ~armed[t] => Real(t)
  /\ pc[t] # "idle" => \A d \in Deps[t] \ Internal : Real(d)

Apart ==
  /\ done = marked \ Internal
  /\ failed \cap (marked \cup Internal) = {}
  /\ Batch \cap (marked \cup failed \cup Internal) = {}
  /\ disk.done \cap (disk.failed \cup Internal) = {}
  /\ disk.failed \cap Internal = {}
  /\ status # "running" => Batch = {}

Once(t) ==
  crashes = 0 /\ t \in NonIdempotent =>
    /\ Exposure(t) <= 1
    /\ t \notin consumed \/ (pc[t] = "dispatched" /\ attempt[t] > 1)
         => Exposure(t) = 0

(* Who waits for an answer knows what for.                                   *)
Asked ==
  /\ status \in {"resuming", "running"} => final # "paused"
  /\ status = "awaiting" \/ (status = "settling" /\ final = "paused")
       => pending # NoPause
  /\ disk.status = "awaiting" => disk.pending # NoPause

PlanInv ==
  TypeOK /\ Asked /\ Apart /\ \A t \in Tasks : Earned(t) /\ Once(t)

LEMMA PlanInitially == Init => PlanInv
<1> SUFFICES ASSUME Init PROVE PlanInv  OBVIOUS
<1>1. TypeOK
  <2>1. 1 \in 1..MaxAttempts /\ 0 \in 0..MaxCrashes /\ 0 \in 0..Many
    BY PlanAssumption DEF Many
  <2>2. disk \in Checkpoint  BY DEF Init, Checkpoint, Pauses
  <2> QED  BY <2>1, <2>2 DEF Init, TypeOK, States, Pauses, Routed, Verdicts
<1>2. Apart  BY DEF Init, Apart, Batch
<1>3. \A t \in Tasks : Earned(t)  BY DEF Init, Earned
<1>4. \A t \in Tasks : Once(t)  BY DEF Init, Once, Exposure
<1>5. Asked  BY DEF Init, Asked
<1> QED  BY <1>1, <1>2, <1>3, <1>4, <1>5 DEF PlanInv

(* A step that leaves the world, the claims and the attempts alone.          *)
LEMMA OnceUnchanged ==
  ASSUME NEW t \in Tasks, Once(t), UNCHANGED <<consumed, world, crashes>>,
         pc'[t] = "dispatched" /\ attempt'[t] > 1
           => pc[t] = "dispatched" /\ attempt[t] > 1
  PROVE  Once(t)'
BY DEF Once, Exposure, world

LEMMA NextBatchPlan == PlanInv /\ NextBatch => PlanInv'
<1> SUFFICES ASSUME PlanInv, NextBatch PROVE PlanInv'  OBVIOUS
<1> DEFINE ready == Ready(marked, failed)
           work  == ready \ Internal
<1>1. /\ status = "running" /\ Batch = {}
      /\ marked' = marked \cup (ready \cap Internal)
      /\ attempt' = [t \in Tasks |-> 1]
      /\ UNCHANGED <<status, pending, done, failed, final, resolved, approved,
                     consumed, results, replay, world, disk, crashes>>
  BY DEF NextBatch
<1>2. PICK lost \in SUBSET (work \cap Unroutable) :
        /\ pc' = [t \in Tasks |-> CASE t \in lost -> "returned"
                                    [] t \in work \ lost -> "dispatched"
                                    [] OTHER -> "idle"]
        /\ verdict' = [t \in Tasks |-> IF t \in lost THEN "unroutable"
                                                     ELSE "none"]
  BY DEF NextBatch
<1>3. /\ ready \subseteq Tasks \ (marked \cup failed)
      /\ \A t \in ready : Deps[t] \subseteq marked \ failed
  BY DEF Ready
<1>4. TypeOK /\ Asked /\ Apart /\ \A t \in Tasks : Earned(t) /\ Once(t)
  BY DEF PlanInv
<1>5. \A t \in Tasks : /\ pc'[t] \in {"idle", "dispatched", "returned"}
                       /\ pc'[t] # "idle" <=> t \in work
                       /\ verdict'[t] \in {"none", "unroutable"}
                       /\ attempt'[t] = 1
  <2> TAKE t \in Tasks
  <2>1. CASE t \in lost  BY <1>1, <1>2, <2>1
  <2>2. CASE t \in work \ lost  BY <1>1, <1>2, <2>2
  <2>3. CASE t \notin work  BY <1>1, <1>2, <2>3
  <2> QED  BY <2>1, <2>2, <2>3
<1>6. TypeOK'
  <2>1. pc' \in [Tasks -> {"idle", "dispatched", "running", "returned"}]
    BY <1>2, <1>5
  <2>2. verdict' \in [Tasks -> Verdicts]  BY <1>2, <1>5 DEF Verdicts
  <2>3. attempt' \in [Tasks -> 1..MaxAttempts]  BY <1>1, PlanAssumption
  <2>4. marked' \subseteq Tasks  BY <1>1, <1>3, <1>4 DEF TypeOK
  <2> QED  BY <1>1, <1>4, <2>1, <2>2, <2>3, <2>4 DEF TypeOK, world
<1>7. Apart'
  <2>1. Batch' = work  BY <1>3, <1>5 DEF Batch
  <2>2. done' = marked' \ Internal  BY <1>1, <1>4 DEF Apart
  <2>3. failed' \cap (marked' \cup Internal) = {}  BY <1>1, <1>3, <1>4 DEF Apart
  <2>4. Batch' \cap (marked' \cup failed' \cup Internal) = {}
    BY <1>1, <1>3, <2>1
  <2> QED  BY <1>1, <1>4, <2>2, <2>3, <2>4 DEF Apart
<1>8. \A t \in Tasks : Earned(t)'
  <2> TAKE t \in Tasks
  <2>1. pc'[t] # "idle" => \A d \in Deps[t] \ Internal : Real(d)
    <3> SUFFICES ASSUME t \in work, NEW d \in Deps[t] \ Internal
                 PROVE  Real(d)
      BY <1>5
    <3>1. d \in done /\ d \in Tasks  BY <1>3, <1>4 DEF Apart, TypeOK
    <3> QED  BY <1>4, <3>1 DEF Earned
  <2>2. Earned(t)  BY <1>4
  <2> QED  BY <1>1, <1>5, <2>1, <2>2 DEF Earned, Real, world
<1>9. \A t \in Tasks : Once(t)'
  <2> TAKE t \in Tasks
  <2>1. Once(t) /\ ~(attempt'[t] > 1)  BY <1>4, <1>5
  <2> QED  BY <1>1, <2>1, OnceUnchanged
<1>10. Asked'  BY <1>1, <1>4 DEF Asked
<1> QED  BY <1>6, <1>7, <1>8, <1>9, <1>10 DEF PlanInv

(* What the end of a batch does, with its CHOOSE expressions resolved.       *)
Seen2 == Seen({t \in Batch : verdict[t] = "paused"})
OkNow  == {t \in Seen2 : verdict[t] = "completed"}
BadNow == {t \in Seen2 : verdict[t] \notin {"completed", "paused"}}

BatchFrame ==
  /\ status = "running" /\ Batch # {}
  /\ \A t \in Batch : pc[t] = "returned"
  /\ done' = done \cup OkNow /\ marked' = marked \cup OkNow
  /\ failed' = failed \cup BadNow
  /\ UNCHANGED <<resolved, approved, results, consumed, replay, world, crashes>>
  /\ pc' = [t \in Tasks |-> "idle"]
  /\ verdict' = [t \in Tasks |-> "none"]
  /\ attempt' = [t \in Tasks |-> 1]

BatchEnds ==
  \/ final' = final /\ \A t \in Seen2 : verdict[t] \notin Routed
  \/ \E t \in Seen2 : /\ verdict[t] \in Routed /\ final' = verdict[t]
                      /\ \A u \in Seen2 : verdict[u] \in Routed => u <= t

BatchSaves ==
  \/ /\ \A t \in Batch : verdict[t] # "paused"
     /\ SaveRunning(TRUE) /\ UNCHANGED <<status, pending>>
  \/ /\ disk' = disk /\ status' = "settling"
     /\ \E t \in Batch : 
          /\ verdict[t] = "paused"
          /\ \A u \in Batch : verdict[u] = "paused" => t <= u
          /\ pending' = IF Denying THEN pending ELSE t

LEMMA FinishBatchParts ==
  ASSUME TypeOK, FinishBatch
  PROVE  BatchFrame /\ BatchEnds /\ BatchSaves
<1> DEFINE paused == {t \in Batch : verdict[t] = "paused"}
           routed == {t \in Seen2 : verdict[t] \in Routed}
<1>1. Seen2 \subseteq Batch /\ Batch \subseteq Tasks  BY DEF Seen2, Seen, Batch
<1>2. Seen2 \ (OkNow \cup paused) = BadNow  BY <1>1 DEF OkNow, BadNow
<1>3. BatchFrame
  BY <1>2 DEF FinishBatch, BatchFrame, OkNow, Seen2
<1>4. BatchEnds
  <2>1. CASE routed = {}
    <3>1. final' = final  BY <2>1 DEF FinishBatch, Seen2
    <3> QED  BY <2>1, <3>1 DEF BatchEnds
  <2>2. CASE routed # {}
    <3> DEFINE last == CHOOSE t \in routed : \A u \in routed : u <= t
    <3>1. final' = verdict[last]  BY <2>2 DEF FinishBatch, Seen2
    <3>2. routed \in SUBSET Nat /\ IsFiniteSet(routed)
      <4>1. routed \in SUBSET Tasks  BY <1>1
      <4> QED  BY <4>1, PlanAssumption, FS_Subset
    <3>3. \E t \in routed : \A u \in routed : u <= t  BY <2>2, <3>2, Greatest
    <3>4. last \in routed /\ \A u \in routed : u <= last  BY <3>3
    <3> HIDE DEF last
    <3> QED  BY <3>1, <3>4 DEF BatchEnds
  <2> QED  BY <2>1, <2>2
<1>5. BatchSaves
  <2>1. CASE paused = {}
    <3>1. SaveRunning(TRUE) /\ UNCHANGED <<status, pending>>
      BY <2>1 DEF FinishBatch
    <3> QED  BY <2>1, <3>1 DEF BatchSaves
  <2>2. CASE paused # {}
    <3> DEFINE first == CHOOSE t \in paused : \A u \in paused : t <= u
    <3>1. /\ status' = "settling" /\ disk' = disk
          /\ pending' = IF Denying THEN pending ELSE first
      BY <2>2 DEF FinishBatch
    <3>2. paused \in SUBSET Nat  BY <1>1, PlanAssumption
    <3>3. \E t \in paused : \A u \in paused : t <= u  BY <2>2, <3>2, Least
    <3>4. first \in paused /\ \A u \in paused : first <= u  BY <3>3
    <3> HIDE DEF first
    <3> QED  BY <3>1, <3>4 DEF BatchSaves
  <2> QED  BY <2>1, <2>2
<1> QED  BY <1>3, <1>4, <1>5
LEMMA FinishBatchPlan == PlanInv /\ FinishBatch => PlanInv'
<1> SUFFICES ASSUME PlanInv, FinishBatch PROVE PlanInv'  OBVIOUS
<1>1. TypeOK /\ Asked /\ Apart /\ \A t \in Tasks : Earned(t) /\ Once(t)
  BY DEF PlanInv
<1>2. BatchFrame /\ BatchEnds /\ BatchSaves  BY <1>1, FinishBatchParts
<1>3. /\ OkNow \subseteq Batch /\ BadNow \subseteq Batch /\ OkNow \cap BadNow = {}
      /\ Batch \subseteq Tasks /\ \A t \in OkNow : verdict[t] = "completed"
  BY DEF OkNow, BadNow, Seen2, Seen, Batch
<1>4. \A t \in Tasks : pc'[t] = "idle" /\ verdict'[t] = "none" /\ attempt'[t] = 1
  BY <1>2 DEF BatchFrame
<1>5. done' \subseteq Tasks /\ failed' \subseteq Tasks /\ marked' \subseteq Tasks
  BY <1>1, <1>2, <1>3 DEF BatchFrame, TypeOK
<1>6. /\ disk' \in Checkpoint
      /\ \/ disk' = disk
         \/ /\ disk'.done = done' /\ disk'.failed = failed'
            /\ disk'.results = results'
      /\ disk'.status = "awaiting" => disk'.pending # NoPause
  <2>1. CASE SaveRunning(TRUE)
    <3>1. disk' \in Checkpoint
      BY <1>1, <1>2, <1>5, <2>1, SavedRunningType DEF TypeOK, BatchFrame
    <3>2. resolved' \subseteq Tasks  BY <1>1, <1>2 DEF TypeOK, BatchFrame
    <3> QED  BY <1>1, <2>1, <3>1, <3>2, SavedRunningParts
  <2>2. CASE disk' = disk  BY <1>1, <2>2 DEF TypeOK, Asked
  <2> QED  BY <1>2, <2>1, <2>2 DEF BatchSaves
<1>7. TypeOK'
  <2>1. /\ pc' \in [Tasks -> {"idle", "dispatched", "running", "returned"}]
        /\ verdict' \in [Tasks -> Verdicts]
        /\ attempt' \in [Tasks -> 1..MaxAttempts]
    BY <1>2, PlanAssumption DEF BatchFrame, Verdicts
  <2>2. final' \in Routed \cup {"none"}
    BY <1>1, <1>2 DEF BatchEnds, TypeOK
  <2>3. status' \in States /\ pending' \in Pauses
    <3>1. \A t \in Batch : t \in Pauses  BY <1>3 DEF Pauses
    <3> QED  BY <1>1, <1>2, <3>1 DEF BatchSaves, TypeOK, States
  <2> QED
    BY <1>1, <1>2, <1>5, <1>6, <2>1, <2>2, <2>3 DEF TypeOK, BatchFrame, world
<1>8. Apart'
  <2>1. Batch' = {}  BY <1>4 DEF Batch
  <2>2. /\ done' = marked' \ Internal
        /\ failed' \cap (marked' \cup Internal) = {}
    BY <1>1, <1>2, <1>3 DEF BatchFrame, Apart
  <2>3. done' \cap (failed' \cup Internal) = {} /\ failed' \cap Internal = {}
    BY <2>2
  <2> QED  BY <1>1, <1>6, <2>1, <2>2, <2>3 DEF Apart
<1>9. \A t \in Tasks : Earned(t)'
  <2> TAKE t \in Tasks
  <2>1. Earned(t)  BY <1>1
  <2>2. /\ done' = done \cup OkNow /\ results' = results /\ replay' = replay
        /\ effects' = effects
    BY <1>2 DEF BatchFrame, world
  <2>3. t \in done' \cup results' \cup replay' => Real(t)
    BY <1>3, <2>1, <2>2 DEF Earned
  <2>4. t \in disk'.done \cup disk'.results => Real(t)
    BY <1>6, <2>1, <2>3 DEF Earned
  <2> QED  BY <1>4, <2>2, <2>3, <2>4 DEF Earned, Real
<1>10. \A t \in Tasks : Once(t)'
  <2> TAKE t \in Tasks
  <2>1. Once(t) /\ pc'[t] # "dispatched"  BY <1>1, <1>4
  <2>2. UNCHANGED <<consumed, world, crashes>>  BY <1>2 DEF BatchFrame
  <2> QED  BY <2>1, <2>2, OnceUnchanged
<1>11. Asked'
  <2>1. status = "running" /\ final # "paused"
    BY <1>1, <1>2 DEF Asked, BatchFrame
  <2>2. CASE /\ \A t \in Batch : verdict[t] # "paused"
             /\ SaveRunning(TRUE) /\ UNCHANGED <<status, pending>>
    <3>1. Seen2 \subseteq Batch  BY DEF Seen2, Seen
    <3>2. final' # "paused"  BY <1>2, <2>1, <2>2, <3>1 DEF BatchEnds
    <3> QED  BY <1>6, <2>1, <2>2, <3>2 DEF Asked
  <2>3. ASSUME NEW t \in Batch, status' = "settling",
               pending' = IF Denying THEN pending ELSE t
        PROVE  Asked'
    <3>1. NoPause \notin Tasks  BY PlanAssumption DEF NoPause
    <3>2. Denying => pending # NoPause  BY <1>1, <3>1 DEF Denying, TypeOK
    <3>3. t # NoPause  BY <1>3, <3>1
    <3>4. pending' # NoPause  BY <2>3, <3>2, <3>3
    <3> QED  BY <1>6, <2>3, <3>4 DEF Asked
  <2> QED  BY <1>2, <2>2, <2>3 DEF BatchSaves
<1> QED  BY <1>7, <1>8, <1>9, <1>10, <1>11 DEF PlanInv

(* A step that leaves the plan, the runtime and the world alone, and the     *)
(* checkpoint too or writes it down.                                         *)
LEMMA QuietPlan ==
  ASSUME PlanInv, TypeOK', Asked',
         UNCHANGED <<flow, pc, verdict, attempt, consumed, results, replay,
                     world, crashes>>,
         status' # "running" => Batch = {},
         \/ disk' = disk
         \/ /\ disk'.done = done' /\ disk'.failed = failed'
            /\ disk'.results = results'
  PROVE  PlanInv'
<1>1. TypeOK /\ Apart /\ \A t \in Tasks : Earned(t) /\ Once(t)  BY DEF PlanInv
<1>2. Apart'  BY <1>1 DEF Apart, Batch, flow
<1>3. \A t \in Tasks : Earned(t)'  BY <1>1 DEF Earned, Real, flow, world
<1>4. \A t \in Tasks : Once(t)'  BY <1>1, OnceUnchanged
<1> QED  BY <1>2, <1>3, <1>4 DEF PlanInv

LEMMA FinishWorkflowPlan == PlanInv /\ FinishWorkflow => PlanInv'
<1> SUFFICES ASSUME PlanInv, FinishWorkflow PROVE PlanInv'  OBVIOUS
<1>1. TypeOK  BY DEF PlanInv
<1>2. TypeOK'  BY <1>1 DEF FinishWorkflow, TypeOK, States, flow, world
<1>3. Asked  BY DEF PlanInv
<1>4. Asked'  BY <1>3 DEF FinishWorkflow, Asked, flow
<1> QED  BY <1>2, <1>4, QuietPlan DEF FinishWorkflow

LEMMA SettleParts ==
  ASSUME TypeOK, Settle
  PROVE  /\ SettledStatus \in Ended \cup {"awaiting"}
         /\ status = "settling" /\ status' = SettledStatus
         /\ pending' = IF SettledStatus = "awaiting" THEN pending ELSE NoPause
         /\ disk'.status = SettledStatus /\ disk'.safe = FALSE
         /\ disk'.pending = pending'
         /\ disk'.done = done' /\ disk'.failed = failed'
         /\ disk'.results = results' /\ disk'.resolved = resolved'
         /\ disk'.approved = approved' /\ disk' \in Checkpoint
         /\ UNCHANGED <<flow, resolved, approved, results, pc, verdict, attempt,
                        consumed, replay, world, crashes>>
<1>1. SettledStatus \in Ended \cup {"awaiting"}
  BY DEF SettledStatus, Ended
<1>2. /\ status = "settling" /\ status' = SettledStatus
      /\ pending' = IF SettledStatus = "awaiting" THEN pending ELSE NoPause
      /\ UNCHANGED <<flow, resolved, approved, results, pc, verdict, attempt,
                     consumed, replay, world, crashes>>
  BY DEF Settle
<1>3. SaveAs(SettledStatus, FALSE, pending')  BY <1>2 DEF Settle
<1>4. pending' \in Pauses  BY <1>2 DEF TypeOK, Pauses
<1>5. disk' \in Checkpoint
  BY <1>1, <1>2, <1>3, <1>4, SavedType DEF TypeOK, flow
<1> QED  BY <1>1, <1>2, <1>3, <1>5, SavedParts

LEMMA SettlePlan == PlanInv /\ Settle => PlanInv'
<1> SUFFICES ASSUME PlanInv, Settle PROVE PlanInv'  OBVIOUS
<1>1. TypeOK /\ Asked /\ Apart  BY DEF PlanInv
<1>2. /\ SettledStatus \in Ended \cup {"awaiting"}
      /\ status = "settling" /\ status' = SettledStatus
      /\ pending' = IF SettledStatus = "awaiting" THEN pending ELSE NoPause
      /\ disk'.status = SettledStatus /\ disk'.pending = pending'
      /\ disk'.done = done' /\ disk'.failed = failed'
      /\ disk'.results = results' /\ disk' \in Checkpoint
      /\ UNCHANGED <<flow, resolved, approved, results, pc, verdict, attempt,
                     consumed, replay, world, crashes>>
  BY <1>1, SettleParts
<1>3. TypeOK'
  <2>1. status' \in States /\ pending' \in Pauses
    BY <1>1, <1>2 DEF TypeOK, States, Pauses
  <2> QED  BY <1>1, <1>2, <2>1 DEF TypeOK, flow, world
<1>4. Batch = {}  BY <1>1, <1>2 DEF Apart
<1>5. Asked'
  <2>1. SettledStatus = "awaiting" => final = "paused"  BY DEF SettledStatus
  <2>2. SettledStatus \notin {"resuming", "running", "settling"}
    BY <1>2 DEF Ended
  <2> QED  BY <1>1, <1>2, <2>1, <2>2 DEF Asked
<1> QED  BY <1>2, <1>3, <1>4, <1>5, QuietPlan

LEMMA ResumeParts ==
  ASSUME TypeOK, ResumePipeline
  PROVE  /\ status = "resuming" /\ status' = "running"
         /\ SaveRunning(TRUE) /\ disk' \in Checkpoint
         /\ disk'.done = done' /\ disk'.failed = failed'
         /\ disk'.results = results'
         /\ disk'.status = "awaiting" => disk'.pending # NoPause
         /\ UNCHANGED <<pending, flow, resolved, approved, results, pc, verdict,
                        attempt, consumed, replay, world, crashes>>
<1>1. /\ status = "resuming" /\ status' = "running" /\ SaveRunning(TRUE)
      /\ UNCHANGED <<pending, flow, resolved, approved, results, pc, verdict,
                     attempt, consumed, replay, world, crashes>>
  BY DEF ResumePipeline, flow
<1>2. disk' \in Checkpoint  BY <1>1, SavedRunningType DEF TypeOK, flow
<1>3. resolved' \subseteq Tasks  BY <1>1 DEF TypeOK
<1> QED  BY <1>1, <1>2, <1>3, SavedRunningParts

LEMMA ResumePlan == PlanInv /\ ResumePipeline => PlanInv'
<1> SUFFICES ASSUME PlanInv, ResumePipeline PROVE PlanInv'  OBVIOUS
<1>1. TypeOK  BY DEF PlanInv
<1>2. TypeOK'
  <2>1. status' \in States  BY <1>1, ResumeParts DEF States
  <2> QED  BY <1>1, <2>1, ResumeParts DEF TypeOK, flow, world
<1>3. Asked  BY DEF PlanInv
<1>4. Asked'  BY <1>1, <1>3, ResumeParts DEF Asked, flow
<1> QED  BY <1>1, <1>2, <1>4, ResumeParts, QuietPlan

LEMMA AnswerRaisesParts ==
  ASSUME TypeOK, NEW allow \in BOOLEAN, AnswerRaises(allow)
  PROVE  /\ status = "awaiting" /\ status' \in {"awaiting", "failed"}
         /\ pending \notin NeedsApproval \cup resolved
         /\ resolved' = resolved \cup {pending}
         /\ disk'.status = status' /\ disk'.safe = FALSE
         /\ disk'.pending = pending /\ disk'.done = done' 
         /\ disk'.failed = failed' /\ disk'.results = results'
         /\ disk'.resolved = resolved' /\ disk'.approved = approved'
         /\ UNCHANGED <<pending, flow, approved, results, pc, verdict, attempt,
                        consumed, replay, world, crashes>>
<1>1. /\ status = "awaiting" /\ status' \in {"awaiting", "failed"}
      /\ pending \notin NeedsApproval \cup resolved
      /\ resolved' = resolved \cup {pending}
      /\ SaveAs(status', FALSE, pending)
      /\ UNCHANGED <<pending, flow, approved, results, pc, verdict, attempt,
                     consumed, replay, world, crashes>>
  BY DEF AnswerRaises, flow
<1> QED  BY <1>1, SavedParts
LEMMA AnswerRaisesPlan ==
  PlanInv /\ (\E allow \in BOOLEAN : AnswerRaises(allow)) => PlanInv'
<1> SUFFICES ASSUME PlanInv, NEW allow \in BOOLEAN, AnswerRaises(allow)
             PROVE  PlanInv'
  OBVIOUS
<1>1. TypeOK /\ Asked /\ Apart  BY DEF PlanInv
<1>2. /\ status = "awaiting" /\ status' \in {"awaiting", "failed"}
      /\ resolved' = resolved \cup {pending}
      /\ SaveAs(status', FALSE, pending)
      /\ UNCHANGED <<pending, flow, approved, results, pc, verdict, attempt,
                     consumed, replay, world, crashes>>
  BY DEF AnswerRaises, flow
<1>3. pending \in Tasks  BY <1>1, <1>2 DEF Asked, TypeOK, Pauses
<1>4. disk' \in Checkpoint
  BY <1>1, <1>2, <1>3, SavedType DEF TypeOK, flow, Ended
<1>5. TypeOK'
  <2>1. status' \in States  BY <1>2 DEF States, Ended
  <2> QED  BY <1>1, <1>2, <1>3, <1>4, <2>1 DEF TypeOK, flow, world
<1>6. Asked'  BY <1>1, <1>2, AnswerRaisesParts DEF Asked
<1>7. Batch = {}  BY <1>1, <1>2 DEF Apart
<1> QED  BY <1>1, <1>2, <1>5, <1>6, <1>7, AnswerRaisesParts, QuietPlan

(* The engine starts on a WorkflowState: nothing is in flight.               *)
LEMMA EngineStartsParts ==
  ASSUME TypeOK, NEW completed \in SUBSET Tasks, NEW bad \in SUBSET Tasks,
         EngineStarts(completed, bad)
  PROVE  /\ done' = completed /\ failed' = bad /\ marked' = completed
         /\ final' = "none" /\ final' \in Routed \cup {"none"}
         /\ pc' \in [Tasks -> {"idle", "dispatched", "running", "returned"}]
         /\ verdict' \in [Tasks -> Verdicts]
         /\ attempt' \in [Tasks -> 1..MaxAttempts]
         /\ \A t \in Tasks :
              pc'[t] = "idle" /\ verdict'[t] = "none" /\ attempt'[t] = 1
         /\ Batch' = {}
<1>1. \A t \in Tasks : pc'[t] = "idle" /\ verdict'[t] = "none" /\ attempt'[t] = 1
  BY DEF EngineStarts
<1>2. Batch' = {}  BY <1>1 DEF Batch
<1>3. /\ pc' \in [Tasks -> {"idle", "dispatched", "running", "returned"}]
      /\ verdict' \in [Tasks -> Verdicts]
      /\ attempt' \in [Tasks -> 1..MaxAttempts]
  BY PlanAssumption DEF EngineStarts, Verdicts
<1> QED  BY <1>1, <1>2, <1>3 DEF EngineStarts

(* Earned and Once when nothing is in flight and what is recorded was        *)
(* recorded before.                                                          *)
LEMMA StartedPlan ==
  ASSUME PlanInv, TypeOK', Asked', Apart',
         NEW completed \in SUBSET Tasks, NEW bad \in SUBSET Tasks,
         EngineStarts(completed, bad),
         effects' = effects,
         crashes' = 0 => UNCHANGED <<consumed, armed, crashes>>,
         \A t \in Tasks :
           t \in done' \cup results' \cup replay' \cup disk'.done \cup disk'.results
             => t \in done \cup results \cup replay \cup disk.done \cup disk.results
  PROVE  PlanInv'
<1>1. TypeOK /\ \A t \in Tasks : Earned(t) /\ Once(t)  BY DEF PlanInv
<1>2. \A t \in Tasks : pc'[t] = "idle" /\ verdict'[t] = "none"
  BY <1>1, EngineStartsParts
<1>3. \A t \in Tasks : Earned(t)'  BY <1>1, <1>2 DEF Earned, Real
<1>4. \A t \in Tasks : Once(t)'  BY <1>1, <1>2 DEF Once, Exposure
<1> QED  BY <1>3, <1>4 DEF PlanInv

LEMMA AnswerParts ==
  ASSUME TypeOK, NEW allow \in BOOLEAN, Answer(allow)
  PROVE  /\ status = "awaiting" /\ status' = "running"
         /\ pending \in NeedsApproval \ resolved
         /\ resolved' = resolved \cup {pending} /\ resolved' \subseteq Tasks
         /\ approved' = IF allow THEN approved \cup {pending} ELSE approved
         /\ approved' \subseteq Tasks
         /\ EngineStarts(done, failed)
         /\ SaveRunning(TRUE) /\ disk' \in Checkpoint
         /\ UNCHANGED <<pending, done, failed, results, consumed, replay, world,
                        crashes>>
<1>1. /\ status = "awaiting" /\ status' = "running"
      /\ pending \in NeedsApproval \ resolved
      /\ resolved' = resolved \cup {pending}
      /\ approved' = IF allow THEN approved \cup {pending} ELSE approved
      /\ EngineStarts(done, failed) /\ SaveRunning(TRUE)
      /\ UNCHANGED <<pending, results, consumed, replay, world, crashes>>
  BY DEF Answer
<1>2. resolved' \subseteq Tasks /\ approved' \subseteq Tasks
  BY <1>1, PlanAssumption DEF TypeOK
<1>3. done' = done /\ failed' = failed
  BY <1>1 DEF EngineStarts
<1>4. disk' \in Checkpoint
  BY <1>1, <1>2, <1>3, SavedRunningType DEF TypeOK
<1> QED  BY <1>1, <1>2, <1>3, <1>4

LEMMA AnswerPlan ==
  PlanInv /\ (\E allow \in BOOLEAN : Answer(allow)) => PlanInv'
<1> SUFFICES ASSUME PlanInv, NEW allow \in BOOLEAN, Answer(allow)
             PROVE  PlanInv'
  OBVIOUS
<1>1. TypeOK /\ Asked /\ Apart  BY DEF PlanInv
<1>2. done \in SUBSET Tasks /\ failed \in SUBSET Tasks  BY <1>1 DEF TypeOK
<1>3. /\ EngineStarts(done, failed) /\ status' = "running" /\ disk' \in Checkpoint
      /\ resolved' \subseteq Tasks /\ approved' \subseteq Tasks
      /\ UNCHANGED <<pending, done, failed, results, consumed, replay, world,
                     crashes>>
  BY <1>1, AnswerParts
<1>4. /\ disk'.done = done' /\ disk'.failed = failed' /\ disk'.results = results'
      /\ disk'.status = "awaiting" => disk'.pending # NoPause
  BY <1>1, AnswerParts, SavedRunningParts
<1>5. /\ marked' = done /\ final' = "none" /\ Batch' = {}
      /\ final' \in Routed \cup {"none"}
      /\ pc' \in [Tasks -> {"idle", "dispatched", "running", "returned"}]
      /\ verdict' \in [Tasks -> Verdicts]
      /\ attempt' \in [Tasks -> 1..MaxAttempts]
  BY <1>1, <1>2, <1>3, EngineStartsParts
<1>6. TypeOK'
  BY <1>1, <1>2, <1>3, <1>5 DEF TypeOK, States, world
<1>7. Asked'  BY <1>3, <1>4, <1>5 DEF Asked
<1>8. Apart'
  <2>1. /\ done' = marked' \ Internal
        /\ failed' \cap (marked' \cup Internal) = {}
        /\ done' \cap (failed' \cup Internal) = {} /\ failed' \cap Internal = {}
    BY <1>1, <1>3, <1>5 DEF Apart
  <2> QED  BY <1>3, <1>4, <1>5, <2>1 DEF Apart
<1>9. \A t \in Tasks :
        t \in done' \cup results' \cup replay' \cup disk'.done \cup disk'.results
          => t \in done \cup results \cup replay \cup disk.done \cup disk.results
  BY <1>3, <1>4
<1> QED  BY <1>2, <1>3, <1>6, <1>7, <1>8, <1>9, StartedPlan DEF world

LEMMA CrashPlan == PlanInv /\ Crash => PlanInv'
<1> SUFFICES ASSUME PlanInv, Crash PROVE PlanInv'  OBVIOUS
<1>1. TypeOK /\ Asked /\ Apart  BY DEF PlanInv
<1>2. /\ EngineStarts({}, {}) /\ status' = "down" /\ pending' = NoPause
      /\ crashes < MaxCrashes /\ crashes' = crashes + 1
      /\ resolved' = {} /\ approved' = {} /\ consumed' = {}
      /\ results' = {} /\ replay' = {}
      /\ armed' = [t \in Tasks |-> FALSE]
      /\ UNCHANGED <<effects, disk>>
  BY DEF Crash
<1>3. {} \in SUBSET Tasks  OBVIOUS
<1>4. /\ done' = {} /\ failed' = {} /\ marked' = {} /\ Batch' = {}
      /\ final' \in Routed \cup {"none"}
      /\ pc' \in [Tasks -> {"idle", "dispatched", "running", "returned"}]
      /\ verdict' \in [Tasks -> Verdicts]
      /\ attempt' \in [Tasks -> 1..MaxAttempts]
  BY <1>1, <1>2, <1>3, EngineStartsParts
<1>5. crashes' \in 0..MaxCrashes /\ crashes' # 0
  BY <1>1, <1>2, PlanAssumption DEF TypeOK
<1>6. TypeOK'
  BY <1>1, <1>2, <1>4, <1>5 DEF TypeOK, States, Pauses
<1>7. Asked'  BY <1>1, <1>2 DEF Asked
<1>8. Apart'  BY <1>1, <1>2, <1>4 DEF Apart
<1>9. \A t \in Tasks :
        t \in done' \cup results' \cup replay' \cup disk'.done \cup disk'.results
          => t \in done \cup results \cup replay \cup disk.done \cup disk.results
  BY <1>2, <1>4
<1> QED  BY <1>2, <1>3, <1>5, <1>6, <1>7, <1>8, <1>9, StartedPlan

LEMMA RestartParts ==
  ASSUME TypeOK, Restart
  PROVE  /\ status = "down" /\ status' = RestoredStatus
         /\ RestoredStatus \in {"resuming", "awaiting"} \cup Ended
         /\ disk.done \in SUBSET Tasks /\ disk.failed \in SUBSET Tasks
         /\ EngineStarts(disk.done, disk.failed)
         /\ pending' = disk.pending /\ resolved' = disk.resolved
         /\ approved' = disk.approved
         /\ results' = disk.results /\ replay' = disk.results
         /\ disk' \in Checkpoint
         /\ disk'.status = disk.status /\ disk'.pending = disk.pending
         /\ disk'.done = disk.done /\ disk'.failed = disk.failed
         /\ disk'.results = disk.results /\ disk'.resolved = disk.resolved
         /\ disk'.approved = disk.approved
         /\ ~(disk'.status = "running" /\ disk'.safe)
         /\ RestoredStatus \in {"awaiting", "completed"}
              => disk.status = RestoredStatus
         /\ RestoredStatus = "resuming" => disk.status = "running" /\ disk.safe
         /\ UNCHANGED <<consumed, world, crashes>>
<1>1. disk \in Checkpoint  BY DEF TypeOK
<1>2. /\ disk.status \in {"running", "awaiting"} \cup Ended
      /\ disk.done \in SUBSET Tasks /\ disk.failed \in SUBSET Tasks
  BY <1>1 DEF Checkpoint
<1>3. /\ RestoredStatus \in {"resuming", "awaiting"} \cup Ended
      /\ RestoredStatus \in {"awaiting", "completed"}
           => disk.status = RestoredStatus
      /\ RestoredStatus = "resuming" => disk.status = "running" /\ disk.safe
  <2>1. CASE disk.status # "running"
    <3>1. RestoredStatus = disk.status  BY <2>1 DEF RestoredStatus
    <3> QED  BY <1>2, <2>1, <3>1 DEF Ended
  <2>2. CASE disk.status = "running" /\ disk.safe
    <3>1. RestoredStatus = "resuming"  BY <2>2 DEF RestoredStatus
    <3> QED  BY <2>2, <3>1
  <2>3. CASE disk.status = "running" /\ ~disk.safe
    <3>1. RestoredStatus = "failed"  BY <2>3 DEF RestoredStatus
    <3> QED  BY <3>1 DEF Ended
  <2> QED  BY <2>1, <2>2, <2>3
<1>4. disk' = IF RestoredStatus = "resuming" THEN [disk EXCEPT !.safe = FALSE]
                                             ELSE disk
  BY DEF Restart
<1>5. /\ disk' \in Checkpoint
      /\ disk'.status = disk.status /\ disk'.pending = disk.pending
      /\ disk'.done = disk.done /\ disk'.failed = disk.failed
      /\ disk'.results = disk.results /\ disk'.resolved = disk.resolved
      /\ disk'.approved = disk.approved
  BY <1>1, <1>4 DEF Checkpoint
<1>6. ~(disk'.status = "running" /\ disk'.safe)
  <2>1. CASE RestoredStatus = "resuming"
    <3>1. disk'.safe = FALSE  BY <1>1, <1>4, <2>1 DEF Checkpoint
    <3> QED  BY <3>1
  <2>2. CASE RestoredStatus # "resuming"
    <3>1. disk' = disk  BY <1>4, <2>2
    <3>2. ~(disk.status = "running" /\ disk.safe)  BY <2>2 DEF RestoredStatus
    <3> QED  BY <3>1, <3>2
  <2> QED  BY <2>1, <2>2
<1> QED  BY <1>2, <1>3, <1>5, <1>6 DEF Restart

LEMMA RestartPlan == PlanInv /\ Restart => PlanInv'
<1> SUFFICES ASSUME PlanInv, Restart PROVE PlanInv'  OBVIOUS
<1>1. TypeOK /\ Asked /\ Apart  BY DEF PlanInv
<1>2. /\ status' = RestoredStatus
      /\ RestoredStatus \in {"resuming", "awaiting"} \cup Ended
      /\ disk.done \in SUBSET Tasks /\ disk.failed \in SUBSET Tasks
      /\ EngineStarts(disk.done, disk.failed)
      /\ pending' = disk.pending /\ resolved' = disk.resolved
      /\ approved' = disk.approved
      /\ results' = disk.results /\ replay' = disk.results
      /\ disk' \in Checkpoint
      /\ disk'.status = disk.status /\ disk'.pending = disk.pending
      /\ disk'.done = disk.done /\ disk'.failed = disk.failed
      /\ disk'.results = disk.results
      /\ RestoredStatus \in {"awaiting", "completed"}
           => disk.status = RestoredStatus
      /\ UNCHANGED <<consumed, world, crashes>>
  BY <1>1, RestartParts
<1>3. /\ done' = disk.done /\ failed' = disk.failed /\ marked' = disk.done
      /\ Batch' = {} /\ final' = "none"
      /\ final' \in Routed \cup {"none"}
      /\ pc' \in [Tasks -> {"idle", "dispatched", "running", "returned"}]
      /\ verdict' \in [Tasks -> Verdicts]
      /\ attempt' \in [Tasks -> 1..MaxAttempts]
  BY <1>1, <1>2, EngineStartsParts
<1>4. TypeOK'
  <2>1. /\ disk.results \subseteq Tasks /\ disk.resolved \subseteq Tasks
        /\ disk.approved \subseteq Tasks /\ disk.pending \in Pauses
    BY <1>1 DEF TypeOK, Checkpoint
  <2>2. status' \in States  BY <1>2 DEF States
  <2> QED  BY <1>1, <1>2, <1>3, <2>1, <2>2 DEF TypeOK, world
<1>5. Asked'
  <2>1. RestoredStatus # "settling"  BY <1>2 DEF Ended
  <2> QED  BY <1>1, <1>2, <1>3, <2>1 DEF Asked
<1>6. Apart'
  <2>1. /\ done' = marked' \ Internal
        /\ failed' \cap (marked' \cup Internal) = {}
    BY <1>1, <1>3 DEF Apart
  <2> QED  BY <1>1, <1>2, <1>3, <2>1 DEF Apart
<1>7. \A t \in Tasks :
        t \in done' \cup results' \cup replay' \cup disk'.done \cup disk'.results
          => t \in done \cup results \cup replay \cup disk.done \cup disk.results
  BY <1>2, <1>3
<1> QED  BY <1>2, <1>4, <1>5, <1>6, <1>7, StartedPlan DEF world
LEMMA LandParts ==
  ASSUME TypeOK, NEW t \in Tasks, Land(t)
  PROVE  /\ status # "down" /\ armed[t] /\ ~armed'[t]
         /\ armed' \in [Tasks -> BOOLEAN] /\ effects' \in [Tasks -> 0..Many]
         /\ effects'[t] = IF effects[t] < Many THEN effects[t] + 1 ELSE Many
         /\ \A u \in Tasks \ {t} : armed'[u] = armed[u] /\ effects'[u] = effects[u]
         /\ \A u \in Tasks : Real(u) => Real(u)'
         /\ Real(t)'
         /\ UNCHANGED <<status, pending, flow, pc, verdict, attempt, resolved,
                        approved, consumed, results, replay, disk, crashes>>
<1>1. /\ armed' = [armed EXCEPT ![t] = FALSE]
      /\ effects' = [effects EXCEPT ![t] = IF @ < Many THEN @ + 1 ELSE Many]
      /\ status # "down" /\ armed[t]
      /\ UNCHANGED <<status, pending, flow, pc, verdict, attempt, resolved,
                     approved, consumed, results, replay, disk, crashes>>
  BY DEF Land
<1>2. /\ armed' \in [Tasks -> BOOLEAN] /\ ~armed'[t]
      /\ \A u \in Tasks \ {t} : armed'[u] = armed[u]
  BY <1>1 DEF TypeOK
<1>3. /\ effects'[t] = IF effects[t] < Many THEN effects[t] + 1 ELSE Many
      /\ \A u \in Tasks \ {t} : effects'[u] = effects[u]
      /\ effects' \in [Tasks -> 0..Many]
  BY <1>1 DEF TypeOK, Many
<1>4. Real(t)'  BY <1>3 DEF Real, Many, TypeOK
<1>5. \A u \in Tasks : Real(u) => Real(u)'  BY <1>3, <1>4 DEF Real
<1> QED  BY <1>1, <1>2, <1>3, <1>4, <1>5

(* A dispatch that lands is exposed as before, or more than once already.    *)
LEMMA LandExposes ==
  ASSUME TypeOK, NEW t \in Tasks, Land(t)
  PROVE  /\ Exposure(t) >= 1 /\ Exposure(t)' <= Exposure(t)
         /\ \A u \in Tasks \ {t} : Exposure(u)' = Exposure(u)
<1>1. /\ armed[t] /\ ~armed'[t]
      /\ effects'[t] = IF effects[t] < Many THEN effects[t] + 1 ELSE Many
      /\ \A u \in Tasks \ {t} : armed'[u] = armed[u] /\ effects'[u] = effects[u]
  BY LandParts
<1>2. effects[t] \in 0..2  BY DEF TypeOK, Many
<1>3. Exposure(t) = effects[t] + 1 /\ Exposure(t)' = effects'[t]
  BY <1>1, <1>2 DEF Exposure, Many
<1>4. Exposure(t) >= 1 /\ Exposure(t)' <= Exposure(t)
  BY <1>1, <1>2, <1>3 DEF Many
<1>5. \A u \in Tasks \ {t} : Exposure(u)' = Exposure(u)
  BY <1>1 DEF Exposure
<1> QED  BY <1>4, <1>5

LEMMA ExposureType ==
  ASSUME TypeOK, NEW t \in Tasks
  PROVE  Exposure(t) \in 0..3
BY DEF TypeOK, Exposure, Many

LEMMA LandPlan ==
  PlanInv /\ (\E t \in Tasks : Land(t)) => PlanInv'
<1> SUFFICES ASSUME PlanInv, NEW t \in Tasks, Land(t) PROVE PlanInv'  OBVIOUS
<1>1. TypeOK /\ Asked /\ Apart /\ \A u \in Tasks : Earned(u) /\ Once(u)
  BY DEF PlanInv
<1>2. /\ ~armed'[t] /\ armed' \in [Tasks -> BOOLEAN]
      /\ effects' \in [Tasks -> 0..Many]
      /\ \A u \in Tasks \ {t} : armed'[u] = armed[u]
      /\ \A u \in Tasks : Real(u) => Real(u)'
      /\ Real(t)'
      /\ UNCHANGED <<status, pending, flow, pc, verdict, attempt, resolved,
                     approved, consumed, results, replay, disk, crashes>>
  BY <1>1, LandParts
<1>3. TypeOK'  BY <1>1, <1>2 DEF TypeOK, flow
<1>4. Asked'  BY <1>1, <1>2 DEF Asked, flow
<1>5. Apart'  BY <1>1, <1>2 DEF Apart, Batch, flow
<1>6. \A u \in Tasks : Earned(u)'
  <2> TAKE u \in Tasks
  <2>1. Earned(u)  BY <1>1
  <2>2. Deps[u] \subseteq Tasks  BY PlanAssumption
  <2>3. (pc[u] # "idle" => \A d \in Deps[u] \ Internal : Real(d))'
    BY <1>2, <2>1, <2>2 DEF Earned
  <2>4. (pc[u] = "running" /\ ~armed[u] => Real(u))'
    BY <1>2, <2>1 DEF Earned
  <2> QED  BY <1>2, <2>1, <2>3, <2>4 DEF Earned, flow
<1>7. \A u \in Tasks : Once(u)'
  <2> TAKE u \in Tasks
  <2>1. Once(u)  BY <1>1
  <2>2. /\ Exposure(t) >= 1 /\ Exposure(t)' <= Exposure(t)
        /\ u # t => Exposure(u)' = Exposure(u)
    BY <1>1, LandExposes
  <2>3. Exposure(u) \in 0..3 /\ Exposure(u)' \in 0..3
    BY <1>1, <1>3 DEF TypeOK, Exposure, Many
  <2> QED  BY <1>2, <2>1, <2>2, <2>3 DEF Once
<1> QED  BY <1>3, <1>4, <1>5, <1>6, <1>7 DEF PlanInv

-----------------------------------------------------------------------------
(* A step of run() keeps the invariant                                       *)

(* What is written down by a step of run().                                  *)
LEMMA RunSaves ==
  ASSUME TypeOK, NEW t \in Tasks, RunFrame(t)
  PROVE  \/ disk' = disk
         \/ /\ disk'.status = IF Denying THEN "awaiting" ELSE "running"
            /\ disk'.pending = pending
            /\ disk'.done = done' /\ disk'.failed = failed'
            /\ disk'.results = results' /\ disk'.resolved = resolved'
            /\ disk'.approved = approved'
            /\ disk'.status = "awaiting" => disk'.pending # NoPause
<1>1. CASE disk' = disk  BY <1>1
<1>2. CASE \E safe \in BOOLEAN : SaveRunning(safe)
  <2>1. resolved' = resolved /\ approved' = approved /\ resolved' \subseteq Tasks
    BY DEF RunFrame, TypeOK
  <2> QED  BY <1>2, <2>1, SavedRunningParts DEF Denying
<1> QED  BY <1>1, <1>2 DEF RunFrame

LEMMA RunApart ==
  ASSUME TypeOK, Asked, Apart, NEW t \in Tasks, RunChange(t)
  PROVE  Apart' /\ Asked' /\ Batch' = Batch
<1>1. RunFrame(t)  BY DEF RunChange
<1>2. /\ status = "running" /\ pc[t] # "idle"
      /\ UNCHANGED <<status, pending, done, failed, marked, final>>
      /\ \A u \in Tasks \ {t} : pc'[u] = pc[u]
  BY <1>1 DEF RunFrame
<1>3. pc'[t] # "idle"
  BY DEF RunChange, Begun, Tried, Aborted, Returned, Again
<1>4. Batch' = Batch  BY <1>2, <1>3 DEF Batch
<1>5. Apart'
  <2>1. done \cap (failed \cup Internal) = {} /\ failed \cap Internal = {}
    BY DEF Apart
  <2>2. \/ disk' = disk
        \/ disk'.done = done /\ disk'.failed = failed
    BY <1>1, <1>2, RunSaves
  <2> QED  BY <1>2, <1>4, <2>1, <2>2 DEF Apart
<1>6. Asked'  BY <1>1, <1>2, RunSaves DEF Asked
<1> QED  BY <1>4, <1>5, <1>6

(* A result is kept, and a task reported COMPLETED, only for a real effect.  *)
LEMMA RunEarns ==
  ASSUME TypeOK, NEW t \in Tasks, RunChange(t), Earned(t)
  PROVE  /\ t \in results' => Real(t)
         /\ verdict'[t] = "completed" => Real(t)
         /\ pc'[t] = "running" /\ ~armed'[t] => Real(t)
<1> USE DEF Returned, Again, Unfelt
<1>1. CASE Begun(t)
  <2>1. t \in results' => Real(t)  BY <1>1 DEF Begun, Earned
  <2>2. verdict'[t] = "completed" => Real(t)  BY <1>1 DEF Begun, Earned
  <2>3. ~(pc'[t] = "running" /\ ~armed'[t])  BY <1>1 DEF Begun
  <2> QED  BY <2>1, <2>2, <2>3
<1>2. CASE Tried(t)
  <2>1. t \in results' => Real(t)  BY <1>2 DEF Tried, Earned
  <2>2. verdict'[t] = "completed" => Real(t)  BY <1>2 DEF Tried, Earned
  <2>3. pc'[t] # "running"  BY <1>2 DEF Tried
  <2> QED  BY <2>1, <2>2, <2>3
<1>3. CASE Aborted(t)  BY <1>3 DEF Aborted, Earned
<1> QED  BY <1>1, <1>2, <1>3 DEF RunChange

LEMMA RunEarned ==
  ASSUME TypeOK, NEW t \in Tasks, RunChange(t),
         \A u \in Tasks : Earned(u), NEW u \in Tasks
  PROVE  Earned(u)'
<1>1. RunFrame(t) /\ Earned(t) /\ Earned(u)  BY DEF RunChange
<1>2. /\ UNCHANGED <<done, replay, effects>> /\ results' \subseteq results \cup {t}
      /\ pc[t] # "idle"
      /\ u # t => pc'[u] = pc[u] /\ verdict'[u] = verdict[u] /\ armed'[u] = armed[u]
  BY <1>1 DEF RunFrame
<1>3. \/ disk' = disk
      \/ disk'.done = done' /\ disk'.results = results'
  BY <1>1, RunSaves
<1>4. u \in results' => Real(u)
  BY <1>1, <1>2, RunEarns DEF Earned
<1>5. /\ verdict'[u] = "completed" => Real(u)
      /\ pc'[u] = "running" /\ ~armed'[u] => Real(u)
  <2>1. CASE u = t  BY <1>1, <2>1, RunEarns
  <2>2. CASE u # t  BY <1>1, <1>2, <2>2 DEF Earned
  <2> QED  BY <2>1, <2>2
<1>6. u \in done' \cup results' \cup replay' \cup disk'.done \cup disk'.results
        => Real(u)
  BY <1>1, <1>2, <1>3, <1>4 DEF Earned
<1>7. pc'[u] # "idle" => \A d \in Deps[u] \ Internal : Real(d)
  <2>1. pc'[u] # "idle" => pc[u] # "idle"  BY <1>2
  <2> QED  BY <1>1, <2>1 DEF Earned
<1> QED  BY <1>2, <1>5, <1>6, <1>7 DEF Earned, Real
LEMMA RunOnce ==
  ASSUME TypeOK, TypeOK', NEW t \in Tasks, RunChange(t),
         \A u \in Tasks : Once(u), NEW u \in Tasks
  PROVE  Once(u)'
<1>1. RunFrame(t) /\ Once(t) /\ Once(u)  BY DEF RunChange
<1>2. /\ UNCHANGED <<effects, crashes>>
      /\ consumed \subseteq consumed' /\ consumed' \subseteq consumed \cup {t}
      /\ u # t => /\ pc'[u] = pc[u] /\ attempt'[u] = attempt[u]
                  /\ armed'[u] = armed[u]
  BY <1>1 DEF RunFrame
<1>3. CASE u # t
  <2>1. Exposure(u)' = Exposure(u) /\ (u \in consumed' <=> u \in consumed)
    BY <1>2, <1>3 DEF Exposure
  <2> QED  BY <1>1, <1>2, <1>3, <2>1 DEF Once
<1>4. CASE u = t
  <2> SUFFICES ASSUME crashes = 0, t \in NonIdempotent
               PROVE  /\ Exposure(t)' <= 1
                      /\ t \notin consumed' \/ (pc'[t] = "dispatched" /\ attempt'[t] > 1)
                           => Exposure(t)' = 0
    BY <1>2, <1>4 DEF Once
  <2>1. /\ Exposure(t) <= 1
        /\ t \notin consumed \/ (pc[t] = "dispatched" /\ attempt[t] > 1)
             => Exposure(t) = 0
    BY <1>1 DEF Once
  <2>2. effects[t] \in 0..2 /\ attempt[t] \in Nat \ {0} /\ attempt'[t] \in Nat \ {0}
    BY PlanAssumption DEF TypeOK, Many
  <2>3. CASE Begun(t)
    <3>1. CASE Unfelt(t) /\ pc'[t] = "returned"
      <4>1. Exposure(t)' = Exposure(t)  BY <1>2, <3>1 DEF Exposure, Unfelt
      <4> QED  BY <2>1, <3>1, <4>1 DEF Unfelt
    <3>2. CASE /\ pc'[t] = "running" /\ ~Claimed(t) /\ t \in consumed'
      <4>1. Exposure(t) = 0
        BY <2>1, <2>2, <2>3, <3>2 DEF Begun, Claimed
      <4>2. Exposure(t)' <= 1
        BY <1>2, <2>2, <4>1 DEF Exposure
      <4> QED  BY <3>2, <4>2
    <3> QED  BY <2>3, <3>1, <3>2 DEF Begun, Returned
  <2>4. CASE Tried(t)
    <3>1. pc[t] = "running" /\ consumed' = consumed  BY <2>4 DEF Tried
    <3>2. CASE armed[t] /\ ~armed'[t]
      <4>1. Exposure(t) = 1 /\ Exposure(t)' = 0
        BY <1>2, <2>1, <2>2, <3>2 DEF Exposure
      <4> QED  BY <4>1
    <3>3. CASE /\ armed'[t] <=> armed[t]
               /\ pc'[t] = "returned"
      <4>1. Exposure(t)' = Exposure(t)  BY <1>2, <3>3 DEF Exposure
      <4> QED  BY <2>1, <3>1, <3>3, <4>1
    <3> QED  BY <2>4, <3>2, <3>3 DEF Tried, Returned, Unfelt
  <2>5. CASE Aborted(t)
    <3>1. Exposure(t)' = Exposure(t)  BY <1>2, <2>5 DEF Exposure, Aborted, Unfelt
    <3> QED  BY <2>1, <2>5, <3>1 DEF Aborted, Unfelt, Returned
  <2> QED  BY <2>3, <2>4, <2>5 DEF RunChange
<1> QED  BY <1>3, <1>4

LEMMA RunPlan ==
  PlanInv /\ (\E t \in Tasks : RunStep(t)) => PlanInv'
<1> SUFFICES ASSUME PlanInv, NEW t \in Tasks, RunStep(t) PROVE PlanInv'  OBVIOUS
<1>1. TypeOK /\ Asked /\ Apart /\ \A u \in Tasks : Earned(u) /\ Once(u)
  BY DEF PlanInv
<1>2. RunChange(t) /\ TypeOK'  BY <1>1, RunChanges
<1>3. Apart' /\ Asked'  BY <1>1, <1>2, RunApart
<1>4. \A u \in Tasks : Earned(u)'  BY <1>1, <1>2, RunEarned
<1>5. \A u \in Tasks : Once(u)'  BY <1>1, <1>2, RunOnce
<1> QED  BY <1>2, <1>3, <1>4, <1>5 DEF PlanInv

LEMMA PlanStep == PlanInv /\ [Next]_vars => PlanInv'
<1> SUFFICES ASSUME PlanInv, [Next]_vars PROVE PlanInv'  OBVIOUS
<1>1. CASE EngineStep
  BY <1>1, NextBatchPlan, FinishBatchPlan, FinishWorkflowPlan, SettlePlan,
     RestartPlan, ResumePlan DEF EngineStep
<1>2. CASE \E t \in Tasks : RunStep(t) \/ Land(t)  BY <1>2, RunPlan, LandPlan
<1>3. CASE \E allow \in BOOLEAN : Answer(allow) \/ AnswerRaises(allow)
  BY <1>3, AnswerPlan, AnswerRaisesPlan
<1>4. CASE Crash  BY <1>4, CrashPlan
<1>5. CASE UNCHANGED vars
  <2>1. TypeOK'  BY <1>5 DEF PlanInv, TypeOK, vars
  <2>2. Asked'  BY <1>5 DEF PlanInv, Asked, vars
  <2> QED  BY <1>5, <2>1, <2>2, QuietPlan DEF vars, flow, world, PlanInv, Apart
<1> QED  BY <1>1, <1>2, <1>3, <1>4, <1>5 DEF Next

-----------------------------------------------------------------------------
(* Some task is ready, or the plan is finished                               *)

(* get_blocked_tasks propagates as the code's loop does: the recursion has   *)
(* a solution because dependencies point backwards.  Where there is none for *)
(* the ids below n, take the least such n, and extend the solution below it. *)
LEMMA BlockedExists ==
  ASSUME NEW bad
  PROVE  \E f : f = [t \in Tasks |-> t \notin bad
                                     /\ \E d \in Deps[t] : d \in bad \/ f[d]]
<1> DEFINE Eq(f, t) == f[t] <=> (t \notin bad /\ \E d \in Deps[t] : d \in bad \/ f[d])
           Good(n)  == \E f \in [Tasks -> BOOLEAN] :
                         \A t \in Tasks : t < n => Eq(f, t)
           Bad      == {n \in Nat : ~Good(n)}
<1>1. Tasks \subseteq Nat /\ \A t \in Tasks : \A d \in Deps[t] : d \in Tasks /\ d < t
  BY PlanAssumption
<1>2. Good(0)
  <2>1. [t \in Tasks |-> FALSE] \in [Tasks -> BOOLEAN]  OBVIOUS
  <2>2. \A t \in Tasks : ~(t < 0)  BY <1>1
  <2> QED  BY <2>1, <2>2
<1>3. ASSUME NEW n \in Nat, Good(n)  PROVE Good(n + 1)
  <2>1. PICK f \in [Tasks -> BOOLEAN] : \A t \in Tasks : t < n => Eq(f, t)
    BY <1>3
  <2> DEFINE g == [t \in Tasks |->
                     IF t = n THEN n \notin bad /\ \E d \in Deps[n] : d \in bad \/ f[d]
                              ELSE f[t]]
  <2>2. g \in [Tasks -> BOOLEAN]  OBVIOUS
  <2>3. \A t \in Tasks : t # n => (g[t] <=> f[t])  OBVIOUS
  <2>4. \A t \in Tasks : t < n + 1 => Eq(g, t)
    <3> SUFFICES ASSUME NEW t \in Tasks, t < n + 1 PROVE Eq(g, t)  OBVIOUS
    <3>1. \A d \in Deps[t] : d \in Tasks /\ d # n  BY <1>1
    <3>2. \A d \in Deps[t] : g[d] <=> f[d]  BY <2>3, <3>1
    <3>3. CASE t = n
      <4>1. g[t] <=> (t \notin bad /\ \E d \in Deps[t] : d \in bad \/ f[d])
        BY <3>3
      <4> HIDE DEF g
      <4> QED  BY <3>2, <4>1
    <3>4. CASE t # n
      <4>1. t < n  BY <1>1, <3>4
      <4>2. Eq(f, t) /\ (g[t] <=> f[t])  BY <2>1, <2>3, <3>4, <4>1
      <4> HIDE DEF g
      <4> QED  BY <3>2, <4>2
    <3> QED  BY <3>3, <3>4
  <2> HIDE DEF g, Eq
  <2> QED  BY <2>2, <2>4
<1> HIDE DEF Good
<1>4. Bad = {}
  <2> SUFFICES ASSUME Bad # {} PROVE FALSE  OBVIOUS
  <2>1. PICK n \in Bad : \A m \in Bad : n <= m  BY Least
  <2>2. n \in Nat /\ ~Good(n) /\ n # 0  BY <1>2, <2>1
  <2>3. n - 1 \in Nat /\ ~(n <= n - 1) /\ (n - 1) + 1 = n  BY <2>2
  <2>4. Good(n - 1)  BY <2>1, <2>3
  <2> QED  BY <1>3, <2>2, <2>3, <2>4
<1>5. \E n \in Nat : \A t \in Tasks : t < n
  <2>1. CASE Tasks = {}  BY <2>1
  <2>2. CASE Tasks # {}
    <3>1. PICK n \in Tasks : \A t \in Tasks : t <= n
      BY <1>1, <2>2, Greatest, PlanAssumption
    <3>2. n + 1 \in Nat /\ \A t \in Tasks : t < n + 1  BY <1>1, <3>1
    <3> QED  BY <3>2
  <2> QED  BY <2>1, <2>2
<1>6. PICK n \in Nat : \A t \in Tasks : t < n  BY <1>5
<1>7. Good(n)  BY <1>4
<1>8. PICK f \in [Tasks -> BOOLEAN] : \A t \in Tasks : Eq(f, t)
  BY <1>6, <1>7 DEF Good
<1>9. f = [t \in Tasks |-> t \notin bad /\ \E d \in Deps[t] : d \in bad \/ f[d]]
  BY <1>8
<1> QED  BY <1>9

LEMMA BlockedEquation ==
  ASSUME NEW bad, NEW t \in Tasks
  PROVE  t \in Blocked(bad) <=> 
           t \notin bad /\ \E d \in Deps[t] : d \in bad \/ d \in Blocked(bad)
<1> DEFINE f == CHOOSE f : f = [u \in Tasks |-> u \notin bad
                                     /\ \E d \in Deps[u] : d \in bad \/ f[d]]
<1>1. f = [u \in Tasks |-> u \notin bad /\ \E d \in Deps[u] : d \in bad \/ f[d]]
  BY BlockedExists
<1>2. Blocked(bad) = {u \in Tasks : f[u]}  BY DEF Blocked
<1> HIDE DEF f
<1>3. f[t] = (t \notin bad /\ \E d \in Deps[t] : d \in bad \/ f[d])  BY <1>1
<1>4. Deps[t] \subseteq Tasks  BY PlanAssumption
<1>5. \A d \in Deps[t] : d \in Blocked(bad) <=> f[d]  BY <1>2, <1>4
<1> QED  BY <1>2, <1>3, <1>5

(* Without failures nothing is blocked.                                      *)
LEMMA NothingBlocked == Blocked({}) = {}
<1> SUFFICES ASSUME Blocked({}) # {} PROVE FALSE  OBVIOUS
<1>1. Blocked({}) \subseteq Tasks  BY DEF Blocked
<1>2. Blocked({}) \in SUBSET Nat  BY <1>1, PlanAssumption
<1>3. PICK t \in Blocked({}) : \A u \in Blocked({}) : t <= u  BY <1>2, Least
<1>4. PICK d \in Deps[t] : d \in Blocked({})  BY <1>1, <1>3, BlockedEquation
<1>5. d < t /\ t <= d /\ d \in Nat /\ t \in Nat
  BY <1>1, <1>3, <1>4, PlanAssumption
<1> QED  BY <1>5

(* The least task that is neither handled nor blocked is ready.              *)
LEMMA ReadyUnlessFinished ==
  ASSUME TypeOK, Apart, ~Finished
  PROVE  Ready(marked, failed) # {}
<1> DEFINE left == Tasks \ (marked \cup failed \cup Blocked(failed))
<1>1. left \in SUBSET Nat /\ left # {}  BY PlanAssumption DEF Finished
<1>2. PICK t \in left : \A u \in left : t <= u  BY <1>1, Least
<1>3. \A d \in Deps[t] : d \in marked \ failed
  <2> TAKE d \in Deps[t]
  <2>1. d \in Tasks /\ d < t /\ d \in Nat /\ t \in Nat  BY PlanAssumption
  <2>2. d \notin left  BY <1>2, <2>1
  <2>3. t \notin failed /\ t \notin Blocked(failed)  OBVIOUS
  <2>4. d \notin failed /\ d \notin Blocked(failed)  BY <2>3, BlockedEquation
  <2> QED  BY <2>1, <2>2, <2>4
<1> QED  BY <1>3 DEF Ready

-----------------------------------------------------------------------------
(* Theorem. Whatever the plan, the pauses, the retries and the crashes, the  *)
(* types hold, what counts as done took effect, and a task handled one way   *)
(* is not handled another.                                                   *)
THEOREM PlanInvariance == Spec => []PlanInv
BY PlanInitially, PlanStep, PTL DEF Spec

(* Theorem. In every plan, parallel branches included: within a process no   *)
(* mutation is dispatched twice, what counts as done took effect, some task  *)
(* is ready until the plan is finished, and none runs before what it depends *)
(* on (WorkflowEngine.execute, ParallelWorkflowScheduler, RuntimeEngine.run).*)
THEOREM JoinIsSafe == Spec => []JoinSafe
<1>1. ASSUME PlanInv PROVE JoinSafe
  <2>1. TypeOK /\ Apart /\ \A t \in Tasks : Earned(t) /\ Once(t)
    BY <1>1 DEF PlanInv
  <2>2. AtMostOncePerProcess
    BY <2>1 DEF AtMostOncePerProcess, AtMostOnce, Once, NonIdempotent
  <2>3. DoneIsReal
    BY <2>1 DEF DoneIsReal, Earned, Real, TypeOK, Checkpoint
  <2>4. NeverStranded  BY <2>1, ReadyUnlessFinished DEF NeverStranded
  <2>5. DependenciesFirst
    BY <2>1 DEF DependenciesFirst, Earned, Real, Batch
  <2> QED  BY <2>2, <2>3, <2>4, <2>5 DEF JoinSafe
<1> QED  BY <1>1, PlanInvariance, PTL
-----------------------------------------------------------------------------
(* Chains: every task before a task is one it depends on, or comes before    *)
(* one.  No router and no run() raises, as in the code's own implementations *)
(* unless a write or a worker timeout intervenes.                            *)

Linear == \A t \in Tasks : \A d \in Tasks : d < t => \E e \in Deps[t] : d <= e
Chain  == Linear /\ Unroutable = {} /\ ~MayAbort

Alive == status \in {"resuming", "running", "settling", "awaiting"}

After(t, S) == \A d \in Tasks : d < t => d \in S \cup Internal

(* What has been handled, is in flight, or waits for its user, is where the  *)
(* chain has got to.                                                         *)
Lined ==
  /\ \A t \in marked \cup failed \cup Batch : After(t, done)
  /\ \A t \in disk.done \cup disk.failed : After(t, disk.done)
  /\ pending # NoPause => pending \notin Internal /\ After(pending, done)
  /\ disk.pending # NoPause
       => disk.pending \notin Internal /\ After(disk.pending, disk.done)

(* What runs was permitted, and a denial is about a task that is not.        *)
Cleared ==
  /\ \A t \in Tasks :
       t \in done \/ pc[t] = "running" \/ verdict[t] = "completed" => Permitted(t)
  /\ \A t \in disk.done : t \notin NeedsApproval \/ t \in disk.approved
  /\ disk.status = "running" => disk.pending \notin disk.resolved \ disk.approved
  /\ status = "resuming" => ~Denying
  /\ status = "running" /\ Denying => pending \in NeedsApproval

Answered ==
  \A t \in Tasks : /\ pc[t] = "returned" <=> verdict[t] # "none"
                   /\ verdict[t] \in Routed \cup {"none"}

(* Every mutation that was dispatched is on record or in flight, ...         *)
Accounted(t) ==
  Alive /\ t \in NonIdempotent /\ Exposure(t) > 0 =>
    \/ t \in done \cup failed \cup results
    \/ pc[t] = "running"
    \/ pc[t] = "returned" /\ verdict[t] # "paused"

(* ... and a kept result stands for its task.                                *)
Kept(t) ==
  Alive /\ t \in results => t \in replay \cup done \/ verdict[t] = "completed"

AllReal == \A t \in Tasks \ Internal : Real(t)

Earnest ==
  /\ final = "completed" => failed = {}
  /\ status = "settling" /\ final = "completed" => AllReal
  /\ status = "completed" \/ disk.status = "completed" => AllReal

ChainOrder  == Lined /\ Cleared /\ Answered /\ Earnest /\ replay \subseteq results
ChainRecord == AtMostOnce /\ SafeCheckpointCovers
               /\ \A t \in Tasks : Accounted(t) /\ Kept(t)
ChainInv    == PlanInv /\ ChainOrder /\ ChainRecord

LEMMA ChainInitially == Init => ChainInv
<1> SUFFICES ASSUME Init PROVE ChainInv  OBVIOUS
<1>1. PlanInv  BY PlanInitially
<1>2. Lined  BY DEF Init, Lined, Batch
<1>3. Cleared  BY DEF Init, Cleared, Denying
<1>4. Answered  BY DEF Init, Answered
<1>5. Earnest /\ replay \subseteq results  BY DEF Init, Earnest
<1>6. \A t \in Tasks : Exposure(t) = 0  BY DEF Init, Exposure
<1>7. AtMostOnce /\ SafeCheckpointCovers
  BY <1>6 DEF AtMostOnce, SafeCheckpointCovers, NonIdempotent
<1>8. \A t \in Tasks : Accounted(t) /\ Kept(t)
  BY <1>6 DEF Init, Accounted, Kept
<1> QED
  BY <1>1, <1>2, <1>3, <1>4, <1>5, <1>7, <1>8 DEF ChainInv, ChainOrder, ChainRecord

LEMMA ChainParts ==
  ASSUME ChainInv
  PROVE  /\ PlanInv /\ TypeOK /\ Asked /\ Apart
         /\ Lined /\ Cleared /\ Answered /\ Earnest /\ replay \subseteq results
         /\ AtMostOnce /\ SafeCheckpointCovers
         /\ \A t \in Tasks : Earned(t) /\ Accounted(t) /\ Kept(t)
BY DEF ChainInv, ChainOrder, ChainRecord, PlanInv

(* Nothing else is in flight, and nothing has failed.                        *)
LEMMA Alone ==
  ASSUME TypeOK, Apart, Lined, NEW t \in Batch
  PROVE  Batch = {t} /\ failed = {}
<1>1. /\ Batch \subseteq Tasks /\ failed \subseteq Tasks /\ Tasks \subseteq Nat
      /\ done \subseteq marked
  BY PlanAssumption DEF Batch, TypeOK, Apart
<1>2. ASSUME NEW u \in Batch \cup failed, u # t  PROVE FALSE
  <2>1. u < t \/ t < u  BY <1>1, <1>2
  <2>2. CASE t < u
    <3>1. t \in done \cup Internal  BY <1>1, <2>2 DEF Lined, After
    <3> QED  BY <1>1, <3>1 DEF Apart
  <2>3. CASE u < t
    <3>1. u \in done \cup Internal  BY <1>1, <2>3 DEF Lined, After
    <3> QED  BY <1>1, <3>1 DEF Apart
  <2> QED  BY <2>1, <2>2, <2>3
<1>3. t \notin failed  BY DEF Apart
<1> QED  BY <1>2, <1>3

(* A mutation that is not in flight is on record.                            *)
LEMMA OnRecord ==
  ASSUME Alive, NEW t \in NonIdempotent, Accounted(t), Exposure(t) > 0,
         pc[t] \notin {"running", "returned"}
  PROVE  t \in done \cup failed \cup results
BY DEF Accounted

LEMMA NextBatchChain ==
  ASSUME Chain, ChainInv, NextBatch, PlanInv'
  PROVE  ChainInv'
<1> DEFINE ready == Ready(marked, failed)
           work  == ready \ Internal
<1>0. /\ TypeOK /\ Apart /\ Lined /\ Cleared /\ Answered /\ Earnest
      /\ replay \subseteq results /\ AtMostOnce /\ SafeCheckpointCovers
      /\ \A t \in Tasks : Accounted(t) /\ Kept(t)
  BY ChainParts
<1>1. /\ status = "running" /\ Batch = {}
      /\ marked' = marked \cup (ready \cap Internal)
      /\ UNCHANGED <<status, pending, done, failed, final, resolved, approved,
                     consumed, results, replay, world, disk, crashes>>
  BY DEF NextBatch
<1>2. /\ pc' = [t \in Tasks |-> IF t \in work THEN "dispatched" ELSE "idle"]
      /\ verdict' = [t \in Tasks |-> "none"]
  <2>1. PICK lost \in SUBSET (work \cap Unroutable) :
        /\ pc' = [t \in Tasks |-> CASE t \in lost -> "returned"
                                    [] t \in work \ lost -> "dispatched"
                                    [] OTHER -> "idle"]
        /\ verdict' = [t \in Tasks |-> IF t \in lost THEN "unroutable"
                                                     ELSE "none"]
    BY DEF NextBatch
  <2>2. lost = {}  BY DEF Chain
  <2> QED  BY <2>1, <2>2
<1>3. /\ ready \subseteq Tasks /\ Batch' = work
      /\ \A t \in ready : Deps[t] \subseteq marked
  BY <1>2 DEF Ready, Batch
<1>4. \A t \in Tasks : /\ pc[t] = "idle" /\ verdict[t] = "none"
                       /\ pc'[t] \in {"idle", "dispatched"} /\ verdict'[t] = "none"
  BY <1>0, <1>1, <1>2 DEF Batch, Answered
<1>5. \A t \in ready : After(t, done)
  <2> SUFFICES ASSUME NEW t \in ready, NEW d \in Tasks, d < t
               PROVE  d \in done \cup Internal
    BY DEF After
  <2>1. PICK e \in Deps[t] : d <= e  BY <1>3 DEF Chain, Linear
  <2>2. e \in marked /\ e \in Tasks /\ e \in Nat /\ d \in Nat
    BY <1>3, <2>1, PlanAssumption
  <2>3. CASE d = e  BY <1>0, <2>2, <2>3 DEF Apart
  <2>4. CASE d # e
    <3>1. d < e  BY <2>1, <2>2, <2>4
    <3> QED  BY <1>0, <2>2, <3>1 DEF Lined, After
  <2> QED  BY <2>3, <2>4
<1>6. Lined'
  <2>1. \A t \in marked' \cup failed' \cup Batch' : After(t, done)'
    <3>1. \A t \in marked \cup failed : After(t, done)  BY <1>0 DEF Lined
    <3> QED  BY <1>1, <1>3, <1>5, <3>1 DEF After
  <2> QED  BY <1>0, <1>1, <2>1 DEF Lined, After
<1>7. Cleared'
  BY <1>0, <1>1, <1>4 DEF Cleared, Denying, Permitted
<1>8. Answered'  BY <1>4 DEF Answered
<1>9. Earnest'  BY <1>0, <1>1 DEF Earnest, AllReal, Real, world
<1>10. AtMostOnce' /\ SafeCheckpointCovers'
  BY <1>0, <1>1 DEF AtMostOnce, SafeCheckpointCovers, Exposure, world
<1>11. \A t \in Tasks : Accounted(t)'
  BY <1>0, <1>1, <1>4 DEF Accounted, Alive, Exposure, world
<1>12. \A t \in Tasks : Kept(t)'
  BY <1>0, <1>1, <1>4 DEF Kept, Alive
<1> QED
  BY <1>0, <1>1, <1>6, <1>7, <1>8, <1>9, <1>10, <1>11, <1>12
     DEF ChainInv, ChainOrder, ChainRecord
(* The end of a batch in a chain: the one task completed, failed or paused.  *)
LEMMA OneFinishes ==
  ASSUME ChainInv, FinishBatch
  PROVE  \E t \in Batch :
           /\ Batch = {t} /\ failed = {} /\ pc[t] = "returned"
           /\ \/ /\ verdict[t] = "completed" /\ final' = "completed"
                 /\ done' = done \cup {t} /\ marked' = marked \cup {t}
                 /\ failed' = {}
                 /\ SaveRunning(TRUE) /\ UNCHANGED <<status, pending>>
              \/ /\ verdict[t] = "failed" /\ final' = "failed"
                 /\ done' = done /\ marked' = marked /\ failed' = {t}
                 /\ SaveRunning(TRUE) /\ UNCHANGED <<status, pending>>
              \/ /\ verdict[t] = "paused" /\ final' = "paused"
                 /\ UNCHANGED <<done, marked, failed, disk>>
                 /\ status' = "settling"
                 /\ pending' = IF Denying THEN pending ELSE t
<1>0. TypeOK /\ Apart /\ Lined /\ Answered  BY ChainParts
<1>1. BatchFrame /\ BatchEnds /\ BatchSaves  BY <1>0, FinishBatchParts
<1>2. PICK t \in Batch : TRUE  BY <1>1 DEF BatchFrame
<1>3. Batch = {t} /\ failed = {}  BY <1>0, <1>2, Alone
<1>4. t \in Tasks /\ pc[t] = "returned" /\ verdict[t] \in Routed
  BY <1>0, <1>1, <1>2 DEF BatchFrame, Answered, Batch
<1>5. Seen2 = {t}
  <2>1. t \in Nat  BY <1>4, PlanAssumption
  <2> QED  BY <1>3, <2>1 DEF Seen2, Seen
<1>6. /\ done' = done \cup OkNow /\ marked' = marked \cup OkNow
      /\ failed' = failed \cup BadNow
      /\ final' = verdict[t]
  BY <1>1, <1>4, <1>5 DEF BatchFrame, BatchEnds
<1>7. CASE verdict[t] = "completed"
  <2>1. OkNow = {t} /\ BadNow = {}  BY <1>5, <1>7 DEF OkNow, BadNow
  <2>2. SaveRunning(TRUE) /\ UNCHANGED <<status, pending>>
    BY <1>1, <1>3, <1>7 DEF BatchSaves
  <2> QED  BY <1>2, <1>3, <1>4, <1>6, <1>7, <2>1, <2>2
<1>8. CASE verdict[t] = "failed"
  <2>1. OkNow = {} /\ BadNow = {t}  BY <1>5, <1>8 DEF OkNow, BadNow
  <2>2. SaveRunning(TRUE) /\ UNCHANGED <<status, pending>>
    BY <1>1, <1>3, <1>8 DEF BatchSaves
  <2> QED  BY <1>2, <1>3, <1>4, <1>6, <1>8, <2>1, <2>2
<1>9. CASE verdict[t] = "paused"
  <2>1. OkNow = {} /\ BadNow = {}  BY <1>5, <1>9 DEF OkNow, BadNow
  <2>2. /\ disk' = disk /\ status' = "settling"
        /\ pending' = IF Denying THEN pending ELSE t
    BY <1>1, <1>3, <1>9 DEF BatchSaves
  <2> QED  BY <1>2, <1>3, <1>4, <1>6, <1>9, <2>1, <2>2
<1> QED  BY <1>4, <1>7, <1>8, <1>9 DEF Routed

LEMMA FinishBatchChain ==
  ASSUME Chain, ChainInv, FinishBatch, PlanInv'
  PROVE  ChainInv'
<1>0. /\ TypeOK /\ Apart /\ Lined /\ Cleared /\ Answered /\ Earnest
      /\ replay \subseteq results /\ AtMostOnce /\ SafeCheckpointCovers
      /\ \A t \in Tasks : Accounted(t) /\ Kept(t)
  BY ChainParts
<1>1. /\ status = "running" /\ Batch \subseteq Tasks
      /\ UNCHANGED <<resolved, approved, results, consumed, replay, world, crashes>>
      /\ \A u \in Tasks : pc'[u] = "idle" /\ verdict'[u] = "none"
      /\ Batch' = {}
  BY <1>0, FinishBatchParts DEF BatchFrame, Batch
<1>2. PICK t \in Batch :
           /\ Batch = {t} /\ failed = {} /\ pc[t] = "returned"
           /\ \/ /\ verdict[t] = "completed" /\ final' = "completed"
                 /\ done' = done \cup {t} /\ marked' = marked \cup {t}
                 /\ failed' = {}
                 /\ SaveRunning(TRUE) /\ UNCHANGED <<status, pending>>
              \/ /\ verdict[t] = "failed" /\ final' = "failed"
                 /\ done' = done /\ marked' = marked /\ failed' = {t}
                 /\ SaveRunning(TRUE) /\ UNCHANGED <<status, pending>>
              \/ /\ verdict[t] = "paused" /\ final' = "paused"
                 /\ UNCHANGED <<done, marked, failed, disk>>
                 /\ status' = "settling"
                 /\ pending' = IF Denying THEN pending ELSE t
  BY OneFinishes
<1>3. t \in Tasks /\ t \notin Internal /\ After(t, done)
  BY <1>0, <1>1, <1>2 DEF Apart, Lined
<1>4. /\ done \subseteq done' /\ done' \subseteq done \cup {t}
      /\ marked' \subseteq marked \cup {t} /\ failed' \subseteq failed \cup {t}
  BY <1>2
<1>5. \/ /\ status' = "settling" /\ verdict[t] = "paused" /\ done' = done
         /\ failed' = failed /\ disk' = disk /\ final' = "paused"
      \/ /\ verdict[t] # "paused" /\ UNCHANGED <<status, pending>>
         /\ t \in done' \cup failed'
         /\ verdict[t] = "completed" => t \in done'
         /\ final' = "completed" => failed' = {}
         /\ final' # "paused"
         /\ disk'.status = IF Denying THEN "awaiting" ELSE "running"
         /\ disk'.pending = pending
         /\ disk'.done = done' /\ disk'.failed = failed'
         /\ disk'.results = results /\ disk'.resolved = resolved
         /\ disk'.approved = approved
  <2>1. CASE SaveRunning(TRUE)
    <3>1. resolved' = resolved /\ approved' = approved /\ resolved' \subseteq Tasks
          /\ results' = results
      BY <1>0, <1>1 DEF TypeOK
    <3>2. /\ disk'.status = IF Denying THEN "awaiting" ELSE "running"
          /\ disk'.pending = pending
          /\ disk'.done = done' /\ disk'.failed = failed'
          /\ disk'.results = results /\ disk'.resolved = resolved
          /\ disk'.approved = approved
      BY <1>0, <2>1, <3>1, SavedRunningParts DEF Denying
    <3>3. CASE verdict[t] = "completed"  BY <1>2, <3>2, <3>3
    <3>4. CASE verdict[t] = "failed"  BY <1>2, <3>2, <3>4
    <3>5. CASE verdict[t] = "paused"  BY <1>2, <3>5
    <3> QED  BY <1>2, <3>3, <3>4, <3>5
  <2>2. CASE /\ verdict[t] = "paused" /\ final' = "paused"
             /\ UNCHANGED <<done, marked, failed, disk>>
             /\ status' = "settling"
    BY <2>2
  <2> QED  BY <1>2, <2>1, <2>2
<1>6. Lined'
  <2>1. \A u \in Nat : After(u, done) => After(u, done')
    BY <1>4 DEF After
  <2>2. \A u \in marked' \cup failed' : After(u, done')
    BY <1>3, <1>4, <2>1, <1>0 DEF Lined, After
  <2>3. /\ pending # NoPause => pending \notin Internal /\ After(pending, done')
        /\ After(t, done')
    BY <1>0, <1>3, <1>4 DEF Lined, After
  <2>4. pending' # NoPause => pending' \notin Internal /\ After(pending', done')
    BY <1>2, <1>3, <2>3
  <2>5. CASE disk' = disk  BY <1>0, <1>1, <2>2, <2>4, <2>5 DEF Lined, After
  <2>6. CASE /\ disk'.pending = pending
             /\ disk'.done = done' /\ disk'.failed = failed'
    <3>1. /\ \A u \in disk'.done \cup disk'.failed : After(u, disk'.done)
          /\ disk'.pending # NoPause
               => disk'.pending \notin Internal /\ After(disk'.pending, disk'.done)
      <4>1. done' \subseteq marked'
        BY <1>0, <1>2 DEF Apart
      <4> QED  BY <2>2, <2>3, <2>6, <4>1 
    <3> QED  BY <1>1, <2>2, <2>4, <3>1 DEF Lined, After
  <2> QED  BY <1>5, <2>5, <2>6
<1>7. Cleared'
  <2>1. \A u \in Tasks : u \in done' => Permitted(u)
    <3>1. t \in done' => t \in done \/ verdict[t] = "completed"  BY <1>2
    <3> QED  BY <1>0, <1>3, <1>4, <3>1 DEF Cleared
  <2>2. \A u \in Tasks : Permitted(u)' <=> Permitted(u)  BY <1>1 DEF Permitted
  <2>3. /\ \A u \in disk'.done : u \notin NeedsApproval \/ u \in disk'.approved
        /\ disk'.status = "running" => disk'.pending \notin disk'.resolved \ disk'.approved
    <3>1. CASE disk' = disk  BY <1>0, <3>1 DEF Cleared
    <3>2. CASE /\ disk'.status = IF Denying THEN "awaiting" ELSE "running"
               /\ disk'.pending = pending /\ disk'.done = done'
               /\ disk'.resolved = resolved /\ disk'.approved = approved
      <4>1. done' \subseteq Tasks  BY <1>0, <1>3, <1>4 DEF TypeOK
      <4>2. \A u \in done' : Permitted(u)  BY <2>1, <4>1
      <4> QED  BY <3>2, <4>2 DEF Permitted, Denying
    <3> QED  BY <1>5, <3>1, <3>2
  <2>4. status' = "running" /\ Denying' => pending' \in NeedsApproval
    BY <1>0, <1>1, <1>5 DEF Cleared, Denying
  <2>5. status' # "resuming"  BY <1>1, <1>5
  <2> QED  BY <1>1, <2>1, <2>2, <2>3, <2>4, <2>5 DEF Cleared
<1>8. Answered'  BY <1>1 DEF Answered
<1>9. Earnest'
  <2>1. AllReal' <=> AllReal  BY <1>1 DEF AllReal, Real, world
  <2>2. final' = "completed" => failed' = {}  BY <1>5
  <2>3. ~(status' = "settling" /\ final' = "completed")  BY <1>1, <1>5
  <2>4. disk'.status = "completed" => disk.status = "completed"  BY <1>5
  <2> QED  BY <1>0, <1>1, <1>5, <2>1, <2>2, <2>3, <2>4 DEF Earnest
<1>10. \A u \in NonIdempotent : Exposure(u) > 0 => 
         u \in done' \cup failed' \cup results
  <2> SUFFICES ASSUME NEW u \in NonIdempotent, Exposure(u) > 0
               PROVE  u \in done' \cup failed' \cup results
    OBVIOUS
  <2>1. u \in Tasks /\ Accounted(u) /\ Alive  BY <1>0, <1>1 DEF NonIdempotent, Alive
  <2>2. CASE u \in done \cup failed \cup results  BY <1>2, <1>4, <2>2
  <2>3. CASE pc[u] # "idle" /\ ~(u \in done \cup failed \cup results)
    <3>1. u = t  BY <1>2, <2>1, <2>3 DEF Batch
    <3>2. verdict[t] # "paused"  BY <1>2, <2>1, <2>3, <3>1 DEF Accounted
    <3> QED  BY <1>5, <3>1, <3>2
  <2> QED  BY <2>1, <2>2, <2>3 DEF Accounted
<1>11. \A u \in Tasks : Exposure(u)' = Exposure(u)  BY <1>1 DEF Exposure, world
<1>12. AtMostOnce'  BY <1>0, <1>11 DEF AtMostOnce, NonIdempotent
<1>13. SafeCheckpointCovers'
  <2>1. CASE disk' = disk
    BY <1>0, <1>11, <2>1 DEF SafeCheckpointCovers, NonIdempotent
  <2>2. CASE /\ disk'.done = done' /\ disk'.failed = failed'
             /\ disk'.results = results
    BY <1>10, <1>11, <2>2 DEF SafeCheckpointCovers, NonIdempotent
  <2> QED  BY <1>5, <2>1, <2>2
<1>14. \A u \in Tasks : Accounted(u)'
  BY <1>1, <1>10, <1>11 DEF Accounted
<1>15. \A u \in Tasks : Kept(u)'
  <2> SUFFICES ASSUME NEW u \in Tasks, u \in results PROVE u \in replay \cup done'
    BY <1>1 DEF Kept
  <2>1. u \in replay \cup done \/ verdict[u] = "completed"
    BY <1>0, <1>1 DEF Kept, Alive
  <2>2. CASE u \in replay \cup done  BY <1>4, <2>2
  <2>3. CASE verdict[u] = "completed"
    <3>1. pc[u] # "idle"  BY <1>0, <2>3 DEF Answered
    <3>2. u = t  BY <1>2, <3>1 DEF Batch
    <3> QED  BY <1>5, <2>3, <3>2
  <2> QED  BY <2>1, <2>2, <2>3
<1> QED
  BY <1>0, <1>1, <1>6, <1>7, <1>8, <1>9, <1>12, <1>13, <1>14, <1>15
     DEF ChainInv, ChainOrder, ChainRecord
(* A step that leaves the plan, the runtime and the world alone.             *)
LEMMA QuietChain ==
  ASSUME ChainInv, PlanInv',
         UNCHANGED <<flow, pc, verdict, results, replay, world>>,
         Alive' => Alive,
         pending' \in {pending, NoPause},
         \/ UNCHANGED <<disk>>
         \/ /\ disk'.done = done' /\ disk'.failed = failed'
            /\ disk'.pending \in {pending, NoPause},
         Cleared', Earnest', SafeCheckpointCovers'
  PROVE  ChainInv'
<1>0. /\ TypeOK /\ Apart /\ Lined /\ Answered
      /\ replay \subseteq results /\ AtMostOnce
      /\ \A t \in Tasks : Accounted(t) /\ Kept(t)
  BY ChainParts
<1>1. \A t \in Tasks : Exposure(t)' = Exposure(t)  BY DEF Exposure, world
<1>2. Lined'
  <2>1. /\ \A t \in marked' \cup failed' \cup Batch' : After(t, done')
        /\ pending' # NoPause => pending' \notin Internal /\ After(pending', done')
    BY <1>0 DEF Lined, After, Batch, flow
  <2>2. CASE UNCHANGED <<disk>>
    BY <1>0, <2>1, <2>2 DEF Lined, After
  <2>3. CASE /\ disk'.done = done' /\ disk'.failed = failed'
             /\ disk'.pending \in {pending, NoPause}
    <3>1. /\ \A t \in disk'.done \cup disk'.failed : After(t, disk'.done)
          /\ disk'.pending # NoPause
               => disk'.pending \notin Internal /\ After(disk'.pending, disk'.done)
      BY <1>0, <2>3 DEF Lined, After, Apart, flow
    <3> QED  BY <2>1, <3>1 DEF Lined, After
  <2> QED  BY <2>2, <2>3
<1>3. Answered'  BY <1>0 DEF Answered
<1>4. AtMostOnce'  BY <1>0, <1>1 DEF AtMostOnce, NonIdempotent
<1>5. \A t \in Tasks : Accounted(t)'  BY <1>0, <1>1 DEF Accounted, flow
<1>6. \A t \in Tasks : Kept(t)'  BY <1>0 DEF Kept, flow
<1> QED
  BY <1>0, <1>2, <1>3, <1>4, <1>5, <1>6 DEF ChainInv, ChainOrder, ChainRecord

(* What a checkpoint covers that is written when nothing is in flight.       *)
LEMMA RestCovers ==
  ASSUME ChainInv, Alive, Batch = {},
         UNCHANGED <<effects, armed>>,
         disk'.done = done, disk'.failed = failed, disk'.results = results
  PROVE  SafeCheckpointCovers'
<1>0. \A t \in Tasks : Accounted(t)  BY ChainParts
<1>1. \A t \in Tasks : pc[t] = "idle" /\ Exposure(t)' = Exposure(t)
  BY DEF Batch, Exposure
<1>2. \A t \in NonIdempotent : t \in Tasks  BY DEF NonIdempotent
<1> QED  BY <1>0, <1>1, <1>2, OnRecord DEF SafeCheckpointCovers

LEMMA FinishWorkflowChain ==
  ASSUME Chain, ChainInv, FinishWorkflow, PlanInv'
  PROVE  ChainInv'
<1>0. /\ TypeOK /\ Apart /\ Lined /\ Cleared /\ Earnest /\ SafeCheckpointCovers
      /\ \A t \in Tasks : Earned(t)
  BY ChainParts
<1>1. /\ status = "running" /\ Batch = {} /\ Finished /\ status' = "settling"
      /\ UNCHANGED <<pending, flow, pc, verdict, attempt, resolved, approved,
                     consumed, results, replay, world, disk, crashes>>
  BY DEF FinishWorkflow
<1>2. Cleared'
  BY <1>0, <1>1 DEF Cleared, Permitted, Denying, flow
<1>3. Earnest'
  <2>1. final = "completed" => AllReal
    <3> SUFFICES ASSUME final = "completed", NEW t \in Tasks \ Internal
                 PROVE  Real(t)
      BY DEF AllReal
    <3>1. Tasks \subseteq marked
      BY <1>0, <1>1, NothingBlocked DEF Earnest, Finished
    <3>2. t \in done  BY <1>0, <3>1 DEF Apart
    <3> QED  BY <1>0, <3>2 DEF Earned
  <2>2. AllReal' <=> AllReal  BY <1>1 DEF AllReal, Real, world
  <2> QED  BY <1>0, <1>1, <2>1, <2>2 DEF Earnest, flow
<1>4. SafeCheckpointCovers'
  BY <1>0, <1>1 DEF SafeCheckpointCovers, Exposure, world
<1> QED  BY <1>1, <1>2, <1>3, <1>4, QuietChain DEF Alive

LEMMA SettleChain ==
  ASSUME Chain, ChainInv, Settle, PlanInv'
  PROVE  ChainInv'
<1>0. TypeOK /\ Apart /\ Lined /\ Cleared /\ Earnest  BY ChainParts
<1>1. /\ SettledStatus \in Ended \cup {"awaiting"}
      /\ status = "settling" /\ status' = SettledStatus
      /\ pending' = IF SettledStatus = "awaiting" THEN pending ELSE NoPause
      /\ disk'.status = SettledStatus /\ disk'.pending = pending'
      /\ disk'.done = done' /\ disk'.failed = failed'
      /\ disk'.results = results' /\ disk'.resolved = resolved'
      /\ disk'.approved = approved'
      /\ UNCHANGED <<flow, resolved, approved, results, pc, verdict, attempt,
                     consumed, replay, world, crashes>>
  BY <1>0, SettleParts
<1>2. SettledStatus \notin {"running", "resuming", "settling"}
  BY <1>1 DEF Ended
<1>3. Cleared'
  <2>1. \A t \in done : Permitted(t)  BY <1>0 DEF Cleared, TypeOK
  <2>2. \A t \in disk'.done : t \notin NeedsApproval \/ t \in disk'.approved
    BY <1>1, <2>1 DEF Permitted, flow
  <2> QED  BY <1>0, <1>1, <1>2, <2>2 DEF Cleared, Permitted, flow
<1>4. Earnest'
  <2>1. AllReal' <=> AllReal  BY <1>1 DEF AllReal, Real, world
  <2>2. SettledStatus = "completed" => final = "completed"  BY DEF SettledStatus
  <2>3. SettledStatus = "completed" => AllReal  BY <1>0, <1>1, <2>2 DEF Earnest
  <2> QED  BY <1>0, <1>1, <1>2, <2>1, <2>3 DEF Earnest, flow
<1>5. SafeCheckpointCovers'
  <2>1. Batch = {} /\ Alive  BY <1>0, <1>1 DEF Apart, Alive
  <2> QED  BY <1>1, <2>1, RestCovers DEF flow, world
<1>6. Alive  BY <1>1 DEF Alive
<1>7. pending' \in {pending, NoPause}  BY <1>1
<1> QED  BY <1>1, <1>3, <1>4, <1>5, <1>6, <1>7, QuietChain

LEMMA ResumeChain ==
  ASSUME Chain, ChainInv, ResumePipeline, PlanInv'
  PROVE  ChainInv'
<1>0. TypeOK /\ Apart /\ Lined /\ Cleared /\ Earnest  BY ChainParts
<1>1. /\ status = "resuming" /\ status' = "running" /\ SaveRunning(TRUE)
      /\ UNCHANGED <<pending, flow, resolved, approved, results, pc, verdict,
                     attempt, consumed, replay, world, crashes>>
  BY <1>0, ResumeParts
<1>2. /\ ~Denying /\ ~Denying'  BY <1>0, <1>1 DEF Cleared, Denying
<1>3. /\ disk'.status = "running" /\ disk'.pending = pending
      /\ disk'.done = done' /\ disk'.failed = failed'
      /\ disk'.results = results' /\ disk'.resolved = resolved'
      /\ disk'.approved = approved'
  <2>1. resolved' \subseteq Tasks  BY <1>0, <1>1 DEF TypeOK
  <2> QED  BY <1>0, <1>1, <1>2, <2>1, SavedRunningParts DEF Denying
<1>4. Cleared'
  <2>1. \A t \in done : Permitted(t)  BY <1>0 DEF Cleared, TypeOK
  <2>2. /\ \A t \in disk'.done : t \notin NeedsApproval \/ t \in disk'.approved
        /\ disk'.pending \notin disk'.resolved \ disk'.approved
    BY <1>1, <1>2, <1>3, <2>1 DEF Permitted, flow, Denying
  <2> QED  BY <1>0, <1>1, <1>2, <2>2 DEF Cleared, Permitted, flow
<1>5. Earnest'
  <2>1. AllReal' <=> AllReal  BY <1>1 DEF AllReal, Real, world
  <2> QED  BY <1>0, <1>1, <1>3, <2>1 DEF Earnest, flow
<1>6. SafeCheckpointCovers'
  <2>1. Batch = {} /\ Alive  BY <1>0, <1>1 DEF Apart, Alive
  <2> QED  BY <1>1, <1>3, <2>1, RestCovers DEF flow, world
<1>7. Alive  BY <1>1 DEF Alive
<1> QED  BY <1>1, <1>3, <1>4, <1>5, <1>6, <1>7, QuietChain

LEMMA AnswerRaisesChain ==
  ASSUME Chain, ChainInv, NEW allow \in BOOLEAN, AnswerRaises(allow), PlanInv'
  PROVE  ChainInv'
<1>0. TypeOK /\ Apart /\ Lined /\ Cleared /\ Earnest  BY ChainParts
<1>1. /\ status = "awaiting" /\ status' \in {"awaiting", "failed"}
      /\ disk'.status = status' /\ disk'.pending = pending
      /\ disk'.done = done' /\ disk'.failed = failed'
      /\ disk'.results = results' /\ disk'.approved = approved'
      /\ UNCHANGED <<pending, flow, approved, results, pc, verdict, attempt,
                     consumed, replay, world, crashes>>
  BY <1>0, AnswerRaisesParts
<1>2. Cleared'
  <2>1. \A t \in done : Permitted(t)  BY <1>0 DEF Cleared, TypeOK
  <2>2. \A t \in disk'.done : t \notin NeedsApproval \/ t \in disk'.approved
    BY <1>1, <2>1 DEF Permitted, flow
  <2> QED  BY <1>0, <1>1, <2>2 DEF Cleared, Permitted, flow
<1>3. Earnest'
  <2>1. AllReal' <=> AllReal  BY <1>1 DEF AllReal, Real, world
  <2> QED  BY <1>0, <1>1, <2>1 DEF Earnest, flow
<1>4. SafeCheckpointCovers'
  <2>1. Batch = {} /\ Alive  BY <1>0, <1>1 DEF Apart, Alive
  <2> QED  BY <1>1, <2>1, RestCovers DEF flow, world
<1>5. Alive  BY <1>1 DEF Alive
<1> QED  BY <1>1, <1>2, <1>3, <1>4, <1>5, QuietChain

LEMMA AnswerChain ==
  ASSUME Chain, ChainInv, NEW allow \in BOOLEAN, Answer(allow), PlanInv'
  PROVE  ChainInv'
<1>0. /\ TypeOK /\ Apart /\ Lined /\ Cleared /\ Answered /\ Earnest
      /\ replay \subseteq results /\ AtMostOnce
      /\ \A t \in Tasks : Accounted(t) /\ Kept(t)
  BY ChainParts
<1>1. /\ status = "awaiting" /\ status' = "running"
      /\ pending \in NeedsApproval \ resolved
      /\ approved \subseteq approved' /\ resolved' \subseteq Tasks
      /\ EngineStarts(done, failed) /\ SaveRunning(TRUE)
      /\ UNCHANGED <<pending, done, failed, results, consumed, replay, world,
                     crashes>>
  BY <1>0, AnswerParts
<1>2. /\ marked' = done /\ final' = "none" /\ Batch' = {}
      /\ \A t \in Tasks : pc'[t] = "idle" /\ verdict'[t] = "none"
  <2>1. done \in SUBSET Tasks /\ failed \in SUBSET Tasks  BY <1>0 DEF TypeOK
  <2> QED  BY <1>0, <1>1, <2>1, EngineStartsParts
<1>3. /\ disk'.status = IF pending \in resolved' \ approved' THEN "awaiting"
                                                           ELSE "running"
      /\ disk'.pending = pending
      /\ disk'.done = done' /\ disk'.failed = failed'
      /\ disk'.results = results' /\ disk'.resolved = resolved'
      /\ disk'.approved = approved'
  BY <1>0, <1>1, SavedRunningParts
<1>4. Batch = {} /\ Alive /\ \A t \in Tasks : pc[t] = "idle" /\ verdict[t] = "none"
  BY <1>0, <1>1 DEF Apart, Alive, Batch, Answered
<1>5. Lined'
  BY <1>0, <1>1, <1>2, <1>3 DEF Lined, After, Apart
<1>6. Cleared'
  <2>1. \A t \in done : Permitted(t)  BY <1>0 DEF Cleared, TypeOK
  <2>2. \A t \in done : t \notin NeedsApproval \/ t \in approved'
    BY <1>1, <2>1 DEF Permitted
  <2>3. disk'.status = "running" => disk'.pending \notin disk'.resolved \ disk'.approved
    BY <1>3
  <2> QED  BY <1>1, <1>2, <1>3, <2>2, <2>3 DEF Cleared, Permitted
<1>7. Answered'  BY <1>2 DEF Answered
<1>8. Earnest'
  <2>1. AllReal' <=> AllReal  BY <1>1 DEF AllReal, Real, world
  <2> QED  BY <1>0, <1>1, <1>2, <1>3, <2>1 DEF Earnest
<1>9. \A t \in Tasks : Exposure(t)' = Exposure(t)  BY <1>1 DEF Exposure, world
<1>10. AtMostOnce'  BY <1>0, <1>9 DEF AtMostOnce, NonIdempotent
<1>11. SafeCheckpointCovers'
  BY <1>1, <1>3, <1>4, RestCovers DEF world
<1>12. \A t \in Tasks : Accounted(t)'
  <2> TAKE t \in Tasks
  <2>1. t \in NonIdempotent /\ Exposure(t) > 0 => t \in done \cup failed \cup results
    BY <1>0, <1>4, OnRecord
  <2> QED  BY <1>1, <1>9, <2>1 DEF Accounted
<1>13. \A t \in Tasks : Kept(t)'
  BY <1>0, <1>1, <1>4 DEF Kept
<1> QED
  BY <1>0, <1>1, <1>5, <1>6, <1>7, <1>8, <1>10, <1>11, <1>12, <1>13
     DEF ChainInv, ChainOrder, ChainRecord

LEMMA CrashChain ==
  ASSUME Chain, ChainInv, Crash, PlanInv'
  PROVE  ChainInv'
<1>0. /\ TypeOK /\ Lined /\ Cleared /\ Earnest /\ AtMostOnce
      /\ SafeCheckpointCovers
  BY ChainParts
<1>1. /\ EngineStarts({}, {}) /\ status' = "down" /\ pending' = NoPause
      /\ results' = {} /\ replay' = {}
      /\ armed' = [t \in Tasks |-> FALSE]
      /\ UNCHANGED <<effects, disk>>
  BY DEF Crash
<1>2. /\ done' = {} /\ failed' = {} /\ marked' = {} /\ Batch' = {} /\ final' = "none"
      /\ \A t \in Tasks : pc'[t] = "idle" /\ verdict'[t] = "none"
  <2>1. {} \in SUBSET Tasks  OBVIOUS
  <2> QED  BY <1>0, <1>1, <2>1, EngineStartsParts
<1>3. Lined'  BY <1>0, <1>1, <1>2 DEF Lined, After
<1>4. Cleared'  BY <1>0, <1>1, <1>2 DEF Cleared
<1>5. Answered'  BY <1>2 DEF Answered
<1>6. Earnest'
  <2>1. AllReal' <=> AllReal  BY <1>1 DEF AllReal, Real
  <2> QED  BY <1>0, <1>1, <1>2, <2>1 DEF Earnest
<1>7. \A t \in Tasks : /\ Exposure(t) \in 0..3 /\ Exposure(t)' \in 0..3
                       /\ Exposure(t)' <= Exposure(t)
  BY <1>0, <1>1 DEF Exposure, TypeOK, Many
<1>8. AtMostOnce'  BY <1>0, <1>7 DEF AtMostOnce, NonIdempotent
<1>9. SafeCheckpointCovers'
  <2>1. \A t \in NonIdempotent : Exposure(t)' > 0 => Exposure(t) > 0
    BY <1>7 DEF NonIdempotent
  <2> QED  BY <1>0, <1>1, <2>1 DEF SafeCheckpointCovers
<1>10. \A t \in Tasks : (Accounted(t) /\ Kept(t))'
  BY <1>1 DEF Accounted, Kept, Alive
<1> QED
  BY <1>1, <1>3, <1>4, <1>5, <1>6, <1>8, <1>9, <1>10
     DEF ChainInv, ChainOrder, ChainRecord

LEMMA RestartChain ==
  ASSUME Chain, ChainInv, Restart, PlanInv'
  PROVE  ChainInv'
<1>0. /\ TypeOK /\ Apart /\ Lined /\ Cleared /\ Earnest /\ AtMostOnce
      /\ SafeCheckpointCovers
  BY ChainParts
<1>1. /\ status' = RestoredStatus
      /\ RestoredStatus \in {"resuming", "awaiting"} \cup Ended
      /\ EngineStarts(disk.done, disk.failed)
      /\ disk.done \in SUBSET Tasks /\ disk.failed \in SUBSET Tasks
      /\ pending' = disk.pending /\ resolved' = disk.resolved
      /\ approved' = disk.approved
      /\ results' = disk.results /\ replay' = disk.results
      /\ disk'.status = disk.status /\ disk'.pending = disk.pending
      /\ disk'.done = disk.done /\ disk'.failed = disk.failed
      /\ disk'.results = disk.results /\ disk'.resolved = disk.resolved
      /\ disk'.approved = disk.approved
      /\ ~(disk'.status = "running" /\ disk'.safe)
      /\ RestoredStatus \in {"awaiting", "completed"}
           => disk.status = RestoredStatus
      /\ RestoredStatus = "resuming" => disk.status = "running" /\ disk.safe
      /\ UNCHANGED <<consumed, world, crashes>>
  BY <1>0, RestartParts
<1>2. /\ done' = disk.done /\ failed' = disk.failed /\ marked' = disk.done
      /\ Batch' = {} /\ final' = "none"
      /\ \A t \in Tasks : pc'[t] = "idle" /\ verdict'[t] = "none"
  BY <1>0, <1>1, EngineStartsParts
<1>3. Lined'  BY <1>0, <1>1, <1>2 DEF Lined, After
<1>4. Cleared'
  <2>1. status' = "resuming" => ~Denying'
    BY <1>0, <1>1 DEF Cleared, Denying
  <2>2. status' # "running"  BY <1>1 DEF Ended
  <2> QED  BY <1>0, <1>1, <1>2, <2>1, <2>2 DEF Cleared, Permitted
<1>5. Answered'  BY <1>2 DEF Answered
<1>6. Earnest'
  <2>1. AllReal' <=> AllReal  BY <1>1 DEF AllReal, Real, world
  <2> QED  BY <1>0, <1>1, <1>2, <2>1 DEF Earnest
<1>7. \A t \in Tasks : Exposure(t)' = Exposure(t)  BY <1>1 DEF Exposure, world
<1>8. AtMostOnce'  BY <1>0, <1>7 DEF AtMostOnce, NonIdempotent
<1>9. SafeCheckpointCovers'
  BY <1>0, <1>1, <1>7 DEF SafeCheckpointCovers, NonIdempotent
<1>10. \A t \in Tasks : Accounted(t)'
  <2> SUFFICES ASSUME NEW t \in NonIdempotent, Alive', Exposure(t) > 0
               PROVE  t \in disk.done \cup disk.failed \cup disk.results
    BY <1>1, <1>2, <1>7 DEF Accounted
  <2>1. status' \in {"resuming", "awaiting"}  BY <1>1 DEF Alive, Ended
  <2> QED  BY <1>0, <1>1, <2>1 DEF SafeCheckpointCovers
<1>11. \A t \in Tasks : Kept(t)'  BY <1>1 DEF Kept
<1> QED
  BY <1>1, <1>3, <1>4, <1>5, <1>6, <1>8, <1>9, <1>10, <1>11
     DEF ChainInv, ChainOrder, ChainRecord

LEMMA LandChain ==
  ASSUME Chain, ChainInv, NEW t \in Tasks, Land(t), PlanInv'
  PROVE  ChainInv'
<1>0. /\ TypeOK /\ Lined /\ Cleared /\ Answered /\ Earnest
      /\ replay \subseteq results /\ AtMostOnce /\ SafeCheckpointCovers
      /\ \A u \in Tasks : Accounted(u) /\ Kept(u)
  BY ChainParts
<1>1. /\ \A u \in Tasks : Real(u) => Real(u)'
      /\ UNCHANGED <<status, pending, flow, pc, verdict, attempt, resolved,
                     approved, consumed, results, replay, disk, crashes>>
  BY <1>0, LandParts
<1>2. \A u \in Tasks : /\ Exposure(u) \in 0..3 /\ Exposure(u)' \in 0..3
                       /\ Exposure(u)' <= Exposure(u)
  <2>1. TypeOK'  BY DEF PlanInv
  <2>2. \A u \in Tasks : Exposure(u) \in 0..3 /\ Exposure(u)' \in 0..3
    BY <1>0, <2>1 DEF TypeOK, Exposure, Many
  <2>3. /\ Exposure(t)' <= Exposure(t)
        /\ \A u \in Tasks \ {t} : Exposure(u)' = Exposure(u)
    BY <1>0, LandExposes
  <2> QED  BY <2>2, <2>3
<1>3. \A u \in Tasks : Exposure(u)' > 0 => Exposure(u) > 0  BY <1>2
<1>4. Lined'  BY <1>0, <1>1 DEF Lined, After, Batch, flow
<1>5. Cleared'  BY <1>0, <1>1 DEF Cleared, Permitted, Denying, flow
<1>6. Answered'  BY <1>0, <1>1 DEF Answered
<1>7. Earnest'  BY <1>0, <1>1 DEF Earnest, AllReal, flow
<1>8. AtMostOnce'  BY <1>0, <1>2 DEF AtMostOnce, NonIdempotent
<1>9. SafeCheckpointCovers'
  BY <1>0, <1>1, <1>3 DEF SafeCheckpointCovers, NonIdempotent
<1>10. \A u \in Tasks : Accounted(u)'
  BY <1>0, <1>1, <1>3 DEF Accounted, Alive, flow
<1>11. \A u \in Tasks : Kept(u)'  BY <1>0, <1>1 DEF Kept, Alive, flow
<1> QED
  BY <1>0, <1>1, <1>4, <1>5, <1>6, <1>7, <1>8, <1>9, <1>10, <1>11
     DEF ChainInv, ChainOrder, ChainRecord
(* A dispatch is of something that has had no effect: what was dispatched    *)
(* and is waiting again has a kept result, which replaces the dispatch.      *)
LEMMA DispatchedUnexposed ==
  ASSUME ChainInv, Alive, NEW t \in NonIdempotent, pc[t] = "dispatched",
         t \notin replay
  PROVE  Exposure(t) = 0
<1>0. /\ TypeOK /\ Apart /\ Answered
      /\ \A u \in Tasks : Accounted(u) /\ Kept(u)
  BY ChainParts
<1>1. t \in Tasks /\ t \in Batch  BY DEF NonIdempotent, Batch
<1>2. t \notin done \cup failed  BY <1>0, <1>1 DEF Apart
<1>3. verdict[t] = "none"  BY <1>0, <1>1 DEF Answered
<1>4. t \notin results  BY <1>0, <1>1, <1>2, <1>3 DEF Kept
<1>5. ~(Exposure(t) > 0)  BY <1>0, <1>1, <1>2, <1>4 DEF Accounted
<1>6. Exposure(t) \in 0..3  BY <1>0, <1>1, ExposureType
<1> QED  BY <1>5, <1>6

(* While a denial is being run on, the pending task is the one in flight.    *)
LEMMA DeniedInFlight ==
  ASSUME ChainInv, status = "running", Denying, NEW t \in Batch
  PROVE  pending = t /\ ~Permitted(t)
<1>0. /\ TypeOK /\ Apart /\ Lined /\ Cleared  BY ChainParts
<1>1. /\ pending \in NeedsApproval /\ pending \notin approved /\ pending # NoPause
      /\ pending \in Tasks
  BY <1>0, PlanAssumption DEF Cleared, Denying, NoPause
<1>2. t \in Tasks /\ t \in Nat /\ pending \in Nat
  BY <1>1, PlanAssumption DEF Batch
<1>3. CASE t < pending
  <2>1. t \in done \cup Internal  BY <1>0, <1>1, <1>2, <1>3 DEF Lined, After
  <2> QED  BY <1>0, <2>1 DEF Apart
<1>4. CASE pending < t
  <2>1. pending \in done  BY <1>0, <1>1, <1>2, <1>4 DEF Lined, After
  <2> QED  BY <1>0, <1>1, <2>1 DEF Cleared, Permitted
<1>5. ~Permitted(pending)  BY <1>1 DEF Permitted
<1> QED  BY <1>2, <1>3, <1>4, <1>5

(* What a step of run() does to the exposure of its task.                    *)
LEMMA RunExposes ==
  ASSUME ChainInv, NEW t \in Tasks, RunChange(t), TypeOK'
  PROVE  /\ t \in NonIdempotent => Exposure(t)' <= 1
         /\ \A u \in Tasks \ {t} : Exposure(u)' = Exposure(u)
         /\ Unfelt(t) => Exposure(t)' = Exposure(t)
         /\ t \in NonIdempotent /\ armed[t] /\ ~armed'[t] => Exposure(t)' = 0
<1>0. TypeOK /\ AtMostOnce  BY ChainParts
<1>1. RunFrame(t)  BY DEF RunChange
<1>2. effects' = effects /\ \A u \in Tasks \ {t} : armed'[u] = armed[u]
  BY <1>1 DEF RunFrame
<1>3. \A u \in Tasks \ {t} : Exposure(u)' = Exposure(u)  BY <1>2 DEF Exposure
<1>4. effects[t] \in 0..2  BY <1>0 DEF TypeOK, Many
<1>5. t \in NonIdempotent => Exposure(t) <= 1  BY <1>0 DEF AtMostOnce
<1>6. Unfelt(t) => Exposure(t)' = Exposure(t)  BY <1>2 DEF Unfelt, Exposure
<1>7. t \in NonIdempotent /\ armed[t] /\ ~armed'[t] => Exposure(t)' = 0
  BY <1>2, <1>4, <1>5 DEF Exposure
<1>8. t \in NonIdempotent => Exposure(t)' <= 1
  <2> SUFFICES ASSUME t \in NonIdempotent PROVE Exposure(t)' <= 1  OBVIOUS
  <2>1. CASE Unfelt(t)  BY <1>5, <1>6, <2>1
  <2>2. CASE ~armed'[t]
    <3>1. effects[t] <= 1  BY <1>4, <1>5 DEF Exposure
    <3> QED  BY <1>2, <1>4, <2>2, <3>1 DEF Exposure
  <2>3. CASE pc[t] = "dispatched" /\ t \notin replay
    <3>1. Exposure(t) = 0
      BY <1>1, <2>3, DispatchedUnexposed DEF RunFrame, Alive
    <3> QED  BY <1>2, <1>4, <3>1 DEF Exposure
  <2> QED  BY <2>1, <2>2, <2>3 DEF RunChange, Begun, Tried, Aborted
<1> QED  BY <1>3, <1>6, <1>7, <1>8

LEMMA RunAnswered ==
  ASSUME Chain, ChainInv, NEW t \in Tasks, RunChange(t), TypeOK'
  PROVE  Answered'
<1>0. TypeOK /\ Answered  BY ChainParts
<1>1. RunFrame(t)  BY DEF RunChange
<1>2. \A u \in Tasks \ {t} : pc'[u] = pc[u] /\ verdict'[u] = verdict[u]
  BY <1>1 DEF RunFrame
<1>3. verdict[t] = "none"  BY <1>0, <1>1 DEF Answered, RunFrame
<1>4. /\ pc'[t] = "returned" <=> verdict'[t] # "none"
      /\ verdict'[t] \in Routed \cup {"none"}
  BY <1>3 DEF RunChange, Begun, Tried, Aborted, Returned, Again, Routed, Chain
<1> QED  BY <1>0, <1>2, <1>4 DEF Answered

(* The task of the step: on record or in flight, or without effect.          *)
LEMMA RunAccounted ==
  ASSUME Chain, ChainInv, NEW t \in Tasks, RunChange(t), TypeOK'
  PROVE  (Accounted(t) /\ Kept(t))'
<1>0. /\ TypeOK /\ Apart /\ Answered /\ Accounted(t) /\ Kept(t)  BY ChainParts
<1>1. /\ status = "running" /\ pc[t] \in {"dispatched", "running"}
      /\ UNCHANGED <<status, done, failed, replay>>
      /\ results \subseteq results' /\ results' \subseteq results \cup {t}
  BY DEF RunChange, RunFrame
<1>2. verdict[t] = "none" /\ Alive  BY <1>0, <1>1 DEF Answered, Alive
<1>3. t \in results => t \in replay \cup done  BY <1>0, <1>2 DEF Kept
<1>4. t \in results' => t \in results \/ verdict'[t] = "completed"
  BY DEF RunChange, Begun, Tried, Aborted, Unfelt, Returned
<1>5. Kept(t)'  BY <1>1, <1>3, <1>4 DEF Kept
<1>6. Accounted(t)'
  <2> SUFFICES ASSUME t \in NonIdempotent, Exposure(t)' > 0
               PROVE  \/ t \in done \cup failed \cup results'
                      \/ pc'[t] = "running"
                      \/ pc'[t] = "returned" /\ verdict'[t] # "paused"
    BY <1>1 DEF Accounted
  <2>1. CASE Begun(t)
    <3>1. CASE Unfelt(t) /\ Returned(t, "paused")
      <4>1. Exposure(t)' = Exposure(t)  BY <3>1, RunExposes
      <4>2. pc[t] = "dispatched"  BY <2>1 DEF Begun
      <4> QED  BY <1>0, <1>1, <1>2, <4>1, <4>2 DEF Accounted
    <3> QED  BY <2>1, <3>1 DEF Begun, Returned
  <2>2. CASE Tried(t)
    <3>1. CASE armed[t] /\ ~armed'[t]  
      <4>1. Exposure(t)' = 0  BY <3>1, RunExposes
      <4> QED  BY <4>1
    <3> QED  BY <2>2, <3>1 DEF Tried, Returned
  <2>3. CASE Aborted(t)  BY <2>3 DEF Aborted, Chain
  <2> QED  BY <2>1, <2>2, <2>3 DEF RunChange
<1> QED  BY <1>5, <1>6

LEMMA RunCovers ==
  ASSUME Chain, ChainInv, NEW t \in Tasks, RunChange(t), TypeOK'
  PROVE  SafeCheckpointCovers'
<1>0. /\ TypeOK /\ Apart /\ Lined /\ Cleared /\ Answered /\ SafeCheckpointCovers
      /\ \A u \in Tasks : Accounted(u)
  BY ChainParts
<1>1. RunFrame(t)  BY DEF RunChange
<1>2. /\ status = "running" /\ t \in Batch /\ Alive
      /\ UNCHANGED <<pending, done, failed, resolved, approved>>
      /\ results \subseteq results'
  BY <1>1 DEF RunFrame, Batch, Alive
<1>3. /\ \A u \in Tasks \ {t} : Exposure(u)' = Exposure(u)
      /\ Unfelt(t) => Exposure(t)' = Exposure(t)
      /\ t \in NonIdempotent /\ armed[t] /\ ~armed'[t] => Exposure(t)' = 0
  BY RunExposes
<1>4. \A u \in NonIdempotent \ {t} : 
        Exposure(u)' > 0 => u \in done \cup failed \cup results
  <2> TAKE u \in NonIdempotent \ {t}
  <2>1. u \in Tasks  BY DEF NonIdempotent
  <2>2. pc[u] = "idle"  BY <1>0, <1>2, <2>1, Alone DEF Batch
  <2> QED  BY <1>0, <1>2, <1>3, <2>1, <2>2, OnRecord
<1>5. CASE disk' = disk /\ Unfelt(t)
  <2>1. \A u \in NonIdempotent : Exposure(u)' = Exposure(u)
    BY <1>3, <1>5 DEF NonIdempotent
  <2> QED  BY <1>0, <1>5, <2>1 DEF SafeCheckpointCovers
<1>6. ASSUME NEW safe \in BOOLEAN, SaveRunning(safe),
             safe /\ t \in NonIdempotent /\ Exposure(t)' > 0 => t \in results',
             Permitted(t) \/ (pc[t] = "dispatched" /\ Unfelt(t))
      PROVE  SafeCheckpointCovers'
  <2>1. resolved' \subseteq Tasks  BY <1>0, <1>2 DEF TypeOK
  <2>2. /\ disk'.status = IF Denying THEN "awaiting" ELSE "running"
        /\ disk'.safe = safe
        /\ disk'.done = done /\ disk'.failed = failed /\ disk'.results = results'
    BY <1>0, <1>2, <1>6, <2>1, SavedRunningParts DEF Denying
  <2>3. CASE Denying
    <3>1. ~Permitted(t)  BY <1>2, <2>3, DeniedInFlight
    <3>2. Exposure(t)' = Exposure(t) /\ pc[t] = "dispatched"
      BY <1>3, <1>6, <3>1
    <3>3. t \in NonIdempotent /\ Exposure(t) > 0 => t \in done \cup failed \cup results
      BY <1>0, <1>2, <3>2, OnRecord
    <3> QED  BY <1>2, <1>4, <2>2, <3>2, <3>3 DEF SafeCheckpointCovers
  <2>4. CASE ~Denying
    <3>1. safe => \A u \in NonIdempotent :
                    Exposure(u)' > 0 => u \in done \cup failed \cup results'
      BY <1>2, <1>4, <1>6
    <3> QED  BY <2>2, <2>4, <3>1 DEF SafeCheckpointCovers
  <2> QED  BY <2>3, <2>4
<1>7. CASE Begun(t)
  <2>1. CASE disk' = disk
    <3>1. CASE Unfelt(t)  BY <1>5, <2>1, <3>1
    <3>2. CASE /\ SaveRunning(t \notin NonIdempotent) /\ Permitted(t)
      BY <1>6, <3>2
    <3> QED  BY <1>7, <3>1, <3>2 DEF Begun
  <2>2. CASE /\ SaveRunning(t \notin NonIdempotent)
             /\ Permitted(t) \/ (pc[t] = "dispatched" /\ Unfelt(t))
    BY <1>6, <2>2
  <2> QED  BY <1>7, <2>1, <2>2 DEF Begun
<1>8. CASE Tried(t)
  <2>1. Permitted(t)  BY <1>0, <1>8 DEF Cleared, Tried
  <2>2. CASE SaveRunning(TRUE) /\ t \in results'  BY <1>6, <2>1, <2>2
  <2>3. CASE SaveRunning(TRUE) /\ armed[t] /\ ~armed'[t]
    <3>1. ~(t \in NonIdempotent /\ Exposure(t)' > 0)  BY <1>3, <2>3
    <3> QED  BY <1>6, <2>1, <2>3, <3>1
  <2>4. CASE SaveRunning(t \notin NonIdempotent)  BY <1>6, <2>1, <2>4
  <2> QED  BY <1>8, <2>2, <2>3, <2>4 DEF Tried
<1>9. CASE Aborted(t)  BY <1>9 DEF Aborted, Chain
<1> QED  BY <1>7, <1>8, <1>9 DEF RunChange

LEMMA RunCleared ==
  ASSUME Chain, ChainInv, NEW t \in Tasks, RunChange(t), TypeOK'
  PROVE  Cleared'
<1>0. /\ TypeOK /\ Apart /\ Lined /\ Cleared /\ Answered  BY ChainParts
<1>1. RunFrame(t)  BY DEF RunChange
<1>2. /\ status = "running" /\ verdict[t] = "none"
      /\ UNCHANGED <<status, pending, done, resolved, approved>>
      /\ \A u \in Tasks \ {t} : pc'[u] = pc[u] /\ verdict'[u] = verdict[u]
  BY <1>0, <1>1 DEF RunFrame, Answered
<1>3. pc'[t] = "running" \/ verdict'[t] = "completed" => Permitted(t)
  <2>1. CASE Begun(t)  BY <1>2, <2>1 DEF Begun, Returned
  <2>2. CASE Tried(t)  BY <1>0, <2>2 DEF Tried, Cleared
  <2>3. CASE Aborted(t)  BY <2>3 DEF Aborted, Returned
  <2> QED  BY <2>1, <2>2, <2>3 DEF RunChange
<1>4. \A u \in Tasks :
        u \in done' \/ pc'[u] = "running" \/ verdict'[u] = "completed"
          => Permitted(u)
  BY <1>0, <1>2, <1>3 DEF Cleared
<1>5. /\ \A u \in disk'.done : u \notin NeedsApproval \/ u \in disk'.approved
      /\ disk'.status = "running" => disk'.pending \notin disk'.resolved \ disk'.approved
  <2>1. CASE disk' = disk  BY <1>0, <2>1 DEF Cleared
  <2>2. CASE /\ disk'.status = IF Denying THEN "awaiting" ELSE "running"
             /\ disk'.pending = pending /\ disk'.done = done'
             /\ disk'.resolved = resolved' /\ disk'.approved = approved'
    <3>1. \A u \in done : Permitted(u)  BY <1>0 DEF Cleared, TypeOK
    <3> QED  BY <1>2, <2>2, <3>1 DEF Permitted, Denying
  <2> QED  BY <1>0, <1>1, <2>1, <2>2, RunSaves
<1> QED  BY <1>0, <1>2, <1>4, <1>5 DEF Cleared, Permitted, Denying

LEMMA RunChain ==
  ASSUME Chain, ChainInv, NEW t \in Tasks, RunStep(t), PlanInv'
  PROVE  ChainInv'
<1>0. /\ TypeOK /\ Asked /\ Apart /\ Lined /\ Cleared /\ Answered /\ Earnest
      /\ replay \subseteq results /\ AtMostOnce
      /\ \A u \in Tasks : Accounted(u) /\ Kept(u)
  BY ChainParts
<1>1. RunChange(t) /\ TypeOK'  BY <1>0, RunChanges
<1>2. RunFrame(t)  BY <1>1 DEF RunChange
<1>3. /\ status = "running"
      /\ UNCHANGED <<status, pending, done, failed, marked, final, replay, effects>>
      /\ results \subseteq results' /\ results' \subseteq results \cup {t}
      /\ \A u \in Tasks \ {t} : pc'[u] = pc[u] /\ verdict'[u] = verdict[u]
  BY <1>2 DEF RunFrame
<1>4. \/ disk' = disk
      \/ /\ disk'.status = IF Denying THEN "awaiting" ELSE "running"
         /\ disk'.pending = pending
         /\ disk'.done = done' /\ disk'.failed = failed'
  BY <1>0, <1>2, RunSaves
<1>5. Lined'
  <2>1. Batch' = Batch  BY <1>0, <1>1, RunApart
  <2>2. /\ \A u \in disk'.done \cup disk'.failed : After(u, disk'.done)
        /\ disk'.pending # NoPause
             => disk'.pending \notin Internal /\ After(disk'.pending, disk'.done)
    BY <1>0, <1>3, <1>4 DEF Lined, After, Apart
  <2> QED  BY <1>0, <1>3, <2>1, <2>2 DEF Lined, After
<1>6. Cleared' /\ Answered' /\ SafeCheckpointCovers'
  BY <1>1, RunCleared, RunAnswered, RunCovers
<1>7. Earnest'
  <2>1. AllReal' <=> AllReal  BY <1>3 DEF AllReal, Real
  <2> QED  BY <1>0, <1>3, <1>4, <2>1 DEF Earnest
<1>8. AtMostOnce'
  BY <1>0, <1>1, RunExposes DEF AtMostOnce, NonIdempotent
<1>9. \A u \in Tasks : (Accounted(u) /\ Kept(u))'
  <2> TAKE u \in Tasks
  <2>1. CASE u = t  BY <1>1, <2>1, RunAccounted
  <2>2. CASE u # t
    <3>1. Exposure(u)' = Exposure(u)  BY <1>1, <2>2, RunExposes
    <3>2. u \in results' <=> u \in results  BY <1>3, <2>2
    <3>3. Accounted(u)'
      BY <1>0, <1>3, <2>2, <3>1, <3>2 DEF Accounted, Alive
    <3>4. Kept(u)'  BY <1>0, <1>3, <2>2, <3>2 DEF Kept, Alive
    <3> QED  BY <3>3, <3>4
  <2> QED  BY <2>1, <2>2
<1> QED
  BY <1>0, <1>3, <1>5, <1>6, <1>7, <1>8, <1>9 DEF ChainInv, ChainOrder, ChainRecord

LEMMA ChainStep ==
  ASSUME Chain, ChainInv, [Next]_vars
  PROVE  ChainInv'
<1>1. PlanInv'  BY ChainParts, PlanStep
<1>2. CASE EngineStep
  BY <1>1, <1>2, NextBatchChain, FinishBatchChain, FinishWorkflowChain,
     SettleChain, RestartChain, ResumeChain DEF EngineStep
<1>3. CASE \E t \in Tasks : RunStep(t) \/ Land(t)
  BY <1>1, <1>3, RunChain, LandChain
<1>4. CASE \E allow \in BOOLEAN : Answer(allow) \/ AnswerRaises(allow)
  BY <1>1, <1>4, AnswerChain, AnswerRaisesChain
<1>5. CASE Crash  BY <1>1, <1>5, CrashChain
<1>6. CASE UNCHANGED vars
  <2>1. Lined' /\ Cleared' /\ Answered' /\ Earnest' /\ (replay \subseteq results)'
    BY <1>6, ChainParts DEF Lined, Cleared, Answered, Earnest, After, Batch,
       Denying, Permitted, AllReal, Real, vars
  <2>2. AtMostOnce' /\ SafeCheckpointCovers'
    BY <1>6, ChainParts DEF AtMostOnce, SafeCheckpointCovers, Exposure, vars
  <2>3. \A t \in Tasks : (Accounted(t) /\ Kept(t))'
    BY <1>6, ChainParts DEF Accounted, Kept, Alive, Exposure, vars
  <2> QED  BY <1>1, <2>1, <2>2, <2>3 DEF ChainInv, ChainOrder, ChainRecord
<1> QED  BY <1>2, <1>3, <1>4, <1>5, <1>6 DEF Next

-----------------------------------------------------------------------------
(* Theorem. In a chain of any length, through any number of pauses, denials, *)
(* retries, late effects, crashes and recoveries: no mutation takes effect   *)
(* twice, a checkpoint a restart may run from accounts for every mutation    *)
(* that was dispatched, and COMPLETED means that every task took effect      *)
(* (runtime/engine.py, recovery_safe, recovered_operation_results).          *)
THEOREM ChainIsSafe ==
  ASSUME Chain
  PROVE  Spec => []ChainSafe
<1>1. Init => ChainInv  BY ChainInitially
<1>2. ChainInv /\ [Next]_vars => ChainInv'  BY ChainStep
<1>3. ChainInv => ChainSafe
  <2> SUFFICES ASSUME ChainInv PROVE ChainSafe  OBVIOUS
  <2>1. CompletedMeansDone
    BY ChainParts DEF CompletedMeansDone, Earnest, AllReal, Real
  <2> QED  BY <2>1, ChainParts DEF ChainSafe
<1> QED  BY <1>1, <1>2, <1>3, PTL DEF Spec

-----------------------------------------------------------------------------
(* Plans: what Chosen keeps, where DetectIntent leads, what the branches lay *)
(* out, and what the optimizer, the resolver, the skills and the stages make *)
(* of it.                                                                    *)

(* What holds at first and from one step to the next holds at every step.    *)
LEMMA UpTheSteps ==
  ASSUME NEW N \in Nat, NEW T, 0 \in T, \A n \in 1..N : n - 1 \in T => n \in T
  PROVE  \A n \in 0..N : n \in T
<1>1. ASSUME NEW n \in 0..N, n \notin T PROVE FALSE
  <2> DEFINE Bad == {m \in 0..N : m \notin T}
  <2>1. PICK b \in Bad : \A m \in Bad : b <= m
    <3>1. Bad \in SUBSET Nat /\ n \in Bad  BY <1>1
    <3> HIDE DEF Bad
    <3> QED  BY <3>1, Least
  <2>2. b \in 0..N /\ b \notin T  BY <2>1
  <2>3. b # 0  BY <2>2
  <2>4. b \in 1..N /\ b - 1 \in 0..N /\ ~(b <= b - 1)  BY <2>2, <2>3
  <2>5. b - 1 \notin Bad
    <3> HIDE DEF Bad
    <3> QED  BY <2>1, <2>4
  <2>6. b - 1 \in T  BY <2>4, <2>5
  <2> QED  BY <2>2, <2>4, <2>6
<1> QED  BY <1>1

(* A recursion over the steps from 0 to N has a value at every one of them.  *)
HasRun(N, S, a, e) ==
  \E u \in [0..N -> S] : u[0] = a /\ \A n \in 1..N : u[n] = e[<<u[n - 1], n>>]

LEMMA RunsThrough ==
  ASSUME NEW N \in Nat, NEW S, NEW a \in S, NEW e \in [S \X (1..N) -> S]
  PROVE  HasRun(N, S, a, e)
<1> DEFINE Runs(m, u) == u[0] = a /\ \A n \in 1..m : u[n] = e[<<u[n - 1], n>>]
           T == {m \in 0..N : \E u \in [0..m -> S] : Runs(m, u)}
<1>1. 0 \in T
  <2>1. PICK u : u = [n \in 0..0 |-> a]  OBVIOUS
  <2>2. u \in [0..0 -> S] /\ u[0] = a /\ 1..0 = {}  BY <2>1
  <2> QED  BY <2>2
<1>2. ASSUME NEW m \in 1..N, m - 1 \in T PROVE m \in T
  <2>1. PICK u \in [0..(m - 1) -> S] : Runs(m - 1, u)  BY <1>2
  <2>2. m - 1 \in 0..(m - 1) /\ m \in 1..N  OBVIOUS
  <2>3. PICK x \in S : x = e[<<u[m - 1], m>>]  BY <2>1, <2>2
  <2>4. PICK v : v = [n \in 0..m |-> IF n = m THEN x ELSE u[n]]  OBVIOUS
  <2>5. v \in [0..m -> S] /\ v[0] = a
    <3>1. 0 \in 0..(m - 1) /\ 0 \in 0..m /\ 0 # m  OBVIOUS
    <3>2. \A n \in 0..m : n # m => n \in 0..(m - 1)  OBVIOUS
    <3> QED  BY <2>1, <2>3, <2>4, <3>1, <3>2
  <2>6. ASSUME NEW n \in 1..m PROVE v[n] = e[<<v[n - 1], n>>]
    <3>1. n \in 0..m /\ n - 1 \in 0..m /\ n - 1 # m  OBVIOUS
    <3>2. v[n - 1] = u[n - 1]  BY <2>4, <3>1
    <3>3. CASE n = m  BY <2>3, <2>4, <3>1, <3>2, <3>3
    <3>4. CASE n # m
      <4>1. n \in 1..(m - 1) /\ v[n] = u[n]  BY <2>4, <3>1, <3>4
      <4> QED  BY <2>1, <3>2, <4>1
    <3> QED  BY <3>3, <3>4
  <2> QED  BY <2>5, <2>6
<1>3. N \in T
  <2> HIDE DEF T
  <2>1. N \in 0..N  OBVIOUS
  <2> QED  BY <1>1, <1>2, <2>1, UpTheSteps
<1> QED  BY <1>3 DEF HasRun

(* What a loop that skips some elements leaves: the others, each once and in *)
(* order.                                                                    *)
Picks(s, keep, n, r) ==
  \E g \in [1..Len(r) -> 1..n] :
    /\ \A i \in 1..Len(r) : g[i] \in keep /\ r[i] = s[g[i]]
    /\ \A i, j \in 1..Len(r) : i < j => g[i] < g[j]
    /\ \A k \in 1..n : k \in keep => \E i \in 1..Len(r) : g[i] = k

LEMMA PicksThus ==
  ASSUME NEW s, NEW keep, NEW n, NEW r, NEW g \in [1..Len(r) -> 1..n],
         \A i \in 1..Len(r) : g[i] \in keep /\ r[i] = s[g[i]],
         \A i, j \in 1..Len(r) : i < j => g[i] < g[j],
         \A k \in 1..n : k \in keep => \E i \in 1..Len(r) : g[i] = k
  PROVE  Picks(s, keep, n, r)
BY Zenon DEF Picks

LEMMA PicksOneMore ==
  ASSUME NEW X, NEW s \in Seq(X), NEW keep, NEW n \in 1..Len(s), NEW m, m = n - 1,
         NEW r \in Seq(X), Picks(s, keep, m, r), NEW t,
         t = IF n \in keep THEN Append(r, s[n]) ELSE r
  PROVE  t \in Seq(X) /\ Picks(s, keep, n, t)
<1>1. PICK N \in Nat : N = Len(r)  OBVIOUS
<1>2. PICK g \in [1..N -> 1..(n - 1)] :
        /\ \A i \in 1..N : g[i] \in keep /\ r[i] = s[g[i]]
        /\ \A i, j \in 1..N : i < j => g[i] < g[j]
        /\ \A k \in 1..(n - 1) : k \in keep => \E i \in 1..N : g[i] = k
  <2>1. PICK g \in [1..Len(r) -> 1..m] :
          /\ \A i \in 1..Len(r) : g[i] \in keep /\ r[i] = s[g[i]]
          /\ \A i, j \in 1..Len(r) : i < j => g[i] < g[j]
          /\ \A k \in 1..m : k \in keep => \E i \in 1..Len(r) : g[i] = k
    BY Zenon DEF Picks
  <2> QED  BY <1>1, <2>1
<1>3. n \in Nat /\ s[n] \in X  OBVIOUS
<1>4. CASE n \in keep
  <2>1. PICK x \in X : x = s[n]  BY <1>3
  <2>2. /\ t \in Seq(X) /\ Len(t) = N + 1 /\ t[N + 1] = x
        /\ \A i \in 1..N : t[i] = r[i]
    BY <1>1, <1>4, <2>1
  <2>3. PICK h : h = [i \in 1..(N + 1) |-> IF i = N + 1 THEN n ELSE g[i]]  OBVIOUS
  <2>4. /\ \A i \in 1..N : i \in 1..(N + 1) /\ i # N + 1
        /\ \A i \in 1..(N + 1) : i = N + 1 \/ i \in 1..N
        /\ N + 1 \in 1..(N + 1)
    BY <1>1
  <2>5. h[N + 1] = n /\ \A i \in 1..N : h[i] = g[i] /\ g[i] \in 1..(n - 1)
    BY <1>2, <2>3, <2>4
  <2>6. h \in [1..(N + 1) -> 1..n]
    <3>1. ASSUME NEW i \in 1..(N + 1) PROVE h[i] \in 1..n
      <4>1. CASE i = N + 1  BY <1>3, <2>5, <4>1
      <4>2. CASE i \in 1..N
        <5>1. PICK y \in 1..(n - 1) : y = h[i]  BY <2>5, <4>2
        <5>2. y \in 1..n  BY <1>3
        <5> QED  BY <5>1, <5>2
      <4> QED  BY <2>4, <4>1, <4>2
    <3>2. DOMAIN h = 1..(N + 1) /\ h = [i \in 1..(N + 1) |-> h[i]]  BY <2>3
    <3> QED  BY <3>1, <3>2
  <2>7. \A i \in 1..(N + 1) : h[i] \in keep /\ t[i] = s[h[i]]
    BY <1>2, <1>4, <2>1, <2>2, <2>4, <2>5
  <2>8. ASSUME NEW i \in 1..(N + 1), NEW j \in 1..(N + 1), i < j PROVE h[i] < h[j]
    <3>1. i \in 1..N  BY <1>1, <2>8
    <3>2. CASE j = N + 1  BY <1>3, <2>5, <3>1, <3>2
    <3>3. CASE j \in 1..N  BY <1>2, <2>5, <2>8, <3>1, <3>3
    <3> QED  BY <2>4, <3>2, <3>3
  <2>9. ASSUME NEW k \in 1..n, k \in keep PROVE \E i \in 1..(N + 1) : h[i] = k
    <3>1. CASE k = n  BY <2>4, <2>5, <3>1
    <3>2. CASE k # n
      <4>1. k \in 1..(n - 1)  BY <1>3, <3>2
      <4>2. PICK i \in 1..N : g[i] = k  BY <1>2, <2>9, <4>1
      <4> QED  BY <2>4, <2>5, <4>2
    <3> QED  BY <3>1, <3>2
  <2>10. /\ h \in [1..Len(t) -> 1..n]
         /\ \A i \in 1..Len(t) : h[i] \in keep /\ t[i] = s[h[i]]
         /\ \A i, j \in 1..Len(t) : i < j => h[i] < h[j]
         /\ \A k \in 1..n : k \in keep => \E i \in 1..Len(t) : h[i] = k
    <3>1. Len(t) = N + 1  BY <2>2
    <3> QED  BY <2>6, <2>7, <2>8, <2>9, <3>1, Zenon
  <2>11. Picks(s, keep, n, t)  BY <2>10, PicksThus, Zenon
  <2> QED  BY <2>2, <2>11
<1>5. CASE n \notin keep
  <2>1. t = r  BY <1>5
  <2>2. g \in [1..N -> 1..n]
    <3>1. \A i \in 1..N : g[i] \in 1..n  BY <1>2, <1>3
    <3> QED  BY <1>2, <3>1
  <2>3. ASSUME NEW k \in 1..n, k \in keep PROVE \E i \in 1..N : g[i] = k
    <3>1. k \in 1..(n - 1)  BY <1>3, <1>5, <2>3
    <3> QED  BY <1>2, <2>3, <3>1
  <2>4. /\ g \in [1..Len(t) -> 1..n]
        /\ \A i \in 1..Len(t) : g[i] \in keep /\ t[i] = s[g[i]]
        /\ \A i, j \in 1..Len(t) : i < j => g[i] < g[j]
        /\ \A k \in 1..n : k \in keep => \E i \in 1..Len(t) : g[i] = k
    <3>1. N = Len(t)  BY <1>1, <2>1
    <3>2. \A i \in 1..N : g[i] \in keep /\ t[i] = s[g[i]]  BY <1>2, <2>1
    <3> QED  BY <1>2, <2>2, <2>3, <3>1, <3>2, Zenon
  <2>5. Picks(s, keep, n, t)  BY <2>4, PicksThus, Zenon
  <2> QED  BY <2>1, <2>5
<1> QED  BY <1>4, <1>5

LEMMA ChosenIs ==
  ASSUME NEW X, NEW s \in Seq(X), NEW keep
  PROVE  Chosen(s, keep) \in Seq(X) /\ Picks(s, keep, Len(s), Chosen(s, keep))
<1>1. PICK N \in Nat : N = Len(s)  OBVIOUS
<1>2. PICK S : S = Seq(X)  OBVIOUS
<1> DEFINE With(r, n) == IF n \in keep THEN Append(r, s[n]) ELSE r
<1>3. PICK e : e = [x \in S \X (1..N) |-> With(x[1], x[2])]  OBVIOUS
<1>4. /\ e \in [S \X (1..N) -> S]
      /\ \A r \in S, n \in 1..N : e[<<r, n>>] = With(r, n)
  <2>1. ASSUME NEW x \in S \X (1..N) PROVE With(x[1], x[2]) \in S
    <3>1. x[1] \in Seq(X) /\ s[x[2]] \in X  BY <1>1, <1>2
    <3>2. Append(x[1], s[x[2]]) \in Seq(X)  BY <3>1
    <3> QED  BY <1>2, <3>1, <3>2
  <2>2. ASSUME NEW r \in S, NEW n \in 1..N PROVE e[<<r, n>>] = With(r, n)
    <3>1. <<r, n>> \in S \X (1..N) /\ <<r, n>>[1] = r /\ <<r, n>>[2] = n  OBVIOUS
    <3> QED  BY <1>3, <3>1
  <2> QED  BY <1>3, <2>1, <2>2
<1>5. HasRun(N, S, <<>>, e)
  <2>1. <<>> \in S  BY <1>2
  <2>2. e \in [S \X (1..N) -> S]  BY <1>4
  <2> QED  BY <2>1, <2>2, RunsThrough
<1>6. \E u : u = [n \in 0..Len(s) |->
                    IF n = 0 THEN <<>>
                    ELSE IF n \in keep THEN Append(u[n - 1], s[n]) ELSE u[n - 1]]
  <2>1. PICK u \in [0..N -> S] : u[0] = <<>> /\ \A n \in 1..N : u[n] = e[<<u[n - 1], n>>]
    BY <1>5 DEF HasRun
  <2>2. ASSUME NEW n \in 0..N
        PROVE  u[n] = IF n = 0 THEN <<>>
                      ELSE IF n \in keep THEN Append(u[n - 1], s[n]) ELSE u[n - 1]
    <3>1. CASE n = 0  BY <2>1, <3>1
    <3>2. CASE n # 0
      <4>1. n \in 1..N /\ n - 1 \in 0..N  BY <3>2
      <4>2. u[n - 1] \in S  BY <4>1
      <4>3. u[n] = With(u[n - 1], n)  BY <1>4, <2>1, <4>1, <4>2
      <4> QED  BY <3>2, <4>3
    <3> QED  BY <3>1, <3>2
  <2>3. u = [n \in 0..N |-> u[n]]  OBVIOUS
  <2>4. u = [n \in 0..N |-> IF n = 0 THEN <<>>
                            ELSE IF n \in keep THEN Append(u[n - 1], s[n]) ELSE u[n - 1]]
    BY <2>2, <2>3
  <2> QED  BY <1>1, <2>4
<1>7. \E u : /\ u = [n \in 0..Len(s) |->
                       IF n = 0 THEN <<>>
                       ELSE IF n \in keep THEN Append(u[n - 1], s[n]) ELSE u[n - 1]]
             /\ Chosen(s, keep) = u[Len(s)]
  BY <1>6, Zenon DEF Chosen
<1>8. PICK u : /\ u = [n \in 0..N |-> IF n = 0 THEN <<>>
                         ELSE IF n \in keep THEN Append(u[n - 1], s[n]) ELSE u[n - 1]]
               /\ Chosen(s, keep) = u[N]
  BY <1>1, <1>7
<1>9. \A n \in 0..N : u[n] = IF n = 0 THEN <<>>
                              ELSE IF n \in keep THEN Append(u[n - 1], s[n]) ELSE u[n - 1]
  BY <1>8, Zenon
<1> DEFINE T == {n \in 0..N : u[n] \in Seq(X) /\ Picks(s, keep, n, u[n])}
<1>10. 0 \in T
  <2>1. 0 \in 0..N /\ u[0] = <<>>  BY <1>9
  <2>2. <<>> \in Seq(X)  OBVIOUS
  <2>3. Picks(s, keep, 0, <<>>)
    <3>1. PICK g : g = [i \in 1..0 |-> i]  OBVIOUS
    <3>2. Len(<<>>) = 0 /\ 1..0 = {} /\ g \in [1..0 -> 1..0]  BY <3>1
    <3> QED  BY <3>2 DEF Picks
  <2>4. u[0] \in Seq(X) /\ Picks(s, keep, 0, u[0])  BY <2>1, <2>2, <2>3, Zenon
  <2> QED  BY <2>1, <2>4, Zenon
<1>11. ASSUME NEW n \in 1..N, n - 1 \in T PROVE n \in T
  <2>1. n \in 0..N /\ n # 0 /\ n \in 1..Len(s)  BY <1>1
  <2>2. PICK p \in Nat, r \in Seq(X) : p = n - 1 /\ r = u[p] /\ Picks(s, keep, p, r)
    BY <1>11
  <2>3. PICK t : t = u[n]  OBVIOUS
  <2>4. t = IF n \in keep THEN Append(r, s[n]) ELSE r  BY <1>9, <2>1, <2>2, <2>3
  <2>5. t \in Seq(X) /\ Picks(s, keep, n, t)
    <3>1. n \in 1..Len(s)  BY <2>1
    <3>2. p = n - 1  BY <2>2
    <3>3. Picks(s, keep, p, r)  BY <2>2
    <3> QED  BY <2>4, <3>1, <3>2, <3>3, PicksOneMore
  <2> QED  BY <2>1, <2>3, <2>5
<1>12. N \in T
  <2> HIDE DEF T
  <2>1. N \in 0..N  OBVIOUS
  <2> QED  BY <1>10, <1>11, <2>1, UpTheSteps
<1> QED  BY <1>1, <1>8, <1>12

(* The first rule that holds decides: what it tells of the text.             *)
LEMMA RulesAre ==
  ASSUME NEW s
  PROVE  \E k \in 1..35 : /\ DetectIntent(s) = Rules(s)[k][2] /\ Rules(s)[k][1]
                          /\ \A j \in 1..(k - 1) : ~Rules(s)[j][1]
<1>1. DOMAIN Rules(s) = 1..35  BY DEF Rules
<1>2. Rules(s)[35][1]  BY DEF Rules
<1> DEFINE Hold == {j \in 1..35 : Rules(s)[j][1]}
<1>3. PICK k \in Hold : \A j \in Hold : k <= j
  <2>1. 35 \in Hold /\ Hold \in SUBSET Nat  BY <1>2
  <2> HIDE DEF Hold
  <2> QED  BY <2>1, Least
<1>4. k \in 1..35 /\ Rules(s)[k][1] /\ \A j \in 1..(k - 1) : ~Rules(s)[j][1]
  <2>1. k \in 1..35 /\ Rules(s)[k][1]  BY <1>3
  <2>2. ASSUME NEW j \in 1..(k - 1) PROVE ~Rules(s)[j][1]
    <3>1. j \in 1..35 /\ ~(k <= j)  BY <2>1
    <3> QED  BY <1>3, <3>1
  <2> QED  BY <2>1, <2>2
<1>5. \E i \in DOMAIN Rules(s) : Rules(s)[i][1] /\ \A j \in 1..(i - 1) : ~Rules(s)[j][1]
  BY <1>1, <1>4
<1>6. PICK i : i = CHOOSE x \in DOMAIN Rules(s) :
                     Rules(s)[x][1] /\ \A j \in 1..(x - 1) : ~Rules(s)[j][1]
  OBVIOUS
<1>7. i \in DOMAIN Rules(s) /\ Rules(s)[i][1] /\ \A j \in 1..(i - 1) : ~Rules(s)[j][1]
  BY <1>5, <1>6, Zenon
<1>8. DetectIntent(s) = Rules(s)[i][2]  BY <1>6, Zenon DEF DetectIntent
<1> QED  BY <1>1, <1>7, <1>8

LEMMA DetectIntentIs ==
  ASSUME NEW s
  PROVE  /\ StoresMemory(s) => DetectIntent(s) = "MEMORY_STORE"
         /\ ~StoresMemory(s) /\ WritesResource(s) => DetectIntent(s) = "WRITE_RESOURCE"
         /\ DetectIntent(s) = "WRITE_RESOURCE" => WritesResource(s)
         /\ DetectIntent(s) \in (FileIntents \ {"WRITE_RESOURCE"}) \cup {"LIST_DIRECTORY"}
              => ~IsMemoryDelete(s) /\ "clipboard" \notin s /\ "command" \notin s
         /\ DetectIntent(s) = "SEARCH_INTERNET" => "memory" \notin s /\ ~RecallsMemory(s)
<1>1. PICK k \in 1..35 : /\ DetectIntent(s) = Rules(s)[k][2] /\ Rules(s)[k][1]
                         /\ \A j \in 1..(k - 1) : ~Rules(s)[j][1]
  BY RulesAre
<1>2. PICK i : i = DetectIntent(s)  OBVIOUS
<1>3. /\ Rules(s)[1][1] <=> StoresMemory(s)
      /\ Rules(s)[2][1] <=> WritesResource(s)
      /\ Rules(s)[3][1] <=> IsMemoryDelete(s)
      /\ Rules(s)[4][1] <=> RecallsMemory(s)
      /\ Rules(s)[5][1] <=> IsInternet(s)
      /\ Rules(s)[9][1] <=> "clipboard" \in s
      /\ Rules(s)[10][1] <=> "command" \in s
  BY DEF Rules
<1>4. /\ Rules(s)[1][2] = "MEMORY_STORE" /\ Rules(s)[2][2] = "WRITE_RESOURCE"
      /\ Rules(s)[3][2] = "DELETE_MEMORY" /\ Rules(s)[4][2] = "SEARCH_MEMORY"
      /\ Rules(s)[5][2] = "SEARCH_INTERNET" /\ Rules(s)[6][2] = "SEARCH_MEMORY"
      /\ Rules(s)[7][2] = "OPERATE_WINDOWS" /\ Rules(s)[8][2] = "SEND_NOTIFICATION"
      /\ Rules(s)[9][2] = "CLIPBOARD" /\ Rules(s)[10][2] = "RUN_COMMAND"
  BY DEF Rules
<1>5. ASSUME NEW j \in 11..35
      PROVE  Rules(s)[j][2] \notin {"WRITE_RESOURCE", "SEARCH_INTERNET", "MEMORY_STORE"}
  BY DEF Rules
<1>6. k = 1 <=> StoresMemory(s)  BY <1>1, <1>3
<1>7. ~StoresMemory(s) /\ WritesResource(s) => k = 2
  BY <1>1, <1>3, <1>6
<1>8. k \in 1..10 \/ k \in 11..35  OBVIOUS
<1>9. k \in 11..35 => i \notin {"WRITE_RESOURCE", "SEARCH_INTERNET", "MEMORY_STORE"}
  BY <1>1, <1>2, <1>5
<1>10. /\ k \in 1..10 /\ i = "WRITE_RESOURCE" => k = 2
       /\ k \in 1..10 /\ i = "SEARCH_INTERNET" => k = 5
       /\ k \in 1..10 =>
            i \notin (FileIntents \ {"WRITE_RESOURCE"}) \cup {"LIST_DIRECTORY"}
  <2>1. k \in 1..10 => k \in {1, 2, 3, 4, 5, 6, 7, 8, 9, 10}  OBVIOUS
  <2>2. k = 1 => i = "MEMORY_STORE"  BY <1>1, <1>2, <1>4
  <2>3. k = 2 => i = "WRITE_RESOURCE"  BY <1>1, <1>2, <1>4
  <2>4. k = 3 => i = "DELETE_MEMORY"  BY <1>1, <1>2, <1>4
  <2>5. k = 4 => i = "SEARCH_MEMORY"  BY <1>1, <1>2, <1>4
  <2>6. k = 5 => i = "SEARCH_INTERNET"  BY <1>1, <1>2, <1>4
  <2>7. k = 6 => i = "SEARCH_MEMORY"  BY <1>1, <1>2, <1>4
  <2>8. k = 7 => i = "OPERATE_WINDOWS"  BY <1>1, <1>2, <1>4
  <2>9. k = 8 => i = "SEND_NOTIFICATION"  BY <1>1, <1>2, <1>4
  <2>10. k = 9 => i = "CLIPBOARD"  BY <1>1, <1>2, <1>4
  <2>11. k = 10 => i = "RUN_COMMAND"  BY <1>1, <1>2, <1>4
  <2> QED
    BY <2>1, <2>2, <2>3, <2>4, <2>5, <2>6, <2>7, <2>8, <2>9, <2>10, <2>11 DEF FileIntents
<1>11. k \in 11..35 => ~IsMemoryDelete(s) /\ "clipboard" \notin s /\ "command" \notin s
  BY <1>1, <1>3
<1>12. k = 5 => "memory" \notin s /\ ~RecallsMemory(s)  BY <1>1, <1>3 DEF IsInternet
<1> QED  BY <1>1, <1>2, <1>3, <1>4, <1>6, <1>7, <1>8, <1>9, <1>10, <1>11, <1>12

(* Where a tool step of a goal may lead.                                    *)
LeadsRight(t, g) ==
  /\ t.tool = "resolver" =>
       \/ g.intent = "WRITE_RESOURCE" /\ t.action \in {"write", "mkdir"}
       \/ g.intent \in (FileIntents \ {"WRITE_RESOURCE"}) \cup {"LIST_DIRECTORY"}
  /\ t.tool = "internet" => g.intent = "SEARCH_INTERNET"
  /\ g.intent = "WRITE_RESOURCE" => t.tool = "resolver"
  /\ t.tool = NoTool => ToolFor(t.domain) \notin {"resolver", "internet"}

(* The branches a request may lead to: a resource task for each path, one    *)
(* tool task, one whose result the provider reasons over, or the provider    *)
(* alone.                                                                    *)
EachPath(b, g) ==
  /\ g.intent = "WRITE_RESOURCE" /\ g.action \in {"write", "mkdir"}
  /\ b = [n \in DOMAIN g.paths |-> [ToolStep("resolver", NoDomain, g.action)
                                      EXCEPT !.item = g.paths[n]]]
OneTool(b, g) == \E t : /\ b = <<t>> /\ t.kind = "EXECUTE" /\ LeadsRight(t, g)
ToolThenProvider(b, g) ==
  \E t : /\ b = <<t, Provider>> /\ t.kind = "EXECUTE" /\ t.action \in {"read", "search"}
         /\ LeadsRight(t, g)
ProviderOnly(b) == b = <<Provider>> \/ b = <<Step("RETRIEVE_CONTEXT"), Provider>>

(* Goals the parser gives.                                                  *)
LEMMA GoalIs ==
  ASSUME NEW r, r.follows \in BOOLEAN
  PROVE  LET g == ParsedGoal(r) IN
         /\ g.paths = r.paths /\ g.hard = r.hard
         /\ g.long \in BOOLEAN /\ g.follows = r.follows
         /\ g.intent = IF r.follows THEN "SEARCH_MEMORY" ELSE DetectIntent(r.says)
         /\ g.intent = "READ_RESOURCE" => g.action = "read"
         /\ g.intent = "WRITE_RESOURCE" => g.action \in {"write", "mkdir"}
<1>1. PICK i : i = IF r.follows THEN "SEARCH_MEMORY" ELSE DetectIntent(r.says)  OBVIOUS
<1>2. PICK a : a = ArgumentsOf(i, r.says)  OBVIOUS
<1>3. ParsedGoal(r) =
        [intent |-> i, action |-> a[1], about |-> r.about, follows |-> r.follows,
         missing |-> IF r.follows THEN {} ELSE a[2] \cap r.lacks,
         paths |-> r.paths, long |-> "local" \in r.says, hard |-> r.hard, says |-> r.says]
  BY <1>1, <1>2, Zenon DEF ParsedGoal
<1>4. i \in {"READ_RESOURCE", "WRITE_RESOURCE"} => a = FileArguments(i, r.says)
  BY <1>2 DEF ArgumentsOf, FileIntents, PersonalIntents, LetterIntents
<1>5. i = "READ_RESOURCE" => a = <<"read", {"path"}>>
  BY <1>4 DEF FileArguments
<1>6. i = "WRITE_RESOURCE" =>
        a = <<"mkdir", {"path"}>> \/ a = <<"write", {"path", "content"}>>
  BY <1>4 DEF FileArguments
<1>7. /\ i = "READ_RESOURCE" => a[1] = "read"
      /\ i = "WRITE_RESOURCE" => a[1] \in {"write", "mkdir"}
  BY <1>5, <1>6
<1> QED  BY <1>1, <1>3, <1>7

LEMMA ResolverStepsAre ==
  ASSUME NEW g, g.intent # "WRITE_RESOURCE"
  PROVE  \E t : /\ ResolverSteps(g) = <<t>> /\ t.kind = "EXECUTE" /\ t.tool = "resolver"
                /\ g.intent = "SEARCH_RESOURCE" => t.action = "search"
                /\ g.intent = "READ_RESOURCE" => t.action = g.action
<1>1. PICK a : a = CASE g.intent = "RENAME_RESOURCE" -> "move"
                     [] g.intent = "SEARCH_RESOURCE" -> "search"
                     [] OTHER -> g.action
  OBVIOUS
<1>2. /\ g.intent = "SEARCH_RESOURCE" => a = "search"
      /\ g.intent = "READ_RESOURCE" => a = g.action
  BY <1>1
<1>3. PICK t : t = [ToolStep("resolver", NoDomain, a) EXCEPT !.item = 1]  OBVIOUS
<1>4. t.kind = "EXECUTE" /\ t.tool = "resolver" /\ t.action = a  BY <1>3 DEF ToolStep
<1>5. ResolverSteps(g) = <<t>>
  <2>1. PICK named : named = IF g.intent = "WRITE_RESOURCE" THEN g.paths ELSE <<1>>  OBVIOUS
  <2>2. ResolverSteps(g) =
          [n \in DOMAIN named |-> [ToolStep("resolver", NoDomain, a) EXCEPT !.item = named[n]]]
    BY <1>1, <2>1, Zenon DEF ResolverSteps
  <2>3. named = <<1>>  BY <2>1
  <2>4. DOMAIN named = 1..1 /\ \A n \in 1..1 : named[n] = 1  BY <2>3
  <2>5. ResolverSteps(g) = [n \in 1..1 |-> t]  BY <1>3, <2>2, <2>4
  <2> QED  BY <2>5
<1> QED  BY <1>2, <1>4, <1>5

LEMMA TwoInARow ==
  ASSUME NEW x, NEW y
  PROVE  <<x>> \o <<y>> = <<x, y>>
<1>1. <<x>> \o <<y>> \in Seq({x, y}) /\ Len(<<x>> \o <<y>>) = 2  OBVIOUS
<1>2. (<<x>> \o <<y>>)[1] = x /\ (<<x>> \o <<y>>)[2] = y  OBVIOUS
<1>3. <<x, y>> \in Seq({x, y}) /\ Len(<<x, y>>) = 2  OBVIOUS
<1>4. PICK p : p = <<x>> \o <<y>>  OBVIOUS
<1>5. DOMAIN p = 1..2 /\ p = [n \in 1..2 |-> p[n]] /\ p[1] = x /\ p[2] = y
  <2>1. p \in Seq({x, y}) /\ Len(p) = 2  BY <1>1, <1>4
  <2>2. DOMAIN p = 1..2 /\ p = [n \in 1..2 |-> p[n]]  BY <2>1
  <2> QED  BY <1>2, <1>4, <2>2
<1>6. p = <<x, y>>  BY <1>5
<1> QED  BY <1>4, <1>6

LEMMA BranchIs ==
  ASSUME NEW r, r.follows \in BOOLEAN, NEW g, g = ParsedGoal(r)
  PROVE  \/ EachPath(Branch(g), g) \/ OneTool(Branch(g), g)
         \/ ToolThenProvider(Branch(g), g) \/ ProviderOnly(Branch(g))
<1>1. /\ g.paths = r.paths /\ g.long \in BOOLEAN
      /\ g.intent = "READ_RESOURCE" => g.action = "read"
      /\ g.intent = "WRITE_RESOURCE" => g.action \in {"write", "mkdir"}
  BY GoalIs
<1>2. PICK b : b = Branch(g)  OBVIOUS
<1>3. CASE g.intent \in FileIntents
  <2>1. b = FileSteps(g)  BY <1>2, <1>3 DEF Branch, FileIntents, RoutedDomain
  <2>2. CASE g.intent = "WRITE_RESOURCE"
    <3>1. PICK d : d = ResolverSteps(g)  OBVIOUS
    <3>2. d = [n \in DOMAIN g.paths |-> [ToolStep("resolver", NoDomain, g.action)
                                           EXCEPT !.item = g.paths[n]]]
      BY <2>2, <3>1 DEF ResolverSteps
    <3>3. b = d \o <<>>  BY <2>1, <2>2, <3>1 DEF FileSteps
    <3> QED  BY <1>1, <1>2, <2>2, <3>2, <3>3 DEF EachPath
  <2>3. CASE g.intent # "WRITE_RESOURCE"
    <3>1. PICK t : /\ ResolverSteps(g) = <<t>> /\ t.kind = "EXECUTE" /\ t.tool = "resolver"
                   /\ g.intent = "SEARCH_RESOURCE" => t.action = "search"
                   /\ g.intent = "READ_RESOURCE" => t.action = g.action
      BY <2>3, ResolverStepsAre
    <3>2. LeadsRight(t, g)  BY <1>3, <2>3, <3>1 DEF LeadsRight, FileIntents, NoTool
    <3>3. CASE g.intent \in {"READ_RESOURCE", "SEARCH_RESOURCE"}
      <4>1. b = <<t>> \o <<Provider>>  BY <2>1, <3>1, <3>3 DEF FileSteps
      <4>2. b = <<t, Provider>>  BY <4>1, TwoInARow
      <4> QED  BY <1>1, <1>2, <3>1, <3>2, <3>3, <4>2 DEF ToolThenProvider
    <3>4. CASE g.intent \notin {"READ_RESOURCE", "SEARCH_RESOURCE"}
      <4>1. b = <<t>> \o <<>>  BY <2>1, <3>1, <3>4 DEF FileSteps
      <4>2. b = <<t>>  BY <4>1
      <4> QED  BY <1>2, <3>1, <3>2, <4>2 DEF OneTool
    <3> QED  BY <3>3, <3>4
  <2> QED  BY <2>2, <2>3
<1>4. ASSUME g.intent # "WRITE_RESOURCE", NEW u, NEW d, NEW a,
             b = <<ToolStep(u, d, a)>>, LeadsRight(ToolStep(u, d, a), g)
      PROVE  OneTool(b, g)
  BY <1>4 DEF OneTool, ToolStep
<1>5. CASE g.intent = "LIST_DIRECTORY"
  <2>1. b = <<ToolStep("resolver", NoDomain, "list")>>
    BY <1>2, <1>5 DEF Branch, FileIntents, RoutedDomain
  <2>2. LeadsRight(ToolStep("resolver", NoDomain, "list"), g)
    BY <1>5 DEF LeadsRight, ToolStep, NoTool
  <2> QED  BY <1>2, <1>4, <1>5, <2>1, <2>2
<1>6. CASE g.intent = "SEARCH_INTERNET"
  <2>1. b = <<ToolStep("internet", NoDomain, "search"), Provider>>
    BY <1>2, <1>6 DEF Branch, FileIntents, RoutedDomain
  <2>2. LeadsRight(ToolStep("internet", NoDomain, "search"), g)
    BY <1>6 DEF LeadsRight, ToolStep, NoTool
  <2> QED  BY <1>2, <2>1, <2>2 DEF ToolThenProvider, ToolStep
<1>7. CASE g.intent = "MEMORY_STORE"
  <2>1. b = <<ToolStep("memory", NoDomain, "store")>>
    BY <1>2, <1>7 DEF Branch, FileIntents, RoutedDomain
  <2>2. LeadsRight(ToolStep("memory", NoDomain, "store"), g)
    BY <1>7 DEF LeadsRight, ToolStep, NoTool
  <2> QED  BY <1>2, <1>4, <1>7, <2>1, <2>2
<1>8. CASE g.intent = "SEARCH_MEMORY"
  <2>1. b = RecallSteps(g)  BY <1>2, <1>8 DEF Branch, FileIntents, RoutedDomain
  <2>2. b = <<Provider>> \/ \E a : b = <<ToolStep("memory", NoDomain, a)>>
    BY <2>1, Zenon DEF RecallSteps
  <2>3. ASSUME NEW a PROVE LeadsRight(ToolStep("memory", NoDomain, a), g)
    BY <1>8 DEF LeadsRight, ToolStep, NoTool
  <2> QED  BY <1>2, <1>4, <1>8, <2>2, <2>3 DEF ProviderOnly
<1>9. CASE g.intent = "DELETE_MEMORY"
  <2>1. b = <<ToolStep("memory", NoDomain, MemoryDelete(g))>>
    BY <1>2, <1>9 DEF Branch, FileIntents, RoutedDomain
  <2>2. LeadsRight(ToolStep("memory", NoDomain, MemoryDelete(g)), g)
    BY <1>9 DEF LeadsRight, ToolStep, NoTool
  <2> QED  BY <1>2, <1>4, <1>9, <2>1, <2>2
<1>10. CASE g.intent = "OPERATE_WINDOWS"
  <2>1. PICK a : a = IF "processes" \in g.says THEN "processes" ELSE "terminal"  OBVIOUS
  <2>2. b = <<ToolStep("windows", NoDomain, a)>>
    BY <1>2, <1>10, <2>1 DEF Branch, FileIntents, RoutedDomain
  <2>3. LeadsRight(ToolStep("windows", NoDomain, a), g)
    BY <1>10 DEF LeadsRight, ToolStep, NoTool
  <2> QED  BY <1>2, <1>4, <1>10, <2>2, <2>3
<1>11. CASE g.intent \in {"RUN_COMMAND", "CLIPBOARD", "SEND_NOTIFICATION"}
  <2>1. PICK d : d \in {"shell", "clipboard", "notification"}
                 /\ \E a : b = <<ToolStep(NoTool, d, a)>>
    BY <1>2, <1>11 DEF Branch, FileIntents, RoutedDomain
  <2>2. PICK a : b = <<ToolStep(NoTool, d, a)>>  BY <2>1
  <2>3. ToolFor(d) = d  BY <2>1 DEF ToolFor
  <2>4. LeadsRight(ToolStep(NoTool, d, a), g)
    BY <1>11, <2>1, <2>3 DEF LeadsRight, ToolStep, NoTool
  <2> QED  BY <1>2, <1>4, <1>11, <2>2, <2>4
<1>12. CASE g.intent \in DOMAIN RoutedDomain
  <2>1. PICK d : d = RoutedDomain[g.intent]  OBVIOUS
  <2>2. b = <<ToolStep(NoTool, d, g.action)>>
    BY <1>2, <1>12, <2>1 DEF Branch, FileIntents, RoutedDomain
  <2>3. d \in {"reminder", "note", "task", "contact", "calendar", "email", "message"}
    BY <1>12, <2>1 DEF RoutedDomain
  <2>4. ToolFor(d) \notin {"resolver", "internet"}  BY <2>3 DEF ToolFor
  <2>5. g.intent # "WRITE_RESOURCE"  BY <1>12 DEF RoutedDomain
  <2>6. LeadsRight(ToolStep(NoTool, d, g.action), g)
    BY <2>4, <2>5 DEF LeadsRight, ToolStep, NoTool
  <2> QED  BY <1>2, <1>4, <2>2, <2>5, <2>6
<1>13. CASE /\ g.intent \notin FileIntents /\ g.intent \notin DOMAIN RoutedDomain
            /\ g.intent \notin {"LIST_DIRECTORY", "SEARCH_INTERNET", "MEMORY_STORE",
                                "SEARCH_MEMORY", "DELETE_MEMORY", "RUN_COMMAND", "CLIPBOARD",
                                "SEND_NOTIFICATION", "OPERATE_WINDOWS"}
  <2>1. b = (IF g.long THEN <<Step("RETRIEVE_CONTEXT")>> ELSE <<>>) \o <<Provider>>
    BY <1>2, <1>13 DEF Branch
  <2>2. b = <<>> \o <<Provider>> \/ b = <<Step("RETRIEVE_CONTEXT")>> \o <<Provider>>
    BY <1>1, <2>1
  <2>3. <<>> \o <<Provider>> = <<Provider>>  OBVIOUS
  <2>4. b = <<Provider>> \/ b = <<Step("RETRIEVE_CONTEXT"), Provider>>
    BY <2>2, <2>3, TwoInARow
  <2> QED  BY <1>2, <2>4 DEF ProviderOnly
<1> QED
  BY <1>3, <1>5, <1>6, <1>7, <1>8, <1>9, <1>10, <1>11, <1>12, <1>13

(* What holds of the steps of every plan: kinds come in the order of their   *)
(* stages; the provider comes right after the one tool step it reasons over, *)
(* which changes nothing; each tool is one the text may lead to; and only a  *)
(* path named twice makes two steps say the same.                            *)
KindRank == [UNDERSTAND |-> 1, RETRIEVE_CONTEXT |-> 2, PLAN |-> 2,
             EXECUTE |-> 3, VERIFY |-> 4, REFLECT |-> 5]

InOrder(k, l) == k \in DOMAIN KindRank /\ l \in DOMAIN KindRank /\ KindRank[k] <= KindRank[l]

Ordered(s) ==
  \A i, j \in DOMAIN s : /\ InOrder(s[i].kind, s[i].kind)
                         /\ i < j => InOrder(s[i].kind, s[j].kind)
AsksAfter(s) ==
  \A i, j \in DOMAIN s :
    s[i].action # "" /\ s[j].kind = "EXECUTE" /\ s[j].action = ""
    => j = i + 1 /\ s[i].action \notin Changing
RoutedRight(t, r) ==
  /\ t.tool = "resolver" =>
       \/ WritesResource(r.says) /\ t.action \in {"write", "mkdir"}
       \/ ~IsMemoryDelete(r.says) /\ "clipboard" \notin r.says /\ "command" \notin r.says
  /\ t.tool = "internet" => "memory" \notin r.says /\ ~RecallsMemory(r.says)
  /\ WritesResource(r.says) /\ t.action # "" =>
       t.tool = "resolver" \/ StoresMemory(r.says) \/ r.follows
  /\ t.tool = NoTool => ToolFor(t.domain) \notin {"resolver", "internet"}
NamedTwice(r) == \E i, j \in DOMAIN r.paths : i # j /\ r.paths[i] = r.paths[j]
ToldApart(s, r) == \A i, j \in DOMAIN s : i # j /\ SaysTheSame(s[i], s[j]) => NamedTwice(r)

Laid(s, r) ==
  /\ \E X : s \in Seq(X)
  /\ Ordered(s) /\ AsksAfter(s) /\ ToldApart(s, r)
  /\ \A i \in DOMAIN s : RoutedRight(s[i], r)

LEMMA OneTwo == 2 = 1 + 1 /\ ~(1 < 1) /\ ~(2 < 2) /\ ~(2 < 1)
<1> QED  OBVIOUS

LEMMA PairIs ==
  ASSUME NEW x, NEW y
  PROVE  /\ <<x, y>> \in Seq({x, y}) /\ DOMAIN <<x, y>> = {1, 2}
         /\ <<x, y>>[1] = x /\ <<x, y>>[2] = y
<1>1. Len(<<x, y>>) = 2 /\ <<x, y>> \in Seq({x, y})  OBVIOUS
<1>2. DOMAIN <<x, y>> = 1..2  BY <1>1
<1>3. 1..2 = {1, 2}  OBVIOUS
<1>4. <<x, y>>[1] = x /\ <<x, y>>[2] = y  OBVIOUS
<1> QED  BY <1>1, <1>2, <1>3, <1>4

LEMMA KindsInOrder ==
  /\ InOrder("UNDERSTAND", "UNDERSTAND") /\ InOrder("REFLECT", "REFLECT")
  /\ \A k \in {"RETRIEVE_CONTEXT", "PLAN", "EXECUTE", "VERIFY"} :
       InOrder(k, k) /\ InOrder("UNDERSTAND", k) /\ InOrder(k, "REFLECT")
  /\ \A k \in {"RETRIEVE_CONTEXT", "PLAN", "EXECUTE"} :
       InOrder(k, "EXECUTE") /\ InOrder(k, "VERIFY")
  /\ InOrder("RETRIEVE_CONTEXT", "PLAN") /\ InOrder("UNDERSTAND", "REFLECT")
<1>1. /\ KindRank["UNDERSTAND"] = 1 /\ KindRank["RETRIEVE_CONTEXT"] = 2
      /\ KindRank["PLAN"] = 2 /\ KindRank["EXECUTE"] = 3
      /\ KindRank["VERIFY"] = 4 /\ KindRank["REFLECT"] = 5
  BY DEF KindRank
<1>2. DOMAIN KindRank =
        {"UNDERSTAND", "RETRIEVE_CONTEXT", "PLAN", "EXECUTE", "VERIFY", "REFLECT"}
  BY DEF KindRank
<1> QED  BY <1>1, <1>2 DEF InOrder

LEMMA StepIs ==
  ASSUME NEW k, NEW r
  PROVE  /\ Step(k).kind = k /\ Step(k).action = "" /\ Step(k).tool = NoTool
         /\ RoutedRight(Step(k), r)
<1>1. /\ Step(k).kind = k /\ Step(k).action = "" /\ Step(k).tool = NoTool
      /\ Step(k).domain = NoDomain
  BY DEF Step
<1>2. ToolFor(NoDomain) \notin {"resolver", "internet"}  BY DEF ToolFor, NoDomain
<1> QED  BY <1>1, <1>2 DEF RoutedRight, NoTool

LEMMA LeadsWhereSaid ==
  ASSUME NEW r, r.follows \in BOOLEAN, NEW g, g = ParsedGoal(r), NEW t, LeadsRight(t, g)
  PROVE  RoutedRight(t, r)
<1>1. PICK s : s = r.says  OBVIOUS
<1>2. g.intent = IF r.follows THEN "SEARCH_MEMORY" ELSE DetectIntent(s)
  BY <1>1, GoalIs
<1>3. r.follows => g.intent = "SEARCH_MEMORY"  BY <1>2
<1>4. ~r.follows => g.intent = DetectIntent(s)  BY <1>2
<1>5. PICK i : i = DetectIntent(s)  OBVIOUS
<1>6. /\ ~StoresMemory(s) /\ WritesResource(s) => i = "WRITE_RESOURCE"
      /\ i = "WRITE_RESOURCE" => WritesResource(s)
      /\ i \in (FileIntents \ {"WRITE_RESOURCE"}) \cup {"LIST_DIRECTORY"}
           => ~IsMemoryDelete(s) /\ "clipboard" \notin s /\ "command" \notin s
      /\ i = "SEARCH_INTERNET" => "memory" \notin s /\ ~RecallsMemory(s)
  BY <1>5, DetectIntentIs
<1>7. "SEARCH_MEMORY" \notin FileIntents \cup {"LIST_DIRECTORY"}  BY DEF FileIntents
<1>8. t.tool = "resolver" =>
        \/ WritesResource(s) /\ t.action \in {"write", "mkdir"}
        \/ ~IsMemoryDelete(s) /\ "clipboard" \notin s /\ "command" \notin s
  <2>1. t.tool = "resolver" =>
          \/ g.intent = "WRITE_RESOURCE" /\ t.action \in {"write", "mkdir"}
          \/ g.intent \in (FileIntents \ {"WRITE_RESOURCE"}) \cup {"LIST_DIRECTORY"}
    BY DEF LeadsRight
  <2> QED  BY <1>3, <1>4, <1>5, <1>6, <1>7, <2>1
<1>9. t.tool = "internet" => "memory" \notin s /\ ~RecallsMemory(s)
  BY <1>3, <1>4, <1>5, <1>6 DEF LeadsRight
<1>10. WritesResource(s) => t.tool = "resolver" \/ StoresMemory(s) \/ r.follows
  BY <1>4, <1>5, <1>6 DEF LeadsRight
<1>11. t.tool = NoTool => ToolFor(t.domain) \notin {"resolver", "internet"}
  BY DEF LeadsRight
<1> QED  BY <1>1, <1>8, <1>9, <1>10, <1>11 DEF RoutedRight

LEMMA OneLaid ==
  ASSUME NEW r, NEW t, InOrder(t.kind, t.kind), RoutedRight(t, r)
  PROVE  Laid(<<t>>, r)
<1>1. PICK s : s = <<t>>  OBVIOUS
<1>2. s \in Seq({t}) /\ DOMAIN s = {1} /\ s[1] = t
  <2>1. s \in Seq({t}) /\ Len(s) = 1 /\ s[1] = t  BY <1>1
  <2> QED  BY <2>1
<1>3. Ordered(s)  BY <1>2 DEF Ordered
<1>4. AsksAfter(s)  BY <1>2 DEF AsksAfter
<1>5. ToldApart(s, r)  BY <1>2 DEF ToldApart
<1> QED  BY <1>1, <1>2, <1>3, <1>4, <1>5 DEF Laid

LEMMA TwoLaid ==
  ASSUME NEW r, NEW t, NEW u, RoutedRight(t, r), RoutedRight(u, r),
         InOrder(t.kind, t.kind), InOrder(u.kind, u.kind), InOrder(t.kind, u.kind),
         ~SaysTheSame(t, u), u.action = "",
         t.action \notin Changing
  PROVE  Laid(<<t, u>>, r)
<1>1. PICK s : s = <<t, u>>  OBVIOUS
<1>2. s \in Seq({t, u}) /\ DOMAIN s = {1, 2} /\ s[1] = t /\ s[2] = u
  BY <1>1, PairIs, Zenon
<1>3. Ordered(s)
  <2>1. ~(1 < 1) /\ ~(2 < 2) /\ ~(2 < 1)  BY OneTwo
  <2>2. ASSUME NEW i \in {1, 2}, NEW j \in {1, 2}
        PROVE  /\ InOrder(s[i].kind, s[i].kind)
               /\ i < j => InOrder(s[i].kind, s[j].kind)
    <3>1. i = 1 \/ i = 2  OBVIOUS
    <3>2. j = 1 \/ j = 2  OBVIOUS
    <3>3. i < j => i = 1 /\ j = 2  BY <2>1, <3>1, <3>2, Zenon
    <3>4. s[i] = t \/ s[i] = u  BY <1>2, <3>1, Zenon
    <3> QED  BY <1>2, <3>3, <3>4, Zenon
  <2> QED  BY <1>2, <2>2, Zenon DEF Ordered
<1>4. AsksAfter(s)
  <2>1. ASSUME NEW i \in {1, 2}, NEW j \in {1, 2}, s[i].action # "", s[j].action = ""
        PROVE  j = i + 1 /\ s[i].action \notin Changing
    <3>1. i = 1 /\ j = 2  BY <1>2, <2>1
    <3> QED  BY <1>2, <3>1, OneTwo, Zenon
  <2> QED  BY <1>2, <2>1, Zenon DEF AsksAfter
<1>5. ToldApart(s, r)
  <2>1. ~SaysTheSame(u, t)  BY DEF SaysTheSame
  <2> QED  BY <1>2, <2>1 DEF ToldApart
<1>6. \A i \in DOMAIN s : RoutedRight(s[i], r)  BY <1>2
<1> QED  BY <1>1, <1>2, <1>3, <1>4, <1>5, <1>6 DEF Laid

(* The branch of a request is laid out so, of steps that act or gather.      *)
LEMMA BranchLaid ==
  ASSUME NEW r, r.follows \in BOOLEAN, r.paths \in Seq(Nat), NEW g, g = ParsedGoal(r)
  PROVE  /\ Laid(Branch(g), r)
         /\ \A i \in DOMAIN Branch(g) : Branch(g)[i].kind \in {"RETRIEVE_CONTEXT", "EXECUTE"}
<1>1. PICK b : b = Branch(g)  OBVIOUS
<1>2. EachPath(b, g) \/ OneTool(b, g) \/ ToolThenProvider(b, g) \/ ProviderOnly(b)
  BY <1>1, BranchIs
<1>3. \A k \in {"RETRIEVE_CONTEXT", "EXECUTE"} : InOrder(k, k) /\ InOrder(k, "EXECUTE")
  BY KindsInOrder
<1>4. PICK p : p = Provider  OBVIOUS
<1>5. p.kind = "EXECUTE" /\ p.action = "" /\ p.tool = NoTool /\ RoutedRight(p, r)
  BY <1>4, StepIs DEF Provider
<1>6. CASE EachPath(b, g)
  <2>1. g.intent = "WRITE_RESOURCE" /\ g.action \in {"write", "mkdir"}
    BY <1>6 DEF EachPath
  <2>2. PICK K \in Nat : DOMAIN r.paths = 1..K  OBVIOUS
  <2>3. b = [n \in 1..K |-> [ToolStep("resolver", NoDomain, g.action)
                                      EXCEPT !.item = r.paths[n]]]
    BY <1>6, <2>2, GoalIs DEF EachPath
  <2>4. /\ DOMAIN b = 1..K
        /\ \A n \in 1..K : /\ b[n].kind = "EXECUTE" /\ b[n].tool = "resolver"
                           /\ b[n].action = g.action /\ b[n].item = r.paths[n]
    BY <2>3 DEF ToolStep
  <2>5. PICK X : X = {b[n] : n \in 1..K}  OBVIOUS
  <2>6. b \in Seq(X)
    <3>1. b = [n \in 1..K |-> b[n]]  BY <2>3
    <3> QED  BY <2>4, <2>5, <3>1
  <2>7. ASSUME NEW n \in 1..K PROVE RoutedRight(b[n], r)
    <3>1. LeadsRight(b[n], g)  BY <2>1, <2>4 DEF LeadsRight, NoTool
    <3> QED  BY <3>1, LeadsWhereSaid
  <2>8. Ordered(b)  BY <1>3, <2>4 DEF Ordered
  <2>9. AsksAfter(b)  BY <2>1, <2>4 DEF AsksAfter
  <2>10. ToldApart(b, r)  BY <2>2, <2>4 DEF ToldApart, NamedTwice, SaysTheSame
  <2> QED  BY <1>1, <2>4, <2>6, <2>7, <2>8, <2>9, <2>10 DEF Laid
<1>7. CASE OneTool(b, g)
  <2>1. PICK t : b = <<t>> /\ t.kind = "EXECUTE" /\ LeadsRight(t, g)  BY <1>7 DEF OneTool
  <2>2. RoutedRight(t, r)  BY <2>1, LeadsWhereSaid
  <2>3. Laid(b, r)  BY <1>3, <2>1, <2>2, OneLaid
  <2> QED  BY <1>1, <2>1, <2>3
<1>8. CASE ToolThenProvider(b, g)
  <2>1. PICK t : /\ b = <<t, p>> /\ t.kind = "EXECUTE" /\ t.action \in {"read", "search"}
                 /\ LeadsRight(t, g)
    BY <1>4, <1>8 DEF ToolThenProvider
  <2>2. RoutedRight(t, r)  BY <2>1, LeadsWhereSaid
  <2>3. ~SaysTheSame(t, p) /\ t.action \notin Changing
    BY <1>5, <2>1 DEF SaysTheSame, Changing
  <2>4. InOrder(t.kind, t.kind) /\ InOrder(p.kind, p.kind) /\ InOrder(t.kind, p.kind)
    BY <1>3, <1>5, <2>1
  <2>5. Laid(<<t, p>>, r)  BY <1>5, <2>2, <2>3, <2>4, TwoLaid, Zenon
  <2>6. DOMAIN b = {1, 2} /\ b[1] = t /\ b[2] = p  BY <2>1, PairIs
  <2>7. \A i \in {1, 2} : b[i].kind = "EXECUTE"  BY <1>5, <2>1, <2>6
  <2> QED  BY <1>1, <2>1, <2>5, <2>6, <2>7
<1>9. CASE ProviderOnly(b)
  <2>1. CASE b = <<p>>
    <3>1. Laid(b, r)  BY <1>3, <1>5, <2>1, OneLaid
    <3>2. DOMAIN b = {1} /\ b[1] = p
      <4>1. b \in Seq({p}) /\ Len(b) = 1 /\ b[1] = p  BY <2>1
      <4> QED  BY <4>1
    <3> QED  BY <1>1, <1>5, <3>1, <3>2
  <2>2. CASE b # <<p>>
    <3>1. PICK t : t = Step("RETRIEVE_CONTEXT")  OBVIOUS
    <3>2. b = <<t, p>>  BY <1>4, <1>9, <2>2, <3>1 DEF ProviderOnly
    <3>3. t.kind = "RETRIEVE_CONTEXT" /\ t.action = "" /\ RoutedRight(t, r)  BY <3>1, StepIs
    <3>4. ~SaysTheSame(t, p) /\ t.action \notin Changing
      BY <1>5, <3>3 DEF SaysTheSame, Changing
    <3>5. InOrder(t.kind, t.kind) /\ InOrder(p.kind, p.kind) /\ InOrder(t.kind, p.kind)
      BY <1>3, <1>5, <3>3
    <3>6. Laid(<<t, p>>, r)  BY <1>5, <3>3, <3>4, <3>5, TwoLaid, Zenon
    <3>7. DOMAIN b = {1, 2} /\ b[1] = t /\ b[2] = p  BY <3>2, PairIs
    <3>8. \A i \in {1, 2} : b[i].kind \in {"RETRIEVE_CONTEXT", "EXECUTE"}
      BY <1>5, <3>3, <3>7
    <3> QED  BY <1>1, <3>2, <3>6, <3>7, <3>8
  <2> QED  BY <2>1, <2>2
<1> QED  BY <1>2, <1>6, <1>7, <1>8, <1>9

Joins(q, p, v) ==
  /\ Len(q) = Len(p) + Len(v)
  /\ \A i \in 1..Len(p) : q[i] = p[i]
  /\ \A i \in 1..Len(v) : q[i + Len(p)] = v[i]

LEMMA JoinedIs ==
  ASSUME NEW Y, NEW p, NEW v, p \in Seq(Y), v \in Seq(Y)
  PROVE  p \o v \in Seq(Y) /\ Joins(p \o v, p, v)
<1>1. p \o v \in Seq(Y) /\ Len(p \o v) = Len(p) + Len(v)  OBVIOUS
<1>2. ASSUME NEW i \in 1..Len(p) PROVE (p \o v)[i] = p[i]  OBVIOUS
<1>3. ASSUME NEW i \in 1..Len(v) PROVE (p \o v)[i + Len(p)] = v[i]
  OBVIOUS
<1> QED  BY <1>1, <1>2, <1>3 DEF Joins

(* A sequence between what begins and what ends it.                         *)
Framed(x, b, v, z) == <<x>> \o b \o v \o <<z>>

LEMMA FramedIs ==
  ASSUME NEW Y, NEW x \in Y, NEW z \in Y, NEW b \in Seq(Y), NEW v \in Seq(Y),
         NEW K \in Nat, K = Len(b), NEW M \in Nat, M = Len(v),
         NEW s, s = Framed(x, b, v, z)
  PROVE  /\ s \in Seq(Y) /\ DOMAIN s = 1..(K + M + 2)
         /\ s[1] = x /\ s[K + M + 2] = z
         /\ \A i \in 1..K : s[i + 1] = b[i]
         /\ \A i \in 1..M : s[i + K + 1] = v[i]
<1>1. PICK p : p = <<x>> \o b  OBVIOUS
<1>2. p \in Seq(Y) /\ Len(p) = K + 1 /\ p[1] = x /\ \A i \in 1..K : p[i + 1] = b[i]
  BY <1>1
<1>3. PICK P \in Nat : P = K + 1  OBVIOUS
<1>4. PICK q : q = p \o v  OBVIOUS
<1>5. /\ q \in Seq(Y) /\ Len(q) = P + M
      /\ \A i \in 1..P : q[i] = p[i]
      /\ \A i \in 1..M : q[i + P] = v[i]
  <2>1. p \in Seq(Y) /\ Len(p) = P  BY <1>2, <1>3
  <2>2. q \in Seq(Y) /\ Joins(q, p, v)
    <3>1. p \in Seq(Y) /\ v \in Seq(Y)  BY <2>1
    <3> QED  BY <1>4, <3>1, JoinedIs, Zenon
  <2> QED  BY <2>1, <2>2 DEF Joins
<1>6. PICK N \in Nat : N = P + M  OBVIOUS
<1>7. PICK t : t = q \o <<z>>  OBVIOUS
<1>8. /\ t \in Seq(Y) /\ Len(t) = N + 1 /\ t[N + 1] = z
      /\ \A i \in 1..N : t[i] = q[i]
  <2>1. q \in Seq(Y) /\ Len(q) = N  BY <1>5, <1>6
  <2> QED  BY <1>7, <2>1
<1>9. s = t  BY <1>1, <1>4, <1>7, Zenon DEF Framed
<1>10. N + 1 = K + M + 2 /\ P = K + 1 /\ N = K + 1 + M  BY <1>3, <1>6
<1>11. t[1] = x  BY <1>2, <1>5, <1>8, <1>10
<1>12. ASSUME NEW i \in 1..K PROVE t[i + 1] = b[i]
  <2>1. i + 1 \in 1..P /\ i + 1 \in 1..N  BY <1>10
  <2> QED  BY <1>2, <1>5, <1>8, <2>1
<1>13. ASSUME NEW i \in 1..M PROVE t[i + K + 1] = v[i]
  <2>1. i + K + 1 = i + P /\ i + P \in 1..N  BY <1>10
  <2> QED  BY <1>5, <1>8, <2>1
<1>14. t[K + M + 2] = z /\ DOMAIN t = 1..(K + M + 2)  BY <1>8, <1>10
<1> QED  BY <1>8, <1>9, <1>11, <1>12, <1>13, <1>14

(* decompose puts the branch between what every plan begins and ends with.   *)
LEMMA StepsLaid ==
  ASSUME NEW r, NEW b, Laid(b, r),
         \A i \in DOMAIN b : b[i].kind \in {"RETRIEVE_CONTEXT", "EXECUTE"},
         NEW v, v = <<>> \/ v = <<Step("VERIFY")>>,
         NEW s, s = Framed(Step("UNDERSTAND"), b, v, Step("REFLECT"))
  PROVE  Laid(s, r) /\ s[1].kind = "UNDERSTAND"
<1>1. PICK X : b \in Seq(X)  BY Zenon DEF Laid
<1>2. PICK x, y, z : x = Step("UNDERSTAND") /\ y = Step("VERIFY") /\ z = Step("REFLECT")
  OBVIOUS
<1>3. /\ x.kind = "UNDERSTAND" /\ x.action = "" /\ RoutedRight(x, r)
      /\ y.kind = "VERIFY" /\ y.action = "" /\ RoutedRight(y, r)
      /\ z.kind = "REFLECT" /\ z.action = "" /\ RoutedRight(z, r)
  BY <1>2, StepIs
<1>4. PICK Y : Y = X \cup {x, y, z}  OBVIOUS
<1>5. PICK K \in Nat : K = Len(b) /\ DOMAIN b = 1..K  BY <1>1
<1>6. PICK M \in Nat : /\ Len(v) = M /\ v \in Seq(Y) /\ (M = 0 \/ M = 1)
                       /\ M = 1 => v[1] = y
  <2>1. CASE v = <<>>  BY <2>1
  <2>2. CASE v = <<y>>
    <3>1. y \in Y  BY <1>4
    <3>2. v \in Seq(Y) /\ Len(v) = 1 /\ v[1] = y  BY <2>2, <3>1
    <3> QED  BY <3>2
  <2> QED  BY <1>2, <2>1, <2>2
<1>7. b \in Seq(Y) /\ <<x>> \in Seq(Y) /\ <<z>> \in Seq(Y)
  <2>1. \A i \in 1..K : b[i] \in Y  BY <1>1, <1>4, <1>5
  <2>2. x \in Y /\ z \in Y  BY <1>4
  <2>3. b = [i \in 1..K |-> b[i]]  BY <1>1, <1>5
  <2>4. b \in Seq(Y)
    <3>1. b \in [1..K -> Y]  BY <2>1, <2>3
    <3> QED  BY <3>1
  <2> QED  BY <2>2, <2>4
<1>8. x \in Y /\ z \in Y  BY <1>4
<1>9. s = Framed(x, b, v, z)  BY <1>2
<1>10. /\ s \in Seq(Y) /\ DOMAIN s = 1..(K + M + 2)
       /\ s[1] = x /\ s[K + M + 2] = z
       /\ \A i \in 1..K : s[i + 1] = b[i]
       /\ \A i \in 1..M : s[i + K + 1] = v[i]
  BY <1>5, <1>6, <1>7, <1>8, <1>9, FramedIs
<1>11. M = 1 => s[K + 2] = y
  <2>1. ASSUME M = 1 PROVE s[1 + K + 1] = v[1]  BY <1>10, <2>1
  <2> QED  BY <1>6, <2>1
<1> DEFINE AtFirst(i) == i = 1 /\ s[i] = x
           Amid(i) == \E n \in 1..K : i = n + 1 /\ s[i] = b[n]
           AtCheck(i) == i = K + 2 /\ s[i] = y /\ M = 1
           AtLast(i) == i = K + M + 2 /\ s[i] = z
<1>12. ASSUME NEW i \in DOMAIN s PROVE AtFirst(i) \/ Amid(i) \/ AtCheck(i) \/ AtLast(i)
  <2>1. i \in 1..(K + M + 2)  BY <1>10
  <2>2. CASE i = 1  BY <1>10, <2>2
  <2>3. CASE i \in 2..(K + 1)
    <3>1. i - 1 \in 1..K /\ i = (i - 1) + 1  BY <2>3
    <3> QED  BY <1>10, <3>1
  <2>4. CASE i = K + 2 /\ M = 1  BY <1>11, <2>4
  <2>5. CASE i = K + M + 2  BY <1>10, <2>5
  <2>6. i = 1 \/ i \in 2..(K + 1) \/ (i = K + 2 /\ M = 1) \/ i = K + M + 2
    BY <1>6, <2>1
  <2> QED  BY <2>2, <2>3, <2>4, <2>5, <2>6
<1>13. /\ Ordered(b) /\ AsksAfter(b) /\ ToldApart(b, r)
       /\ \A i \in 1..K : RoutedRight(b[i], r)
  BY <1>5 DEF Laid
<1>14. ASSUME NEW i \in DOMAIN s
       PROVE  /\ RoutedRight(s[i], r)
              /\ AtFirst(i) => s[i].kind = "UNDERSTAND" /\ s[i].action = ""
              /\ Amid(i) => s[i].kind \in {"RETRIEVE_CONTEXT", "EXECUTE"}
              /\ AtCheck(i) => s[i].kind = "VERIFY" /\ s[i].action = ""
              /\ AtLast(i) => s[i].kind = "REFLECT" /\ s[i].action = ""
  <2>1. \A n \in 1..K : b[n].kind \in {"RETRIEVE_CONTEXT", "EXECUTE"}  BY <1>5
  <2> QED  BY <1>3, <1>12, <1>13, <2>1
<1>15. ASSUME NEW i \in DOMAIN s, NEW j \in DOMAIN s
       PROVE  /\ AtFirst(i) /\ AtFirst(j) => i = j
              /\ AtCheck(i) /\ AtCheck(j) => i = j
              /\ AtLast(i) /\ AtLast(j) => i = j
              /\ i < j => /\ ~AtLast(i) /\ ~AtFirst(j) /\ ~(AtCheck(i) /\ Amid(j))
  BY <1>6, <1>10
<1> HIDE DEF AtFirst, Amid, AtCheck, AtLast
<1>16. Ordered(s)
  <2>1. ASSUME NEW i \in DOMAIN s PROVE InOrder(s[i].kind, s[i].kind)
    BY <1>12, <1>14, KindsInOrder
  <2>2. ASSUME NEW i \in DOMAIN s, NEW j \in DOMAIN s, i < j
        PROVE  InOrder(s[i].kind, s[j].kind)
    <3>1. i \in Nat /\ j \in Nat  BY <1>10
    <3>2. CASE Amid(i) /\ Amid(j)
      <4>1. PICK n \in 1..K : i = n + 1 /\ s[i] = b[n]  BY <3>2 DEF Amid
      <4>2. PICK m \in 1..K : j = m + 1 /\ s[j] = b[m]  BY <3>2 DEF Amid
      <4>3. n < m  BY <2>2, <4>1, <4>2
      <4> QED  BY <1>5, <1>13, <4>1, <4>2, <4>3 DEF Ordered
    <3>3. ~AtLast(i) /\ ~AtFirst(j) /\ ~(AtCheck(i) /\ Amid(j)) /\ ~(AtCheck(i) /\ AtCheck(j))
      BY <1>15, <2>2, <3>1
    <3>4. CASE AtFirst(i) /\ ~AtFirst(j)
      <4>1. s[j].kind \in {"RETRIEVE_CONTEXT", "EXECUTE", "VERIFY", "REFLECT"}
        BY <1>12, <1>14, <3>4
      <4> QED  BY <1>14, <3>4, <4>1, KindsInOrder
    <3>5. CASE Amid(i) /\ (AtCheck(j) \/ AtLast(j))  BY <1>14, <3>5, KindsInOrder
    <3>6. CASE AtCheck(i) /\ AtLast(j)  BY <1>14, <3>6, KindsInOrder
    <3> QED  BY <1>12, <3>2, <3>3, <3>4, <3>5, <3>6
  <2> QED  BY <2>1, <2>2 DEF Ordered
<1>17. AsksAfter(s)
  <2>1. ASSUME NEW i \in DOMAIN s, NEW j \in DOMAIN s,
               s[i].action # "", s[j].kind = "EXECUTE", s[j].action = ""
        PROVE  j = i + 1 /\ s[i].action \notin Changing
    <3>1. Amid(i) /\ Amid(j)  BY <1>12, <1>14, <2>1
    <3>2. PICK n \in 1..K : i = n + 1 /\ s[i] = b[n]  BY <3>1 DEF Amid
    <3>3. PICK m \in 1..K : j = m + 1 /\ s[j] = b[m]  BY <3>1 DEF Amid
    <3>4. m = n + 1 /\ b[n].action \notin Changing
      BY <1>5, <1>13, <2>1, <3>2, <3>3 DEF AsksAfter
    <3> QED  BY <3>2, <3>3, <3>4
  <2> QED  BY <2>1, Zenon DEF AsksAfter
<1>18. ToldApart(s, r)
  <2>1. ASSUME NEW i \in DOMAIN s, NEW j \in DOMAIN s, i # j, SaysTheSame(s[i], s[j])
        PROVE  NamedTwice(r)
    <3>1. s[i].kind = s[j].kind  BY <2>1 DEF SaysTheSame
    <3>2. Amid(i) /\ Amid(j)
      <4>1. /\ ~(AtFirst(i) /\ AtFirst(j)) /\ ~(AtCheck(i) /\ AtCheck(j))
            /\ ~(AtLast(i) /\ AtLast(j))
        BY <1>15, <2>1
      <4> QED  BY <1>12, <1>14, <3>1, <4>1
    <3>3. PICK n \in 1..K : i = n + 1 /\ s[i] = b[n]  BY <3>2 DEF Amid
    <3>4. PICK m \in 1..K : j = m + 1 /\ s[j] = b[m]  BY <3>2 DEF Amid
    <3>5. n # m /\ SaysTheSame(b[n], b[m])  BY <2>1, <3>3, <3>4
    <3> QED  BY <1>5, <1>13, <3>5 DEF ToldApart
  <2> QED  BY <2>1, Zenon DEF ToldApart
<1>19. Laid(s, r)  BY <1>10, <1>14, <1>16, <1>17, <1>18 DEF Laid
<1> QED  BY <1>3, <1>10, <1>19

LEMMA PlanStepsLaid ==
  ASSUME NEW r, r.follows \in BOOLEAN, r.hard \in BOOLEAN, r.paths \in Seq(Nat)
  PROVE  Laid(PlanSteps(ParsedGoal(r)), r) /\ PlanSteps(ParsedGoal(r))[1].kind = "UNDERSTAND"
<1>1. PICK g : g = ParsedGoal(r)  OBVIOUS
<1>2. PICK b : b = Branch(g)  OBVIOUS
<1>3. /\ Laid(b, r)
      /\ \A i \in DOMAIN b : b[i].kind \in {"RETRIEVE_CONTEXT", "EXECUTE"}
  BY <1>1, <1>2, BranchLaid
<1>4. PICK v : v = IF g.hard THEN <<Step("VERIFY")>> ELSE <<>>  OBVIOUS
<1>5. v = <<>> \/ v = <<Step("VERIFY")>>  BY <1>4, Zenon
<1>6. PICK s : s = PlanSteps(g)  OBVIOUS
<1>7. s = Framed(Step("UNDERSTAND"), b, v, Step("REFLECT"))
  BY <1>2, <1>4, <1>6, Zenon DEF PlanSteps, Framed
<1>8. Laid(s, r) /\ s[1].kind = "UNDERSTAND"  BY <1>3, <1>5, <1>7, StepsLaid
<1> QED  BY <1>1, <1>6, <1>8


(* A task that stands for the step at position p: it keeps the position, the *)
(* need, the kind and the action; its tool is the step's, or the one found   *)
(* for the step's domain.                                                    *)
NeedOf(p) == IF p = 1 THEN {} ELSE {p - 1}

Stands(t, s, p) ==
  /\ t.id = p /\ t.needs = NeedOf(p)
  /\ t.kind = s[p].kind /\ t.action = s[p].action
  /\ \/ t.tool = s[p].tool
     \/ s[p].tool = NoTool /\ t.tool = ToolFor(s[p].domain)

StandFor(T, s, r) ==
  /\ \E X : T \in Seq(X)
  /\ \A n \in DOMAIN T : \E p \in 1..Len(s) : Stands(T[n], s, p)
  /\ \/ \A p \in 1..Len(s) : \E n \in DOMAIN T : T[n].id = p
     \/ r.context /\ NamedTwice(r)

LEMMA ChainedIs ==
  ASSUME NEW X, NEW s \in Seq(X), NEW c, c = Chained(s), NEW N, N = Len(s)
  PROVE  /\ DOMAIN c = 1..N /\ \E Y : c \in Seq(Y)
         /\ \A n \in 1..N : c[n] = TaskOf(s[n], n, NeedOf(n))
<1>1. DOMAIN s = 1..N /\ N \in Nat  OBVIOUS
<1>2. c = [n \in 1..N |-> TaskOf(s[n], n, NeedOf(n))]
  BY <1>1 DEF Chained, NeedOf
<1>3. PICK Y : Y = {c[n] : n \in 1..N}  OBVIOUS
<1>4. c \in [1..N -> Y]  BY <1>2, <1>3
<1>5. c \in Seq(Y)  BY <1>1, <1>4
<1> QED  BY <1>2, <1>5

LEMMA ResolvedStands ==
  ASSUME NEW s, NEW p, NEW t, Stands(t, s, p), t.tool = s[p].tool, t.domain = s[p].domain,
         NEW u,
         u = t \/ (t.tool = NoTool /\ u = [t EXCEPT !.tool = ToolFor(t.domain)]),
         t = [id |-> t.id, needs |-> t.needs, kind |-> t.kind, tool |-> t.tool,
              domain |-> t.domain, action |-> t.action, item |-> t.item]
  PROVE  Stands(u, s, p)
<1>1. CASE u = t  BY <1>1
<1>2. CASE u # t
  <2>1. PICK x : x = ToolFor(t.domain)  OBVIOUS
  <2>2. t.tool = NoTool /\ u = [t EXCEPT !.tool = x]  BY <1>2, <2>1
  <2>3. u = [id |-> t.id, needs |-> t.needs, kind |-> t.kind, tool |-> x,
             domain |-> t.domain, action |-> t.action, item |-> t.item]
    BY <2>2
  <2>4. /\ u.id = t.id /\ u.needs = t.needs /\ u.kind = t.kind /\ u.action = t.action
        /\ u.tool = x
    BY <2>3
  <2> QED  BY <2>1, <2>2, <2>4 DEF Stands
<1> QED  BY <1>1, <1>2

TypedRequest(r) ==
  /\ r.follows \in BOOLEAN /\ r.hard \in BOOLEAN /\ r.context \in BOOLEAN
  /\ r.paths \in Seq(Nat)

KeptOf(d, c, r) == d = IF r.context THEN Optimized(c) ELSE c

(* What the optimizer and the tool resolver leave of a chain of tasks.       *)
LEMMA TasksStand ==
  ASSUME NEW r, TypedRequest(r), NEW s, Laid(s, r), NEW c, c = Chained(s),
         NEW d, KeptOf(d, c, r), NEW T, T = Resolved(d)
  PROVE  StandFor(T, s, r)
<1>1. r.context \in BOOLEAN  BY DEF TypedRequest
<1>2. PICK X : s \in Seq(X)  BY Zenon DEF Laid
<1>3. PICK N \in Nat : N = Len(s) /\ DOMAIN s = 1..N  BY <1>2
<1>4. /\ DOMAIN c = 1..N /\ \E Y : c \in Seq(Y)
      /\ \A n \in 1..N : c[n] = TaskOf(s[n], n, NeedOf(n))
  BY <1>2, <1>3, ChainedIs
<1>5. PICK Y : c \in Seq(Y)  BY <1>4
<1>6. Len(c) = N  BY <1>4, <1>5
<1>7. ASSUME NEW n \in 1..N
      PROVE  /\ c[n].id = n /\ Stands(c[n], s, n) /\ c[n].tool = s[n].tool
             /\ c[n].domain = s[n].domain
             /\ c[n] = [id |-> c[n].id, needs |-> c[n].needs, kind |-> c[n].kind,
                        tool |-> c[n].tool, domain |-> c[n].domain,
                        action |-> c[n].action, item |-> c[n].item]
  <2>1. PICK x, y : x = s[n] /\ y = NeedOf(n)  OBVIOUS
  <2>2. PICK t : t = c[n]  OBVIOUS
  <2>3. t = [id |-> n, needs |-> y, kind |-> x.kind, tool |-> x.tool,
             domain |-> x.domain, action |-> x.action, item |-> x.item]
    BY <1>4, <2>1, <2>2 DEF TaskOf
  <2>4. /\ t.id = n /\ t.needs = y /\ t.kind = x.kind /\ t.tool = x.tool
        /\ t.domain = x.domain /\ t.action = x.action /\ t.item = x.item
    BY <2>3
  <2>5. Stands(t, s, n)  BY <2>1, <2>4 DEF Stands
  <2>6. t = [id |-> t.id, needs |-> t.needs, kind |-> t.kind, tool |-> t.tool,
             domain |-> t.domain, action |-> t.action, item |-> t.item]
    BY <2>3
  <2> QED  BY <2>1, <2>2, <2>4, <2>5, <2>6
<1>8. ASSUME NEW m \in 1..N, NEW n \in 1..N, m # n, SaysTheSame(c[m], c[n])
      PROVE  NamedTwice(r)
  <2>1. SaysTheSame(s[m], s[n])  BY <1>4, <1>8 DEF SaysTheSame, TaskOf
  <2> QED  BY <1>3, <1>8, <2>1 DEF Laid, ToldApart
<1>9. d = IF r.context THEN Optimized(c) ELSE c  BY DEF KeptOf
<1>10. \E g \in [1..Len(d) -> 1..N] :
        /\ d \in Seq(Y) /\ \A i \in 1..Len(d) : d[i] = c[g[i]]
        /\ (\A p \in 1..N : \E i \in 1..Len(d) : g[i] = p) \/ (r.context /\ NamedTwice(r))
  <2>1. CASE ~r.context
    <3>1. d = c  BY <1>9, <2>1
    <3>2. PICK g : g = [i \in 1..N |-> i]  OBVIOUS
    <3>3. g \in [1..N -> 1..N] /\ \A i \in 1..N : g[i] = i  BY <3>2
    <3> QED  BY <1>5, <1>6, <3>1, <3>3
  <2>2. CASE r.context
    <3>1. PICK keep : keep = {n \in DOMAIN c :
                                \A m \in 1..(n - 1) : ~SaysTheSame(c[m], c[n])}
      OBVIOUS
    <3>2. d = Chosen(c, keep)  BY <1>9, <2>2, <3>1 DEF Optimized
    <3>3. d \in Seq(Y) /\ Picks(c, keep, N, d)  BY <1>5, <1>6, <3>2, ChosenIs
    <3>4. PICK g \in [1..Len(d) -> 1..N] :
            /\ \A i \in 1..Len(d) : g[i] \in keep /\ d[i] = c[g[i]]
            /\ \A p \in 1..N : p \in keep => \E i \in 1..Len(d) : g[i] = p
      BY <3>3, Zenon DEF Picks
    <3>5. ASSUME NEW p \in 1..N, p \notin keep PROVE NamedTwice(r)
      <4>1. PICK m \in 1..(p - 1) : SaysTheSame(c[m], c[p])  BY <1>4, <3>1, <3>5
      <4>2. m \in 1..N /\ m # p  BY <4>1
      <4> QED  BY <1>8, <4>1, <4>2
    <3> QED  BY <2>2, <3>3, <3>4, <3>5
  <2> QED  BY <1>1, <2>1, <2>2
<1>11. PICK g \in [1..Len(d) -> 1..N] :
        /\ d \in Seq(Y) /\ \A i \in 1..Len(d) : d[i] = c[g[i]]
        /\ (\A p \in 1..N : \E i \in 1..Len(d) : g[i] = p) \/ (r.context /\ NamedTwice(r))
  BY <1>10
<1>12. PICK K \in Nat : K = Len(d) /\ DOMAIN d = 1..K  BY <1>11
<1>13. T = [n \in 1..K |->
              IF IsToolTask(d[n]) /\ d[n].tool = NoTool /\ IsInstalled(d[n].domain)
                THEN [d[n] EXCEPT !.tool = ToolFor(d[n].domain)] ELSE d[n]]
  BY <1>9, <1>12 DEF Resolved
<1>14. /\ DOMAIN T = 1..K
       /\ \A n \in 1..K :
            \/ T[n] = d[n]
            \/ d[n].tool = NoTool /\ T[n] = [d[n] EXCEPT !.tool = ToolFor(d[n].domain)]
  BY <1>13
<1>15. ASSUME NEW n \in 1..K PROVE Stands(T[n], s, g[n])
  <2>1. PICK p \in 1..N : p = g[n] /\ d[n] = c[p]  BY <1>11, <1>12
  <2>2. PICK t : t = c[p]  OBVIOUS
  <2>3. PICK u : u = T[n]  OBVIOUS
  <2>4. u = t \/ (t.tool = NoTool /\ u = [t EXCEPT !.tool = ToolFor(t.domain)])
    BY <1>14, <2>1, <2>2, <2>3
  <2>5. /\ Stands(t, s, p) /\ t.tool = s[p].tool /\ t.domain = s[p].domain
        /\ t = [id |-> t.id, needs |-> t.needs, kind |-> t.kind, tool |-> t.tool,
                domain |-> t.domain, action |-> t.action, item |-> t.item]
    BY <1>7, <2>2
  <2>6. Stands(u, s, p)  BY <2>4, <2>5, ResolvedStands
  <2> QED  BY <2>1, <2>3, <2>6
<1>16. \E Z : T \in Seq(Z)
  <2>1. PICK Z : Z = {T[n] : n \in 1..K}  OBVIOUS
  <2>2. T \in [1..K -> Z]  BY <1>13, <2>1
  <2>3. T \in Seq(Z)  BY <2>2
  <2> QED  BY <2>3
<1>17. \A n \in 1..K : \E p \in 1..N : Stands(T[n], s, p)  BY <1>11, <1>12, <1>15
<1>18. (\A p \in 1..N : \E n \in 1..K : T[n].id = p) \/ (r.context /\ NamedTwice(r))
  <2>1. \A n \in 1..K : T[n].id = g[n]  BY <1>15 DEF Stands
  <2>2. (\A p \in 1..N : \E n \in 1..K : g[n] = p) \/ (r.context /\ NamedTwice(r))
    BY <1>11, <1>12, Zenon
  <2>3. ASSUME NEW p \in 1..N, ~(r.context /\ NamedTwice(r))
        PROVE  \E n \in 1..K : T[n].id = p
    <3>1. PICK n \in 1..K : g[n] = p  BY <2>2, <2>3, Zenon
    <3>2. T[n].id = p  BY <2>1, <3>1
    <3> QED  BY <3>2
  <2> QED  BY <2>3, Zenon
<1> QED  BY <1>3, <1>14, <1>16, <1>17, <1>18 DEF StandFor

(* A task for a learned skill: it waits for nothing and uses no tool.        *)
Skilled(t) ==
  /\ t.id \in Int /\ t.id < 0 /\ t.needs = {} /\ t.kind = "RETRIEVE_CONTEXT"
  /\ t.action = "" /\ t.tool = NoTool

EndsIn(A, T, K) ==
  /\ \E Y : A \in Seq(Y)
  /\ \A n \in DOMAIN A : Skilled(A[n]) \/ \E m \in 1..K : A[n] = T[m]
  /\ \A m \in 1..K : \E n \in DOMAIN A : A[n] = T[m]

LEMMA SkillsInFront ==
  ASSUME NEW X, NEW T, T \in Seq(X), NEW K, K = Len(T),
         NEW fitting, IsFiniteSet(fitting), NEW A, A = WithSkills(T, fitting)
  PROVE  EndsIn(A, T, K)
<1>1. K \in Nat  OBVIOUS
<1>2. PICK F \in Nat : F = Cardinality(fitting)  BY FS_CardinalityType
<1>3. PICK e : e = Step("RETRIEVE_CONTEXT")  OBVIOUS
<1>4. e = [kind |-> "RETRIEVE_CONTEXT", tool |-> NoTool, domain |-> NoDomain,
           action |-> "", item |-> 0]
  BY <1>3 DEF Step
<1>5. PICK f : f = [n \in 1..F |-> TaskOf(e, -n, {})]  OBVIOUS
<1>6. A = f \o T  BY <1>2, <1>3, <1>5, Zenon DEF WithSkills
<1>7. ASSUME NEW n \in 1..F PROVE Skilled(f[n])
  <2>1. PICK i \in Int : i = -n /\ i < 0  OBVIOUS
  <2>2. f[n] = TaskOf(e, i, {})  BY <1>5, <2>1
  <2>3. f[n] = [id |-> i, needs |-> {}, kind |-> "RETRIEVE_CONTEXT", tool |-> NoTool,
                domain |-> NoDomain, action |-> "", item |-> 0]
    BY <1>4, <2>2 DEF TaskOf
  <2>4. PICK v, x, y : v = f[n] /\ x = NoTool /\ y = {}  OBVIOUS
  <2>5. v = [id |-> i, needs |-> y, kind |-> "RETRIEVE_CONTEXT", tool |-> x,
             domain |-> NoDomain, action |-> "", item |-> 0]
    BY <2>3, <2>4, Zenon
  <2>6. /\ v.id = i /\ v.needs = y /\ v.kind = "RETRIEVE_CONTEXT"
        /\ v.action = "" /\ v.tool = x
    BY <2>5
  <2>7. /\ v.id = i /\ v.needs = {} /\ v.kind = "RETRIEVE_CONTEXT"
        /\ v.action = "" /\ v.tool = NoTool
    BY <2>4, <2>6
  <2>8. v.id \in Int /\ v.id < 0  BY <2>1, <2>7
  <2> QED  BY <2>4, <2>7, <2>8, Zenon DEF Skilled
<1>8. PICK Y : Y = X \cup {f[n] : n \in 1..F}  OBVIOUS
<1>9. f \in Seq(Y) /\ Len(f) = F
  <2>1. DOMAIN f = 1..F /\ \A n \in 1..F : f[n] \in Y  BY <1>5, <1>8
  <2>2. f \in [1..F -> Y]  BY <1>5, <2>1
  <2> QED  BY <2>2
<1>10. T \in Seq(Y)
  <2>1. T \in [1..K -> X]  BY <1>1
  <2>2. \A n \in 1..K : T[n] \in Y  BY <1>8, <2>1
  <2>3. T \in [1..K -> Y]  BY <2>1, <2>2
  <2> QED  BY <2>3
<1>11. A \in Seq(Y) /\ Joins(A, f, T)
  <2>1. f \o T \in Seq(Y) /\ Joins(f \o T, f, T)  BY <1>9, <1>10, JoinedIs
  <2> QED  BY <1>6, <2>1, Zenon
<1>12. /\ DOMAIN A = 1..(F + K)
       /\ \A i \in 1..F : A[i] = f[i]
       /\ \A i \in 1..K : A[i + F] = T[i]
  BY <1>9, <1>11 DEF Joins
<1>13. ASSUME NEW n \in DOMAIN A PROVE Skilled(A[n]) \/ \E m \in 1..K : A[n] = T[m]
  <2>1. CASE n \in 1..F  BY <1>7, <1>12, <2>1
  <2>2. CASE n \notin 1..F
    <3>1. n \in 1..(F + K)  BY <1>12
    <3>2. PICK m \in 1..K : n = m + F
      <4>1. n - F \in 1..K /\ n = (n - F) + F  BY <1>1, <2>2, <3>1
      <4> QED  BY <4>1
    <3> QED  BY <1>12, <3>2
  <2> QED  BY <2>1, <2>2
<1>14. ASSUME NEW m \in 1..K PROVE \E n \in DOMAIN A : A[n] = T[m]
  <2>1. m + F \in 1..(F + K)  BY <1>1
  <2> QED  BY <1>12, <2>1
<1> QED  BY <1>11, <1>13, <1>14 DEF EndsIn

(* The stages hold the tasks by the rank of their kinds, in that order.      *)
KindsKnown(A) == \A n \in DOMAIN A : A[n].kind \in DOMAIN KindRank
StagesOf(S, A) ==
  /\ \E Z : S \in Seq(Z)
  /\ \E g \in [DOMAIN S -> 1..5] :
       /\ \A a, b \in DOMAIN S : a < b => g[a] < g[b]
       /\ \A a \in DOMAIN S : S[a] = {A[n].id : n \in {m \in DOMAIN A :
                                         KindRank[A[m].kind] = g[a]}}
  /\ \A n \in DOMAIN A : \E a \in DOMAIN S : A[n].id \in S[a]

LEMMA StagedIs ==
  ASSUME NEW Y, NEW A, A \in Seq(Y), KindsKnown(A), NEW S, S = Staged(A)
  PROVE  StagesOf(S, A)
<1>1. PICK lots : lots = [k \in DOMAIN StageOrder |->
                            {A[n].id : n \in {m \in DOMAIN A :
                                                StageOf(A[m].kind) = StageOrder[k]}}]
  OBVIOUS
<1>2. PICK keep : keep = {k \in DOMAIN StageOrder : lots[k] # {}}  OBVIOUS
<1>3. S = Chosen(lots, keep)  BY <1>1, <1>2, Zenon DEF Staged
<1>4. DOMAIN StageOrder = 1..5  BY DEF StageOrder
<1>5. ASSUME NEW k \in DOMAIN KindRank, NEW j \in 1..5
      PROVE  StageOf(k) = StageOrder[j] <=> KindRank[k] = j
  <2>1. /\ StageOrder[1] = "ANALYZE" /\ StageOrder[2] = "PREPARE" /\ StageOrder[3] = "ACT"
        /\ StageOrder[4] = "VERIFY" /\ StageOrder[5] = "REFLECT"
    BY DEF StageOrder
  <2>2. j = 1 \/ j = 2 \/ j = 3 \/ j = 4 \/ j = 5  OBVIOUS
  <2>3. k \in {"UNDERSTAND", "RETRIEVE_CONTEXT", "PLAN", "EXECUTE", "VERIFY", "REFLECT"}
    BY DEF KindRank
  <2>4. /\ k = "UNDERSTAND" => StageOf(k) = "ANALYZE" /\ KindRank[k] = 1
        /\ k = "RETRIEVE_CONTEXT" => StageOf(k) = "PREPARE" /\ KindRank[k] = 2
        /\ k = "PLAN" => StageOf(k) = "PREPARE" /\ KindRank[k] = 2
        /\ k = "EXECUTE" => StageOf(k) = "ACT" /\ KindRank[k] = 3
        /\ k = "VERIFY" => StageOf(k) = "VERIFY" /\ KindRank[k] = 4
        /\ k = "REFLECT" => StageOf(k) = "REFLECT" /\ KindRank[k] = 5
    BY DEF StageOf, StageByKind, KindRank
  <2> QED  BY <2>1, <2>2, <2>3, <2>4
<1>6. ASSUME NEW j \in 1..5
      PROVE  lots[j] = {A[n].id : n \in {m \in DOMAIN A : KindRank[A[m].kind] = j}}
  <2>1. {m \in DOMAIN A : StageOf(A[m].kind) = StageOrder[j]}
          = {m \in DOMAIN A : KindRank[A[m].kind] = j}
    BY <1>5 DEF KindsKnown
  <2>2. lots[j] = {A[n].id : n \in {m \in DOMAIN A : StageOf(A[m].kind) = StageOrder[j]}}
    BY <1>1, <1>4
  <2> QED  BY <2>1, <2>2, Zenon
<1>7. PICK Z : Z = {lots[k] : k \in 1..5}  OBVIOUS
<1>8. lots \in Seq(Z) /\ Len(lots) = 5
  <2>1. lots \in [1..5 -> Z]  BY <1>1, <1>4, <1>7
  <2>2. PICK N \in Nat : N = 5  OBVIOUS
  <2>3. lots \in [1..N -> Z]  BY <2>1, <2>2
  <2>4. lots \in Seq(Z) /\ Len(lots) = N  BY <2>3
  <2> QED  BY <2>2, <2>4
<1>9. S \in Seq(Z) /\ Picks(lots, keep, 5, S)  BY <1>3, <1>8, ChosenIs
<1>10. PICK g \in [1..Len(S) -> 1..5] :
         /\ \A i \in 1..Len(S) : g[i] \in keep /\ S[i] = lots[g[i]]
         /\ \A i, j \in 1..Len(S) : i < j => g[i] < g[j]
         /\ \A k \in 1..5 : k \in keep => \E i \in 1..Len(S) : g[i] = k
  BY <1>9, Zenon DEF Picks
<1>11. DOMAIN S = 1..Len(S)  BY <1>9
<1>12. ASSUME NEW n \in DOMAIN A PROVE \E a \in DOMAIN S : A[n].id \in S[a]
  <2>1. PICK k \in 1..5 : k = KindRank[A[n].kind]
    <3>1. A[n].kind \in DOMAIN KindRank  BY DEF KindsKnown
    <3> QED  BY <3>1 DEF KindRank
  <2>2. A[n].id \in lots[k]  BY <1>6, <2>1
  <2>3. k \in keep  BY <1>2, <1>4, <2>2
  <2>4. PICK a \in 1..Len(S) : g[a] = k  BY <1>10, <2>3
  <2>5. S[a] = lots[k]  BY <1>10, <2>4
  <2> QED  BY <1>11, <2>2, <2>5
<1>13. g \in [DOMAIN S -> 1..5]  BY <1>11
<1>14. \A a, b \in DOMAIN S : a < b => g[a] < g[b]  BY <1>10, <1>11
<1>15. ASSUME NEW a \in DOMAIN S
       PROVE  S[a] = {A[n].id : n \in {m \in DOMAIN A : KindRank[A[m].kind] = g[a]}}
  <2>1. PICK k \in 1..5 : k = g[a] /\ S[a] = lots[k]  BY <1>10, <1>11
  <2>2. lots[k] = {A[n].id : n \in {m \in DOMAIN A : KindRank[A[m].kind] = k}}
    BY <1>6
  <2> QED  BY <2>1, <2>2, Zenon
<1> QED  BY <1>9, <1>12, <1>13, <1>14, <1>15, Zenon DEF StagesOf

(* What holds of a plan from when it is laid out until it is answered.       *)
Reaches(t, r) ==
  /\ t.tool = "resolver" =>
       \/ WritesResource(r.says) /\ t.action \in {"write", "mkdir"}
       \/ ~IsMemoryDelete(r.says) /\ "clipboard" \notin r.says /\ "command" \notin r.says
  /\ WritesResource(r.says) /\ IsToolTask(t) =>
       t.tool = "resolver" \/ StoresMemory(r.says) \/ r.follows
  /\ t.tool = "internet" => "memory" \notin r.says /\ ~RecallsMemory(r.says)

AwaitsTools(ts) ==
  \A n, m \in DOMAIN ts :
    ts[n].action # "" /\ ts[m].kind = "EXECUTE" /\ ts[m].action = ""
    => ts[n].id \in ts[m].needs /\ ts[n].action \notin Changing
OneNeed(ts) == \A n, m \in DOMAIN ts : ts[n].id = ts[m].id => ts[n].needs = ts[m].needs
Available(ts, u) ==
  \A n \in DOMAIN ts : IsToolTask(ts[n]) =>
    ts[n].tool \in u /\ ts[n].action \in SupportedActions[ts[n].tool]
InStages(ts, st) ==
  \A a, b \in DOMAIN st : \A n, m \in DOMAIN ts :
    /\ ts[n].id \in st[a] /\ ts[m].id \in st[b]
    /\ ts[m].id \in ts[n].needs
    => b <= a
HasNeeds(ts, r) ==
  \A n \in DOMAIN ts : ts[n].needs \subseteq TaskIds(ts) \/ (r.context /\ NamedTwice(r))

PlanOK(p, r, u) ==
  /\ p.status \in {"none", "ok", "unavailable", "needs_input"}
  /\ UNION {p.stages[n] : n \in DOMAIN p.stages} = TaskIds(p.tasks)
  /\ \A n \in DOMAIN p.tasks : Reaches(p.tasks[n], r)
  /\ AwaitsTools(p.tasks) /\ OneNeed(p.tasks) /\ Available(p.tasks, u)
  /\ InStages(p.tasks, p.stages) /\ HasNeeds(p.tasks, r)

KnownStatus(x) == x \in {"none", "ok", "unavailable", "needs_input"}

LEMMA EmptyPlanOK ==
  ASSUME NEW p, p.tasks = <<>>, p.stages = <<>>, NEW r, NEW u,
         KnownStatus(p.status)
  PROVE  PlanOK(p, r, u)
<1>1. DOMAIN p.tasks = {} /\ DOMAIN p.stages = {}
  <2>1. Len(<<>>) = 0 /\ DOMAIN <<>> = {}  OBVIOUS
  <2> QED  BY <2>1, Zenon
<1>2. TaskIds(p.tasks) = {} /\ UNION {p.stages[n] : n \in DOMAIN p.stages} = {}
  BY <1>1 DEF TaskIds
<1> QED
  BY <1>1, <1>2 DEF PlanOK, AwaitsTools, OneNeed, Available, InStages, HasNeeds, KnownStatus

(* A task of a plan with skills is a skill's, or stands for a step.          *)
PlanStands(A, T, s, N, r) ==
  /\ N \in Nat /\ DOMAIN s = 1..N
  /\ \E Y : A \in Seq(Y)
  /\ \A n \in DOMAIN A : Skilled(A[n]) \/ \E p \in 1..N : Stands(A[n], s, p)
  /\ \A n \in DOMAIN A : A[n].action # "" => \E m \in DOMAIN T : A[n] = T[m]
  /\ (\A p \in 1..N : \E n \in DOMAIN A : A[n].id = p) \/ (r.context /\ NamedTwice(r))

LEMMA SkilledPlanStands ==
  ASSUME NEW r, NEW s, Laid(s, r), NEW T, StandFor(T, s, r),
         NEW fitting, IsFiniteSet(fitting), NEW A, A = WithSkills(T, fitting),
         NEW N, N = Len(s)
  PROVE  PlanStands(A, T, s, N, r)
<1>1. PICK X : s \in Seq(X)  BY Zenon DEF Laid
<1>2. N \in Nat /\ DOMAIN s = 1..N  BY <1>1
<1>3. PICK X2 : T \in Seq(X2)  BY Zenon DEF StandFor
<1>4. PICK K \in Nat : K = Len(T) /\ DOMAIN T = 1..K  BY <1>3
<1>5. /\ \E Y : A \in Seq(Y)
      /\ \A n \in DOMAIN A : Skilled(A[n]) \/ \E m \in 1..K : A[n] = T[m]
      /\ \A m \in 1..K : \E n \in DOMAIN A : A[n] = T[m]
  <2>1. K = Len(T)  BY <1>4
  <2>2. EndsIn(A, T, K)  BY <1>3, <2>1, SkillsInFront, Zenon
  <2> QED  BY <2>2 DEF EndsIn
<1>6. \A n \in 1..K : \E p \in 1..N : Stands(T[n], s, p)  BY <1>4 DEF StandFor
<1>7. \A n \in DOMAIN A : A[n].action # "" => \E m \in DOMAIN T : A[n] = T[m]
  BY <1>4, <1>5 DEF Skilled
<1>8. (\A p \in 1..N : \E n \in 1..K : T[n].id = p) \/ (r.context /\ NamedTwice(r))
  BY <1>4, Zenon DEF StandFor
<1>9. ASSUME NEW p \in 1..N, ~(r.context /\ NamedTwice(r))
      PROVE  \E n \in DOMAIN A : A[n].id = p
  <2>1. PICK m \in 1..K : T[m].id = p  BY <1>8, <1>9
  <2>2. PICK n \in DOMAIN A : A[n] = T[m]  BY <1>5
  <2> QED  BY <2>1, <2>2
<1>10. ASSUME NEW n \in DOMAIN A PROVE Skilled(A[n]) \/ \E p \in 1..N : Stands(A[n], s, p)
  BY <1>5, <1>6
<1>11. (\A p \in 1..N : \E n \in DOMAIN A : A[n].id = p) \/ (r.context /\ NamedTwice(r))
  BY <1>9, Zenon
<1> QED  BY <1>2, <1>5, <1>7, <1>10, <1>11, Zenon DEF PlanStands

LEMMA StandsReaches ==
  ASSUME NEW r, NEW s, NEW p, NEW t, Stands(t, s, p), RoutedRight(s[p], r)
  PROVE  Reaches(t, r)
<1>1. PICK x : x = s[p]  OBVIOUS
<1>2. /\ t.action = x.action
      /\ t.tool = x.tool \/ (x.tool = NoTool /\ t.tool = ToolFor(x.domain))
  BY <1>1 DEF Stands
<1>3. RoutedRight(x, r)  BY <1>1
<1>4. CASE t.tool = x.tool  BY <1>2, <1>3, <1>4 DEF RoutedRight, Reaches, IsToolTask
<1>5. CASE x.tool = NoTool /\ t.tool = ToolFor(x.domain)
  <2>1. t.tool \notin {"resolver", "internet"}  BY <1>3, <1>5 DEF RoutedRight
  <2>2. x.tool # "resolver"  BY <1>5 DEF NoTool
  <2> QED  BY <1>2, <1>3, <2>1, <2>2 DEF RoutedRight, Reaches, IsToolTask
<1> QED  BY <1>2, <1>4, <1>5

LEMMA SkilledReaches ==
  ASSUME NEW r, NEW t, Skilled(t)
  PROVE  Reaches(t, r)
BY DEF Skilled, Reaches, IsToolTask, NoTool

JustBefore(x, p) == p # 1 /\ x \in Int /\ p = x + 1

LEMMA NeedIs ==
  ASSUME NEW p, p \in Nat, NEW x, x \in NeedOf(p)
  PROVE  JustBefore(x, p)
BY DEF NeedOf, JustBefore

LEMMA NeededBefore ==
  ASSUME NEW i, NEW j, JustBefore(i, j)
  PROVE  i \in NeedOf(j)
BY DEF NeedOf, JustBefore

AllReach(A, r) == \A n \in DOMAIN A : Reaches(A[n], r)
AllStaged(A, S) == UNION {S[a] : a \in DOMAIN S} = TaskIds(A)

LEMMA OkPlanOK ==
  ASSUME NEW A, NEW S, NEW r, NEW u, NEW q,
         q = [status |-> "ok", tasks |-> A, stages |-> S],
         AllReach(A, r), AwaitsTools(A), OneNeed(A), Available(A, u), InStages(A, S),
         HasNeeds(A, r), AllStaged(A, S)
  PROVE  PlanOK(q, r, u)
<1>1. q.status = "ok" /\ q.tasks = A /\ q.stages = S  OBVIOUS
<1>2. q.status \in {"none", "ok", "unavailable", "needs_input"}  BY <1>1
<1>3. AllStaged(q.tasks, q.stages)  BY <1>1
<1>4. /\ AllReach(q.tasks, r)
      /\ AwaitsTools(q.tasks) /\ OneNeed(q.tasks) /\ Available(q.tasks, u)
      /\ InStages(q.tasks, q.stages) /\ HasNeeds(q.tasks, r)
  BY <1>1
<1> QED  BY <1>2, <1>3, <1>4, Zenon DEF PlanOK, AllReach, AllStaged

LEMMA StandsAt ==
  ASSUME NEW A, NEW T, NEW s, NEW N, NEW r, PlanStands(A, T, s, N, r),
         NEW n, n \in DOMAIN A, ~Skilled(A[n])
  PROVE  A[n].id \in 1..N /\ Stands(A[n], s, A[n].id)
<1>1. PICK p \in 1..N : Stands(A[n], s, p)  BY Zenon DEF PlanStands
<1>2. A[n].id = p  BY <1>1 DEF Stands
<1> QED  BY <1>1, <1>2

LEMMA NotSkilled ==
  ASSUME NEW t, NEW N, N \in Nat, t.id \in 1..N
  PROVE  ~Skilled(t)
<1>1. PICK x : x = t.id  OBVIOUS
<1>2. ~(x < 0)  BY <1>1
<1> QED  BY <1>1, <1>2 DEF Skilled

LEMMA AwaitsToolsIs ==
  ASSUME NEW A, NEW T, NEW s, NEW N, NEW r, PlanStands(A, T, s, N, r), Laid(s, r)
  PROVE  AwaitsTools(A)
<1>1. N \in Nat /\ DOMAIN s = 1..N  BY Zenon DEF PlanStands
<1>2. AsksAfter(s)  BY DEF Laid
<1>3. ASSUME NEW n \in DOMAIN A, NEW m \in DOMAIN A,
             A[n].action # "", A[m].kind = "EXECUTE", A[m].action = ""
      PROVE  A[n].id \in A[m].needs /\ A[n].action \notin Changing
  <2>1. ~Skilled(A[n]) /\ ~Skilled(A[m])  BY <1>3 DEF Skilled
  <2>2. PICK i \in 1..N : i = A[n].id /\ Stands(A[n], s, i)  BY <2>1, StandsAt
  <2>3. PICK j \in 1..N : j = A[m].id /\ Stands(A[m], s, j)  BY <2>1, StandsAt
  <2>4. s[i].action = A[n].action /\ s[j].kind = "EXECUTE" /\ s[j].action = ""
    BY <1>3, <2>2, <2>3 DEF Stands
  <2>5. j = i + 1 /\ s[i].action \notin Changing
    BY <1>1, <1>2, <1>3, <2>4 DEF AsksAfter
  <2>6. JustBefore(i, j)  BY <1>1, <2>5 DEF JustBefore
  <2>7. i \in NeedOf(j)  BY <2>6, NeededBefore
  <2>8. A[m].needs = NeedOf(j)  BY <2>3 DEF Stands
  <2> QED  BY <2>2, <2>4, <2>5, <2>7, <2>8
<1> QED  BY <1>3, Zenon DEF AwaitsTools

LEMMA OneNeedIs ==
  ASSUME NEW A, NEW T, NEW s, NEW N, NEW r, PlanStands(A, T, s, N, r)
  PROVE  OneNeed(A)
<1>1. N \in Nat  BY Zenon DEF PlanStands
<1>2. ASSUME NEW n \in DOMAIN A, NEW m \in DOMAIN A, A[n].id = A[m].id
      PROVE  A[n].needs = A[m].needs
  <2>1. CASE Skilled(A[n]) /\ Skilled(A[m])  BY <2>1 DEF Skilled
  <2>2. CASE ~Skilled(A[n])
    <3>1. A[n].id \in 1..N /\ Stands(A[n], s, A[n].id)  BY <2>2, StandsAt
    <3>2. ~Skilled(A[m])  BY <1>1, <1>2, <3>1, NotSkilled
    <3>3. Stands(A[m], s, A[m].id)  BY <3>2, StandsAt
    <3> QED  BY <1>2, <3>1, <3>3 DEF Stands
  <2>3. CASE ~Skilled(A[m])
    <3>1. A[m].id \in 1..N /\ Stands(A[m], s, A[m].id)  BY <2>3, StandsAt
    <3>2. ~Skilled(A[n])  BY <1>1, <1>2, <3>1, NotSkilled
    <3> QED  BY <2>2, <3>2
  <2> QED  BY <2>1, <2>2, <2>3
<1> QED  BY <1>2, Zenon DEF OneNeed

LEMMA HasNeedsIs ==
  ASSUME NEW A, NEW T, NEW s, NEW N, NEW r, PlanStands(A, T, s, N, r)
  PROVE  HasNeeds(A, r)
<1>1. N \in Nat  BY Zenon DEF PlanStands
<1>2. ASSUME NEW n \in DOMAIN A, ~(r.context /\ NamedTwice(r)), NEW x \in A[n].needs
      PROVE  x \in TaskIds(A)
  <2>1. ~Skilled(A[n])  BY <1>2 DEF Skilled
  <2>2. PICK p \in 1..N : p = A[n].id /\ Stands(A[n], s, p)  BY <2>1, StandsAt
  <2>3. x \in NeedOf(p)  BY <2>2 DEF Stands
  <2>4. p \in Nat  BY <1>1
  <2>5. JustBefore(x, p)  BY <2>3, <2>4, NeedIs, Zenon
  <2>6. x \in 1..N  BY <1>1, <2>5 DEF JustBefore
  <2>7. PICK m \in DOMAIN A : A[m].id = x  BY <1>2, <2>6, Zenon DEF PlanStands
  <2> QED  BY <2>7 DEF TaskIds
<1> QED  BY <1>2, Zenon DEF HasNeeds

LEMMA InStagesIs ==
  ASSUME NEW A, NEW T, NEW s, NEW N, NEW r, PlanStands(A, T, s, N, r), Laid(s, r),
         NEW S, StagesOf(S, A)
  PROVE  InStages(A, S)
<1>1. N \in Nat /\ DOMAIN s = 1..N  BY Zenon DEF PlanStands
<1>2. Ordered(s)  BY DEF Laid
<1>3. PICK g \in [DOMAIN S -> 1..5] :
        /\ \A a, b \in DOMAIN S : a < b => g[a] < g[b]
        /\ \A a \in DOMAIN S : S[a] = {A[n].id : n \in {m \in DOMAIN A :
                                          KindRank[A[m].kind] = g[a]}}
  BY Zenon DEF StagesOf
<1>4. ASSUME NEW a \in DOMAIN S, NEW x \in S[a], x \in 1..N
      PROVE  KindRank[s[x].kind] = g[a]
  <2>1. PICK i \in DOMAIN A : A[i].id = x /\ KindRank[A[i].kind] = g[a]
    BY <1>3
  <2>2. ~Skilled(A[i])  BY <1>1, <1>4, <2>1, NotSkilled
  <2>3. Stands(A[i], s, x)  BY <2>1, <2>2, StandsAt
  <2>4. A[i].kind = s[x].kind  BY <2>3 DEF Stands
  <2> QED  BY <2>1, <2>4
<1>5. ASSUME NEW a \in DOMAIN S, NEW b \in DOMAIN S, NEW n \in DOMAIN A, NEW m \in DOMAIN A,
             A[n].id \in S[a], A[m].id \in S[b], A[m].id \in A[n].needs
      PROVE  b <= a
  <2>1. ~Skilled(A[n])  BY <1>5 DEF Skilled
  <2>2. PICK p \in 1..N : p = A[n].id /\ Stands(A[n], s, p)  BY <2>1, StandsAt
  <2>3. PICK o : o = A[m].id  OBVIOUS
  <2>4. o \in NeedOf(p)  BY <1>5, <2>2, <2>3 DEF Stands
  <2>5. p \in Nat  BY <1>1
  <2>6. JustBefore(o, p)  BY <2>4, <2>5, NeedIs, Zenon
  <2>7. o \in 1..N /\ o < p  BY <1>1, <2>6 DEF JustBefore
  <2>8. KindRank[s[p].kind] = g[a] /\ KindRank[s[o].kind] = g[b]
    BY <1>4, <1>5, <2>2, <2>3, <2>7
  <2>9. InOrder(s[o].kind, s[p].kind)  BY <1>1, <1>2, <2>7 DEF Ordered
  <2>10. g[b] <= g[a]  BY <2>8, <2>9 DEF InOrder
  <2>11. g[a] \in 1..5 /\ g[b] \in 1..5  OBVIOUS
  <2>12. ~(g[a] < g[b])  BY <2>10, <2>11
  <2>13. ~(a < b)  BY <1>3, <2>12
  <2>14. a \in Nat /\ b \in Nat
    <3>1. PICK Z : S \in Seq(Z)  BY Zenon DEF StagesOf
    <3> QED  BY <3>1
  <2> QED  BY <2>13, <2>14
<1> QED  BY <1>5, Zenon DEF InStages

LEMMA StagesHold ==
  ASSUME NEW A, NEW S, StagesOf(S, A)
  PROVE  AllStaged(A, S)
<1>1. ASSUME NEW a \in DOMAIN S, NEW x \in S[a] PROVE x \in TaskIds(A)
  <2>1. PICK g \in [DOMAIN S -> 1..5] :
          \A i \in DOMAIN S : S[i] = {A[n].id : n \in {m \in DOMAIN A :
                                            KindRank[A[m].kind] = g[i]}}
    BY Zenon DEF StagesOf
  <2> QED  BY <1>1, <2>1 DEF TaskIds
<1>2. ASSUME NEW x \in TaskIds(A) PROVE \E a \in DOMAIN S : x \in S[a]
  <2>1. PICK n \in DOMAIN A : x = A[n].id  BY DEF TaskIds
  <2> QED  BY <2>1, Zenon DEF StagesOf
<1> QED  BY <1>1, <1>2 DEF AllStaged

(* A plan with every tool available is settled.                              *)
LEMMA SettledPlan ==
  ASSUME NEW r, NEW s, Laid(s, r), NEW T, StandFor(T, s, r),
         NEW fitting, IsFiniteSet(fitting), NEW A, A = WithSkills(T, fitting),
         NEW u, Available(T, u), NEW S, S = Staged(A),
         NEW q, q = [status |-> "ok", tasks |-> A, stages |-> S]
  PROVE  PlanOK(q, r, u)
<1>1. PICK N : N = Len(s)  OBVIOUS
<1>2. PlanStands(A, T, s, N, r)  BY <1>1, SkilledPlanStands, Zenon
<1>3. PICK Y : A \in Seq(Y)  BY <1>2, Zenon DEF PlanStands
<1>4. KindsKnown(A)
  <2>1. ASSUME NEW n \in DOMAIN A, Skilled(A[n]) PROVE A[n].kind \in DOMAIN KindRank
    <3>1. A[n].kind = "RETRIEVE_CONTEXT"  BY <2>1 DEF Skilled
    <3> QED  BY <3>1 DEF KindRank
  <2>2. ASSUME NEW n \in DOMAIN A, ~Skilled(A[n]) PROVE A[n].kind \in DOMAIN KindRank
    <3>1. PICK p : p = A[n].id /\ p \in 1..N /\ Stands(A[n], s, p)  BY <1>2, <2>2, StandsAt
    <3>2. p \in DOMAIN s  BY <1>2, <3>1, Zenon DEF PlanStands
    <3>3. InOrder(s[p].kind, s[p].kind)  BY <3>2, Zenon DEF Laid, Ordered
    <3> QED  BY <3>1, <3>3, Zenon DEF Stands, InOrder
  <2> QED  BY <2>1, <2>2, Zenon DEF KindsKnown
<1>5. StagesOf(S, A)  BY <1>3, <1>4, StagedIs, Zenon
<1>6. ASSUME NEW n \in DOMAIN A PROVE Reaches(A[n], r)
  <2>1. CASE Skilled(A[n])  BY <2>1, SkilledReaches
  <2>2. CASE ~Skilled(A[n])
    <3>1. PICK p : p = A[n].id /\ p \in 1..N /\ Stands(A[n], s, p)  BY <1>2, <2>2, StandsAt
    <3>2. p \in DOMAIN s  BY <1>2, <3>1, Zenon DEF PlanStands
    <3>3. RoutedRight(s[p], r)  BY <3>2, Zenon DEF Laid
    <3> QED  BY <3>1, <3>3, StandsReaches, Zenon
  <2> QED  BY <2>1, <2>2
<1>7. Available(A, u)
  <2>1. ASSUME NEW n \in DOMAIN A, IsToolTask(A[n])
        PROVE  A[n].tool \in u /\ A[n].action \in SupportedActions[A[n].tool]
    <3>1. PICK m \in DOMAIN T : A[n] = T[m]
      BY <1>2, <2>1, Zenon DEF IsToolTask, PlanStands
    <3> QED  BY <2>1, <3>1, Zenon DEF Available
  <2> QED  BY <2>1, Zenon DEF Available
<1>8. AwaitsTools(A) /\ OneNeed(A) /\ HasNeeds(A, r) /\ InStages(A, S)
  BY <1>2, <1>5, AwaitsToolsIs, OneNeedIs, HasNeedsIs, InStagesIs, Zenon
<1>9. AllStaged(A, S)  BY <1>5, StagesHold
<1>10. AllReach(A, r)  BY <1>6, Zenon DEF AllReach
<1> QED  BY <1>10, <1>7, <1>8, <1>9, OkPlanOK, Zenon

LEMMA AloneIs ==
  ASSUME NEW X, NEW a, a \in X
  PROVE  <<a>> \in Seq(X)
OBVIOUS

LEMMA TwoAre ==
  ASSUME NEW X, NEW a, a \in X, NEW b, b \in X
  PROVE  <<a, b>> \in Seq(X)
OBVIOUS

(* What the planner hands over is settled, with the tools usable now.        *)
LEMMA PlanForOK ==
  ASSUME NEW r, TypedRequest(r), NEW fitting, IsFiniteSet(fitting)
  PROVE  PlanOK(PlanFor(r, fitting), r, usable)
<1>1. PICK goal : goal = ParsedGoal(r)  OBVIOUS
<1>2. PICK s : s = PlanSteps(goal)  OBVIOUS
<1>3. PICK c : c = Chained(s)  OBVIOUS
<1>4. PICK d : d = IF r.context THEN Optimized(c) ELSE c  OBVIOUS
<1>5. PICK T : T = Resolved(d)  OBVIOUS
<1>6. PICK A : A = WithSkills(T, fitting)  OBVIOUS
<1>7. PICK q : q = PlanFor(r, fitting)  OBVIOUS
<1>8. \/ q = Refused("unavailable") \/ q = Refused("needs_input")
      \/ /\ InputErrors(T) = {}
         /\ q = [status |-> "ok", tasks |-> A, stages |-> Staged(A)]
  BY <1>1, <1>2, <1>3, <1>4, <1>5, <1>6, <1>7, Zenon DEF PlanFor
<1>9. ASSUME NEW why \in {"unavailable", "needs_input"}, q = Refused(why)
      PROVE  PlanOK(q, r, usable)
  <2>1. q = [status |-> why, tasks |-> <<>>, stages |-> <<>>]
    BY <1>9 DEF Refused, NoPlan
  <2>2. q.tasks = <<>> /\ q.stages = <<>> /\ q.status = why  BY <2>1
  <2>3. KnownStatus(q.status)  BY <1>9, <2>2 DEF KnownStatus
  <2>4. PICK u : u = usable  OBVIOUS
  <2>5. PlanOK(q, r, u)  BY <2>2, <2>3, EmptyPlanOK, Zenon
  <2> QED  BY <2>4, <2>5
<1>10. ASSUME InputErrors(T) = {}, q = [status |-> "ok", tasks |-> A, stages |-> Staged(A)]
      PROVE  PlanOK(q, r, usable)
  <2>1. Laid(s, r)  BY <1>1, <1>2, PlanStepsLaid DEF TypedRequest
  <2>2. StandFor(T, s, r)
    <3>1. KeptOf(d, c, r)  BY <1>4 DEF KeptOf
    <3> QED  BY <1>3, <1>5, <2>1, <3>1, TasksStand, Zenon
  <2>3. PICK u : u = usable  OBVIOUS
  <2>4. Available(T, u)  BY <1>10, <2>3 DEF Available, InputErrors
  <2>5. PlanOK(q, r, u)  BY <1>6, <1>10, <2>1, <2>2, <2>4, SettledPlan, Zenon
  <2> QED  BY <2>3, <2>5
<1> QED  BY <1>7, <1>8, <1>9, <1>10

(* Tasks of no tool, each in a stage of its own.                             *)
EachAlone(A, S, N) ==
  /\ DOMAIN A = 1..N
  /\ \A n \in 1..N : /\ A[n].id = n /\ A[n].needs = NeedOf(n)
                     /\ A[n].action = "" /\ A[n].tool = NoTool
  /\ DOMAIN S = 1..N /\ \A n \in 1..N : S[n] = {n}

LEMMA AloneOK ==
  ASSUME NEW N, N \in Nat, NEW A, NEW S, EachAlone(A, S, N), NEW r, NEW u, NEW q,
         q = [status |-> "ok", tasks |-> A, stages |-> S]
  PROVE  PlanOK(q, r, u)
<1>1. DOMAIN A = 1..N /\ DOMAIN S = 1..N  BY Zenon DEF EachAlone
<1>2. ASSUME NEW n, n \in 1..N
      PROVE  /\ A[n].id = n /\ A[n].needs = NeedOf(n)
             /\ A[n].action = "" /\ A[n].tool = NoTool /\ S[n] = {n}
  BY <1>2, Zenon DEF EachAlone
<1>3. TaskIds(A) = 1..N
  <2>1. ASSUME NEW x \in TaskIds(A) PROVE x \in 1..N
    <3>1. PICK n \in 1..N : x = A[n].id  BY <1>1 DEF TaskIds
    <3> QED  BY <1>2, <3>1, Zenon
  <2>2. ASSUME NEW x \in 1..N PROVE x \in TaskIds(A)
    <3>1. PICK o : o = A[x].id  OBVIOUS
    <3>2. o = x  BY <1>2, <3>1, Zenon
    <3>3. o \in TaskIds(A)  BY <1>1, <3>1 DEF TaskIds
    <3> QED  BY <3>2, <3>3
  <2> QED  BY <2>1, <2>2
<1>4. AllReach(A, r)
  <2>1. ASSUME NEW t, t.action = "", t.tool = NoTool PROVE Reaches(t, r)
    BY <2>1 DEF Reaches, IsToolTask, NoTool
  <2> QED  BY <1>1, <1>2, <2>1, Zenon DEF AllReach
<1>5. AwaitsTools(A)  BY <1>1, <1>2, Zenon DEF AwaitsTools
<1>6. Available(A, u)  BY <1>1, <1>2, Zenon DEF Available, IsToolTask
<1>7. OneNeed(A)
  <2>1. ASSUME NEW n, n \in 1..N, NEW m, m \in 1..N, A[n].id = A[m].id
        PROVE  A[n].needs = A[m].needs
    <3>1. A[n].id = n /\ A[m].id = m  BY <1>2, <2>1, Zenon
    <3>2. n = m  BY <2>1, <3>1, Zenon
    <3> QED  BY <3>2, Zenon
  <2> QED  BY <1>1, <2>1, Zenon DEF OneNeed
<1>8. InStages(A, S)
  <2>1. ASSUME NEW a, a \in 1..N, NEW b, b \in 1..N, NEW n, n \in 1..N, NEW m, m \in 1..N,
               A[n].id \in S[a], A[m].id \in S[b], A[m].id \in A[n].needs
        PROVE  b <= a
    <3>1. n \in {a} /\ m \in {b} /\ m \in NeedOf(n)  BY <1>2, <2>1, Zenon
    <3>2. n = a /\ m = b  BY <3>1
    <3>3. n \in Nat /\ m \in Nat  BY <2>1
    <3>4. JustBefore(m, n)  BY <3>1, <3>3, NeedIs, Zenon
    <3> QED  BY <3>2, <3>3, <3>4 DEF JustBefore
  <2> QED  BY <1>1, <2>1, Zenon DEF InStages
<1>9. HasNeeds(A, r)
  <2>1. ASSUME NEW n, n \in 1..N, NEW x, x \in A[n].needs PROVE x \in 1..N
    <3>1. x \in NeedOf(n)  BY <1>2, <2>1, Zenon
    <3>2. n \in Nat  BY <2>1
    <3>3. JustBefore(x, n)  BY <3>1, <3>2, NeedIs, Zenon
    <3> QED  BY <2>1, <3>2, <3>3 DEF JustBefore
  <2>2. \A n \in 1..N : A[n].needs \subseteq TaskIds(A)  BY <1>3, <2>1
  <2> QED  BY <1>1, <2>2, Zenon DEF HasNeeds
<1>10. AllStaged(A, S)
  <2>1. UNION {S[a] : a \in DOMAIN S} = 1..N
    <3>1. ASSUME NEW x, x \in 1..N PROVE x \in UNION {S[a] : a \in DOMAIN S}
      <4>1. PICK e : e = S[x]  OBVIOUS
      <4>2. e = {x}  BY <1>2, <3>1, <4>1, Zenon
      <4>3. e \in {S[a] : a \in DOMAIN S}  BY <1>1, <3>1, <4>1
      <4> QED  BY <4>2, <4>3
    <3>2. ASSUME NEW x \in UNION {S[a] : a \in DOMAIN S} PROVE x \in 1..N
      <4>1. PICK a \in 1..N : x \in S[a]  BY <1>1
      <4>2. x \in {a}  BY <1>2, <4>1, Zenon
      <4> QED  BY <4>1, <4>2
    <3> QED  BY <3>1, <3>2
  <2> QED  BY <1>3, <2>1, Zenon DEF AllStaged
<1> QED
  BY <1>4, <1>5, <1>6, <1>7, <1>8, <1>9, <1>10, OkPlanOK, Zenon

(* A plan for agents uses no tool and has a stage for each task.             *)
LEMMA AgentPlanOK ==
  ASSUME NEW r, NEW u
  PROVE  PlanOK(AgentPlanFor(r), r, u)
<1>1. PICK k : k = AgentKinds(ParsedGoal(r))  OBVIOUS
<1>2. PICK s : s = [n \in DOMAIN k |-> Step(k[n])]  OBVIOUS
<1>3. PICK A : A = Chained(s)  OBVIOUS
<1>4. PICK S : S = [n \in DOMAIN A |-> {A[n].id}]  OBVIOUS
<1>5. PICK q : q = [status |-> "ok", tasks |-> A, stages |-> S]  OBVIOUS
<1>6. AgentPlanFor(r) = q  BY <1>1, <1>2, <1>3, <1>4, <1>5, Zenon DEF AgentPlanFor
<1>7. PICK N \in Nat : DOMAIN k = 1..N
  <2>1. PICK g : g = ParsedGoal(r)  OBVIOUS
  <2>2. PICK x : x = IF g.long THEN <<"RETRIEVE_CONTEXT">> ELSE <<>>  OBVIOUS
  <2>3. PICK y : y = IF g.hard THEN <<"VERIFY">> ELSE <<>>  OBVIOUS
  <2>4. x = <<>> \/ x = <<"RETRIEVE_CONTEXT">>  BY <2>2, Zenon
  <2>5. y = <<>> \/ y = <<"VERIFY">>  BY <2>3, Zenon
  <2>6. PICK X : X = {"UNDERSTAND", "RETRIEVE_CONTEXT", "PLAN", "EXECUTE", "VERIFY", "REFLECT"}
    OBVIOUS
  <2>7. x \in Seq(X)
    <3>1. CASE x = <<>>  BY <3>1
    <3>2. CASE x = <<"RETRIEVE_CONTEXT">>
      <4>1. "RETRIEVE_CONTEXT" \in X  BY <2>6
      <4> QED  BY <3>2, <4>1, AloneIs, Zenon
    <3> QED  BY <2>4, <3>1, <3>2
  <2>8. y \in Seq(X)
    <3>1. CASE y = <<>>  BY <3>1
    <3>2. CASE y = <<"VERIFY">>
      <4>1. "VERIFY" \in X  BY <2>6
      <4> QED  BY <3>2, <4>1, AloneIs, Zenon
    <3> QED  BY <2>5, <3>1, <3>2
  <2>9. PICK a, b, c : a = <<"UNDERSTAND">> /\ b = <<"PLAN", "EXECUTE">> /\ c = <<"REFLECT">>
    OBVIOUS
  <2>10. a \in Seq(X) /\ b \in Seq(X) /\ c \in Seq(X)
    <3>1. /\ "UNDERSTAND" \in X /\ "REFLECT" \in X
          /\ "PLAN" \in X /\ "EXECUTE" \in X
      BY <2>6
    <3>2. b \in Seq(X)  BY <2>9, <3>1, TwoAre, Zenon
    <3> QED  BY <2>9, <3>1, <3>2, AloneIs, Zenon
  <2>11. k = a \o x \o b \o y \o c
    BY <1>1, <2>1, <2>2, <2>3, <2>9, Zenon DEF AgentKinds
  <2>12. k \in Seq(X)
    <3>1. a \o x \in Seq(X)  BY <2>7, <2>10
    <3>2. PICK e : e = a \o x  OBVIOUS
    <3>3. e \o b \in Seq(X)  BY <2>10, <3>1, <3>2
    <3>4. PICK f : f = e \o b  OBVIOUS
    <3>5. f \o y \in Seq(X)  BY <2>8, <3>3, <3>4
    <3>6. PICK h : h = f \o y  OBVIOUS
    <3>7. h \o c \in Seq(X)  BY <2>10, <3>5, <3>6
    <3> QED  BY <2>11, <3>2, <3>4, <3>6, <3>7, Zenon
  <2> QED  BY <2>12
<1>8. DOMAIN s = 1..N /\ \A n \in 1..N : s[n] = Step(k[n])  BY <1>2, <1>7
<1>9. DOMAIN A = 1..N /\ \A n \in 1..N : A[n] = TaskOf(s[n], n, NeedOf(n))
  BY <1>3, <1>8 DEF Chained, NeedOf
<1>10. ASSUME NEW n, n \in 1..N
       PROVE  A[n].id = n /\ A[n].needs = NeedOf(n) /\ A[n].action = "" /\ A[n].tool = NoTool
  <2>1. PICK kk : kk = k[n]  OBVIOUS
  <2>2. PICK x : x = s[n]  OBVIOUS
  <2>3. PICK y : y = NeedOf(n)  OBVIOUS
  <2>4. x = Step(kk)  BY <1>8, <1>10, <2>1, <2>2
  <2>5. x.action = "" /\ x.tool = NoTool  BY <2>4 DEF Step
  <2>6. A[n] = TaskOf(x, n, y)  BY <1>9, <1>10, <2>2, <2>3
  <2>7. PICK t : t = A[n]  OBVIOUS
  <2>8. t = [id |-> n, needs |-> y, kind |-> x.kind, tool |-> x.tool,
             domain |-> x.domain, action |-> x.action, item |-> x.item]
    BY <2>6, <2>7 DEF TaskOf
  <2>9. t.id = n /\ t.needs = y /\ t.action = x.action /\ t.tool = x.tool
    BY <2>8
  <2> QED  BY <2>5, <2>9, <2>3, <2>7
<1>11. /\ DOMAIN A = 1..N
       /\ \A n \in 1..N : /\ A[n].id = n /\ A[n].needs = NeedOf(n)
                          /\ A[n].action = "" /\ A[n].tool = NoTool
  BY <1>9, <1>10
<1>12. DOMAIN S = 1..N /\ \A n \in 1..N : S[n] = {n}
  <2>1. ASSUME NEW n, n \in 1..N PROVE S[n] = {n}
    <3>1. PICK o : o = A[n].id  OBVIOUS
    <3>2. S[n] = {o}  BY <1>4, <1>11, <2>1, <3>1
    <3>3. o = n  BY <1>11, <2>1, <3>1
    <3> QED  BY <3>2, <3>3
  <2>2. DOMAIN S = 1..N  BY <1>4, <1>11
  <2> QED  BY <2>1, <2>2
<1>13. EachAlone(A, S, N)  BY <1>12, <1>11, Zenon DEF EachAlone
<1>14. PlanOK(q, r, u)  BY <1>5, <1>7, <1>13, AloneOK, Zenon
<1> QED  BY <1>6, <1>14

----------------------------------------------------------------------------
(* The plan being served is settled, and what has run is closed under the    *)
(* dependencies: no task has run before the ones it waits for.               *)
Closed(ts, past) == \A m \in DOMAIN ts : ts[m].id \in past => ts[m].needs \subseteq past

PlanningInv ==
  /\ usable \subseteq ProductTools /\ ProductTools \ usable \subseteq Failing
  /\ PlanOK(plan, request, usable)
  /\ ran \subseteq TaskIds(plan.tasks) /\ Closed(plan.tasks, ran)

LEMMA NothingPlanned ==
  ASSUME NEW p, p = NoPlan
  PROVE  /\ p.tasks = <<>> /\ p.stages = <<>> /\ KnownStatus(p.status)
         /\ TaskIds(p.tasks) = {} /\ Closed(p.tasks, {})
<1>1. p.tasks = <<>> /\ p.stages = <<>> /\ p.status = "none"  BY DEF NoPlan
<1>2. DOMAIN p.tasks = {}
  <2>1. Len(<<>>) = 0 /\ DOMAIN <<>> = {}  OBVIOUS
  <2> QED  BY <1>1, <2>1, Zenon
<1>3. TaskIds(p.tasks) = {}  BY <1>2 DEF TaskIds
<1>4. Closed(p.tasks, {})  BY <1>2 DEF Closed
<1>5. KnownStatus(p.status)  BY <1>1 DEF KnownStatus
<1> QED  BY <1>1, <1>3, <1>4, <1>5

LEMMA NoPlanOK ==
  ASSUME NEW p, p = NoPlan, NEW r, NEW u
  PROVE  PlanOK(p, r, u)
BY NothingPlanned, EmptyPlanOK, Zenon

(* Laying out a plan when there is none, and forgetting one.                 *)
LEMMA PlansAnew ==
  ASSUME NEW p, NEW past, past \subseteq TaskIds(p.tasks), p = NoPlan
  PROVE  past = {}
BY NothingPlanned, Zenon

LEMMA NothingRan ==
  ASSUME NEW p, NEW past, past = {}
  PROVE  past \subseteq TaskIds(p.tasks) /\ Closed(p.tasks, past)
BY DEF Closed

LEMMA PlanningStarts == PlanningInit => PlanningInv
<1> SUFFICES ASSUME PlanningInit PROVE PlanningInv
  OBVIOUS
<1>1. usable \subseteq ProductTools /\ ProductTools \ usable \subseteq Failing
  BY PlanningAssumption DEF PlanningInit
<1>2. plan = NoPlan /\ ran = {}  BY DEF PlanningInit
<1>3. PICK p, r, u : p = plan /\ r = request /\ u = usable  OBVIOUS
<1>4. p = NoPlan  BY <1>2, <1>3
<1>5. PlanOK(p, r, u)  BY <1>4, NoPlanOK, Zenon
<1>6. ran \subseteq TaskIds(p.tasks) /\ Closed(p.tasks, ran)  BY <1>2, NothingRan
<1> QED  BY <1>1, <1>3, <1>5, <1>6 DEF PlanningInv

LEMMA AvailabilityKeeps ==
  ASSUME PlanningInv, NEW t \in Failing, SetAvailability(t)
  PROVE  PlanningInv'
<1>1. usable' \subseteq ProductTools /\ ProductTools \ usable' \subseteq Failing
  BY PlanningAssumption DEF PlanningInv, SetAvailability
<1>2. plan = NoPlan /\ plan' = plan /\ request' = request /\ ran' = ran
  BY DEF SetAvailability
<1>3. PICK p, r, u : p = plan' /\ r = request' /\ u = usable'  OBVIOUS
<1>4. p = NoPlan  BY <1>2, <1>3
<1>5. PlanOK(p, r, u)  BY <1>4, NoPlanOK, Zenon
<1>6. PlanOK(plan', request', usable')  BY <1>3, <1>5
<1>7. ran' \subseteq TaskIds(plan'.tasks) /\ Closed(plan'.tasks, ran')
  BY <1>2 DEF PlanningInv
<1> QED  BY <1>1, <1>6, <1>7 DEF PlanningInv, PlanOK, Available, TaskIds, Closed

(* A request that is typed for the planner.                                  *)
LEMMA TypedRequests ==
  ASSUME NEW r \in Requests
  PROVE  TypedRequest(r) /\ TypedRequest([r EXCEPT !.follows = FALSE, !.context = FALSE])
<1>1. r \in [says : SUBSET Signals, about : STRING, lacks : SUBSET STRING, follows : BOOLEAN,
             paths : Seq(Nat), hard : BOOLEAN, context : BOOLEAN]
  BY PlanningAssumption
<1>2. TypedRequest(r)  BY <1>1 DEF TypedRequest
<1>3. PICK q : q = [r EXCEPT !.follows = FALSE, !.context = FALSE]  OBVIOUS
<1>4. /\ q.follows = FALSE /\ q.context = FALSE /\ q.hard = r.hard /\ q.paths = r.paths
  BY <1>1, <1>3
<1>5. TypedRequest(q)  BY <1>2, <1>4 DEF TypedRequest
<1> QED  BY <1>2, <1>3, <1>5

LEMMA PlanningKeeps ==
  ASSUME PlanningInv, plan = NoPlan, NEW r, NEW q, PlanOK(q, r, usable),
         request' = r, plan' = q, UNCHANGED <<offered, usable, ran>>
  PROVE  PlanningInv'
<1>1. ran \subseteq TaskIds(plan.tasks)  BY DEF PlanningInv
<1>2. ran = {}
  <2>1. PICK p, past : p = plan /\ past = ran  OBVIOUS
  <2>2. p = NoPlan /\ past \subseteq TaskIds(p.tasks)  BY <1>1, <2>1
  <2>3. past = {}  BY <2>2, PlansAnew
  <2> QED  BY <2>1, <2>3
<1>3. q = plan' /\ r = request' /\ usable' = usable /\ ran' = {}  BY <1>2
<1>4. ran' \subseteq TaskIds(q.tasks) /\ Closed(q.tasks, ran')  BY <1>3, NothingRan
<1>5. PlanOK(plan', request', usable')  BY <1>3
<1>6. ran' \subseteq TaskIds(plan'.tasks) /\ Closed(plan'.tasks, ran')  BY <1>3, <1>4
<1>7. usable' \subseteq ProductTools /\ ProductTools \ usable' \subseteq Failing
  BY <1>3 DEF PlanningInv
<1> QED  BY <1>5, <1>6, <1>7 DEF PlanningInv, PlanOK, Available, TaskIds, Closed

(* Running a task adds its id; the tasks of that id have the same needs.     *)
LEMMA TaskRuns ==
  ASSUME NEW ts, OneNeed(ts), NEW past, past \subseteq TaskIds(ts), Closed(ts, past),
         NEW n, n \in DOMAIN ts, NEW x, x = ts[n].id, ts[n].needs \subseteq past,
         NEW more, more = past \cup {x}
  PROVE  more \subseteq TaskIds(ts) /\ Closed(ts, more)
<1>1. x \in TaskIds(ts)  BY DEF TaskIds
<1>2. ASSUME NEW m, m \in DOMAIN ts, ts[m].id \in more PROVE ts[m].needs \subseteq more
  <2>1. CASE ts[m].id \in past
    <3>1. ts[m].needs \subseteq past  BY <1>2, <2>1, Zenon DEF Closed
    <3> QED  BY <3>1
  <2>2. CASE ts[m].id = x
    <3>1. ts[m].needs = ts[n].needs  BY <1>2, <2>2, Zenon DEF OneNeed
    <3> QED  BY <3>1
  <2> QED  BY <1>2, <2>1, <2>2
<1>3. Closed(ts, more)  BY <1>2, Zenon DEF Closed
<1> QED  BY <1>1, <1>3

LEMMA RunKeeps ==
  ASSUME PlanningInv, NEW n \in DOMAIN plan.tasks, RunTask(n)
  PROVE  PlanningInv'
<1>1. PICK ts : ts = plan.tasks  OBVIOUS
<1>2. PICK past, x : past = ran /\ x = ts[n].id  OBVIOUS
<1>3. OneNeed(ts)  BY <1>1 DEF PlanningInv, PlanOK
<1>4. past \subseteq TaskIds(ts) /\ Closed(ts, past)  BY <1>1, <1>2 DEF PlanningInv
<1>5. n \in DOMAIN ts /\ ts[n].needs \subseteq past /\ ran' = past \cup {x}
  BY <1>1, <1>2 DEF RunTask
<1>6. PICK more : more = ran'  OBVIOUS
<1>7. more = past \cup {x}  BY <1>5, <1>6
<1>8. more \subseteq TaskIds(ts) /\ Closed(ts, more)
  BY <1>2, <1>3, <1>4, <1>5, <1>7, TaskRuns, Zenon
<1>9. plan' = plan /\ request' = request /\ usable' = usable  BY DEF RunTask
<1>10. ran' \subseteq TaskIds(plan'.tasks) /\ Closed(plan'.tasks, ran')
  BY <1>1, <1>6, <1>8, <1>9
<1>11. PlanOK(plan', request', usable')  BY <1>9 DEF PlanningInv
<1>12. usable' \subseteq ProductTools /\ ProductTools \ usable' \subseteq Failing
  BY <1>9 DEF PlanningInv
<1> QED  BY <1>10, <1>11, <1>12 DEF PlanningInv, PlanOK, Available, TaskIds, Closed

LEMMA AnswerKeeps ==
  ASSUME PlanningInv, AnswerRequest
  PROVE  PlanningInv'
<1>1. plan' = NoPlan /\ ran' = {} /\ usable' = usable  BY DEF AnswerRequest
<1>2. PICK p, r, u : p = plan' /\ r = request' /\ u = usable'  OBVIOUS
<1>3. p = NoPlan  BY <1>1, <1>2
<1>4. PlanOK(p, r, u)  BY <1>3, NoPlanOK, Zenon
<1>5. PlanOK(plan', request', usable')  BY <1>2, <1>4
<1>6. ran' \subseteq TaskIds(p.tasks) /\ Closed(p.tasks, ran')  BY <1>1, NothingRan
<1>7. ran' \subseteq TaskIds(plan'.tasks) /\ Closed(plan'.tasks, ran')  BY <1>2, <1>6
<1>8. usable' \subseteq ProductTools /\ ProductTools \ usable' \subseteq Failing
  BY <1>1 DEF PlanningInv
<1> QED  BY <1>5, <1>7, <1>8 DEF PlanningInv, PlanOK, Available, TaskIds, Closed

PlanningSpec == PlanningInit /\ [][PlanningNext]_planningVars

(* Whatever the user asks and whatever tools come and go, the plan in hand   *)
(* (Planner.plan_with_capability_check, AgentPlanner.plan_with_agents) sends *)
(* each task where its signals say, chains what asks the provider to the     *)
(* tool tasks before it, and what has run of it is closed under the          *)
(* dependencies the workflow engine waits for.                               *)
THEOREM PlanningInvariance == PlanningSpec => []PlanningInv
<1>1. PlanningInit => PlanningInv
  BY PlanningStarts
<1>2. PlanningInv /\ [PlanningNext]_planningVars => PlanningInv'
  <2> SUFFICES ASSUME PlanningInv, [PlanningNext]_planningVars PROVE PlanningInv'
    OBVIOUS
  <2>1. ASSUME NEW t \in Failing, SetAvailability(t) PROVE PlanningInv'
    BY <2>1, AvailabilityKeeps
  <2>2. ASSUME plan = NoPlan, NEW r, TypedRequest(r), NEW fitting, IsFiniteSet(fitting),
               PlanWithCapabilityCheck(r, fitting)
        PROVE  PlanningInv'
    <3>1. PICK q : q = PlanFor(r, fitting)  OBVIOUS
    <3>2. PlanOK(q, r, usable)  BY <2>2, <3>1, PlanForOK
    <3>3. request' = r /\ plan' = q /\ UNCHANGED <<offered, usable, ran>>
      BY <2>2, <3>1 DEF PlanWithCapabilityCheck
    <3> QED  BY <2>2, <3>2, <3>3, PlanningKeeps
  <2>3. ASSUME plan = NoPlan, NEW r \in Requests, NEW fitting \in SUBSET Learned,
               PlanWithCapabilityCheck(r, fitting)
        PROVE  PlanningInv'
    <3>1. IsFiniteSet(fitting)  BY PlanningAssumption, FS_Subset
    <3>2. TypedRequest(r)  BY TypedRequests
    <3> QED  BY <2>2, <2>3, <3>1, <3>2
  <2>4. ASSUME plan = NoPlan, NEW r \in Requests, PlanFromText(r, {})
        PROVE  PlanningInv'
    <3>1. PICK q : q = [r EXCEPT !.follows = FALSE, !.context = FALSE]  OBVIOUS
    <3>2. TypedRequest(q)  BY <3>1, TypedRequests
    <3>3. PlanWithCapabilityCheck(q, {})  BY <2>4, <3>1 DEF PlanFromText
    <3>4. IsFiniteSet({})  BY FS_EmptySet
    <3> QED  BY <2>2, <2>4, <3>2, <3>3, <3>4
  <2>5. ASSUME plan = NoPlan, NEW r \in Requests, PlanWithAgents(r)
        PROVE  PlanningInv'
    <3>1. PICK q : q = AgentPlanFor(r)  OBVIOUS
    <3>2. PICK u : u = usable  OBVIOUS
    <3>3. PlanOK(q, r, u)  BY <3>1, AgentPlanOK
    <3>4. PlanOK(q, r, usable)  BY <3>2, <3>3
    <3>5. request' = r /\ plan' = q /\ UNCHANGED <<offered, usable, ran>>
      BY <2>5, <3>1 DEF PlanWithAgents
    <3> QED  BY <2>5, <3>4, <3>5, PlanningKeeps
  <2>6. ASSUME NEW n \in DOMAIN plan.tasks, RunTask(n) PROVE PlanningInv'
    BY <2>6, RunKeeps
  <2>7. CASE AnswerRequest
    BY <2>7, AnswerKeeps
  <2>8. CASE UNCHANGED planningVars
    <3>1. UNCHANGED <<usable, plan, request, ran>>  BY <2>8 DEF planningVars
    <3>2. PlanOK(plan', request', usable')  BY <3>1 DEF PlanningInv
    <3>3. ran' \subseteq TaskIds(plan'.tasks) /\ Closed(plan'.tasks, ran')
      BY <3>1 DEF PlanningInv
    <3>4. usable' \subseteq ProductTools /\ ProductTools \ usable' \subseteq Failing
      BY <3>1 DEF PlanningInv
    <3> QED  BY <3>2, <3>3, <3>4 DEF PlanningInv, PlanOK, Available, TaskIds, Closed
  <2> QED
    BY <2>1, <2>3, <2>4, <2>5, <2>6, <2>7, <2>8 DEF PlanningNext
<1> QED  BY <1>1, <1>2, PTL DEF PlanningSpec

(* The invariant holds what the run checks.                                  *)
LEMMA PlanningIsEnough == PlanningInv => PlanningSafe
<1> SUFFICES ASSUME PlanningInv PROVE PlanningSafe
  OBVIOUS
<1>1. PICK p, r, u, past : p = plan /\ r = request /\ u = usable /\ past = ran  OBVIOUS
<1>2. /\ PlanOK(p, r, u) /\ past \subseteq TaskIds(p.tasks) /\ Closed(p.tasks, past)
      /\ usable \subseteq ProductTools /\ ProductTools \ usable \subseteq Failing
  BY <1>1 DEF PlanningInv
<1>3. PlanningTypeOK  BY <1>1, <1>2 DEF PlanOK, PlanningTypeOK
<1>4. RoutedAsSaid
  <2>1. ASSUME NEW n \in DOMAIN p.tasks PROVE Reaches(p.tasks[n], r)
    BY <1>2, Zenon DEF PlanOK
  <2> QED  BY <1>1, <2>1, Zenon DEF RoutedAsSaid, Reaches
<1>5. AwaitsTools(p.tasks)  BY <1>2, Zenon DEF PlanOK
<1>6. EvidenceFirst
  <2>1. ASSUME NEW n \in DOMAIN p.tasks, NEW m \in DOMAIN p.tasks, IsToolTask(p.tasks[n]),
               p.tasks[m].kind = "EXECUTE", ~IsToolTask(p.tasks[m]), p.tasks[m].id \in past
        PROVE  p.tasks[n].id \in past
    <3>1. p.tasks[n].action # "" /\ p.tasks[m].action = ""  BY <2>1, Zenon DEF IsToolTask
    <3>2. p.tasks[n].id \in p.tasks[m].needs  BY <1>5, <2>1, <3>1, Zenon DEF AwaitsTools
    <3>3. p.tasks[m].needs \subseteq past  BY <1>2, <2>1, Zenon DEF Closed
    <3> QED  BY <3>2, <3>3, Zenon
  <2> QED  BY <1>1, <2>1, Zenon DEF EvidenceFirst
<1>7. PlannedIsAvailable
  <2>1. Available(p.tasks, u)  BY <1>2, Zenon DEF PlanOK
  <2> QED  BY <1>1, <2>1, Zenon DEF Available, PlannedIsAvailable
<1>8. ActsOrAnswers
  <2>1. ASSUME NEW n \in DOMAIN p.tasks, NEW m \in DOMAIN p.tasks,
               p.tasks[n].action \in Changing, p.tasks[m].kind = "EXECUTE",
               ~IsToolTask(p.tasks[m])
        PROVE  FALSE
    <3>1. p.tasks[n].action # ""  BY <2>1 DEF Changing
    <3>2. p.tasks[m].action = ""  BY <2>1, Zenon DEF IsToolTask
    <3> QED  BY <1>5, <2>1, <3>1, <3>2, Zenon DEF AwaitsTools
  <2> QED  BY <1>1, <2>1, Zenon DEF ActsOrAnswers
<1>9. StagesFollowDependencies
  <2>1. InStages(p.tasks, p.stages)  BY <1>2, Zenon DEF PlanOK
  <2> QED  BY <1>1, <2>1, Zenon DEF InStages, StagesFollowDependencies
<1>10. NothingDangles
  <2>1. HasNeeds(p.tasks, r)  BY <1>2, Zenon DEF PlanOK
  <2> QED  BY <1>1, <2>1, Zenon DEF HasNeeds, NamedTwice, NothingDangles
<1> QED
  BY <1>3, <1>4, <1>6, <1>7, <1>8, <1>9, <1>10, Zenon DEF PlanningSafe

(* A plan reaches only the tool its text is reserved for                     *)
(* (GoalParser.detect_intent), asks the provider only after the tools have   *)
(* answered and never in a plan that changes something                       *)
(* (TaskDecomposer.decompose), names only available tools                    *)
(* (Planner._tool_input_errors), shows stages that agree with its            *)
(* dependencies (PlanBuilder.build), and depends only on tasks it has, for   *)
(* any requests, failing tools and learned skills.                           *)
THEOREM PlanningIsSafe == PlanningSpec => []PlanningSafe
BY PlanningInvariance, PlanningIsEnough, PTL
=============================================================================
