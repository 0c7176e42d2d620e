--------------------------- MODULE EvidenceTrail ---------------------------
(***************************************************************************)
(* The durable trail of what happened: EvidenceStore, which several        *)
(* processes (server, command line) share through one SQLite file, the     *)
(* emitters that write to it, and its retention.  An emitter blocks its    *)
(* process until the event is committed or has raised;                     *)
(* processes interleave at every SQL statement.                            *)
(***************************************************************************)
EXTENDS Integers, Sequences, FiniteSets

CONSTANTS
  Processes,
  Executions,   \* execution ids
  PluginKeys,   \* plugin keys: every process writes under the same ones
  RunBy,        \* the process that runs an execution
  NoProcess,
  MaxEvents     \* bound on the events of a trail

ASSUME EvidenceAssumption ==
  /\ RunBy \in [Executions -> Processes] /\ NoProcess \notin Processes
  /\ Executions \cap PluginKeys = {} /\ MaxEvents \in Nat \ {0}

VARIABLES
  verdict,     \* the status the coordinator holds for an execution
  cancelling,  \* executions whose cancel_execution awaits the task
  overtaken,   \* those that ended otherwise while it waited
  events,      \* evidence_events: trail -> set of numbered statuses
  summary,     \* executions: trail -> total_events, final_status, terminal_at
  holder,      \* the process that has SQLite's write reservation
  call         \* what each process is doing to the store

evidenceVars == <<verdict, cancelling, overtaken, events, summary, holder, call>>

Trails == Executions \cup PluginKeys
Verdicts == {"completed", "failed", "cancelled", "timed_out", "denied"}
Statuses == Verdicts \cup {"running", "active"}
NoSummary == [total |-> 0, final |-> "none", old |-> FALSE]
Free == [at |-> "free", trails |-> {}, todo |-> <<>>, next |-> 0]

EvidenceTypeOK ==
  /\ verdict \in [Executions -> Verdicts \cup {"open"}]
  /\ cancelling \subseteq Executions /\ overtaken \subseteq Executions
  /\ \A t \in Trails : /\ \A x \in events[t] : x.n \in Nat
                       /\ summary[t].total \in Nat
                       /\ summary[t].final \in Verdicts \cup {"none"}
  /\ holder \in Processes \cup {NoProcess}
  /\ \A p \in Processes :
       /\ call[p].at \in {"free", "want", "read", "insert", "delete"}
       /\ call[p].at \in {"read", "insert"} <=> holder = p
       /\ call[p].at = "free" => call[p] = Free

EvidenceInit ==
  /\ verdict = [e \in Executions |-> "open"] /\ cancelling = {} /\ overtaken = {}
  /\ events = [t \in Trails |-> {}] /\ summary = [t \in Trails |-> NoSummary]
  /\ holder = NoProcess /\ call = [p \in Processes |-> Free]

-----------------------------------------------------------------------------
(* The emitters.                                                           *)

(* EvidenceInstrumentation._emit for each status in turn.                  *)
Underway(t) == UNION {{<<p, i>> : i \in DOMAIN call[p].todo} :
                        p \in {q \in Processes : t \in call[q].trails}}
Emits(p, t, statuses) ==
  /\ call[p] = Free
  /\ Cardinality(events[t]) + Cardinality(Underway(t)) + Len(statuses) <= MaxEvents
  /\ call' = [call EXCEPT ![p] =
                [at |-> "want", trails |-> {t}, todo |-> statuses, next |-> 0]]
  /\ UNCHANGED <<events, summary, holder>>

(* execution_created, execution_state_changed to a status that is not the  *)
(* last, approval_requested and approval_resolved.                         *)
EmitsProgress(e) ==
  /\ verdict[e] = "open" /\ Emits(RunBy[e], e, <<"running">>)
  /\ UNCHANGED <<verdict, cancelling, overtaken>>

(* _transition to a terminal status, then execution_denied or              *)
(* execution_timed_out with the same one.                                  *)
Settled(e, s) ==
  /\ verdict[e] = "open" /\ s # "cancelled"
  /\ verdict' = [verdict EXCEPT ![e] = s]
  /\ overtaken' = overtaken \cup ({e} \cap cancelling)
  /\ Emits(RunBy[e], e, IF s \in {"denied", "timed_out"} THEN <<s, s>> ELSE <<s>>)
  /\ UNCHANGED cancelling

(* cancel_execution up to its await, and after it: whatever the execution  *)
(* has become, execution_cancelled is emitted.                             *)
StartsCancel(e) ==
  /\ call[RunBy[e]] = Free /\ verdict[e] = "open"
  /\ cancelling' = cancelling \cup {e}
  /\ UNCHANGED <<verdict, overtaken, events, summary, holder, call>>
EndsCancel(e) ==
  /\ e \in cancelling /\ cancelling' = cancelling \ {e}
  /\ IF verdict[e] = "open"
     THEN /\ verdict' = [verdict EXCEPT ![e] = "cancelled"]
          /\ Emits(RunBy[e], e, <<"cancelled", "cancelled">>)
     ELSE UNCHANGED verdict /\ Emits(RunBy[e], e, <<"cancelled">>)
  /\ UNCHANGED overtaken

(* PluginManager._emit_evidence: the plugin's key is the execution id and  *)
(* its state the status; only "failed" is one of the terminal statuses.    *)
EmitsPlugin(p, k, s) ==
  Emits(p, k, <<s>>) /\ UNCHANGED <<verdict, cancelling, overtaken>>

-----------------------------------------------------------------------------
(* EvidenceStore                                                           *)

(* Mutant: every status ends an execution.                                 *)
IsTerminalAny(s) == TRUE
IsTerminal(s) == s \in Verdicts

(* _upsert_execution_summary                                               *)
Upsert(t, s) ==
  [total |-> summary[t].total + 1,
   final |-> IF IsTerminal(s) THEN s ELSE summary[t].final,
   old   |-> summary[t].old /\ ~IsTerminal(s)]

(* Mutant: a deferred transaction reads before it has the reservation.     *)
BeginDeferred(p) ==
  /\ call[p].at = "want" /\ call' = [call EXCEPT ![p].at = "read"]
  /\ UNCHANGED <<verdict, cancelling, overtaken, events, summary, holder>>

(* append, append_many: BEGIN IMMEDIATE, the next number, insert, upsert   *)
(* and commit.                                                             *)
Begin(p) ==
  /\ call[p].at = "want" /\ holder = NoProcess
  /\ holder' = p /\ call' = [call EXCEPT ![p].at = "read"]
  /\ UNCHANGED <<verdict, cancelling, overtaken, events, summary>>
ReadsNext(p) ==
  /\ call[p].at = "read"
  /\ \E t \in call[p].trails :
       LET numbers == {x.n : x \in events[t]}
           most == CHOOSE n \in numbers \cup {0} : \A m \in numbers : m <= n
       IN  call' = [call EXCEPT ![p].at = "insert", ![p].next = most + 1]
  /\ UNCHANGED <<verdict, cancelling, overtaken, events, summary, holder>>

Done(p) ==
  IF Len(call[p].todo) > 1
  THEN [call[p] EXCEPT !.at = "want", !.todo = Tail(@), !.next = 0] ELSE Free
Inserts(p) ==
  /\ call[p].at = "insert"
  /\ \E t \in call[p].trails :
       /\ events' = [events EXCEPT ![t] = @ \cup {[n |-> call[p].next, status |-> Head(call[p].todo)]}]
       /\ summary' = [summary EXCEPT ![t] = Upsert(t, Head(call[p].todo))]
  /\ holder' = NoProcess /\ call' = [call EXCEPT ![p] = Done(p)]
  /\ UNCHANGED <<verdict, cancelling, overtaken>>

(* The reservation is not to be had in time, a statement raises or the     *)
(* process dies: rolled back, and what was still to be emitted is not.     *)
EmitFails(p) ==
  /\ call[p].at \in {"want", "read", "insert"}
  /\ call' = [call EXCEPT ![p] = Free]
  /\ holder' = IF holder = p THEN NoProcess ELSE holder
  /\ UNCHANGED <<verdict, cancelling, overtaken, events, summary>>

(* Mutant: retention asks for age, not for an end.                         *)
OutdatedAny == {t \in Trails : summary[t].total > 0}

(* cleanup_retention: the ids are read first; the deletions take the       *)
(* reservation and commit together.                                        *)
Outdated == {t \in Trails : summary[t].final # "none" /\ summary[t].old}
SelectsExpired(p) ==
  /\ call[p] = Free /\ Outdated # {}
  /\ call' = [call EXCEPT ![p] = [Free EXCEPT !.at = "delete", !.trails = Outdated]]
  /\ UNCHANGED <<verdict, cancelling, overtaken, events, summary, holder>>

(* Mutant: the summaries are left behind.                                  *)
DeletesEvents(p) ==
  /\ call[p].at = "delete" /\ holder = NoProcess
  /\ events' = [t \in Trails |-> IF t \in call[p].trails THEN {} ELSE events[t]]
  /\ call' = [call EXCEPT ![p] = Free]
  /\ UNCHANGED <<verdict, cancelling, overtaken, summary, holder>>

DeletesExpired(p) ==
  /\ call[p].at = "delete" /\ holder = NoProcess
  /\ events' = [t \in Trails |-> IF t \in call[p].trails THEN {} ELSE events[t]]
  /\ summary' = [t \in Trails |-> IF t \in call[p].trails THEN NoSummary ELSE summary[t]]
  /\ call' = [call EXCEPT ![p] = Free]
  /\ UNCHANGED <<verdict, cancelling, overtaken, holder>>

(* Days pass.                                                              *)
Ages(t) ==
  /\ summary[t].final # "none" /\ ~summary[t].old
  /\ summary' = [summary EXCEPT ![t].old = TRUE]
  /\ UNCHANGED <<verdict, cancelling, overtaken, events, holder, call>>


EvidenceNext ==
  \/ \E e \in Executions : EmitsProgress(e) \/ StartsCancel(e) \/ EndsCancel(e)
  \/ \E e \in Executions, s \in Verdicts : Settled(e, s)
  \/ \E p \in Processes, k \in PluginKeys, s \in {"active", "failed"} : EmitsPlugin(p, k, s)
  \/ \E p \in Processes : \/ Begin(p) \/ ReadsNext(p) \/ Inserts(p) \/ EmitFails(p)
                          \/ SelectsExpired(p) \/ DeletesExpired(p)
  \/ \E t \in Trails : Ages(t)

-----------------------------------------------------------------------------
(* The events of a trail are numbered without gap or repetition, as its    *)
(* summary counts them, whatever processes write, fail and clean up        *)
(* between each other's statements.                                        *)
SequencesGapless ==
  \A t \in Trails : /\ {x.n : x \in events[t]} = 1..summary[t].total
                    /\ Cardinality(events[t]) = summary[t].total

(* What the evidence calls an execution's final status is what the         *)
(* coordinator made of it, unless a cancellation came too late.            *)
FinalIsTheVerdict ==
  \A e \in Executions \ overtaken :
     summary[e].final \in {"none", verdict[e]}

(* Retention forgets only executions that have ended.                      *)
OnlyEndedIsForgotten ==
  [][\A e \in Executions : events[e] # {} /\ events'[e] = {} => verdict[e] # "open"]_evidenceVars

(* Two processes that append to one store leave numbers without gap or     *)
(* repeat, a final event that tells the verdict, and retention forgets no  *)
(* open execution.                                                         *)
TrailSafe ==
  /\ [](/\ EvidenceTypeOK /\ SequencesGapless /\ FinalIsTheVerdict)
  /\ OnlyEndedIsForgotten
=============================================================================
