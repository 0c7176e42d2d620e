----------------------------- MODULE MCRequests -----------------------------
(* Requests on their way through the orchestrator, and the trails they      *)
(* leave: the evidence of executions and the audit of the governance        *)
(* engine.  The models share no state, so a behaviour runs one of them.     *)
EXTENDS RequestPipeline, EvidenceTrail, GovernanceAudit, TLC

CONSTANTS r1, r2, r3, s1, s2, p1, p2,   \* requests, sessions, principals
          c1, c2, x1, k1                \* processes, an execution, a plugin

VARIABLE part   \* the component that runs

allVars == <<part, pipelineVars, evidenceVars, auditVars>>

MCRunBy == [e \in {x1} |-> c1]

RequestsInit ==
  /\ PipelineInit /\ EvidenceInit /\ AuditInit
  /\ part \in {"pipeline", "evidence", "audit"}

RequestsNext ==
  \/ part = "pipeline" /\ PipelineNext /\ UNCHANGED <<part, evidenceVars, auditVars>>
  \/ part = "evidence" /\ EvidenceNext /\ UNCHANGED <<part, pipelineVars, auditVars>>
  \/ part = "audit" /\ AuditNext /\ UNCHANGED <<part, pipelineVars, evidenceVars>>

RequestsSpec == RequestsInit /\ [][RequestsNext]_allVars

Symmetry ==
  Permutations({r1, r2, r3}) \cup Permutations({s1, s2}) \cup Permutations({p1, p2})
=============================================================================
