----------------------------- MODULE MCProviders -----------------------------
(* What serves a request from outside and towards outside: the provider    *)
(* fallback, the API's executions and the streaming of a spoken answer.    *)
(* The three share no state, so a behaviour runs one of them.              *)
EXTENDS ProviderFailover, VoiceStreaming, ApiExecution

CONSTANTS r1, r2, c1, c2

VARIABLE part   \* the component that runs

allVars == <<part, vars, streamVars, apiVars>>

ServingInit ==
  Init /\ StreamInit /\ ApiInit /\ part \in {"providers", "voice", "api"}

ServingNext ==
  \/ part = "providers" /\ Next /\ UNCHANGED <<part, streamVars, apiVars>>
  \/ part = "voice" /\ StreamNext /\ UNCHANGED <<part, vars, apiVars>>
  \/ part = "api" /\ ApiNext /\ UNCHANGED <<part, vars, streamVars>>

(* The fairness each component assumes; nothing of it is enabled in the    *)
(* initial state of a component that does not run.                         *)
ServingSpec ==
  /\ ServingInit /\ [][ServingNext]_allVars
  /\ Fairness /\ StreamFairness /\ ApiFairness
=============================================================================
