------------------------------- MODULE Verdict -------------------------------
(***************************************************************************)
(* What the coordinator promises a client about the end of an execution:   *)
(* it is decided at most once, and neither a late answer, a racing cancel  *)
(* or timeout, the pruning of history nor a crash changes the decision.    *)
(***************************************************************************)
CONSTANTS Execs, Verdicts

VARIABLE verdict

TypeOK == verdict \in [Execs -> Verdicts \cup {"open"}]

Init == verdict = [e \in Execs |-> "open"]

(* One step may decide several executions: a crash decides every execution *)
(* it interrupted beyond recovery.                                         *)
Decide ==
  /\ verdict' \in [Execs -> Verdicts \cup {"open"}]
  /\ \A e \in Execs : verdict[e] # "open" => verdict'[e] = verdict[e]

Spec == Init /\ [][Decide]_verdict
=============================================================================
