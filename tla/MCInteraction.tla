---------------------------- MODULE MCInteraction ----------------------------
(* A workflow whose plan is a chain that pauses, retries and crashes, the    *)
(* terminal the user answers from, and the commands it runs.  The models    *)
(* share no state, so a behaviour runs one of them.                         *)
EXTENDS WorkflowRuntime, Terminal, ShellCommands

CONSTANTS s1, s2, s3   \* sessions of the terminal

VARIABLE part   \* the component that runs

allVars == <<part, vars, terminalVars, shellVars>>

(* TaskDecomposer's shape: each task depends on the one before it. *)
Tasks4 == 1..4
Chain4 == [t \in Tasks4 |-> IF t = 1 THEN {} ELSE {t - 1}]
ChainClass == <<"internal", "non_idempotent", "read_only", "non_idempotent">>

InteractionInit ==
  Init /\ TerminalInit /\ ShellInit /\ part \in {"workflow", "terminal", "shell"}

InteractionNext ==
  \/ part = "workflow" /\ Next /\ UNCHANGED <<part, terminalVars, shellVars>>
  \/ part = "terminal" /\ TerminalNext /\ UNCHANGED <<part, vars, shellVars>>
  \/ part = "shell" /\ ShellNext /\ UNCHANGED <<part, vars, terminalVars>>

(* Terminal and shell have liveness properties here; nothing of a          *)
(* component's fairness is enabled before it runs.                         *)
InteractionSpec ==
  /\ InteractionInit /\ [][InteractionNext]_allVars
  /\ TerminalFairness /\ ShellFairness
==============================================================================
