------------------------------ MODULE MCWorkflow ------------------------------
(* A plan that joins two branches: tasks of one batch run side by side.      *)
EXTENDS WorkflowRuntime

(* Two branches of two and a task that needs both. *)
Tasks5 == 1..5
Join5 == <<{}, {}, {1}, {2}, {3, 4}>>
BranchClass == <<"idempotent", "non_idempotent", "internal", "idempotent",
                 "internal">>
===============================================================================
