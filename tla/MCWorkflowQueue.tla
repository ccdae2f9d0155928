-------------------------- MODULE MCWorkflowQueue --------------------------
(* Model checking instance of WorkflowQueue. *)
EXTENDS WorkflowQueue, TLC

Symmetry == Permutations(Run) \cup Permutations(Worker)
=============================================================================
