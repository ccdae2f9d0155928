---------------------------- MODULE RunLifecycle ----------------------------
(***************************************************************************)
(* What a client polling GET /workflows/{id} may rely on, whoever executes *)
(* the run and however often it is tried: a run is queued once, and later  *)
(* it may settle, in one step, on a terminal status together with the step *)
(* rows that explain it.  A settled run never changes again.               *)
(*                                                                         *)
(* WorkflowQueue implements this: a whole pipeline is one transaction, and *)
(* the run row's lock keeps a second executor from settling the run again. *)
(***************************************************************************)
EXTENDS Naturals

CONSTANTS Run,      \* the workflow runs
          NSteps    \* the number of steps of a run's pipeline, at least one

VARIABLES run,      \* [Run -> status], the row clients read
          steps     \* [Run -> [Step -> status]], the step rows clients read

lifecycleVars == <<run, steps>>

Step == 1..NSteps
Terminal == {"succeeded", "failed", "needs_input"}

NoRows == [i \in Step |-> "none"]

\* Steps before k are done and step k ended as `last`; later ones have no row.
EndedAt(k, last) ==
    [i \in Step |-> IF i < k THEN "done" ELSE IF i = k THEN last ELSE "none"]

AllDone == [i \in Step |-> "done"]

\* The step rows that may accompany a terminal status.  A run whose pipeline
\* cannot be built fails with no step row at all.
Report(status) ==
    CASE status = "succeeded"   -> {AllDone}
      [] status = "failed"      -> {EndedAt(k, "failed") : k \in Step} \cup {NoRows}
      [] status = "needs_input" -> {EndedAt(k, "skipped") : k \in Step}

Init ==
    /\ run = [r \in Run |-> "absent"]
    /\ steps = [r \in Run |-> NoRows]

Queue(r) ==
    /\ run[r] = "absent"
    /\ run' = [run EXCEPT ![r] = "queued"]
    /\ UNCHANGED steps

Settle(r) ==
    /\ run[r] = "queued"
    /\ \E status \in Terminal : \E rows \in Report(status) :
          /\ run' = [run EXCEPT ![r] = status]
          /\ steps' = [steps EXCEPT ![r] = rows]

Next == \E r \in Run : Queue(r) \/ Settle(r)

Spec == Init /\ [][Next]_lifecycleVars
=============================================================================
