------------------------------- MODULE AgentRun -------------------------------
(***************************************************************************)
(* The model calls of one workflow run, or of one platform sweep, and what *)
(* is kept of them: rows of agent_runs in the run's transaction, by which  *)
(* the token budget is enforced, and events of the audit trail, each in a  *)
(* transaction of its own (agents/base.py, audit/service.py).              *)
(*                                                                         *)
(* A response is known by its position in `billed`, the tokens the model   *)
(* has been paid for.                                                      *)
(***************************************************************************)
EXTENDS Integers, Sequences, FiniteSets, FiniteSetsExt

CONSTANTS
    Calls,        \* how many agents the run calls, step after step
    Sizes,        \* how many tokens a response may take
    TokenBudget,  \* workflow_token_budget
    Retries,      \* llm_max_retries
    MaxAttempts,  \* worker_max_attempts
    MaxLost       \* bound: how many events the sink loses

ASSUME AgentAssumption ==
    /\ Calls \in Nat /\ TokenBudget \in Nat /\ Retries \in Nat /\ MaxLost \in Nat
    /\ MaxAttempts \in Nat \ {0}
    /\ Sizes \subseteq Nat \ {0} /\ Sizes # {}

VARIABLES
    scoped,    \* whether it is a run of an organization: only those have rows
    phase,     \* where the run is; InHand while it holds a response
    attempt,   \* executions of the run
    left,      \* agents still to be called
    tries,     \* responses of this agent that were rejected
    spent,     \* the tokens this agent knows of
    billed,    \* sequence of the tokens of each response
    rows,      \* responses in rows of agent_runs that the run sees
    trail,     \* audit events of responses: [of, status]
    total,     \* the run's total_input_tokens + total_output_tokens
    lost       \* history: responses of which an event or the process was lost

agentVars == <<scoped, phase, attempt, left, tries, spent, billed, rows, trail, total, lost>>

InHand == {"valid", "invalid", "over", "exhausted"}
Ended == {"succeeded", "failed", "given up"}

Tokens(R) == MapThenSumSet(LAMBDA i : billed[i], R)
Current == Len(billed)

AgentInit ==
    /\ scoped \in BOOLEAN
    /\ phase = "queued"
    /\ attempt = 0
    /\ left = Calls
    /\ tries = 0 /\ spent = 0
    /\ billed = <<>>
    /\ rows = {} /\ trail = {} /\ lost = {}
    /\ total = 0

Begin ==
    /\ phase = "queued"
    /\ phase' = "running"
    /\ attempt' = attempt + 1
    /\ left' = Calls
    /\ UNCHANGED <<scoped, tries, spent, billed, rows, trail, total, lost>>

\* A seeded defect: each agent has the whole budget.
SpentNothing == 0

\* The tokens in the rows of the run, flushed though not committed.
SpentBefore == IF scoped THEN Tokens(rows) ELSE 0

Call ==
    /\ phase = "running" /\ left > 0
    /\ phase' = "calling"
    /\ tries' = 0
    /\ spent' = SpentBefore
    /\ UNCHANGED <<scoped, attempt, left, billed, rows, trail, total, lost>>

\* The model answers: over the budget the answer is not even looked at.
Respond ==
    /\ phase = "calling"
    /\ \E size \in Sizes :
         /\ billed' = Append(billed, size)
         /\ spent' = spent + size
         /\ phase' \in (IF spent + size > TokenBudget THEN {"over"} ELSE {"valid", "invalid"})
    /\ UNCHANGED <<scoped, attempt, left, tries, rows, trail, total, lost>>

\* The sink fails: it logs that, and the event is gone.
Drop ==
    /\ Cardinality(lost) < MaxLost
    /\ lost' = lost \cup {Current}
    /\ UNCHANGED trail

\* record_event never fails its caller: the event is in the trail, or lost.
Emit(status) ==
    \/ /\ trail' = trail \cup {[of |-> Current, status |-> status]}
       /\ UNCHANGED lost
    \/ Drop

\* A seeded defect: a rejected response is only logged.
EmitNothing == UNCHANGED <<trail, lost>>

EmitRetry == Emit("retried")

\* The response does not match the schema: it is prompted for again, or this
\* was the last time.
Reject ==
    /\ phase = "invalid"
    /\ EmitRetry
    /\ tries' = tries + 1
    /\ phase' = IF tries + 1 > Retries THEN "exhausted" ELSE "calling"
    /\ UNCHANGED <<scoped, attempt, left, spent, billed, rows, total>>

Row == IF scoped THEN {Current} ELSE {}

Accept ==
    /\ phase = "valid"
    /\ rows' = rows \cup Row
    /\ Emit("success")
    /\ phase' = "running"
    /\ left' = left - 1
    /\ UNCHANGED <<scoped, attempt, tries, spent, billed, total>>

\* The row and the event of a failure are those of the response that failed.
RecordFailure == rows' = rows \cup Row /\ Emit("failed")

\* The budget or the attempts are exhausted: the run fails and is committed,
\* its rows too, but no total.
Fail ==
    /\ phase \in {"over", "exhausted"}
    /\ RecordFailure
    /\ phase' = "failed"
    /\ UNCHANGED <<scoped, attempt, left, tries, spent, billed, total>>

\* The model raises or declines: there is no response to record.
Unanswered ==
    /\ phase = "calling"
    /\ phase' = "failed"
    /\ UNCHANGED <<scoped, attempt, left, tries, spent, billed, rows, trail, total, lost>>

\* The run succeeds and its rows are added up.
Succeed ==
    /\ phase = "running" /\ left = 0
    /\ phase' = "succeeded"
    /\ total' = Tokens(rows)
    /\ UNCHANGED <<scoped, attempt, left, tries, spent, billed, rows, trail, lost>>

\* The process or the database fails: the rows are gone, the events are not.
\* The queue tries again, a sweep of the platform is not repeated.
RollBack ==
    /\ phase \in {"running", "calling"} \cup InHand
    /\ phase' = IF scoped /\ attempt < MaxAttempts THEN "queued" ELSE "given up"
    /\ rows' = {}
    /\ lost' = IF phase \in InHand THEN lost \cup {Current} ELSE lost
    /\ UNCHANGED <<scoped, attempt, left, tries, spent, billed, trail, total>>

AgentNext ==
    \/ Begin \/ Call \/ Respond \/ Reject \/ Accept \/ Fail \/ Unanswered \/ Succeed
    \/ RollBack

AgentSpec == AgentInit /\ [][AgentNext]_agentVars

-----------------------------------------------------------------------------

\* A response the model was paid for.
Response == 1..Len(billed)

AgentTypeOK ==
    /\ scoped \in BOOLEAN
    /\ phase \in {"queued", "running", "calling"} \cup InHand \cup Ended
    /\ attempt \in 0..MaxAttempts
    /\ left \in 0..Calls
    /\ tries \in 0..(Retries + 1)
    /\ spent \in Nat /\ total \in Nat
    /\ billed \in Seq(Sizes)
    /\ rows \subseteq Response /\ lost \subseteq Response
    /\ trail \subseteq [of : Response, status : {"retried", "success", "failed"}]

\* ORCH-003, ORCH-004: whatever a run was charged for is in the audit trail,
\* the responses that were rejected, that broke the budget and those of
\* executions that were rolled back too, unless the sink or the process failed
\* while the response was in hand.
TrailTellsAll ==
    \A i \in Response :
        \/ \E e \in trail : e.of = i
        \/ i \in lost
        \/ i = Current /\ phase \in InHand

\* The token budget of a run: what its rows hold is within the budget but for
\* the response that broke it, and then the run has not succeeded.
RecordedWithinBudget ==
    /\ phase = "succeeded" \/ phase = "running" => Tokens(rows) <= TokenBudget
    /\ Tokens(rows) > TokenBudget => Tokens(rows \ {Current}) <= TokenBudget

\* The budget as a bound on what a run is charged for.
BilledWithinBudget == Tokens(Response \ {Current}) <= TokenBudget

\* Each response is in the trail once.
TrailCountsOnce == \A e, f \in trail : e.of = f.of => e = f
=============================================================================
