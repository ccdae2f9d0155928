--------------------------- MODULE WorkflowQueue ---------------------------
(***************************************************************************)
(* The durable job queue and the pipeline executor (workflows/queue.py,    *)
(* runner.py, engine.py, dispatch.py, worker/main.py).                     *)
(*                                                                         *)
(* Every dispatched run has one job row.  Worker processes loop over       *)
(* "requeue stale jobs, drain"; an API process may drain once in the       *)
(* background after a dispatch.  A claim is a short transaction of its     *)
(* own; the run is then executed in a second, long transaction that holds  *)
(* the run row's lock and publishes run and step rows only when it         *)
(* commits; the job row is settled in a third.  Between any two of them    *)
(* the process may die, a database error may roll the transaction back,    *)
(* or the claim may grow older than the reaper's timeout while its holder  *)
(* is still at work.                                                       *)
(*                                                                         *)
(* run, steps, job: committed rows.  next, rows, outcome: what an executor *)
(* has written in its open transaction.                                    *)
(***************************************************************************)
EXTENDS Naturals, FiniteSets

CONSTANTS
    Run,            \* workflow runs; the job of a run is named by the run
    Worker,         \* worker processes
    Drain,          \* inline drains that may be active at once
    NoProc,         \* no process
    NoRun,          \* no run
    NSteps,         \* steps of a pipeline
    MaxAttempts,    \* settings.worker_max_attempts
    MaxJobs,        \* the max_jobs of one drain
    MaxFaults,      \* bound: crashes and database errors in a behaviour
    MaxOverruns     \* bound: claims that outlive the reaper's timeout

Proc == Worker \cup Drain

ASSUME QueueAssumption ==
    /\ NSteps \in Nat \ {0}
    /\ MaxAttempts \in Nat \ {0}
    /\ MaxJobs \in Nat \ {0}
    /\ MaxFaults \in Nat
    /\ MaxOverruns \in Nat
    /\ IsFiniteSet(Run)
    /\ Worker \cap Drain = {}
    /\ NoProc \notin Proc
    /\ NoRun \notin Run

VARIABLES
    run,        \* workflow_runs.status ("absent": no row yet)
    steps,      \* workflow_steps rows of the run
    job,        \* workflow_jobs row of the run
    lock,       \* the process whose open transaction locks the run row
    pc,         \* where the process is in its loop
    at,         \* the run it has claimed
    tries,      \* the attempts it read when it claimed
    processed,  \* jobs processed by the drain it is in
    next,       \* the step its pipeline is at
    rows,       \* step rows as its transaction sees them
    outcome,    \* run.status as its transaction sees it
    calls,      \* history: times a step's function was called
    faults,     \* counts towards MaxFaults
    overruns    \* counts towards MaxOverruns

committed == <<run, steps>>
txn == <<next, rows, outcome>>
claim == <<at, tries>>
bounds == <<faults, overruns>>
vars == <<run, steps, job, lock, pc, at, tries, processed, next, rows, outcome,
          calls, faults, overruns>>

-----------------------------------------------------------------------------
\* Statuses and rows

Terminal == {"succeeded", "failed", "needs_input"}
RunStatus == {"absent", "queued"} \cup Terminal
StepStatus == {"none", "done", "skipped", "failed"}
JobStatus == {"absent", "pending", "processing", "done", "failed"}
Location == {"idle", "reap", "claim", "lock", "pipeline", "commit", "finish", "handle"}

Step == 1..NSteps
NoRows == [i \in Step |-> "none"]
NoJob == [status |-> "absent", attempts |-> 0, availableAt |-> 0, overdue |-> FALSE]

\* available_at is the start time of the dispatching transaction: any order
\* against the order of the commits, ties included.
Time == 0..Cardinality(Run)

JobRow == [status : JobStatus, attempts : Nat, availableAt : Time, overdue : BOOLEAN]

\* Holding p's claim on a run: from the claim to the settled job row.
Holding(p) == pc[p] \in {"lock", "pipeline", "commit", "finish", "handle"}

\* p's transaction on the run is open and holds the row lock.
Executing(p) == pc[p] \in {"pipeline", "commit"}

\* Where a process starts over: a worker's loop begins with the reaper, a
\* background drain is gone.
Home(p) == IF p \in Worker THEN "reap" ELSE "idle"

Init ==
    /\ run = [r \in Run |-> "absent"]
    /\ steps = [r \in Run |-> NoRows]
    /\ job = [r \in Run |-> NoJob]
    /\ lock = [r \in Run |-> NoProc]
    /\ pc = [p \in Proc |-> Home(p)]
    /\ at = [p \in Proc |-> NoRun]
    /\ tries = [p \in Proc |-> 0]
    /\ processed = [p \in Proc |-> 0]
    /\ next = [p \in Proc |-> 1]
    /\ rows = [p \in Proc |-> NoRows]
    /\ outcome = [p \in Proc |-> "queued"]
    /\ calls = [r \in Run |-> [i \in Step |-> 0]]
    /\ faults = 0
    /\ overruns = 0

-----------------------------------------------------------------------------
\* Pieces of the actions

\* p's open transaction is gone, committed or rolled back: its writes are no
\* longer private and its row lock is released.
EndTxn(p) ==
    /\ lock' = [r \in Run |-> IF lock[r] = p THEN NoProc ELSE lock[r]]
    /\ next' = [next EXCEPT ![p] = 1]
    /\ rows' = [rows EXCEPT ![p] = NoRows]
    /\ outcome' = [outcome EXCEPT ![p] = "queued"]

Fault ==
    /\ faults < MaxFaults
    /\ faults' = faults + 1

\* p stops dealing with its job and goes to l.
Drop(p, l) ==
    /\ pc' = [pc EXCEPT ![p] = l]
    /\ at' = [at EXCEPT ![p] = NoRun]
    /\ tries' = [tries EXCEPT ![p] = 0]

\* Columns the queue writes: status with locked_at cleared, and a claim.
WithStatus(j, s) ==
    [status |-> s, attempts |-> j.attempts, availableAt |-> j.availableAt, overdue |-> FALSE]

Claimed(j) ==
    [status |-> "processing", attempts |-> j.attempts + 1, availableAt |-> j.availableAt,
     overdue |-> FALSE]

SetJob(r, s) == job' = [job EXCEPT ![r] = WithStatus(@, s)]

-----------------------------------------------------------------------------
\* The API

\* dispatch_run: the run and its pending job in one transaction, then the
\* inline drain as a background task; none when the worker is not inline or
\* the API process dies before its background tasks.
Dispatch(r) ==
    /\ run[r] = "absent"
    /\ run' = [run EXCEPT ![r] = "queued"]
    /\ \E t \in Time \ {0} :
          job' = [job EXCEPT ![r] = [NoJob EXCEPT !.status = "pending", !.availableAt = t]]
    /\ \/ UNCHANGED <<pc, processed>>
       \/ \E d \in Drain :
             /\ pc[d] = "idle"
             /\ pc' = [pc EXCEPT ![d] = "claim"]
             /\ processed' = [processed EXCEPT ![d] = 0]
    /\ UNCHANGED <<steps, lock, claim, txn, calls, bounds>>

-----------------------------------------------------------------------------
\* The worker loop and the drain

\* A seeded defect: the reaper's WHERE looks for the wrong status.
StrandedPending(r) == job[r].status = "pending" /\ job[r].overdue

Stranded(r) == job[r].status = "processing" /\ job[r].overdue

\* requeue_stale_jobs: one UPDATE over every claim older than the timeout,
\* whether its holder is dead or only slow.
Reap(p) ==
    /\ pc[p] = "reap"
    /\ job' = [r \in Run |->
                  IF Stranded(r)
                  THEN WithStatus(job[r], "pending")
                  ELSE job[r]]
    /\ pc' = [pc EXCEPT ![p] = "claim"]
    /\ processed' = [processed EXCEPT ![p] = 0]
    /\ UNCHANGED <<committed, lock, claim, txn, calls, bounds>>

Oldest(r) ==
    /\ job[r].status = "pending"
    /\ \A q \in Run : job[q].status = "pending" => job[r].availableAt <= job[q].availableAt

\* _claim_one and the commit of its transaction.
Claim(p, r) ==
    /\ pc[p] = "claim"
    /\ processed[p] < MaxJobs
    /\ Oldest(r)
    /\ job' = [job EXCEPT ![r] = Claimed(@)]
    /\ pc' = [pc EXCEPT ![p] = "lock"]
    /\ at' = [at EXCEPT ![p] = r]
    /\ tries' = [tries EXCEPT ![p] = job[r].attempts + 1]
    /\ UNCHANGED <<committed, lock, processed, txn, calls, bounds>>

\* drain_workflow_jobs returns: nothing is pending, or max_jobs were processed.
\* The worker goes round its loop, a background drain ends.
DrainEnds(p) ==
    /\ pc[p] = "claim"
    /\ processed[p] = MaxJobs \/ \A r \in Run : job[r].status # "pending"
    /\ pc' = [pc EXCEPT ![p] = Home(p)]
    /\ processed' = [processed EXCEPT ![p] = 0]
    /\ UNCHANGED <<committed, job, lock, claim, txn, calls, bounds>>

-----------------------------------------------------------------------------
\* execute_workflow_run and run_pipeline

\* A seeded defect: SELECT without FOR UPDATE.
RunRowReadable(r) == r \in Run

\* FOR UPDATE waits until nobody else holds the row.
RunRowFree(r) == lock[r] = NoProc

\* A seeded defect: only a succeeded run counts as finished.
SkipsSucceededRun(r) == run[r] = "succeeded"

SkipsRun(r) == run[r] \in Terminal

\* SELECT ... FOR UPDATE returns and the status is not terminal: the pipeline
\* starts.
StartPipeline(p) ==
    /\ pc[p] = "lock"
    /\ RunRowFree(at[p])
    /\ ~SkipsRun(at[p])
    /\ lock' = [lock EXCEPT ![at[p]] = p]
    /\ pc' = [pc EXCEPT ![p] = "pipeline"]
    /\ rows' = [rows EXCEPT ![p] = steps[at[p]]]
    /\ UNCHANGED <<committed, job, claim, processed, next, outcome, calls, bounds>>

\* The registry of this executor's release has no pipeline for the run's type:
\* the run fails without a step.
BuildFails(p) ==
    /\ pc[p] = "lock"
    /\ RunRowFree(at[p])
    /\ ~SkipsRun(at[p])
    /\ lock' = [lock EXCEPT ![at[p]] = p]
    /\ pc' = [pc EXCEPT ![p] = "commit"]
    /\ rows' = [rows EXCEPT ![p] = steps[at[p]]]
    /\ outcome' = [outcome EXCEPT ![p] = "failed"]
    /\ UNCHANGED <<committed, job, claim, processed, next, calls, bounds>>

\* The row is free and its status is terminal: nothing to do.
SkipTerminal(p) ==
    /\ pc[p] = "lock"
    /\ RunRowFree(at[p])
    /\ SkipsRun(at[p])
    /\ pc' = [pc EXCEPT ![p] = "finish"]
    /\ UNCHANGED <<committed, job, lock, claim, processed, txn, calls, bounds>>

\* A step whose row is already done is passed over without being called.
CallsStep(p) == rows[p][next[p]] # "done"

AtLastStep(p) == next[p] = NSteps

\* The history of calls after p reached its step.
CallStep(p) ==
    calls' = IF CallsStep(p) THEN [calls EXCEPT ![at[p]][next[p]] = @ + 1] ELSE calls

\* A seeded defect: each finished step is committed, the run's status is not.
StepDoneCommitted(p) ==
    /\ pc[p] = "pipeline"
    /\ CallStep(p)
    /\ rows' = [rows EXCEPT ![p][next[p]] = "done"]
    /\ steps' = [steps EXCEPT ![at[p]] = rows'[p]]
    /\ IF AtLastStep(p)
       THEN /\ outcome' = [outcome EXCEPT ![p] = "succeeded"]
            /\ pc' = [pc EXCEPT ![p] = "commit"]
            /\ UNCHANGED next
       ELSE /\ next' = [next EXCEPT ![p] = @ + 1]
            /\ UNCHANGED <<pc, outcome>>
    /\ UNCHANGED <<run, job, lock, claim, processed, bounds>>

StepDone(p) ==
    /\ pc[p] = "pipeline"
    /\ CallStep(p)
    /\ rows' = [rows EXCEPT ![p][next[p]] = "done"]
    /\ IF AtLastStep(p)
       THEN /\ outcome' = [outcome EXCEPT ![p] = "succeeded"]
            /\ pc' = [pc EXCEPT ![p] = "commit"]
            /\ UNCHANGED next
       ELSE /\ next' = [next EXCEPT ![p] = @ + 1]
            /\ UNCHANGED <<pc, outcome>>
    /\ UNCHANGED <<committed, job, lock, claim, processed, bounds>>

\* The step raises and the session still works: NeedsInput pauses the run, any
\* other exception fails it.  The run ends there.
StepEnds(p, stepStatus, runStatus) ==
    /\ pc[p] = "pipeline"
    /\ CallsStep(p)
    /\ CallStep(p)
    /\ rows' = [rows EXCEPT ![p][next[p]] = stepStatus]
    /\ outcome' = [outcome EXCEPT ![p] = runStatus]
    /\ pc' = [pc EXCEPT ![p] = "commit"]
    /\ UNCHANGED <<committed, job, lock, claim, processed, next, bounds>>

StepNeedsInput(p) == StepEnds(p, "skipped", "needs_input")
StepFails(p) == StepEnds(p, "failed", "failed")

\* The step raises a database error: the flush that would record the failure
\* raises in turn, everything is rolled back and the drain sees the exception.
StepBreaksSession(p) ==
    /\ pc[p] = "pipeline"
    /\ CallsStep(p)
    /\ CallStep(p)
    /\ Fault
    /\ EndTxn(p)
    /\ pc' = [pc EXCEPT ![p] = "handle"]
    /\ UNCHANGED <<committed, job, claim, processed, overruns>>

Commit(p) ==
    /\ pc[p] = "commit"
    /\ run' = [run EXCEPT ![at[p]] = outcome[p]]
    /\ steps' = [steps EXCEPT ![at[p]] = rows[p]]
    /\ EndTxn(p)
    /\ pc' = [pc EXCEPT ![p] = "finish"]
    /\ UNCHANGED <<job, claim, processed, calls, bounds>>

CommitFails(p) ==
    /\ pc[p] = "commit"
    /\ Fault
    /\ EndTxn(p)
    /\ pc' = [pc EXCEPT ![p] = "handle"]
    /\ UNCHANGED <<committed, job, claim, processed, calls, overruns>>

-----------------------------------------------------------------------------
\* Settling the job row.  Neither write looks at who holds the job by now.

JobProcessed(p) == processed' = [processed EXCEPT ![p] = @ + 1]

\* _finish_job(job_id, "done"), inside the drain's try.
Finish(p) ==
    /\ pc[p] = "finish"
    /\ SetJob(at[p], "done")
    /\ Drop(p, "claim")
    /\ JobProcessed(p)
    /\ UNCHANGED <<committed, lock, txn, calls, bounds>>

FinishFails(p) ==
    /\ pc[p] = "finish"
    /\ Fault
    /\ pc' = [pc EXCEPT ![p] = "handle"]
    /\ UNCHANGED <<committed, job, lock, claim, processed, txn, calls, overruns>>

\* A seeded defect: an exception settles the job as done.
DoneAfterError(p) == "done"

AfterError(p) == IF tries[p] >= MaxAttempts THEN "failed" ELSE "pending"

\* The drain's except branch: failed at the last attempt, else pending again,
\* by the attempts read at the claim.
Handle(p) ==
    /\ pc[p] = "handle"
    /\ SetJob(at[p], AfterError(p))
    /\ Drop(p, "claim")
    /\ JobProcessed(p)
    /\ UNCHANGED <<committed, lock, txn, calls, bounds>>

\* The except branch raises itself: the exception leaves the drain, the worker
\* loop swallows it and a background task ends.  The job stays processing.
HandleFails(p) ==
    /\ pc[p] = "handle"
    /\ Fault
    /\ Drop(p, Home(p))
    /\ processed' = [processed EXCEPT ![p] = 0]
    /\ UNCHANGED <<committed, job, lock, txn, calls, overruns>>

-----------------------------------------------------------------------------
\* The environment

\* The process dies wherever it is; the database rolls its transaction back
\* and releases its lock.  A worker is started again, a drain is not.
Crash(p) ==
    /\ pc[p] # Home(p)
    /\ Fault
    /\ EndTxn(p)
    /\ Drop(p, Home(p))
    /\ processed' = [processed EXCEPT ![p] = 0]
    /\ UNCHANGED <<committed, job, calls, overruns>>

\* The latest claim of r is held by a live process (attempts counts claims).
HeldAlive(r) == \E p \in Proc : Holding(p) /\ at[p] = r /\ tries[p] = job[r].attempts

\* 300 seconds pass over the claim of a dead holder ...
ClaimExpires(r) ==
    /\ job[r].status = "processing"
    /\ ~job[r].overdue
    /\ ~HeldAlive(r)
    /\ job' = [job EXCEPT ![r].overdue = TRUE]
    /\ UNCHANGED <<committed, lock, pc, claim, processed, txn, calls, bounds>>

\* ... or over the claim of a holder that is still at work.
ClaimOverruns(r) ==
    /\ job[r].status = "processing"
    /\ ~job[r].overdue
    /\ HeldAlive(r)
    /\ overruns < MaxOverruns
    /\ overruns' = overruns + 1
    /\ job' = [job EXCEPT ![r].overdue = TRUE]
    /\ UNCHANGED <<committed, lock, pc, claim, processed, txn, calls, faults>>

-----------------------------------------------------------------------------

\* What p does by itself when nothing goes wrong.
Progress(p) ==
    \/ Reap(p)
    \/ \E r \in Run : Claim(p, r)
    \/ DrainEnds(p)
    \/ StartPipeline(p)
    \/ BuildFails(p)
    \/ SkipTerminal(p)
    \/ StepDone(p)
    \/ StepNeedsInput(p)
    \/ StepFails(p)
    \/ Commit(p)
    \/ Finish(p)
    \/ Handle(p)

GoesWrong(p) ==
    \/ StepBreaksSession(p)
    \/ CommitFails(p)
    \/ FinishFails(p)
    \/ HandleFails(p)
    \/ Crash(p)

Next ==
    \/ \E r \in Run : Dispatch(r) \/ ClaimExpires(r) \/ ClaimOverruns(r)
    \/ \E p \in Proc : Progress(p) \/ GoesWrong(p)

Spec == Init /\ [][Next]_vars

\* A process that is not killed goes on with what it is doing (its event loop
\* runs, provider calls time out), and time passes over an abandoned claim.
Fairness ==
    /\ \A p \in Proc : WF_vars(Progress(p))
    /\ \A r \in Run : WF_vars(ClaimExpires(r))

FairSpec == Spec /\ Fairness

-----------------------------------------------------------------------------
\* Properties

\* Every variable has its type; in particular a pipeline's position is one of
\* its steps (engine.py enumerates the steps it built).
TypeOK ==
    /\ run \in [Run -> RunStatus]
    /\ steps \in [Run -> [Step -> StepStatus]]
    /\ job \in [Run -> JobRow]
    /\ lock \in [Run -> Proc \cup {NoProc}]
    /\ pc \in [Proc -> Location]
    /\ at \in [Proc -> Run \cup {NoRun}]
    /\ tries \in [Proc -> Nat]
    /\ processed \in [Proc -> 0..MaxJobs]
    /\ next \in [Proc -> Step]
    /\ rows \in [Proc -> [Step -> StepStatus]]
    /\ outcome \in [Proc -> {"queued"} \cup Terminal]
    /\ calls \in [Run -> [Step -> Nat]]
    /\ faults \in 0..MaxFaults
    /\ overruns \in 0..MaxOverruns

\* However often the reaper requeues a job that is still being worked on, at
\* most one process is inside the pipeline of a run (ORCH-001, runner.py).
SingleExecutor ==
    \A p, q \in Proc : p # q /\ Executing(p) /\ Executing(q) => at[p] # at[q]

\* A job is only marked done when its run is settled in the database: a done
\* job never hides a run that nobody will execute any more.
DoneIsSettled == \A r \in Run : job[r].status = "done" => run[r] \in Terminal

\* A step's function (its provider calls cost money) is called again only if a
\* crash or a database error undid an earlier execution: a claim that overruns
\* the reaper's timeout is no reason to do the work twice.
RepeatedOnlyByFaults ==
    \A r \in Run : \A i \in Step : calls[r][i] <= 1 + faults

\* A committed step row belongs to a settled run.  So a retry starts from the
\* first step: the "already completed" branch of run_pipeline resumes nothing.
NothingToResume == \A r \in Run : run[r] \notin Terminal => steps[r] = NoRows

\* The engine implements the life cycle clients see: settled once, atomically
\* with the step rows that explain it, never changed again.
Lifecycle == INSTANCE RunLifecycle WITH run <- run, steps <- steps
RunLifecycleSpec == Lifecycle!Spec

\* With finitely many crashes and overruns, the job of every dispatched run is
\* eventually done or failed for good.
EventuallySettled ==
    \A r \in Run : run[r] = "queued" ~> [](job[r].status \in {"done", "failed"})

\* engine.py: "Failures are always visible: a failed step marks the run failed".
\* It does not hold: a job given up after database errors leaves its run queued.
FailuresVisible == \A r \in Run : job[r].status = "failed" => run[r] \in Terminal
=============================================================================
