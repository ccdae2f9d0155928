------------------------ MODULE WorkflowQueueProofs ------------------------
(***************************************************************************)
(* Proofs about the two halves of the worker's loop, for every value of    *)
(* their constants: WorkflowQueue (every set of runs, workers and drains,  *)
(* every bound) and, from its own line on, ObligationScan (every set of    *)
(* scans, syncs and edits, every table of renewals, every cooldown).       *)
(***************************************************************************)
EXTENDS WorkflowQueue, ObligationScan, FiniteSetTheorems, WellFoundedInduction,
        NaturalsInduction, SequenceTheorems, TLAPS

-----------------------------------------------------------------------------
\* Facts about the constants

\* The constants as QueueAssumption gives them.
LEMMA ConstantFacts ==
    /\ NSteps \in Nat /\ NSteps >= 1
    /\ 1 \in Step /\ NSteps \in Step
    /\ MaxJobs \in Nat /\ MaxFaults \in Nat /\ MaxOverruns \in Nat /\ MaxAttempts \in Nat
    /\ 0 \in Time
    /\ NoProc \notin Proc /\ NoRun \notin Run
  <1>1. Cardinality(Run) \in Nat
    BY QueueAssumption, FS_CardinalityType
  <1>2. QED
    BY <1>1, QueueAssumption DEF Step, Time

\* A process starts over at a location.
LEMMA HomeType == \A p \in Proc : Home(p) \in Location
  BY DEF Home, Location

\* A counter of a table of counters.
LEMMA Increment ==
    ASSUME NEW S, NEW f \in [S -> Nat], NEW s \in S
    PROVE  [f EXCEPT ![s] = @ + 1] \in [S -> Nat]
  <1>1. f[s] + 1 \in Nat
    OBVIOUS
  <1> DEFINE g == [f EXCEPT ![s] = f[s] + 1]
  <1>2. g = [i \in S |-> IF i = s THEN f[s] + 1 ELSE f[i]]
    OBVIOUS
  <1> HIDE DEF g
  <1>3. \A i \in S : g[i] \in Nat
    BY <1>1, <1>2
  <1>4. g \in [S -> Nat]
    BY <1>2, <1>3
  <1>5. QED
    BY <1>4 DEF g

\* What the queue writes to a job row keeps the row a job row.
LEMMA JobRowUpdates ==
    ASSUME NEW j \in JobRow
    PROVE  /\ \A s \in JobStatus : /\ WithStatus(j, s) \in JobRow
                                   /\ WithStatus(j, s).status = s
                                   /\ WithStatus(j, s).attempts = j.attempts
           /\ Claimed(j) \in JobRow
           /\ Claimed(j).status = "processing"
           /\ Claimed(j).attempts = j.attempts + 1
  <1>1. j.attempts + 1 \in Nat
    BY DEF JobRow
  <1>2. QED
    BY <1>1 DEF JobRow, JobStatus, WithStatus, Claimed

-----------------------------------------------------------------------------
\* Type correctness

\* The initial state is well typed.
LEMMA InitType == Init => TypeOK
  <1> SUFFICES ASSUME Init PROVE TypeOK
    OBVIOUS
  <1> USE ConstantFacts, HomeType DEF Init, NoRows, NoJob
  <1>1. /\ run \in [Run -> RunStatus]
        /\ steps \in [Run -> [Step -> StepStatus]]
    BY DEF RunStatus, StepStatus
  <1>2. job \in [Run -> JobRow]
    BY DEF JobStatus, JobRow
  <1>3. /\ lock \in [Run -> Proc \cup {NoProc}]
        /\ pc \in [Proc -> Location]
        /\ at \in [Proc -> Run \cup {NoRun}]
        /\ tries \in [Proc -> Nat]
        /\ processed \in [Proc -> 0..MaxJobs]
    OBVIOUS
  <1>4. /\ next \in [Proc -> Step]
        /\ rows \in [Proc -> [Step -> StepStatus]]
        /\ outcome \in [Proc -> {"queued"} \cup Terminal]
        /\ calls \in [Run -> [Step -> Nat]]
        /\ faults \in 0..MaxFaults
        /\ overruns \in 0..MaxOverruns
    BY DEF StepStatus
  <1>5. QED
    BY <1>1, <1>2, <1>3, <1>4 DEF TypeOK

\* Who holds a claim holds it on a run, and its drain may count one more job.
ClaimOnRun == \A p \in Proc : Holding(p) => at[p] \in Run /\ processed[p] < MaxJobs

\* The end of a transaction writes values of the right types.
LEMMA EndTxnType ==
    ASSUME TypeOK, NEW p \in Proc, EndTxn(p)
    PROVE  /\ lock' \in [Run -> Proc \cup {NoProc}]
           /\ next' \in [Proc -> Step]
           /\ rows' \in [Proc -> [Step -> StepStatus]]
           /\ outcome' \in [Proc -> {"queued"} \cup Terminal]
  BY ConstantFacts DEF TypeOK, EndTxn, NoRows, StepStatus

\* A job row keeps its type when its status is set.
LEMMA SetJobType ==
    ASSUME TypeOK, NEW r \in Run, NEW s \in JobStatus, SetJob(r, s)
    PROVE  job' \in [Run -> JobRow]
  BY JobRowUpdates DEF TypeOK, SetJob

\* Every step preserves the types, and a claim names a run.
LEMMA NextType == TypeOK /\ ClaimOnRun /\ [Next]_vars => TypeOK' /\ ClaimOnRun'
  <1> SUFFICES ASSUME TypeOK, ClaimOnRun, [Next]_vars PROVE TypeOK' /\ ClaimOnRun'
    OBVIOUS
  <1> USE ConstantFacts, HomeType
  <1>job. job \in [Run -> JobRow]
    BY DEF TypeOK
  <1>calls. calls \in [Run -> [Step -> Nat]]
    BY DEF TypeOK
  <1>ctl. /\ pc \in [Proc -> Location]
          /\ processed \in [Proc -> 0..MaxJobs]
          /\ Drain \subseteq Proc
    BY DEF TypeOK, Proc
  <1>1. ASSUME NEW r \in Run, Dispatch(r) PROVE TypeOK' /\ ClaimOnRun'
    <2>1. run' \in [Run -> RunStatus]
      BY <1>1 DEF Dispatch, TypeOK, RunStatus
    <2>2. job' \in [Run -> JobRow]
      <3>1. PICK t \in Time \ {0} :
               job' = [job EXCEPT ![r] = [NoJob EXCEPT !.status = "pending", !.availableAt = t]]
        BY <1>1 DEF Dispatch
      <3>2. [NoJob EXCEPT !.status = "pending", !.availableAt = t]
               \in JobRow
        BY DEF NoJob, JobStatus, JobRow
      <3>3. QED
        BY <3>1, <3>2 DEF TypeOK
    <2>3. pc' \in [Proc -> Location] /\ processed' \in [Proc -> 0..MaxJobs]
      <3>1. CASE UNCHANGED <<pc, processed>>
        BY <3>1 DEF TypeOK
      <3>2. ASSUME NEW d \in Drain,
                   pc' = [pc EXCEPT ![d] = "claim"],
                   processed' = [processed EXCEPT ![d] = 0]
            PROVE  pc' \in [Proc -> Location] /\ processed' \in [Proc -> 0..MaxJobs]
        BY <1>ctl, <3>2 DEF Location
      <3>3. QED
        BY <1>1, <3>1, <3>2 DEF Dispatch
    <2>4. ClaimOnRun'
      BY <1>1 DEF Dispatch, ClaimOnRun, Holding, TypeOK, claim, Proc
    <2>5. QED
      BY <1>1, <2>1, <2>2, <2>3, <2>4 DEF Dispatch, TypeOK, claim, txn, bounds
  <1>2. ASSUME NEW r \in Run, ClaimExpires(r) \/ ClaimOverruns(r)
        PROVE  TypeOK' /\ ClaimOnRun'
    <2>1. job' \in [Run -> JobRow]
      <3>1. job' = [job EXCEPT ![r].overdue = TRUE]
        BY <1>2 DEF ClaimExpires, ClaimOverruns
      <3>2. QED
        BY <1>job, <3>1 DEF JobRow
    <2>2. overruns' \in 0..MaxOverruns
      BY <1>2 DEF ClaimExpires, ClaimOverruns, TypeOK, bounds
    <2>3. ClaimOnRun'
      BY <1>2 DEF ClaimExpires, ClaimOverruns, ClaimOnRun, Holding, claim
    <2>4. QED
      BY <1>2, <2>1, <2>2, <2>3
         DEF ClaimExpires, ClaimOverruns, TypeOK, committed, claim, txn, bounds
  <1>3. ASSUME NEW p \in Proc, Reap(p) PROVE TypeOK' /\ ClaimOnRun'
    <2>1. job' \in [Run -> JobRow]
      <3>1. \A r \in Run : WithStatus(job[r], "pending") \in JobRow
        BY <1>job, JobRowUpdates DEF JobStatus
      <3>2. QED
        BY <1>job, <1>3, <3>1 DEF Reap
    <2>2. pc' \in [Proc -> Location] /\ processed' \in [Proc -> 0..MaxJobs]
      BY <1>ctl, <1>3 DEF Reap, Location
    <2>3. ClaimOnRun'
      BY <1>3 DEF Reap, ClaimOnRun, Holding, TypeOK, claim
    <2>4. QED
      BY <1>3, <2>1, <2>2, <2>3 DEF Reap, TypeOK, committed, claim, txn, bounds
  <1>4. ASSUME NEW p \in Proc, NEW r \in Run, Claim(p, r) PROVE TypeOK' /\ ClaimOnRun'
    <2>1. job' \in [Run -> JobRow]
      <3>1. Claimed(job[r]) \in JobRow
        BY <1>job, JobRowUpdates
      <3>2. QED
        BY <1>job, <1>4, <3>1 DEF Claim
    <2>2. /\ pc' \in [Proc -> Location]
          /\ at' \in [Proc -> Run \cup {NoRun}]
          /\ tries' \in [Proc -> Nat]
      <3>1. job[r].attempts + 1 \in Nat
        BY <1>job DEF JobRow
      <3>2. QED
        BY <1>4, <3>1 DEF Claim, TypeOK, Location
    <2>3. ClaimOnRun'
      BY <1>4 DEF Claim, ClaimOnRun, Holding, TypeOK
    <2>4. QED
      BY <1>4, <2>1, <2>2, <2>3 DEF Claim, TypeOK, committed, txn, bounds
  <1>5. ASSUME NEW p \in Proc, DrainEnds(p) PROVE TypeOK' /\ ClaimOnRun'
    <2>1. pc' \in [Proc -> Location] /\ processed' \in [Proc -> 0..MaxJobs]
      BY <1>5 DEF DrainEnds, TypeOK
    <2>2. ClaimOnRun'
      BY <1>5 DEF DrainEnds, ClaimOnRun, Holding, TypeOK, claim, Home
    <2>3. QED
      BY <1>5, <2>1, <2>2 DEF DrainEnds, TypeOK, committed, claim, txn, bounds
  <1>6. ASSUME NEW p \in Proc, StartPipeline(p) \/ BuildFails(p) \/ SkipTerminal(p)
        PROVE  TypeOK' /\ ClaimOnRun'
    <2>1. at[p] \in Run
      BY <1>6 DEF ClaimOnRun, Holding, StartPipeline, BuildFails, SkipTerminal
    <2>2. /\ pc' \in [Proc -> Location]
          /\ lock' \in [Run -> Proc \cup {NoProc}]
      <3>1. CASE StartPipeline(p)
        BY <3>1, <2>1 DEF StartPipeline, TypeOK, Location
      <3>2. CASE BuildFails(p)
        BY <3>2, <2>1 DEF BuildFails, TypeOK, Location
      <3>3. CASE SkipTerminal(p)
        BY <3>3 DEF SkipTerminal, TypeOK, Location
      <3>4. QED
        BY <1>6, <3>1, <3>2, <3>3
    <2>3. /\ rows' \in [Proc -> [Step -> StepStatus]]
          /\ outcome' \in [Proc -> {"queued"} \cup Terminal]
      <3>1. CASE StartPipeline(p)
        BY <3>1, <2>1 DEF StartPipeline, TypeOK
      <3>2. CASE BuildFails(p)
        BY <3>2, <2>1 DEF BuildFails, TypeOK, Terminal
      <3>3. CASE SkipTerminal(p)
        BY <3>3 DEF SkipTerminal, TypeOK, txn
      <3>4. QED
        BY <1>6, <3>1, <3>2, <3>3
    <2>4. ClaimOnRun'
      BY <1>6, <2>1
         DEF StartPipeline, BuildFails, SkipTerminal, ClaimOnRun, Holding, TypeOK, claim
    <2>5. QED
      BY <1>6, <2>2, <2>3, <2>4
         DEF StartPipeline, BuildFails, SkipTerminal, TypeOK, committed, claim, txn, bounds
  <1>7. ASSUME NEW p \in Proc, pc[p] = "pipeline", CallStep(p)
        PROVE  at[p] \in Run /\ calls' \in [Run -> [Step -> Nat]]
    <2>1. at[p] \in Run
      BY <1>7 DEF ClaimOnRun, Holding
    <2>2. QED
      <3>1. CASE CallsStep(p)
        <4>1. calls' = [calls EXCEPT ![at[p]][next[p]] = @ + 1]
          BY <1>7, <3>1 DEF CallStep
        <4>2. calls[at[p]] \in [Step -> Nat] /\ next[p] \in Step
          BY <2>1 DEF TypeOK
        <4>3. [calls[at[p]] EXCEPT ![next[p]] = @ + 1] \in [Step -> Nat]
          BY <4>2, Increment
        <4>4. QED
          BY <2>1, <1>calls, <4>1, <4>3
      <3>2. CASE ~CallsStep(p)
        BY <1>7, <2>1, <3>2 DEF CallStep, TypeOK
      <3>3. QED
        BY <3>1, <3>2
  <1>8. ASSUME NEW p \in Proc, StepDone(p) PROVE TypeOK' /\ ClaimOnRun'
    <2>1. calls' \in [Run -> [Step -> Nat]]
      BY <1>7, <1>8 DEF StepDone
    <2>2. rows' \in [Proc -> [Step -> StepStatus]]
      BY <1>8 DEF StepDone, TypeOK, StepStatus
    <2>3. next' \in [Proc -> Step]
      <3>1. CASE AtLastStep(p)
        BY <1>8, <3>1 DEF StepDone, TypeOK
      <3>2. CASE ~AtLastStep(p)
        <4>1. next[p] + 1 \in Step
          BY <3>2 DEF AtLastStep, TypeOK, Step
        <4>2. QED
          BY <1>8, <3>2, <4>1 DEF StepDone, TypeOK
      <3>3. QED
        BY <3>1, <3>2
    <2>4. /\ outcome' \in [Proc -> {"queued"} \cup Terminal]
          /\ pc' \in [Proc -> Location]
      BY <1>8 DEF StepDone, TypeOK, Terminal, Location
    <2>5. ClaimOnRun'
      BY <1>8 DEF StepDone, ClaimOnRun, Holding, TypeOK, claim
    <2>6. QED
      BY <1>8, <2>1, <2>2, <2>3, <2>4, <2>5 DEF StepDone, TypeOK, committed, claim, bounds
  <1>9. ASSUME NEW p \in Proc, StepNeedsInput(p) \/ StepFails(p) PROVE TypeOK' /\ ClaimOnRun'
    <2>1. calls' \in [Run -> [Step -> Nat]]
      BY <1>7, <1>9 DEF StepNeedsInput, StepFails, StepEnds
    <2>2. rows' \in [Proc -> [Step -> StepStatus]]
      <3>1. PICK s \in StepStatus : rows' = [rows EXCEPT ![p][next[p]] = s]
        BY <1>9 DEF StepNeedsInput, StepFails, StepEnds, StepStatus
      <3>2. QED
        BY <3>1 DEF TypeOK
    <2>3. /\ outcome' \in [Proc -> {"queued"} \cup Terminal]
          /\ pc' \in [Proc -> Location]
      BY <1>9 DEF StepNeedsInput, StepFails, StepEnds, TypeOK, Terminal, Location
    <2>4. ClaimOnRun'
      BY <1>9 DEF StepNeedsInput, StepFails, StepEnds, ClaimOnRun, Holding, TypeOK, claim
    <2>5. QED
      BY <1>9, <2>1, <2>2, <2>3, <2>4
         DEF StepNeedsInput, StepFails, StepEnds, TypeOK, committed, claim, bounds
  <1>10. ASSUME NEW p \in Proc, StepBreaksSession(p) PROVE TypeOK' /\ ClaimOnRun'
    <2>1. calls' \in [Run -> [Step -> Nat]]
      BY <1>7, <1>10 DEF StepBreaksSession
    <2>2. pc' \in [Proc -> Location] /\ faults' \in 0..MaxFaults
      BY <1>10 DEF StepBreaksSession, Fault, TypeOK, Location
    <2>3. ClaimOnRun'
      BY <1>10 DEF StepBreaksSession, ClaimOnRun, Holding, TypeOK, claim
    <2>4. QED
      BY <1>10, <2>1, <2>2, <2>3, EndTxnType
         DEF StepBreaksSession, TypeOK, committed, claim
  <1>11. ASSUME NEW p \in Proc, Commit(p) PROVE TypeOK' /\ ClaimOnRun'
    <2>1. /\ run' \in [Run -> RunStatus]
          /\ steps' \in [Run -> [Step -> StepStatus]]
      BY <1>11 DEF Commit, TypeOK, RunStatus
    <2>2. pc' \in [Proc -> Location]
      BY <1>11 DEF Commit, TypeOK, Location
    <2>3. ClaimOnRun'
      BY <1>11 DEF Commit, ClaimOnRun, Holding, TypeOK, claim
    <2>4. QED
      BY <1>11, <2>1, <2>2, <2>3, EndTxnType DEF Commit, TypeOK, claim, bounds
  <1>12. ASSUME NEW p \in Proc, CommitFails(p) PROVE TypeOK' /\ ClaimOnRun'
    <2>1. pc' \in [Proc -> Location] /\ faults' \in 0..MaxFaults
      BY <1>12 DEF CommitFails, Fault, TypeOK, Location
    <2>2. ClaimOnRun'
      BY <1>12 DEF CommitFails, ClaimOnRun, Holding, TypeOK, claim
    <2>3. QED
      BY <1>12, <2>1, <2>2, EndTxnType DEF CommitFails, TypeOK, committed, claim
  <1>13. ASSUME NEW p \in Proc, Finish(p) \/ Handle(p) PROVE TypeOK' /\ ClaimOnRun'
    <2>1. PICK s \in JobStatus : SetJob(at[p], s)
      BY <1>13 DEF Finish, Handle, AfterError, JobStatus
    <2>2. at[p] \in Run
      BY <1>13 DEF Finish, Handle, ClaimOnRun, Holding
    <2>3. /\ pc' \in [Proc -> Location]
          /\ at' \in [Proc -> Run \cup {NoRun}]
          /\ tries' \in [Proc -> Nat]
      <3>1. Drop(p, "claim")
        BY <1>13 DEF Finish, Handle
      <3>2. QED
        BY <3>1 DEF Drop, TypeOK, Location
    <2>4. processed' \in [Proc -> 0..MaxJobs]
      <3>1. processed[p] < MaxJobs /\ JobProcessed(p)
        BY <1>13 DEF Finish, Handle, ClaimOnRun, Holding
      <3>2. processed[p] + 1 \in 0..MaxJobs
        BY <3>1 DEF TypeOK
      <3>3. QED
        BY <3>1, <3>2 DEF JobProcessed, TypeOK
    <2>5. ClaimOnRun'
      <3>1. Drop(p, "claim") /\ JobProcessed(p)
        BY <1>13 DEF Finish, Handle
      <3>2. QED
        BY <3>1 DEF Drop, JobProcessed, ClaimOnRun, Holding, TypeOK
    <2>6. QED
      BY <1>13, <2>1, <2>2, <2>3, <2>4, <2>5, SetJobType
         DEF Finish, Handle, TypeOK, committed, txn, bounds
  <1>14. ASSUME NEW p \in Proc, FinishFails(p) PROVE TypeOK' /\ ClaimOnRun'
    <2>1. pc' \in [Proc -> Location] /\ faults' \in 0..MaxFaults
      BY <1>14 DEF FinishFails, Fault, TypeOK, Location
    <2>2. ClaimOnRun'
      BY <1>14 DEF FinishFails, ClaimOnRun, Holding, TypeOK, claim
    <2>3. QED
      BY <1>14, <2>1, <2>2 DEF FinishFails, TypeOK, committed, claim, txn
  <1>15. ASSUME NEW p \in Proc, HandleFails(p) \/ Crash(p) PROVE TypeOK' /\ ClaimOnRun'
    <2>1. /\ pc' \in [Proc -> Location]
          /\ at' \in [Proc -> Run \cup {NoRun}]
          /\ tries' \in [Proc -> Nat]
          /\ processed' \in [Proc -> 0..MaxJobs]
          /\ faults' \in 0..MaxFaults
      <3>1. Drop(p, Home(p)) /\ Fault /\ processed' = [processed EXCEPT ![p] = 0]
        BY <1>15 DEF HandleFails, Crash
      <3>2. QED
        BY <3>1 DEF Drop, Fault, TypeOK
    <2>2. ClaimOnRun'
      <3>1. Drop(p, Home(p)) /\ processed' = [processed EXCEPT ![p] = 0]
        BY <1>15 DEF HandleFails, Crash
      <3>2. pc' = [pc EXCEPT ![p] = Home(p)] /\ Home(p) \in {"reap", "idle"}
        BY <3>1 DEF Drop, Home
      <3>3. ~Holding(p)'
        BY <3>2 DEF Holding, TypeOK
      <3>4. \A q \in Proc \ {p} : /\ Holding(q)' = Holding(q)
                                   /\ at'[q] = at[q] /\ processed'[q] = processed[q]
        BY <3>1, <3>2 DEF Drop, Holding, TypeOK
      <3>5. QED
        BY <3>3, <3>4 DEF ClaimOnRun
    <2>3. /\ lock' \in [Run -> Proc \cup {NoProc}]
          /\ next' \in [Proc -> Step]
          /\ rows' \in [Proc -> [Step -> StepStatus]]
          /\ outcome' \in [Proc -> {"queued"} \cup Terminal]
      BY <1>15, EndTxnType DEF HandleFails, Crash, TypeOK, txn
    <2>4. QED
      BY <1>15, <2>1, <2>2, <2>3 DEF HandleFails, Crash, TypeOK, committed
  <1>16. CASE UNCHANGED vars
    BY <1>16 DEF vars, TypeOK, ClaimOnRun, Holding
  <1>17. QED
    BY <1>1, <1>2, <1>3, <1>4, <1>5, <1>6, <1>8, <1>9, <1>10, <1>11, <1>12, <1>13, <1>14,
       <1>15, <1>16 DEF Next, Progress, GoesWrong

\* Every reachable state is well typed, whatever the sets of runs and processes.
THEOREM TypeCorrect == Spec => []TypeOK
  <1>1. Init => TypeOK /\ ClaimOnRun
    BY InitType DEF Init, ClaimOnRun, Holding, Home
  <1>2. TypeOK /\ ClaimOnRun /\ [Next]_vars => TypeOK' /\ ClaimOnRun'
    BY NextType
  <1>3. QED
    BY <1>1, <1>2, PTL DEF Spec

-----------------------------------------------------------------------------
\* The run row's lock: one executor

\* An executor owns the lock of the run it claimed.
Locking == \A p \in Proc : Executing(p) => lock[at[p]] = p

\* The end of one transaction takes no lock from another.
LEMMA EndTxnLocking ==
    ASSUME TypeOK, ClaimOnRun, Locking, NEW p \in Proc, EndTxn(p),
           NEW q \in Proc, q # p, Executing(q)
    PROVE  lock'[at[q]] = q
  BY DEF EndTxn, Locking, ClaimOnRun, Holding, Executing, TypeOK

\* Every step keeps the executing process the holder of its run's row.
LEMMA LockingStep == TypeOK /\ ClaimOnRun /\ Locking /\ [Next]_vars => Locking'
  <1> SUFFICES ASSUME TypeOK, ClaimOnRun, Locking, [Next]_vars,
                      NEW q \in Proc, Executing(q)'
               PROVE  lock'[at'[q]] = q
    BY DEF Locking
  <1> USE DEF Executing
  <1>t. pc \in [Proc -> Location] /\ at \in [Proc -> Run \cup {NoRun}]
    BY DEF TypeOK
  <1>1. ASSUME NEW r \in Run, Dispatch(r) PROVE lock'[at'[q]] = q
    BY <1>t, <1>1 DEF Dispatch, Locking, claim, Proc
  <1>2. ASSUME NEW r \in Run, ClaimExpires(r) \/ ClaimOverruns(r) PROVE lock'[at'[q]] = q
    BY <1>2 DEF ClaimExpires, ClaimOverruns, Locking, claim
  <1>3. ASSUME NEW p \in Proc, Reap(p) \/ DrainEnds(p) PROVE lock'[at'[q]] = q
    BY <1>t, <1>3 DEF Reap, DrainEnds, Locking, claim, Home
  <1>4. ASSUME NEW p \in Proc, NEW r \in Run, Claim(p, r) PROVE lock'[at'[q]] = q
    BY <1>t, <1>4 DEF Claim, Locking
  <1>5. ASSUME NEW p \in Proc, StartPipeline(p) \/ BuildFails(p) PROVE lock'[at'[q]] = q
    <2>1. /\ at[p] \in Run /\ lock[at[p]] = NoProc
          /\ lock' = [lock EXCEPT ![at[p]] = p]
          /\ at' = at
          /\ \A x \in Proc \ {p} : pc'[x] = pc[x]
      BY <1>t, <1>5 DEF StartPipeline, BuildFails, RunRowFree, ClaimOnRun, Holding, claim
    <2>2. lock \in [Run -> Proc \cup {NoProc}]
      BY DEF TypeOK
    <2>3. CASE q = p
      BY <2>1, <2>2, <2>3
    <2>4. CASE q # p
      <3>1. lock[at[q]] = q
        BY <2>1, <2>4 DEF Locking
      <3>2. lock'[at[q]] = q
        BY <2>1, <2>2, <3>1, ConstantFacts
      <3>3. QED
        BY <2>1, <3>2
    <2>5. QED
      BY <2>3, <2>4
  <1>6. ASSUME NEW p \in Proc, SkipTerminal(p) PROVE lock'[at'[q]] = q
    BY <1>t, <1>6 DEF SkipTerminal, Locking, claim
  <1>7. ASSUME NEW p \in Proc, StepDone(p) \/ StepNeedsInput(p) \/ StepFails(p)
        PROVE  lock'[at'[q]] = q
    BY <1>t, <1>7 DEF StepDone, StepNeedsInput, StepFails, StepEnds, Locking, claim
  <1>8. ASSUME NEW p \in Proc, StepBreaksSession(p) \/ Commit(p) \/ CommitFails(p) \/ Crash(p)
        PROVE  lock'[at'[q]] = q
    <2>1. EndTxn(p)
      BY <1>8 DEF StepBreaksSession, Commit, CommitFails, Crash
    <2>2. q # p
      BY <1>t, <1>8 DEF StepBreaksSession, Commit, CommitFails, Crash, Drop, Home
    <2>3. Executing(q) /\ at'[q] = at[q]
      BY <1>t, <1>8, <2>2 DEF StepBreaksSession, Commit, CommitFails, Crash, Drop, claim
    <2>4. QED
      BY <2>1, <2>2, <2>3, EndTxnLocking
  <1>9. ASSUME NEW p \in Proc, Finish(p) \/ Handle(p) \/ HandleFails(p)
        PROVE  lock'[at'[q]] = q
    BY <1>t, <1>9 DEF Finish, Handle, HandleFails, Drop, Home, Locking
  <1>10. ASSUME NEW p \in Proc, FinishFails(p) PROVE lock'[at'[q]] = q
    BY <1>t, <1>10 DEF FinishFails, Locking, claim
  <1>11. CASE UNCHANGED vars
    BY <1>11 DEF vars, Locking
  <1>12. QED
    BY <1>1, <1>2, <1>3, <1>4, <1>5, <1>6, <1>7, <1>8, <1>9, <1>10, <1>11
       DEF Next, Progress, GoesWrong

\* At most one process is inside the pipeline of a run (ORCH-001, runner.py).
THEOREM OneExecutor == Spec => []SingleExecutor
  <1>1. Init => TypeOK /\ ClaimOnRun /\ Locking
    BY InitType DEF Init, ClaimOnRun, Locking, Holding, Executing, Home
  <1>2. TypeOK /\ ClaimOnRun /\ Locking /\ [Next]_vars => TypeOK' /\ ClaimOnRun' /\ Locking'
    BY NextType, LockingStep
  <1>3. Locking => SingleExecutor
    BY DEF Locking, SingleExecutor
  <1>4. QED
    BY <1>1, <1>2, <1>3, PTL DEF Spec

-----------------------------------------------------------------------------
\* What an open transaction holds, and on which run

\* Jobs and claims are of dispatched runs.
Dispatched ==
    /\ \A r \in Run : job[r].status # "absent" => run[r] # "absent"
    /\ \A p \in Proc : Holding(p) => run[at[p]] # "absent"

\* An executor works on a run nobody has settled.
Unsettled == \A p \in Proc : Executing(p) => run[at[p]] = "queued"

\* The step rows an executor has written: done up to the step it is at, and at
\* the commit the report of its outcome.
TxnShape ==
    \A p \in Proc :
        /\ ~Executing(p) => next[p] = 1 /\ rows[p] = NoRows /\ outcome[p] = "queued"
        /\ pc[p] = "pipeline" => rows[p] = Lifecycle!EndedAt(next[p], "none")
        /\ pc[p] = "commit" =>
              outcome[p] \in Terminal /\ rows[p] \in Lifecycle!Report(outcome[p])

SettleInv == Locking /\ Dispatched /\ Unsettled /\ TxnShape /\ NothingToResume

\* A pipeline that has done nothing shows no rows.
LEMMA FirstRows == Lifecycle!EndedAt(1, "none") = NoRows
  BY ConstantFacts DEF Lifecycle!EndedAt, Lifecycle!Step, NoRows, Step

\* Writing the row of step k, when the steps before it are done.
LEMMA RowAtStep ==
    ASSUME NEW k \in Step, NEW s,
           NEW f, f = Lifecycle!EndedAt(k, "none")
    PROVE  /\ [f EXCEPT ![k] = s] = Lifecycle!EndedAt(k, s)
           /\ f[k] = "none"
  BY ConstantFacts DEF Lifecycle!EndedAt, Lifecycle!Step, Step

\* After step k is done the pipeline stands at step k + 1, or is complete.
LEMMA RowsAfterDone ==
    ASSUME NEW k \in Step
    PROVE  /\ k # NSteps => Lifecycle!EndedAt(k, "done") = Lifecycle!EndedAt(k + 1, "none")
           /\ k = NSteps => Lifecycle!EndedAt(k, "done") = Lifecycle!AllDone
  BY ConstantFacts DEF Lifecycle!EndedAt, Lifecycle!AllDone, Lifecycle!Step, Step

\* Only a dispatch and a commit write a run's rows, and a commit finds the run
\* still queued.
LEMMA RunMoves ==
    ASSUME TypeOK, ClaimOnRun, SettleInv, [Next]_vars, NEW r \in Run
    PROVE  \/ run'[r] = run[r] /\ steps'[r] = steps[r]
           \/ run[r] = "absent" /\ run'[r] = "queued" /\ steps'[r] = steps[r]
           \/ /\ run[r] = "queued"
              /\ run'[r] \in Terminal
              /\ steps'[r] \in Lifecycle!Report(run'[r])
  <1> DEFINE Moves ==
           \/ run'[r] = run[r] /\ steps'[r] = steps[r]
           \/ run[r] = "absent" /\ run'[r] = "queued" /\ steps'[r] = steps[r]
           \/ /\ run[r] = "queued"
              /\ run'[r] \in Terminal
              /\ steps'[r] \in Lifecycle!Report(run'[r])
  <1>1. ASSUME NEW x \in Run, Dispatch(x) PROVE Moves
    BY <1>1 DEF Dispatch, TypeOK
  <1>2. ASSUME NEW p \in Proc, Commit(p) PROVE Moves
    <2>1. /\ at[p] \in Run
          /\ run[at[p]] = "queued"
          /\ outcome[p] \in Terminal
          /\ rows[p] \in Lifecycle!Report(outcome[p])
      BY <1>2 DEF Commit, SettleInv, Unsettled, TxnShape, Executing, ClaimOnRun, Holding
    <2>2. CASE r = at[p]
      <3>1. run'[r] = outcome[p] /\ steps'[r] = rows[p]
        BY <1>2, <2>2 DEF Commit, TypeOK
      <3>2. QED
        BY <2>1, <2>2, <3>1
    <2>3. CASE r # at[p]
      BY <1>2, <2>3 DEF Commit, TypeOK
    <2>4. QED
      BY <2>2, <2>3
  <1>3. CASE UNCHANGED <<run, steps>>
    BY <1>3
  <1>4. ASSUME NEW x \in Run, ClaimExpires(x) \/ ClaimOverruns(x) PROVE UNCHANGED <<run, steps>>
    BY <1>4 DEF ClaimExpires, ClaimOverruns, committed
  <1>5. ASSUME NEW p \in Proc, Progress(p) \/ GoesWrong(p), ~Commit(p)
        PROVE  UNCHANGED <<run, steps>>
    BY <1>5 DEF Progress, GoesWrong, Reap, Claim, DrainEnds, StartPipeline, BuildFails,
       SkipTerminal, StepDone, StepNeedsInput, StepFails, StepEnds, Finish, Handle,
       StepBreaksSession, CommitFails, FinishFails, HandleFails, Crash, committed
  <1>6. CASE UNCHANGED vars
    BY <1>3, <1>6 DEF vars
  <1>7. QED
    BY <1>1, <1>2, <1>3, <1>4, <1>5, <1>6 DEF Next

\* The job rows a step may touch already exist, or are dispatched by it.
LEMMA DispatchedStep ==
    TypeOK /\ ClaimOnRun /\ SettleInv /\ [Next]_vars => Dispatched'
  <1> SUFFICES ASSUME TypeOK, ClaimOnRun, SettleInv, [Next]_vars PROVE Dispatched'
    OBVIOUS
  <1>t. /\ pc \in [Proc -> Location] /\ at \in [Proc -> Run \cup {NoRun}]
        /\ job \in [Run -> JobRow] /\ run \in [Run -> RunStatus]
    BY DEF TypeOK
  <1>a. Dispatched
    BY DEF SettleInv
  <1>b. \A r \in Run : run[r] # "absent" => run'[r] # "absent"
    BY RunMoves DEF Terminal
  <1>1. ASSUME NEW r \in Run, Dispatch(r) PROVE Dispatched'
    <2>1. run'[r] = "queued"
      BY <1>t, <1>1 DEF Dispatch
    <2>2. \A x \in Run : x # r => job'[x] = job[x]
      BY <1>t, <1>1 DEF Dispatch
    <2>3. \A p \in Proc : Holding(p)' => Holding(p) /\ at'[p] = at[p]
      BY <1>t, <1>1 DEF Dispatch, Holding, claim, Proc
    <2>4. QED
      BY <1>a, <1>b, <2>1, <2>2, <2>3 DEF Dispatched, ClaimOnRun
  <1>2. ASSUME NEW r \in Run, ClaimExpires(r) \/ ClaimOverruns(r) PROVE Dispatched'
    <2>1. \A x \in Run : job'[x].status # "absent" => job[x].status # "absent"
      BY <1>t, <1>2 DEF ClaimExpires, ClaimOverruns, JobRow
    <2>2. UNCHANGED <<pc, at>>
      BY <1>2 DEF ClaimExpires, ClaimOverruns, claim
    <2>3. QED
      BY <1>a, <1>b, <2>1, <2>2 DEF Dispatched, ClaimOnRun, Holding
  <1>3. ASSUME NEW p \in Proc, Reap(p) PROVE Dispatched'
    <2>1. \A x \in Run : job'[x].status # "absent" => job[x].status # "absent"
      BY <1>t, <1>3 DEF Reap, Stranded
    <2>2. \A q \in Proc : Holding(q)' => Holding(q) /\ at'[q] = at[q]
      BY <1>t, <1>3 DEF Reap, Holding, claim
    <2>3. QED
      BY <1>a, <1>b, <2>1, <2>2 DEF Dispatched, ClaimOnRun
  <1>4. ASSUME NEW p \in Proc, NEW r \in Run, Claim(p, r) PROVE Dispatched'
    <2>1. run[r] # "absent" /\ job[r].status = "pending"
      BY <1>a, <1>4 DEF Claim, Oldest, Dispatched
    <2>2. \A x \in Run : x # r => job'[x] = job[x]
      BY <1>t, <1>4 DEF Claim
    <2>3. \A q \in Proc : Holding(q)' => \/ q # p /\ Holding(q) /\ at'[q] = at[q]
                                         \/ q = p /\ at'[q] = r
      BY <1>t, <1>4 DEF Claim, Holding
    <2>4. QED
      BY <1>a, <1>b, <2>1, <2>2, <2>3 DEF Dispatched, ClaimOnRun
  <1>5. ASSUME NEW p \in Proc, Finish(p) \/ Handle(p) PROVE Dispatched'
    <2>1. at[p] \in Run /\ run[at[p]] # "absent"
      BY <1>a, <1>5 DEF Finish, Handle, ClaimOnRun, Holding, Dispatched
    <2>2. \A x \in Run : x # at[p] => job'[x] = job[x]
      BY <1>t, <1>5, <2>1 DEF Finish, Handle, SetJob
    <2>3. \A q \in Proc : Holding(q)' => Holding(q) /\ at'[q] = at[q]
      BY <1>t, <1>5 DEF Finish, Handle, Drop, Holding
    <2>4. QED
      BY <1>a, <1>b, <2>1, <2>2, <2>3 DEF Dispatched, ClaimOnRun
  <1>6. ASSUME job' = job, \A q \in Proc : Holding(q)' => Holding(q) /\ at'[q] = at[q]
        PROVE  Dispatched'
    BY <1>a, <1>b, <1>6 DEF Dispatched, ClaimOnRun
  <1>7. ASSUME NEW p \in Proc, HandleFails(p) \/ Crash(p) \/ DrainEnds(p)
        PROVE  Dispatched'
    <2>1. job' = job
      BY <1>7 DEF HandleFails, Crash, DrainEnds
    <2>2. \A q \in Proc : Holding(q)' => Holding(q) /\ at'[q] = at[q]
      BY <1>t, <1>7 DEF HandleFails, Crash, DrainEnds, Drop, Home, Holding, claim
    <2>3. QED
      BY <1>6, <2>1, <2>2
  <1>8. ASSUME NEW p \in Proc,
               \/ StartPipeline(p) \/ BuildFails(p) \/ SkipTerminal(p) \/ StepDone(p)
               \/ StepNeedsInput(p) \/ StepFails(p) \/ StepBreaksSession(p)
               \/ Commit(p) \/ CommitFails(p) \/ FinishFails(p)
        PROVE  Dispatched'
    <2>1. job' = job /\ at' = at
      BY <1>8 DEF StartPipeline, BuildFails, SkipTerminal, StepDone, StepNeedsInput,
         StepFails, StepEnds, StepBreaksSession, Commit, CommitFails, FinishFails, claim
    <2>2. \A q \in Proc : Holding(q)' => Holding(q)
      <3>1. Holding(p)
        BY <1>8 DEF StartPipeline, BuildFails, SkipTerminal, StepDone, StepNeedsInput,
           StepFails, StepEnds, StepBreaksSession, Commit, CommitFails, FinishFails, Holding
      <3>2. \A q \in Proc \ {p} : pc'[q] = pc[q]
        BY <1>t, <1>8 DEF StartPipeline, BuildFails, SkipTerminal, StepDone, StepNeedsInput,
           StepFails, StepEnds, StepBreaksSession, Commit, CommitFails, FinishFails
      <3>3. QED
        BY <3>1, <3>2 DEF Holding
    <2>3. QED
      BY <1>6, <2>1, <2>2
  <1>9. CASE UNCHANGED vars
    BY <1>6, <1>9 DEF vars, Holding
  <1>10. QED
    BY <1>1, <1>2, <1>3, <1>4, <1>5, <1>7, <1>8, <1>9 DEF Next, Progress, GoesWrong

\* A step of p leaves every other process where it is.
LEMMA OthersKeepTxn ==
    ASSUME TypeOK, ClaimOnRun, [Next]_vars, NEW q \in Proc, NEW p \in Proc, p # q, Progress(p) \/ GoesWrong(p)
    PROVE  /\ pc'[q] = pc[q] /\ at'[q] = at[q]
           /\ next'[q] = next[q] /\ rows'[q] = rows[q] /\ outcome'[q] = outcome[q]
  <1>t. /\ pc \in [Proc -> Location] /\ at \in [Proc -> Run \cup {NoRun}]
        /\ next \in [Proc -> Step] /\ rows \in [Proc -> [Step -> StepStatus]]
        /\ outcome \in [Proc -> {"queued"} \cup Terminal]
    BY DEF TypeOK
  <1>1. pc'[q] = pc[q] /\ at'[q] = at[q]
    BY <1>t DEF Progress, GoesWrong, Reap, Claim, DrainEnds, StartPipeline, BuildFails,
       SkipTerminal, StepDone, StepNeedsInput, StepFails, StepEnds, Finish, Handle, Commit,
       StepBreaksSession, CommitFails, FinishFails, HandleFails, Crash, Drop, claim
  <1>2. next'[q] = next[q] /\ rows'[q] = rows[q] /\ outcome'[q] = outcome[q]
    BY <1>t DEF Progress, GoesWrong, Reap, Claim, DrainEnds, StartPipeline, BuildFails,
       SkipTerminal, StepDone, StepNeedsInput, StepFails, StepEnds, Finish, Handle, Commit,
       StepBreaksSession, CommitFails, FinishFails, HandleFails, Crash, EndTxn, txn
  <1>3. QED
    BY <1>1, <1>2

\* Steps of the environment move no process that executes, and no transaction.
LEMMA EnvironmentKeepsTxn ==
    ASSUME TypeOK, NEW r \in Run,
           Dispatch(r) \/ ClaimExpires(r) \/ ClaimOverruns(r)
    PROVE  /\ \A q \in Proc : pc'[q] = pc[q] \/ (~Executing(q) /\ ~Executing(q)')
           /\ UNCHANGED <<at, next, rows, outcome, lock>>
           /\ \A q \in Proc : Executing(q)' => Executing(q)
  BY DEF TypeOK, Dispatch, ClaimExpires, ClaimOverruns, Executing, claim, txn, Proc

\* Every step keeps the run of an open pipeline queued.
LEMMA UnsettledStep ==
    TypeOK /\ ClaimOnRun /\ SettleInv /\ [Next]_vars => Unsettled'
  <1> SUFFICES ASSUME TypeOK, ClaimOnRun, SettleInv, [Next]_vars,
                      NEW q \in Proc, Executing(q)'
               PROVE  run'[at'[q]] = "queued"
    BY DEF Unsettled
  <1>t. /\ pc \in [Proc -> Location] /\ run \in [Run -> RunStatus]
    BY DEF TypeOK
  <1>a. Unsettled /\ Locking /\ Dispatched
    BY DEF SettleInv
  <1>1. ASSUME Executing(q), at'[q] = at[q], \A p \in Proc : Commit(p) => at[p] # at[q]
        PROVE  run'[at'[q]] = "queued"
    <2>1. run[at[q]] = "queued" /\ at[q] \in Run
      BY <1>a, <1>1 DEF Unsettled, ClaimOnRun, Executing, Holding
    <2>2. CASE \E p \in Proc : Commit(p)
      <3>1. PICK p \in Proc : Commit(p)
        BY <2>2
      <3>2. QED
        BY <1>1, <1>t, <2>1, <3>1 DEF Commit
    <2>3. CASE run'[at[q]] = run[at[q]]
      BY <1>1, <2>1, <2>3
    <2>4. CASE \A p \in Proc : ~Commit(p)
      <3>1. CASE UNCHANGED run
        BY <1>1, <2>1, <3>1
      <3>2. ASSUME NEW r \in Run, Dispatch(r) PROVE run'[at'[q]] = "queued"
        BY <1>1, <1>t, <2>1, <3>2 DEF Dispatch
      <3>3. ASSUME NEW r \in Run, ClaimExpires(r) \/ ClaimOverruns(r) PROVE UNCHANGED run
        BY <3>3 DEF ClaimExpires, ClaimOverruns, committed
      <3>4. ASSUME NEW p \in Proc, Progress(p) \/ GoesWrong(p) PROVE UNCHANGED run
        BY <2>4, <3>4 DEF Progress, GoesWrong, Reap, Claim, DrainEnds, StartPipeline,
           BuildFails, SkipTerminal, StepDone, StepNeedsInput, StepFails, StepEnds, Finish,
           Handle, StepBreaksSession, CommitFails, FinishFails, HandleFails, Crash, committed
      <3>5. CASE UNCHANGED vars
        BY <3>1, <3>5 DEF vars
      <3>6. QED
        BY <3>1, <3>2, <3>3, <3>4, <3>5 DEF Next
    <2>5. QED
      BY <2>2, <2>4
  <1>2. ASSUME NEW p \in Proc, Commit(p), p # q, Executing(q) PROVE at[p] # at[q]
    BY <1>a, <1>2 DEF Locking, Commit, Executing
  <1>3. ASSUME NEW p \in Proc, p # q, Progress(p) \/ GoesWrong(p)
        PROVE  run'[at'[q]] = "queued"
    <2>1. Executing(q) /\ at'[q] = at[q] /\ pc'[q] = pc[q]
      BY <1>3, OthersKeepTxn DEF Executing
    <2>2. ~Commit(q)
      BY <1>t, <2>1 DEF Commit, Executing
    <2>3. QED
      BY <1>1, <1>2, <2>1, <2>2
  <1>4. ASSUME StartPipeline(q) \/ BuildFails(q) PROVE run'[at'[q]] = "queued"
    <2>1. /\ at[q] \in Run /\ run[at[q]] # "absent" /\ run[at[q]] \notin Terminal
          /\ at' = at /\ run' = run
      BY <1>a, <1>4 DEF StartPipeline, BuildFails, SkipsRun, ClaimOnRun, Dispatched, Holding,
         claim, committed
    <2>2. QED
      BY <1>t, <2>1 DEF RunStatus
  <1>5. ASSUME StepDone(q) \/ StepNeedsInput(q) \/ StepFails(q)
        PROVE  run'[at'[q]] = "queued"
    BY <1>a, <1>5 DEF StepDone, StepNeedsInput, StepFails, StepEnds, Unsettled, Executing,
       claim, committed
  <1>6. ASSUME Progress(q) \/ GoesWrong(q) PROVE run'[at'[q]] = "queued"
    <2>1. StartPipeline(q) \/ BuildFails(q) \/ StepDone(q) \/ StepNeedsInput(q) \/ StepFails(q)
      BY <1>t, <1>6 DEF Progress, GoesWrong, Reap, Claim, DrainEnds, SkipTerminal, Finish,
         Handle, Commit, StepBreaksSession, CommitFails, FinishFails, HandleFails, Crash,
         Drop, Home, Executing
    <2>2. QED
      BY <1>4, <1>5, <2>1
  <1>7. ASSUME NEW r \in Run, Dispatch(r) \/ ClaimExpires(r) \/ ClaimOverruns(r)
        PROVE  run'[at'[q]] = "queued"
    <2>1. Executing(q) /\ at'[q] = at[q]
      BY <1>7, EnvironmentKeepsTxn
    <2>2. run[at[q]] = "queued" /\ at[q] \in Run
      BY <1>a, <2>1 DEF Unsettled, ClaimOnRun, Executing, Holding
    <2>3. run'[at[q]] = run[at[q]]
      BY <1>t, <1>7, <2>2 DEF Dispatch, ClaimExpires, ClaimOverruns, committed
    <2>4. QED
      BY <2>1, <2>2, <2>3
  <1>8. CASE UNCHANGED vars
    BY <1>a, <1>8 DEF vars, Unsettled, Executing
  <1>9. QED
    BY <1>3, <1>6, <1>7, <1>8 DEF Next

\* Every step keeps a transaction's rows and outcome those of its position.
LEMMA TxnShapeStep ==
    TypeOK /\ ClaimOnRun /\ SettleInv /\ [Next]_vars => TxnShape'
  <1> SUFFICES ASSUME TypeOK, ClaimOnRun, SettleInv, [Next]_vars, NEW q \in Proc
               PROVE  /\ ~Executing(q)' =>
                            next'[q] = 1 /\ rows'[q] = NoRows /\ outcome'[q] = "queued"
                      /\ pc'[q] = "pipeline" => rows'[q] = Lifecycle!EndedAt(next'[q], "none")
                      /\ pc'[q] = "commit" => /\ outcome'[q] \in Terminal
                                              /\ rows'[q] \in Lifecycle!Report(outcome'[q])
    BY DEF TxnShape, Executing
  <1> DEFINE Shape ==
        /\ ~Executing(q)' => next'[q] = 1 /\ rows'[q] = NoRows /\ outcome'[q] = "queued"
        /\ pc'[q] = "pipeline" => rows'[q] = Lifecycle!EndedAt(next'[q], "none")
        /\ pc'[q] = "commit" => /\ outcome'[q] \in Terminal
                                /\ rows'[q] \in Lifecycle!Report(outcome'[q])
  <1>t. /\ pc \in [Proc -> Location] /\ next \in [Proc -> Step]
        /\ rows \in [Proc -> [Step -> StepStatus]]
        /\ outcome \in [Proc -> {"queued"} \cup Terminal]
    BY DEF TypeOK
  <1>a. TxnShape
    BY DEF SettleInv
  <1>1. ASSUME pc'[q] = pc[q] \/ (~Executing(q) /\ ~Executing(q)'),
               next'[q] = next[q], rows'[q] = rows[q], outcome'[q] = outcome[q]
        PROVE  Shape
    BY <1>a, <1>1 DEF TxnShape, Executing
  <1>2. ASSUME NEW p \in Proc, p # q, Progress(p) \/ GoesWrong(p) PROVE Shape
    BY <1>1, <1>2, OthersKeepTxn
  <1>3. ASSUME NEW r \in Run, Dispatch(r) \/ ClaimExpires(r) \/ ClaimOverruns(r) PROVE Shape
    BY <1>1, <1>3, EnvironmentKeepsTxn
  <1>4. CASE UNCHANGED vars
    BY <1>1, <1>4 DEF vars
  <1>5. ASSUME StartPipeline(q) PROVE Shape
    <2>1. at[q] \in Run /\ steps[at[q]] = NoRows
      BY <1>5 DEF StartPipeline, SkipsRun, SettleInv, NothingToResume, ClaimOnRun, Holding
    <2>2. pc'[q] = "pipeline" /\ rows'[q] = NoRows /\ next'[q] = next[q] /\ next[q] = 1
      BY <1>a, <1>t, <1>5, <2>1 DEF StartPipeline, TxnShape, Executing
    <2>3. QED
      BY <2>2, FirstRows DEF Executing
  <1>6. ASSUME BuildFails(q) PROVE Shape
    <2>1. at[q] \in Run /\ steps[at[q]] = NoRows
      BY <1>6 DEF BuildFails, SkipsRun, SettleInv, NothingToResume, ClaimOnRun, Holding
    <2>2. pc'[q] = "commit" /\ rows'[q] = NoRows /\ outcome'[q] = "failed"
      BY <1>t, <1>6, <2>1 DEF BuildFails
    <2>3. NoRows \in Lifecycle!Report("failed")
      BY DEF Lifecycle!Report, Lifecycle!NoRows, Lifecycle!Step, NoRows, Step
    <2>4. QED
      BY <2>2, <2>3 DEF Executing, Terminal
  <1>7. ASSUME StepDone(q) PROVE Shape
    <2> DEFINE k == next[q]
    <2>1. /\ k \in Step
          /\ rows[q] = Lifecycle!EndedAt(k, "none")
          /\ rows'[q] = [rows[q] EXCEPT ![k] = "done"]
      BY <1>a, <1>t, <1>7 DEF StepDone, TxnShape
    <2>2. rows'[q] = Lifecycle!EndedAt(k, "done")
      BY <2>1, RowAtStep
    <2>3. CASE k = NSteps
      <3>1. pc'[q] = "commit" /\ outcome'[q] = "succeeded"
        BY <1>t, <1>7, <2>3 DEF StepDone, AtLastStep
      <3>2. rows'[q] \in Lifecycle!Report("succeeded")
        BY <2>1, <2>2, <2>3, RowsAfterDone DEF Lifecycle!Report
      <3>3. QED
        BY <3>1, <3>2 DEF Executing, Terminal
    <2>4. CASE k # NSteps
      <3>1. pc'[q] = "pipeline" /\ next'[q] = k + 1
        BY <1>t, <1>7, <2>4 DEF StepDone, AtLastStep
      <3>2. rows'[q] = Lifecycle!EndedAt(k + 1, "none")
        BY <2>1, <2>2, <2>4, RowsAfterDone
      <3>3. QED
        BY <3>1, <3>2 DEF Executing
    <2>5. QED
      BY <2>3, <2>4
  <1>8. ASSUME StepNeedsInput(q) \/ StepFails(q) PROVE Shape
    <2> DEFINE k == next[q]
    <2>1. k \in Step /\ rows[q] = Lifecycle!EndedAt(k, "none")
      BY <1>a, <1>t, <1>8 DEF StepNeedsInput, StepFails, StepEnds, TxnShape
    <2>2. /\ pc'[q] = "commit"
          /\ \/ rows'[q] = [rows[q] EXCEPT ![k] = "skipped"] /\ outcome'[q] = "needs_input"
             \/ rows'[q] = [rows[q] EXCEPT ![k] = "failed"] /\ outcome'[q] = "failed"
      BY <1>t, <1>8 DEF StepNeedsInput, StepFails, StepEnds
    <2>3. \/ rows'[q] = Lifecycle!EndedAt(k, "skipped") /\ outcome'[q] = "needs_input"
          \/ rows'[q] = Lifecycle!EndedAt(k, "failed") /\ outcome'[q] = "failed"
      BY <2>1, <2>2, RowAtStep
    <2>4. rows'[q] \in Lifecycle!Report(outcome'[q])
      BY <2>1, <2>3 DEF Lifecycle!Report, Lifecycle!Step, Step
    <2>5. QED
      BY <2>2, <2>3, <2>4 DEF Executing, Terminal
  <1>9. ASSUME StepBreaksSession(q) \/ Commit(q) \/ CommitFails(q) \/ Crash(q) PROVE Shape
    <2>1. EndTxn(q) /\ ~Executing(q)'
      BY <1>t, <1>9 DEF StepBreaksSession, Commit, CommitFails, Crash, Drop, Home, Executing
    <2>2. next'[q] = 1 /\ rows'[q] = NoRows /\ outcome'[q] = "queued"
      BY <1>t, <2>1 DEF EndTxn
    <2>3. QED
      BY <2>1, <2>2 DEF Executing
  <1>10. ASSUME \/ Reap(q) \/ (\E r \in Run : Claim(q, r)) \/ DrainEnds(q) \/ SkipTerminal(q)
                \/ Finish(q) \/ Handle(q) \/ FinishFails(q) \/ HandleFails(q)
         PROVE  Shape
    <2>1. /\ ~Executing(q) /\ ~Executing(q)'
      BY <1>t, <1>10 DEF Reap, Claim, DrainEnds, SkipTerminal, Finish, Handle, FinishFails,
         HandleFails, Drop, Home, Executing
    <2>2. UNCHANGED <<next, rows, outcome>>
      BY <1>10 DEF Reap, Claim, DrainEnds, SkipTerminal, Finish, Handle, FinishFails,
         HandleFails, txn
    <2>3. QED
      BY <1>1, <2>1, <2>2
  <1>11. QED
    BY <1>2, <1>3, <1>4, <1>5, <1>6, <1>7, <1>8, <1>9, <1>10 DEF Next, Progress, GoesWrong

\* No step commits step rows of an unsettled run.
LEMMA NothingToResumeStep ==
    TypeOK /\ ClaimOnRun /\ SettleInv /\ [Next]_vars => NothingToResume'
  BY RunMoves DEF SettleInv, NothingToResume, Terminal

\* The strengthened invariant holds initially.
LEMMA InitSettle == Init => TypeOK /\ ClaimOnRun /\ SettleInv
  <1> SUFFICES ASSUME Init PROVE TypeOK /\ ClaimOnRun /\ SettleInv
    OBVIOUS
  <1>1. \A p \in Proc : ~Holding(p) /\ ~Executing(p)
    BY DEF Init, Home, Holding, Executing
  <1>2. \A p \in Proc : pc[p] # "pipeline" /\ pc[p] # "commit"
    BY <1>1 DEF Executing
  <1>3. TxnShape
    BY <1>2 DEF Init, TxnShape
  <1>4. Dispatched
    BY <1>1 DEF Init, Dispatched, NoJob
  <1>5. Locking /\ Unsettled /\ ClaimOnRun
    BY <1>1 DEF Locking, Unsettled, ClaimOnRun
  <1>6. NothingToResume
    BY DEF Init, NothingToResume
  <1>7. QED
    BY InitType, <1>3, <1>4, <1>5, <1>6 DEF SettleInv

\* The strengthened invariant is inductive.
LEMMA SettleStep ==
    TypeOK /\ ClaimOnRun /\ SettleInv /\ [Next]_vars => TypeOK' /\ ClaimOnRun' /\ SettleInv'
  <1> SUFFICES ASSUME TypeOK, ClaimOnRun, SettleInv, [Next]_vars
               PROVE  TypeOK' /\ ClaimOnRun' /\ SettleInv'
    OBVIOUS
  <1>1. Locking'
    BY LockingStep DEF SettleInv
  <1>2. QED
    BY <1>1, NextType, DispatchedStep, UnsettledStep, TxnShapeStep, NothingToResumeStep
       DEF SettleInv

\* A committed step row belongs to a settled run: a retry has nothing to resume.
THEOREM RetryStartsOver == Spec => []NothingToResume
  <1>1. SettleInv => NothingToResume
    BY DEF SettleInv
  <1>2. QED
    BY <1>1, InitSettle, SettleStep, PTL DEF Spec

\* The engine implements the life cycle of a run: queued once, then settled at
\* most once, atomically with the step rows that explain the status.
THEOREM EngineImplementsLifecycle == Spec => RunLifecycleSpec
  <1>1. Init => Lifecycle!Init
    BY DEF Init, Lifecycle!Init, Lifecycle!NoRows, Lifecycle!Step, NoRows, Step
  <1>2. TypeOK /\ ClaimOnRun /\ SettleInv /\ [Next]_vars
           => [Lifecycle!Next]_(Lifecycle!lifecycleVars)
    <2> SUFFICES ASSUME TypeOK, ClaimOnRun, SettleInv, [Next]_vars
                 PROVE  Lifecycle!Next \/ UNCHANGED <<run, steps>>
      BY DEF Lifecycle!lifecycleVars
    <2>t. /\ run \in [Run -> RunStatus]
          /\ steps \in [Run -> [Step -> StepStatus]]
      BY DEF TypeOK
    <2>1. ASSUME NEW r \in Run, Dispatch(r) PROVE Lifecycle!Queue(r)
      BY <2>1 DEF Dispatch, Lifecycle!Queue
    <2>2. ASSUME NEW p \in Proc, Commit(p) PROVE Lifecycle!Settle(at[p])
      <3>1. /\ run[at[p]] = "queued"
            /\ outcome[p] \in Lifecycle!Terminal
            /\ rows[p] \in Lifecycle!Report(outcome[p])
        BY <2>2 DEF Commit, SettleInv, Unsettled, TxnShape, Executing, Terminal,
           Lifecycle!Terminal
      <3>2. QED
        BY <2>2, <3>1 DEF Commit, Lifecycle!Settle
    <2>3. ASSUME NEW p \in Proc, Commit(p) PROVE at[p] \in Run
      BY <2>3 DEF Commit, ClaimOnRun, Holding
    <2>4. ASSUME NEW r \in Run, ClaimExpires(r) \/ ClaimOverruns(r)
          PROVE  UNCHANGED <<run, steps>>
      BY <2>4 DEF ClaimExpires, ClaimOverruns, committed
    <2>5. ASSUME NEW p \in Proc, Progress(p) \/ GoesWrong(p), ~Commit(p)
          PROVE  UNCHANGED <<run, steps>>
      BY <2>5 DEF Progress, GoesWrong, Reap, Claim, DrainEnds, StartPipeline, BuildFails,
         SkipTerminal, StepDone, StepNeedsInput, StepFails, StepEnds, Finish, Handle,
         StepBreaksSession, CommitFails, FinishFails, HandleFails, Crash, committed
    <2>6. CASE UNCHANGED vars
      BY <2>6 DEF vars
    <2>7. QED
      BY <2>1, <2>2, <2>3, <2>4, <2>5, <2>6 DEF Next, Lifecycle!Next
  <1>3. QED
    BY <1>1, <1>2, InitSettle, SettleStep, PTL DEF Spec, RunLifecycleSpec, Lifecycle!Spec

-----------------------------------------------------------------------------
\* Settled jobs

\* Who is about to mark a job done has seen its run settled.
DoneInv ==
    /\ DoneIsSettled
    /\ \A p \in Proc : pc[p] = "finish" => run[at[p]] \in Terminal

\* A job becomes done only after its run was settled, and a run stays settled.
LEMMA DoneStep ==
    TypeOK /\ ClaimOnRun /\ SettleInv /\ DoneInv /\ [Next]_vars => DoneInv'
  <1> SUFFICES ASSUME TypeOK, ClaimOnRun, SettleInv, DoneInv, [Next]_vars PROVE DoneInv'
    OBVIOUS
  <1>t. /\ pc \in [Proc -> Location] /\ at \in [Proc -> Run \cup {NoRun}]
        /\ job \in [Run -> JobRow] /\ run \in [Run -> RunStatus]
    BY DEF TypeOK
  <1>a. \A r \in Run : run[r] \in Terminal => run'[r] \in Terminal
    BY RunMoves DEF Terminal
  <1>b. ASSUME \A r \in Run : job'[r].status = "done" => job[r].status = "done",
               \A p \in Proc : pc'[p] = "finish" => pc[p] = "finish" /\ at'[p] = at[p]
        PROVE  DoneInv'
    BY <1>a, <1>b DEF DoneInv, DoneIsSettled, ClaimOnRun, Holding
  <1>1. ASSUME NEW r \in Run, Dispatch(r) PROVE DoneInv'
    <2>1. PICK t \in Time \ {0} :
             job' = [job EXCEPT ![r] = [NoJob EXCEPT !.status = "pending", !.availableAt = t]]
      BY <1>1 DEF Dispatch
    <2>2. \A x \in Run : job'[x].status = "done" => job[x].status = "done"
      BY <1>t, <2>1 DEF NoJob
    <2>3. \A p \in Proc : pc'[p] = "finish" => pc[p] = "finish" /\ at'[p] = at[p]
      BY <1>t, <1>1 DEF Dispatch, claim, Proc
    <2>4. QED
      BY <1>b, <2>2, <2>3
  <1>2. ASSUME NEW r \in Run, ClaimExpires(r) \/ ClaimOverruns(r) PROVE DoneInv'
    <2>1. \A x \in Run : job'[x].status = "done" => job[x].status = "done"
      BY <1>t, <1>2 DEF ClaimExpires, ClaimOverruns, JobRow
    <2>2. UNCHANGED <<pc, at>>
      BY <1>2 DEF ClaimExpires, ClaimOverruns, claim
    <2>3. QED
      BY <1>b, <2>1, <2>2
  <1>3. ASSUME NEW p \in Proc, Reap(p) PROVE DoneInv'
    <2>1. \A x \in Run : job'[x].status = "done" => job[x].status = "done"
      BY <1>t, <1>3 DEF Reap, WithStatus
    <2>2. \A q \in Proc : pc'[q] = "finish" => pc[q] = "finish" /\ at'[q] = at[q]
      BY <1>t, <1>3 DEF Reap, claim
    <2>3. QED
      BY <1>b, <2>1, <2>2
  <1>4. ASSUME NEW p \in Proc, NEW r \in Run, Claim(p, r) PROVE DoneInv'
    <2>1. \A x \in Run : job'[x].status = "done" => job[x].status = "done"
      BY <1>t, <1>4 DEF Claim, Claimed
    <2>2. \A q \in Proc : pc'[q] = "finish" => pc[q] = "finish" /\ at'[q] = at[q]
      BY <1>t, <1>4 DEF Claim
    <2>3. QED
      BY <1>b, <2>1, <2>2
  <1>5. ASSUME NEW p \in Proc, Finish(p) PROVE DoneInv'
    <2>1. at[p] \in Run /\ run[at[p]] \in Terminal
      BY <1>5 DEF Finish, DoneInv, ClaimOnRun, Holding
    <2>2. \A x \in Run : x # at[p] => job'[x] = job[x]
      BY <1>t, <1>5, <2>1 DEF Finish, SetJob
    <2>3. \A q \in Proc : pc'[q] = "finish" => pc[q] = "finish" /\ at'[q] = at[q]
      BY <1>t, <1>5 DEF Finish, Drop
    <2>4. QED
      BY <1>a, <2>1, <2>2, <2>3 DEF DoneInv, DoneIsSettled, ClaimOnRun, Holding
  <1>6. ASSUME NEW p \in Proc, Handle(p) PROVE DoneInv'
    <2>1. at[p] \in Run
      BY <1>6 DEF Handle, ClaimOnRun, Holding
    <2>2. \A x \in Run : job'[x].status = "done" => job[x].status = "done"
      BY <1>t, <1>6, <2>1 DEF Handle, SetJob, WithStatus, AfterError
    <2>3. \A q \in Proc : pc'[q] = "finish" => pc[q] = "finish" /\ at'[q] = at[q]
      BY <1>t, <1>6 DEF Handle, Drop
    <2>4. QED
      BY <1>b, <2>2, <2>3
  <1>7. ASSUME NEW p \in Proc, SkipTerminal(p) PROVE DoneInv'
    <2>1. /\ run[at[p]] \in Terminal /\ UNCHANGED <<job, at, run>>
          /\ \A q \in Proc \ {p} : pc'[q] = pc[q]
      BY <1>t, <1>7 DEF SkipTerminal, SkipsRun, claim, committed
    <2>2. QED
      BY <2>1 DEF DoneInv, DoneIsSettled
  <1>8. ASSUME NEW p \in Proc, Commit(p) PROVE DoneInv'
    <2>1. at[p] \in Run /\ outcome[p] \in Terminal
      BY <1>8 DEF Commit, SettleInv, TxnShape, ClaimOnRun, Holding
    <2>2. /\ run'[at[p]] \in Terminal /\ UNCHANGED <<job, at>>
          /\ \A q \in Proc \ {p} : pc'[q] = pc[q]
      BY <1>t, <1>8, <2>1 DEF Commit, claim
    <2>3. QED
      BY <1>a, <2>2 DEF DoneInv, DoneIsSettled, ClaimOnRun, Holding
  <1>9. ASSUME NEW p \in Proc,
               \/ StartPipeline(p) \/ BuildFails(p) \/ StepDone(p) \/ StepNeedsInput(p)
               \/ StepFails(p) \/ StepBreaksSession(p) \/ CommitFails(p) \/ FinishFails(p)
        PROVE  DoneInv'
    <2>1. job' = job /\ at' = at
      BY <1>9 DEF StartPipeline, BuildFails, StepDone, StepNeedsInput, StepFails, StepEnds,
         StepBreaksSession, CommitFails, FinishFails, claim
    <2>2. \A q \in Proc : pc'[q] = "finish" => pc[q] = "finish"
      BY <1>t, <1>9 DEF StartPipeline, BuildFails, StepDone, StepNeedsInput, StepFails,
         StepEnds, StepBreaksSession, CommitFails, FinishFails
    <2>3. QED
      BY <1>b, <2>1, <2>2
  <1>10. ASSUME NEW p \in Proc, DrainEnds(p) \/ HandleFails(p) \/ Crash(p) PROVE DoneInv'
    <2>1. job' = job
      BY <1>10 DEF DrainEnds, HandleFails, Crash
    <2>2. \A q \in Proc : pc'[q] = "finish" => pc[q] = "finish" /\ at'[q] = at[q]
      BY <1>t, <1>10 DEF DrainEnds, HandleFails, Crash, Drop, Home, claim
    <2>3. QED
      BY <1>b, <2>1, <2>2
  <1>11. CASE UNCHANGED vars
    BY <1>b, <1>11 DEF vars
  <1>12. QED
    BY <1>1, <1>2, <1>3, <1>4, <1>5, <1>6, <1>7, <1>8, <1>9, <1>10, <1>11
       DEF Next, Progress, GoesWrong

\* A job marked done never hides an unfinished run.
THEOREM DoneJobsAreSettled == Spec => []DoneIsSettled
  <1>1. Init => DoneInv
    BY DEF Init, DoneInv, DoneIsSettled, NoJob, Home
  <1>2. DoneInv => DoneIsSettled
    BY DEF DoneInv
  <1>3. QED
    BY <1>1, <1>2, InitSettle, SettleStep, DoneStep, PTL DEF Spec

-----------------------------------------------------------------------------
\* Repeated steps

\* p is inside the pipeline of r, before the end of step i.
Before(p, r, i) == pc[p] = "pipeline" /\ at[p] = r /\ next[p] <= i

\* A step was called at most once more than there were faults; and not once more
\* as long as nobody has come past it for a run that is to be settled.
CallsInv ==
    \A r \in Run : \A i \in Step :
        /\ calls[r][i] <= 1 + faults
        /\ (run[r] \notin Terminal /\ \A p \in Proc : ~(Executing(p) /\ at[p] = r)) =>
              calls[r][i] <= faults
        /\ \A p \in Proc : Before(p, r, i) => calls[r][i] <= faults

\* A fault allows one more call of every step, so that what it undoes may be
\* repeated.
LEMMA FaultAllowsOneMore ==
    ASSUME TypeOK, TypeOK', faults' = faults + 1,
           \A r \in Run : \A i \in Step : calls'[r][i] <= 1 + faults
    PROVE  CallsInv'
  <1>1. faults \in Nat /\ \A r \in Run : \A i \in Step : calls'[r][i] \in Nat
    BY ConstantFacts DEF TypeOK
  <1>2. ASSUME NEW r \in Run, NEW i \in Step
        PROVE  calls'[r][i] <= faults' /\ calls'[r][i] <= 1 + faults'
    BY <1>1
  <1>3. QED
    BY <1>2 DEF CallsInv

\* A step that calls nothing and starts or ends nobody's transaction.
LEMMA CalmStep ==
    ASSUME TypeOK, CallsInv, UNCHANGED <<calls, faults>>,
           \A r \in Run : run'[r] \notin Terminal => run[r] \notin Terminal,
           \A p \in Proc :
              /\ Executing(p)' <=> Executing(p)
              /\ Executing(p) => pc'[p] = pc[p] /\ at'[p] = at[p] /\ next'[p] = next[p]
    PROVE  CallsInv'
  <1> SUFFICES ASSUME NEW r \in Run, NEW i \in Step
               PROVE  /\ calls[r][i] <= 1 + faults
                      /\ (run'[r] \notin Terminal
                             /\ \A p \in Proc : ~(Executing(p)' /\ at'[p] = r))
                         => calls[r][i] <= faults
                      /\ \A p \in Proc : Before(p, r, i)' => calls[r][i] <= faults
    BY DEF CallsInv
  <1>1. calls[r][i] <= 1 + faults
    BY DEF CallsInv
  <1>2. ASSUME run'[r] \notin Terminal, \A p \in Proc : ~(Executing(p)' /\ at'[p] = r)
        PROVE  calls[r][i] <= faults
    BY <1>2 DEF CallsInv
  <1>3. ASSUME NEW p \in Proc, Before(p, r, i)'
        PROVE  calls[r][i] <= faults
    <2>1. Executing(p)' /\ Executing(p)
      BY <1>3 DEF Before, Executing
    <2>2. Before(p, r, i)
      BY <1>3, <2>1 DEF Before
    <2>3. QED
      BY <2>2 DEF CallsInv
  <1>4. QED
    BY <1>1, <1>2, <1>3

\* A step's function is called at most once, at the step its pipeline is at.
LEMMA CallCounts ==
    ASSUME TypeOK, ClaimOnRun, NEW p \in Proc, pc[p] = "pipeline", CallStep(p)
    PROVE  /\ at[p] \in Run /\ next[p] \in Step
           /\ \A r \in Run : \A i \in Step :
                 /\ calls'[r][i] = calls[r][i] \/ calls'[r][i] = calls[r][i] + 1
                 /\ (r # at[p] \/ i # next[p]) => calls'[r][i] = calls[r][i]
  <1>1. at[p] \in Run /\ next[p] \in Step
    BY DEF TypeOK, ClaimOnRun, Holding
  <1>2. calls \in [Run -> [Step -> Nat]]
    BY DEF TypeOK
  <1>3. CASE CallsStep(p)
    <2>1. calls' = [calls EXCEPT ![at[p]] = [calls[at[p]] EXCEPT ![next[p]] = calls[at[p]][next[p]] + 1]]
      BY <1>1, <1>2, <1>3 DEF CallStep
    <2>2. \A r \in Run : \A i \in Step :
             calls'[r][i] = IF r = at[p] /\ i = next[p] THEN calls[r][i] + 1 ELSE calls[r][i]
      BY <1>1, <1>2, <2>1
    <2>3. QED
      BY <1>1, <2>2
  <1>4. CASE ~CallsStep(p)
    BY <1>1, <1>4 DEF CallStep
  <1>5. QED
    BY <1>3, <1>4

\* Every step keeps the bound on the calls.
LEMMA CallsStepInv ==
    TypeOK /\ ClaimOnRun /\ SettleInv /\ CallsInv /\ [Next]_vars => CallsInv'
  <1> SUFFICES ASSUME TypeOK, ClaimOnRun, SettleInv, CallsInv, [Next]_vars PROVE CallsInv'
    OBVIOUS
  <1>t. /\ pc \in [Proc -> Location] /\ at \in [Proc -> Run \cup {NoRun}]
        /\ next \in [Proc -> Step] /\ run \in [Run -> RunStatus]
        /\ calls \in [Run -> [Step -> Nat]] /\ faults \in Nat
    BY ConstantFacts DEF TypeOK
  <1>n. TypeOK'
    BY NextType
  <1>b. \A r \in Run : \A i \in Step : calls[r][i] <= 1 + faults
    BY DEF CallsInv
  <1>m. \A r \in Run : run'[r] \notin Terminal => run[r] \notin Terminal
    BY RunMoves DEF Terminal
  <1>1. ASSUME NEW r \in Run, Dispatch(r) \/ ClaimExpires(r) \/ ClaimOverruns(r)
        PROVE  CallsInv'
    <2>1. UNCHANGED <<calls, faults, at, next>>
      BY <1>1 DEF Dispatch, ClaimExpires, ClaimOverruns, claim, txn, bounds
    <2>2. \A p \in Proc : pc'[p] = pc[p] \/ (~Executing(p) /\ ~Executing(p)')
      BY <1>1, EnvironmentKeepsTxn
    <2>3. QED
      BY <1>m, <2>1, <2>2, CalmStep DEF Executing
  <1>2. ASSUME NEW p \in Proc,
               \/ Reap(p) \/ (\E r \in Run : Claim(p, r)) \/ DrainEnds(p) \/ SkipTerminal(p)
               \/ Finish(p) \/ Handle(p)
        PROVE  CallsInv'
    <2>1. UNCHANGED <<calls, faults, next>>
      BY <1>2 DEF Reap, Claim, DrainEnds, SkipTerminal, Finish, Handle, txn, bounds
    <2>2. ~Executing(p) /\ ~Executing(p)'
      BY <1>t, <1>2 DEF Reap, Claim, DrainEnds, SkipTerminal, Finish, Handle, Drop, Home,
         Executing
    <2>3. \A q \in Proc \ {p} : pc'[q] = pc[q] /\ at'[q] = at[q]
      BY <1>2, OthersKeepTxn DEF Progress
    <2>4. QED
      BY <1>m, <2>1, <2>2, <2>3, CalmStep DEF Executing
  <1>3. ASSUME NEW p \in Proc, CommitFails(p) \/ FinishFails(p) \/ HandleFails(p) \/ Crash(p)
        PROVE  CallsInv'
    <2>1. calls' = calls /\ faults' = faults + 1
      BY <1>3 DEF CommitFails, FinishFails, HandleFails, Crash, Fault
    <2>2. QED
      BY <1>b, <1>n, <2>1, FaultAllowsOneMore
  <1>4. ASSUME NEW p \in Proc, StepBreaksSession(p) PROVE CallsInv'
    <2>1. pc[p] = "pipeline" /\ CallStep(p) /\ faults' = faults + 1
      BY <1>4 DEF StepBreaksSession, Fault
    <2>2. ASSUME NEW r \in Run, NEW i \in Step PROVE calls'[r][i] <= 1 + faults
      <3>1. CASE r = at[p] /\ i = next[p]
        <4>1. Before(p, r, i)
          <5>1. next[p] <= i
            BY <1>t, <3>1 DEF Step
          <5>2. QED
            BY <2>1, <3>1, <5>1 DEF Before
        <4>2. calls[r][i] <= faults /\ calls[r][i] \in Nat
          BY <1>t, <4>1 DEF CallsInv
        <4>3. QED
          BY <1>t, <2>1, <4>2, CallCounts
      <3>2. CASE r # at[p] \/ i # next[p]
        BY <1>b, <2>1, <3>2, CallCounts
      <3>3. QED
        BY <3>1, <3>2
    <2>3. QED
      BY <1>n, <2>1, <2>2, FaultAllowsOneMore
  <1>5. ASSUME NEW p \in Proc, StartPipeline(p) \/ BuildFails(p) PROVE CallsInv'
    <2>1. /\ at[p] \in Run /\ run[at[p]] \notin Terminal /\ lock[at[p]] = NoProc
          /\ UNCHANGED <<calls, faults, at, next, run>>
      BY <1>5 DEF StartPipeline, BuildFails, SkipsRun, RunRowFree, ClaimOnRun, Holding,
         committed, claim, bounds
    <2>2. \A q \in Proc \ {p} : pc'[q] = pc[q]
      BY <1>5, OthersKeepTxn DEF Progress
    <2>3. \A i \in Step : calls[at[p]][i] <= faults
      <3>1. \A q \in Proc : ~(Executing(q) /\ at[q] = at[p])
        BY <2>1, ConstantFacts DEF SettleInv, Locking
      <3>2. QED
        BY <2>1, <3>1 DEF CallsInv
    <2>4. ASSUME NEW r \in Run, NEW i \in Step, run[r] \notin Terminal,
                 \A q \in Proc : ~(Executing(q)' /\ at[q] = r)
          PROVE  calls[r][i] <= faults
      <3>1. ~Executing(p)
        BY <1>5 DEF StartPipeline, BuildFails, Executing
      <3>2. \A q \in Proc : ~(Executing(q) /\ at[q] = r)
        BY <2>2, <2>4, <3>1 DEF Executing
      <3>3. QED
        BY <2>4, <3>2 DEF CallsInv
    <2>5. ASSUME NEW r \in Run, NEW i \in Step, NEW q \in Proc, Before(q, r, i)'
          PROVE  calls[r][i] <= faults
      <3>1. CASE q = p
        BY <2>1, <2>3, <2>5, <3>1 DEF Before
      <3>2. CASE q # p
        BY <2>1, <2>2, <2>5, <3>2 DEF Before, CallsInv
      <3>3. QED
        BY <3>1, <3>2
    <2>6. QED
      BY <1>b, <2>1, <2>4, <2>5 DEF CallsInv
  <1>6. ASSUME NEW p \in Proc, StepDone(p) \/ StepNeedsInput(p) \/ StepFails(p)
        PROVE  CallsInv'
    <2>1. /\ pc[p] = "pipeline" /\ CallStep(p) /\ at' = at
          /\ run' = run /\ faults' = faults
      BY <1>6 DEF StepDone, StepNeedsInput, StepFails, StepEnds, committed, claim, bounds
    <2>2. /\ at[p] \in Run /\ next[p] \in Step
          /\ \A r \in Run : \A i \in Step :
                /\ calls'[r][i] = calls[r][i] \/ calls'[r][i] = calls[r][i] + 1
                /\ (r # at[p] \/ i # next[p]) => calls'[r][i] = calls[r][i]
      BY <2>1, CallCounts
    <2>3. \A q \in Proc \ {p} : pc'[q] = pc[q] /\ next'[q] = next[q]
      BY <1>6, OthersKeepTxn DEF Progress
    <2>4. Executing(p) /\ Executing(p)'
      BY <1>t, <1>6, <2>1 DEF StepDone, StepNeedsInput, StepFails, StepEnds, Executing
    <2>5. \A i \in Step : Before(p, at[p], i)' => i # next[p] /\ Before(p, at[p], i)
      <3>1. pc'[p] = "pipeline" => next'[p] = next[p] + 1
        BY <1>t, <1>6, <2>1 DEF StepDone, StepNeedsInput, StepFails, StepEnds
      <3>2. next[p] \in Nat /\ \A i \in Step : i \in Nat
        BY <2>2 DEF Step
      <3>3. QED
        BY <2>1, <3>1, <3>2 DEF Before
    <2>6. \A q \in Proc \ {p} : Executing(q) => at[q] # at[p]
      BY <2>4 DEF SettleInv, Locking
    <2>7. ASSUME NEW r \in Run, NEW i \in Step PROVE calls'[r][i] <= 1 + faults
      <3>1. CASE r = at[p] /\ i = next[p]
        <4>1. Before(p, r, i)
          <5>1. next[p] <= i
            BY <2>2, <3>1 DEF Step
          <5>2. QED
            BY <2>1, <3>1, <5>1 DEF Before
        <4>2. calls[r][i] <= faults /\ calls[r][i] \in Nat
          BY <1>t, <4>1 DEF CallsInv
        <4>3. QED
          BY <1>t, <2>2, <4>2
      <3>2. CASE r # at[p] \/ i # next[p]
        BY <1>b, <2>2, <3>2
      <3>3. QED
        BY <3>1, <3>2
    <2>8. ASSUME NEW r \in Run, NEW i \in Step, run[r] \notin Terminal,
                 \A q \in Proc : ~(Executing(q)' /\ at[q] = r)
          PROVE  calls'[r][i] <= faults
      <3>1. r # at[p]
        BY <2>4, <2>8
      <3>2. \A q \in Proc : ~(Executing(q) /\ at[q] = r)
        BY <2>3, <2>8, <3>1 DEF Executing
      <3>3. calls[r][i] <= faults
        BY <2>8, <3>2 DEF CallsInv
      <3>4. QED
        BY <2>2, <3>1, <3>3
    <2>9. ASSUME NEW r \in Run, NEW i \in Step, NEW q \in Proc, Before(q, r, i)'
          PROVE  calls'[r][i] <= faults
      <3>1. Before(q, r, i) /\ (r # at[p] \/ i # next[p])
        <4>1. CASE q = p
          BY <2>1, <2>5, <2>9, <4>1 DEF Before
        <4>2. CASE q # p
          <5>1. Before(q, r, i) /\ Executing(q) /\ at[q] = r
            BY <2>1, <2>3, <2>9, <4>2 DEF Before, Executing
          <5>2. QED
            BY <2>6, <4>2, <5>1
        <4>3. QED
          BY <4>1, <4>2
      <3>2. calls[r][i] <= faults
        BY <3>1 DEF CallsInv
      <3>3. QED
        BY <2>2, <3>1, <3>2
    <2>10. QED
      BY <2>1, <2>7, <2>8, <2>9 DEF CallsInv
  <1>7. ASSUME NEW p \in Proc, Commit(p) PROVE CallsInv'
    <2>1. /\ at[p] \in Run /\ outcome[p] \in Terminal
          /\ UNCHANGED <<calls, faults, at>>
          /\ run' = [run EXCEPT ![at[p]] = outcome[p]]
          /\ ~Executing(p)'
      BY <1>t, <1>7 DEF Commit, SettleInv, TxnShape, ClaimOnRun, Holding, Executing, claim, bounds
    <2>2. \A q \in Proc \ {p} : pc'[q] = pc[q] /\ next'[q] = next[q]
      BY <1>7, OthersKeepTxn DEF Progress
    <2>3. run'[at[p]] \in Terminal
      BY <1>t, <2>1
    <2>4. ASSUME NEW r \in Run, NEW i \in Step, run'[r] \notin Terminal,
                 \A q \in Proc : ~(Executing(q)' /\ at[q] = r)
          PROVE  calls[r][i] <= faults
      <3>1. r # at[p] /\ run[r] \notin Terminal
        BY <1>m, <2>3, <2>4
      <3>2. \A q \in Proc : ~(Executing(q) /\ at[q] = r)
        BY <2>2, <2>4, <3>1 DEF Executing
      <3>3. QED
        BY <3>1, <3>2 DEF CallsInv
    <2>5. ASSUME NEW r \in Run, NEW i \in Step, NEW q \in Proc, Before(q, r, i)'
          PROVE  calls[r][i] <= faults
      <3>1. q # p
        BY <2>1, <2>5 DEF Before, Executing
      <3>2. Before(q, r, i)
        BY <2>1, <2>2, <2>5, <3>1 DEF Before
      <3>3. QED
        BY <3>2 DEF CallsInv
    <2>6. QED
      BY <1>b, <2>1, <2>4, <2>5 DEF CallsInv
  <1>8. CASE UNCHANGED vars
    BY <1>8, <1>m, CalmStep DEF vars, Executing
  <1>9. QED
    BY <1>1, <1>2, <1>3, <1>4, <1>5, <1>6, <1>7, <1>8 DEF Next, Progress, GoesWrong

\* A step's function is called at most once more than there were crashes and
\* database errors: a claim that outlives the reaper's timeout repeats nothing
\* (execute_workflow_run's FOR UPDATE and its check of the status).
THEOREM NoCallWasted == Spec => []RepeatedOnlyByFaults
  <1>1. Init => CallsInv
    <2> SUFFICES ASSUME Init PROVE CallsInv
      OBVIOUS
    <2>1. \A p \in Proc : pc[p] # "pipeline"
      BY DEF Init, Home
    <2>2. \A r \in Run : \A i \in Step : calls[r][i] = 0 /\ faults = 0
      BY DEF Init
    <2>3. QED
      BY <2>1, <2>2 DEF CallsInv, Before
  <1>2. CallsInv => RepeatedOnlyByFaults
    BY DEF CallsInv, RepeatedOnlyByFaults
  <1>3. QED
    BY <1>1, <1>2, InitSettle, SettleStep, CallsStepInv, PTL DEF Spec

-----------------------------------------------------------------------------
\* ObligationScan: least members

\* A nonempty set of numbers has a least member.
LEMMA LeastNumber ==
    ASSUME NEW S \in SUBSET Nat, S # {}
    PROVE  \E x \in S : \A y \in S : x <= y
  <1> DEFINE R == {ss \in Nat \X Nat : ss[1] < ss[2]}
  <1>1. IsWellFoundedOn(R, Nat)
    BY NatLessThanWellFounded DEF OpToRel
  <1>2. PICK x \in S : \A y \in S : ~(<<y, x>> \in R)
    <2> HIDE DEF R
    <2>1. QED
      BY <1>1, WFMin
  <1>3. \A y \in S : ~(y < x)
    BY <1>2
  <1>4. QED
    BY <1>3

\* A nonempty set of positions up to n has a greatest member.
LEMMA LastPlace ==
    ASSUME NEW n \in Nat, NEW S \in SUBSET (1..n), S # {}
    PROVE  Max(S) \in S
  <1> DEFINE B == {b \in Nat : \A y \in S : y <= b}
  <1>1. n \in B /\ B \in SUBSET Nat
    OBVIOUS
  <1>2. PICK b \in B : \A c \in B : b <= c
    <2> HIDE DEF B
    <2>1. QED
      BY <1>1, LeastNumber
  <1>3. b \in S
    <2> SUFFICES ASSUME b \notin S PROVE FALSE
      OBVIOUS
    <2>1. \A y \in S : y <= b - 1
      BY <1>2
    <2>2. PICK z \in S : TRUE
      OBVIOUS
    <2>3. b - 1 \in Nat
      BY <2>1, <2>2
    <2>4. QED
      BY <1>2, <2>1, <2>3
  <1>4. \A y \in S : b >= y
    BY <1>2
  <1>5. QED
    BY <1>3, <1>4 DEF Max

\* Sets of positions are finite.
LEMMA PlacesFinite ==
    ASSUME NEW n \in Nat, NEW S \in SUBSET (1..n)
    PROVE  IsFiniteSet(S)
  <1>1. 1 \in Int /\ n \in Int
    OBVIOUS
  <1>2. IsFiniteSet(1..n)
    BY <1>1, FS_Interval
  <1>3. QED
    BY <1>2, FS_Subset

\* Of the sets of positions that have a property, one is minimal.
LEMMA MinimalPlaces ==
    ASSUME NEW S, IsFiniteSet(S), NEW B, B \subseteq SUBSET S, B # {}
    PROVE  \E U \in B : \A V \in B : V \subseteq U => V = U
  <1> DEFINE Order == StrictSubsetOrdering(S)
  <1>1. IsWellFoundedOn(Order, FiniteSubsetsOf(S))
    BY FS_StrictSubsetOrderingWellFounded
  <1>2. B \subseteq FiniteSubsetsOf(S)
    <2>1. \A U \in B : U \in SUBSET S /\ IsFiniteSet(U)
      BY FS_Subset
    <2>2. QED
      BY <2>1 DEF FiniteSubsetsOf
  <1>3. PICK U \in B : \A V \in B : ~(<<V, U>> \in Order)
    <2> HIDE DEF Order
    <2>1. QED
      BY <1>1, <1>2, WFMin
  <1>4. ASSUME NEW V \in B, V \subseteq U, V # U
        PROVE  FALSE
    <2>1. <<V, U>> \in Order
      BY <1>4 DEF StrictSubsetOrdering
    <2>2. QED
      BY <1>3, <2>1
  <1>5. QED
    BY <1>4

-----------------------------------------------------------------------------
\* ObligationScan: the renewals that certifications give

\* The fold behind Derived takes the last certification of a set first; what it
\* means for a function to be that fold over the subsets of S.
DerivedFrom(g, s) ==
    IF s = {} THEN Baseline ELSE WithRenewal(g[s \ {Max(s)}], Held[Max(s)])
FoldsOver(g, S) == g = [s \in SUBSET S |-> DerivedFrom(g, s)]
FoldOf(S) == CHOOSE g : FoldsOver(g, S)

\* A finite set whose subsets have a greatest member.
Foldable(S) == IsFiniteSet(S) /\ \A U \in SUBSET S : U # {} => Max(U) \in U

LEMMA PlacesFoldable ==
    ASSUME NEW n \in Nat
    PROVE  Foldable(1..n)
  BY PlacesFinite, LastPlace DEF Foldable

\* Value by value.
LEMMA FoldValue ==
    ASSUME NEW S, NEW g, FoldsOver(g, S), NEW U \in SUBSET S
    PROVE  g[U] = DerivedFrom(g, U)
  <1>1. g = [s \in SUBSET S |-> DerivedFrom(g, s)]
    BY DEF FoldsOver
  <1>2. [s \in SUBSET S |-> DerivedFrom(g, s)][U] = DerivedFrom(g, U)
    OBVIOUS
  <1>3. QED
    BY <1>1, <1>2

\* Two folds agree where they are both defined.
LEMMA FoldsAgree ==
    ASSUME NEW S, NEW T, T \subseteq S, Foldable(T),
           NEW g, NEW h, FoldsOver(g, S), FoldsOver(h, T)
    PROVE  \A U \in SUBSET T : g[U] = h[U]
  <1> DEFINE B == {U \in SUBSET T : g[U] # h[U]}
  <1> SUFFICES ASSUME B # {} PROVE FALSE
    OBVIOUS
  <1>1. PICK U \in B : \A V \in B : V \subseteq U => V = U
    <2>1. B \subseteq SUBSET T
      OBVIOUS
    <2>2. IsFiniteSet(T)
      BY DEF Foldable
    <2> HIDE DEF B
    <2>3. QED
      BY <2>1, <2>2, MinimalPlaces
  <1>2. g[U] = DerivedFrom(g, U) /\ h[U] = DerivedFrom(h, U)
    <2>1. U \in SUBSET S /\ U \in SUBSET T
      OBVIOUS
    <2> HIDE DEF B
    <2>2. QED
      BY <2>1, FoldValue
  <1>3. U # {}
    BY <1>2 DEF DerivedFrom
  <1>4. Max(U) \in U
    BY <1>3 DEF Foldable
  <1>5. g[U \ {Max(U)}] = h[U \ {Max(U)}]
    BY <1>1, <1>4
  <1>6. g[U] = h[U]
    BY <1>2, <1>3, <1>5 DEF DerivedFrom
  <1>7. QED
    BY <1>6

\* There is a fold over every set of positions: on a minimal one that had none,
\* the folds over its subsets give one.
LEMMA FoldExists ==
    ASSUME NEW S, Foldable(S)
    PROVE  FoldsOver(FoldOf(S), S)
  <1> DEFINE B == {U \in SUBSET S : ~ \E g : FoldsOver(g, U)}
  <1>1. ASSUME B # {} PROVE FALSE
    <2>1. PICK U \in B : \A V \in B : V \subseteq U => V = U
      <3>1. B \subseteq SUBSET S
        OBVIOUS
      <3>2. IsFiniteSet(S)
        BY DEF Foldable
      <3> HIDE DEF B
      <3>3. QED
        BY <1>1, <3>1, <3>2, MinimalPlaces
    <2>2. \A V \in SUBSET U : V # U => FoldsOver(FoldOf(V), V)
      <3> SUFFICES ASSUME NEW V \in SUBSET U, V # U
                   PROVE  FoldsOver(FoldOf(V), V)
        OBVIOUS
      <3>1. V \notin B
        BY <2>1
      <3>2. PICK g : FoldsOver(g, V)
        BY <3>1
      <3>3. QED
        BY <3>2 DEF FoldOf
    <2>s. \A V \in SUBSET U : Foldable(V)
      BY FS_Subset DEF Foldable
    <2> DEFINE At(s) == FoldOf(s)[s]
               g == [s \in SUBSET U |->
                        IF s = {} THEN Baseline ELSE WithRenewal(At(s \ {Max(s)}), Held[Max(s)])]
    <2>3. \A s \in SUBSET U : s # U => g[s] = At(s)
      <3> SUFFICES ASSUME NEW s \in SUBSET U, s # U
                   PROVE  g[s] = At(s)
        OBVIOUS
      <3>1. At(s) = DerivedFrom(FoldOf(s), s)
        BY <2>2, FoldValue
      <3>2. CASE s = {}
        BY <3>1, <3>2 DEF DerivedFrom
      <3>3. CASE s # {}
        <4> DEFINE t == s \ {Max(s)}
        <4>1. t \subseteq s /\ t \in SUBSET U /\ t # U /\ Foldable(t)
          BY <2>s, <3>3 DEF Foldable
        <4>2. FoldOf(s)[t] = At(t)
          <5>1. FoldsOver(FoldOf(s), s) /\ FoldsOver(FoldOf(t), t)
            BY <2>2, <4>1
          <5> HIDE DEF t
          <5>2. QED
            BY <4>1, <5>1, FoldsAgree
        <4>3. QED
          BY <3>1, <3>3, <4>2 DEF DerivedFrom
      <3>4. QED
        BY <3>2, <3>3
    <2>4. \A s \in SUBSET U : g[s] = DerivedFrom(g, s)
      <3> SUFFICES ASSUME NEW s \in SUBSET U, s # {}
                   PROVE  At(s \ {Max(s)}) = g[s \ {Max(s)}]
        BY DEF DerivedFrom
      <3>1. Max(s) \in s
        BY <2>s DEF Foldable
      <3>2. s \ {Max(s)} \in SUBSET U /\ s \ {Max(s)} # U
        BY <3>1
      <3>3. QED
        BY <2>3, <3>2
    <2>5. FoldsOver(g, U)
      <3>1. g = [s \in SUBSET U |-> g[s]]
        OBVIOUS
      <3> HIDE DEF g
      <3>2. [s \in SUBSET U |-> g[s]] = [s \in SUBSET U |-> DerivedFrom(g, s)]
        BY <2>4
      <3>3. QED
        BY <3>1, <3>2 DEF FoldsOver
    <2>6. QED
      BY <2>1, <2>5
  <1>2. S \notin B
    BY <1>1
  <1>3. PICK g : FoldsOver(g, S)
    BY <1>2
  <1>4. QED
    BY <1>3 DEF FoldOf

\* The table entry that a certification gives, if any.
LEMMA RenewalIsEntry ==
    ASSUME ObligationAssumption, NEW cert \in Cert, NEW derived
    PROVE  WithRenewal(derived, cert) \subseteq derived \cup Range(Renewals)
  <1> DEFINE fresh == {i \in Hits[cert] : Renewals[i].key \notin {d.key : d \in derived}}
  <1>1. fresh \subseteq DOMAIN Renewals /\ DOMAIN Renewals \subseteq Nat
    BY DEF ObligationAssumption
  <1>2. WithRenewal(derived, cert) =
            IF fresh = {} THEN derived
            ELSE derived \cup {Renewals[CHOOSE i \in fresh : \A j \in fresh : i <= j]}
    BY DEF WithRenewal
  <1> HIDE DEF fresh
  <1>3. CASE fresh = {}
    BY <1>2, <1>3
  <1>4. CASE fresh # {}
    <2>1. \E i \in fresh : \A j \in fresh : i <= j
      BY <1>1, <1>4, LeastNumber
    <2>2. (CHOOSE i \in fresh : \A j \in fresh : i <= j) \in DOMAIN Renewals
      BY <1>1, <2>1
    <2>3. QED
      BY <1>2, <1>4, <2>2 DEF Range
  <1>5. QED
    BY <1>3, <1>4

\* What is derived comes from the baseline, the table or the awards.
LEMMA DerivedFromTables ==
    ASSUME ObligationAssumption
    PROVE  Derived \subseteq Baseline \cup Range(Renewals) \cup Deliverables
  <1> DEFINE n == Len(Held)
             S == 1..n
             B == {U \in SUBSET S : ~(FoldOf(S)[U] \subseteq Baseline \cup Range(Renewals))}
  <1>1. n \in Nat /\ DOMAIN Held = S /\ \A i \in S : Held[i] \in Cert
    BY LenProperties DEF ObligationAssumption
  <1>2. FoldLeft(WithRenewal, Baseline, Held) = FoldOf(S)[S]
    BY <1>1 DEF FoldLeft, MapThenFoldSet, FoldOf, FoldsOver, DerivedFrom
  <1> HIDE DEF n
  <1>3. FoldsOver(FoldOf(S), S)
    BY <1>1, PlacesFoldable, FoldExists
  <1>4. ASSUME B # {} PROVE FALSE
    <2>1. PICK U \in B : \A V \in B : V \subseteq U => V = U
      <3>1. B \subseteq SUBSET S /\ IsFiniteSet(S)
        BY <1>1, PlacesFinite
      <3> HIDE DEF B, S
      <3>2. QED
        BY <1>4, <3>1, MinimalPlaces
    <2>2. FoldOf(S)[U] = DerivedFrom(FoldOf(S), U)
      BY <1>3, FoldValue
    <2>3. CASE U = {}
      BY <2>1, <2>2, <2>3 DEF DerivedFrom
    <2>4. CASE U # {}
      <3> DEFINE rest == U \ {Max(U)}
      <3>1. Max(U) \in U /\ Held[Max(U)] \in Cert
        BY <1>1, <2>4, LastPlace
      <3>2. rest \in SUBSET S /\ rest \subseteq U /\ rest # U
        BY <3>1
      <3>3. FoldOf(S)[rest] \subseteq Baseline \cup Range(Renewals)
        <4>1. rest \notin B
          <5> HIDE DEF rest, B
          <5>1. QED
            BY <2>1, <3>2
        <4>2. QED
          BY <3>2, <4>1
      <3>4. FoldOf(S)[U] = WithRenewal(FoldOf(S)[rest], Held[Max(U)])
        BY <2>2, <2>4 DEF DerivedFrom
      <3>5. FoldOf(S)[U] \subseteq Baseline \cup Range(Renewals)
        <4> HIDE DEF rest
        <4>1. QED
          BY <3>1, <3>3, <3>4, RenewalIsEntry
      <3>6. QED
        BY <2>1, <3>5
    <2>5. QED
      BY <2>3, <2>4
  <1>5. FoldOf(S)[S] \subseteq Baseline \cup Range(Renewals)
    BY <1>4
  <1>6. QED
    BY <1>2, <1>5 DEF Derived

LEMMA DerivedTyped ==
    ASSUME ObligationAssumption, NEW d \in Derived
    PROVE  d.key \in Key /\ d.days \in Nat
  <1>1. d \in Baseline \cup Deliverables \/ \E i \in DOMAIN Renewals : d = Renewals[i]
    BY DerivedFromTables DEF Range
  <1>2. \A i \in DOMAIN Renewals : Renewals[i] \in [key : Key, days : Nat]
    BY ElementOfSeq, LenProperties DEF ObligationAssumption
  <1>3. QED
    BY <1>1, <1>2 DEF ObligationAssumption

-----------------------------------------------------------------------------
\* ObligationScan: the inductive invariant

ReminderTypes ==
    /\ row \in [Key -> Row \cup {NoRow}]
    /\ today \in Days
    /\ stage \in [Scanner -> {"idle", "scanning"}]
    /\ began \in [Scanner -> Days]
    /\ loaded \in [Scanner -> [Key -> Row \cup {NoRow}]]
    /\ todo \in [Scanner -> SUBSET Key]
    /\ marked \in [Scanner -> SUBSET Key]
    /\ sync \in [Sync -> {"queued", "write", "done"}]
    /\ existing \in [Sync -> SUBSET Key]
    /\ patch \in [Patch -> {"asked", "write", "done"}]
    /\ before \in [Patch -> Row \cup {NoRow}]
    /\ mail \in [Key -> [Days -> Nat]]
    /\ disturbed \in BOOLEAN
    /\ cutOffs \in 0..MaxCutOffs

\* A scan has a row in hand only if there is one, and loads none that is closed;
\* what it has sent a reminder for was not cooling, and is not to be come to again.
Loads(s) ==
    /\ \A k \in Key : loaded[s][k] # NoRow =>
          stage[s] = "scanning" /\ row[k] # NoRow /\ loaded[s][k].status \notin Frozen
    /\ \A k \in todo[s] \cup marked[s] : loaded[s][k] # NoRow
    /\ todo[s] \cap marked[s] = {}
    /\ \A k \in marked[s] : mail[k][began[s]] > 0 /\ ~Cooling(loaded[s][k], began[s])

\* An edit is of a row that exists.
Edits(p) == patch[p] = "write" => row[Wanted[p].key] # NoRow /\ before[p] # NoRow

\* As long as scans follow one another, what one has loaded of a row's last
\* reminder is still so,
LoadsLast(s) ==
    \A k \in Key : loaded[s][k] # NoRow => loaded[s][k].notified = row[k].notified

\* and no reminder was sent after the last one, which is in the row or, while a
\* scan that has sent it runs, in its marks.
SentBy(k, d) ==
    /\ row[k] # NoRow
    /\ \/ row[k].notified # Never /\ d <= row[k].notified
       \/ \E s \in Scanner : k \in marked[s] /\ d <= began[s]

InTurnScans ==
    /\ \A s, t \in Scanner : stage[s] = "scanning" /\ stage[t] = "scanning" => s = t
    /\ \A s \in Scanner : LoadsLast(s)
    /\ \A k \in Key, d \in Days : mail[k][d] > 0 => SentBy(k, d)

ReminderInv ==
    /\ ReminderTypes
    /\ \A s \in Scanner : Loads(s)
    /\ \A p \in Patch : Edits(p)
    /\ ~disturbed => InTurnScans
    /\ OneReminderPerCooldown

LEMMA ReminderInit == ObligationAssumption /\ ObligationInit => ReminderInv
  <1> SUFFICES ASSUME ObligationAssumption, ObligationInit PROVE ReminderInv
    OBVIOUS
  <1> USE DEF ObligationInit
  <1>1. ReminderTypes
    <2>1. 0 \in Days /\ 0 \in 0..MaxCutOffs
      BY DEF ObligationAssumption, Days
    <2>2. row \in [Key -> Row \cup {NoRow}] /\ mail \in [Key -> [Days -> Nat]]
      OBVIOUS
    <2>3. loaded \in [Scanner -> [Key -> Row \cup {NoRow}]] /\ before \in [Patch -> Row \cup {NoRow}]
      OBVIOUS
    <2>4. QED
      BY <2>1, <2>2, <2>3 DEF ReminderTypes
  <1>2. \A s \in Scanner : Loads(s)
    BY DEF Loads
  <1>3. \A p \in Patch : Edits(p)
    BY DEF Edits
  <1>4. InTurnScans
    BY DEF InTurnScans, LoadsLast
  <1>5. OneReminderPerCooldown
    BY DEF OneReminderPerCooldown, Days, ObligationAssumption
  <1>6. QED
    BY <1>1, <1>2, <1>3, <1>4, <1>5 DEF ReminderInv

\* What the fields of a row are.
LEMMA RowFields ==
    \A r \in Row : /\ r.status \in Status /\ r.due \in Nat /\ r.notified \in Days \cup {Never}
                   /\ r = [status |-> r.status, due |-> r.due, notified |-> r.notified]
  BY DEF Row

-----------------------------------------------------------------------------
\* ObligationScan: the steps

\* Steps that leave rows, reminders and scans alone.
LEMMA ReminderFrame ==
    ASSUME ReminderInv, ReminderTypes', \A p \in Patch : Edits(p)', UNCHANGED <<row, scans>>
    PROVE  ReminderInv'
  <1> USE DEF scans
  <1>1. \A s \in Scanner : Loads(s)'
    BY DEF ReminderInv, Loads
  <1>2. ~disturbed' => InTurnScans'
    BY DEF ReminderInv, InTurnScans, LoadsLast, SentBy
  <1>3. OneReminderPerCooldown'
    BY DEF ReminderInv, OneReminderPerCooldown
  <1>4. QED
    BY <1>1, <1>2, <1>3 DEF ReminderInv

LEMMA BeginsKeeps ==
    ASSUME ObligationAssumption, ReminderInv, NEW s \in Scanner, ScanBegins(s)
    PROVE  ReminderInv'
  <1> DEFINE due == {k \in Present : IsDue(row[k], today)}
  <1>t. ReminderTypes
    BY DEF ReminderInv
  <1>1. /\ stage[s] = "idle"
        /\ stage' = [stage EXCEPT ![s] = "scanning"]
        /\ began' = [began EXCEPT ![s] = today]
        /\ loaded' = [loaded EXCEPT ![s] = [k \in Key |-> IF k \in due THEN row[k] ELSE NoRow]]
        /\ todo' = [todo EXCEPT ![s] = due]
        /\ marked' = [marked EXCEPT ![s] = {}]
        /\ disturbed' = (disturbed \/ \E t \in Scanner : stage[t] = "scanning")
        /\ UNCHANGED <<row, today, syncs, patches, mail, cutOffs>>
    BY DEF ScanBegins
  <1>2. \A k \in due : k \in Key /\ row[k] # NoRow /\ row[k].status \notin Frozen
    BY DEF Present, IsDue
  <1>3. /\ stage'[s] = "scanning" /\ began'[s] = today /\ todo'[s] = due /\ marked'[s] = {}
        /\ \A k \in Key : loaded'[s][k] = IF k \in due THEN row[k] ELSE NoRow
        /\ \A t \in Scanner \ {s} : /\ stage'[t] = stage[t] /\ began'[t] = began[t]
                                    /\ loaded'[t] = loaded[t] /\ todo'[t] = todo[t]
                                    /\ marked'[t] = marked[t]
    BY <1>t, <1>1 DEF ReminderTypes
  <1>4. ReminderTypes'
    <2>1. [k \in Key |-> IF k \in due THEN row[k] ELSE NoRow] \in [Key -> Row \cup {NoRow}]
      BY <1>t DEF ReminderTypes
    <2>2. due \in SUBSET Key
      BY <1>2
    <2> HIDE DEF due
    <2>3. loaded' \in [Scanner -> [Key -> Row \cup {NoRow}]]
      BY <1>t, <1>1, <2>1 DEF ReminderTypes
    <2>4. /\ stage' \in [Scanner -> {"idle", "scanning"}] /\ began' \in [Scanner -> Days]
          /\ todo' \in [Scanner -> SUBSET Key] /\ marked' \in [Scanner -> SUBSET Key]
          /\ disturbed' \in BOOLEAN
      BY <1>t, <1>1, <2>2 DEF ReminderTypes
    <2>5. QED
      BY <1>t, <1>1, <2>3, <2>4 DEF ReminderTypes, syncs, patches
  <1>5. \A t \in Scanner : Loads(t)'
    <2>1. Loads(s)'
      BY <1>1, <1>2, <1>3 DEF Loads
    <2> HIDE DEF due
    <2>2. \A t \in Scanner \ {s} : Loads(t)'
      BY <1>1, <1>3 DEF ReminderInv, Loads
    <2>3. QED
      BY <2>1, <2>2
  <1>6. \A p \in Patch : Edits(p)'
    BY <1>1 DEF ReminderInv, Edits, patches
  <1>7. ASSUME ~disturbed' PROVE InTurnScans'
    <2>1. InTurnScans /\ \A t \in Scanner : stage[t] # "scanning"
      BY <1>1, <1>7 DEF ReminderInv
    <2>2. \A t \in Scanner : marked[t] = {}
      BY <2>1 DEF ReminderInv, Loads, ReminderTypes
    <2>3. \A k \in Key, d \in Days : mail'[k][d] > 0 => SentBy(k, d)'
      BY <1>1, <2>1, <2>2 DEF InTurnScans, SentBy
    <2>4. LoadsLast(s)'
      BY <1>1, <1>3 DEF LoadsLast
    <2> HIDE DEF due
    <2>5. \A t \in Scanner \ {s} : LoadsLast(t)'
      BY <1>1, <1>3, <2>1 DEF InTurnScans, LoadsLast
    <2>6. \A t, u \in Scanner : stage'[t] = "scanning" /\ stage'[u] = "scanning" => t = u
      BY <1>3, <2>1
    <2>7. QED
      BY <2>3, <2>4, <2>5, <2>6 DEF InTurnScans
  <1>8. OneReminderPerCooldown'
    <2>1. ~disturbed' => ~disturbed
      BY <1>1
    <2>2. UNCHANGED mail
      BY <1>1
    <2>3. QED
      BY <2>1, <2>2 DEF ReminderInv, OneReminderPerCooldown
  <1>9. QED
    BY <1>4, <1>5, <1>6, <1>7, <1>8 DEF ReminderInv

LEMMA PassOverKeeps ==
    ASSUME ObligationAssumption, ReminderInv, NEW s \in Scanner, NEW k \in Key, PassOver(s, k)
    PROVE  ReminderInv'
  <1>t. ReminderTypes
    BY DEF ReminderInv
  <1>1. /\ todo' = [todo EXCEPT ![s] = @ \ {k}]
        /\ UNCHANGED <<row, today, stage, began, loaded, marked, mail, disturbed,
                       syncs, patches, cutOffs>>
    BY DEF PassOver
  <1>2. /\ ReminderTypes' /\ todo'[s] \subseteq todo[s]
        /\ \A t \in Scanner \ {s} : todo'[t] = todo[t]
    BY <1>t, <1>1 DEF ReminderTypes, syncs, patches
  <1>3. \A t \in Scanner : Loads(t)'
    <2>1. Loads(s)'
      BY <1>1, <1>2 DEF ReminderInv, Loads
    <2>2. \A t \in Scanner \ {s} : Loads(t)'
      BY <1>1, <1>2 DEF ReminderInv, Loads
    <2>3. QED
      BY <2>1, <2>2
  <1>4. \A p \in Patch : Edits(p)'
    BY <1>1 DEF ReminderInv, Edits, patches
  <1>5. ~disturbed' => InTurnScans'
    BY <1>1 DEF ReminderInv, InTurnScans, LoadsLast, SentBy
  <1>6. OneReminderPerCooldown'
    BY <1>1 DEF ReminderInv, OneReminderPerCooldown
  <1>7. QED
    BY <1>2, <1>3, <1>4, <1>5, <1>6 DEF ReminderInv

\* The reminder that leaves is later than all before it by the cooldown.
LEMMA RemindKeeps ==
    ASSUME ObligationAssumption, ReminderInv, NEW s \in Scanner, NEW k \in Key, Remind(s, k)
    PROVE  ReminderInv'
  <1>t. ReminderTypes
    BY DEF ReminderInv
  <1>1. /\ stage[s] = "scanning" /\ k \in todo[s] /\ ~Cooling(loaded[s][k], began[s])
        /\ todo' = [todo EXCEPT ![s] = @ \ {k}]
        /\ marked' = [marked EXCEPT ![s] = @ \cup {k}]
        /\ mail' = [mail EXCEPT ![k][began[s]] = @ + 1]
        /\ UNCHANGED <<row, today, stage, began, loaded, disturbed,
                       syncs, patches, cutOffs>>
    BY DEF Remind
  <1>2. /\ todo'[s] = todo[s] \ {k} /\ marked'[s] = marked[s] \cup {k}
        /\ \A t \in Scanner \ {s} : todo'[t] = todo[t] /\ marked'[t] = marked[t]
    BY <1>t, <1>1 DEF ReminderTypes
  <1>3. /\ began[s] \in Days /\ mail[k][began[s]] \in Nat
        /\ mail' \in [Key -> [Days -> Nat]]
        /\ \A j \in Key, d \in Days :
              mail'[j][d] = IF j = k /\ d = began[s] THEN mail[j][d] + 1 ELSE mail[j][d]
        /\ \A j \in Key, d \in Days : mail[j][d] \in Nat
    BY <1>t, <1>1 DEF ReminderTypes
  <1>4. ReminderTypes'
    BY <1>t, <1>1, <1>3 DEF ReminderTypes, syncs, patches
  <1>5. \A t \in Scanner : Loads(t)'
    <2>1. \A j \in Key, d \in Days : mail[j][d] > 0 => mail'[j][d] > 0
      <3> SUFFICES ASSUME NEW j \in Key, NEW d \in Days, mail[j][d] > 0
                   PROVE  mail'[j][d] > 0
        OBVIOUS
      <3>1. mail[j][d] \in Nat /\ mail'[j][d] \in {mail[j][d], mail[j][d] + 1}
        BY <1>3
      <3>2. QED
        BY <3>1
    <2>2. mail'[k][began[s]] > 0
      BY <1>3
    <2>3. ASSUME NEW t \in Scanner PROVE Loads(t)'
      <3>l. Loads(t)
        BY DEF ReminderInv
      <3>a. began[t] \in Days /\ marked'[t] \subseteq Key
        BY <1>t, <1>4 DEF ReminderTypes
      <3>1. /\ todo'[t] \cup marked'[t] = todo[t] \cup marked[t]
            /\ todo'[t] \cap marked'[t] = {}
            /\ \A j \in marked'[t] : j \in marked[t] \/ (j = k /\ t = s)
            /\ began[t] \in Days /\ marked'[t] \subseteq Key
        <4>1. CASE t = s
          BY <1>1, <1>2, <3>l, <3>a, <4>1 DEF Loads
        <4>2. CASE t # s
          <5>1. todo'[t] = todo[t] /\ marked'[t] = marked[t]
            BY <1>2, <4>2
          <5>2. QED
            BY <3>l, <3>a, <5>1 DEF Loads
        <4>3. QED
          BY <4>1, <4>2
      <3>2. \A j \in marked'[t] : mail'[j][began[t]] > 0
        BY <1>t, <2>1, <2>2, <3>1 DEF ReminderInv, Loads, ReminderTypes
      <3>3. \A j \in marked'[t] : ~Cooling(loaded[t][j], began[t])
        BY <1>1, <3>l, <3>1 DEF Loads
      <3>4. UNCHANGED <<stage, row, loaded, began>> /\ k \in todo[s]
        BY <1>1
      <3>5. \A j \in todo'[t] \cup marked'[t] : loaded[t][j] # NoRow
        BY <3>1, <3>l DEF Loads
      <3>6. \A j \in Key : loaded'[t][j] # NoRow =>
               stage'[t] = "scanning" /\ row'[j] # NoRow /\ loaded'[t][j].status \notin Frozen
        BY <3>l, <3>4 DEF Loads
      <3>7. \A j \in marked'[t] : mail'[j][began'[t]] > 0 /\ ~Cooling(loaded'[t][j], began'[t])
        BY <3>2, <3>3, <3>4
      <3>8. \A j \in todo'[t] \cup marked'[t] : loaded'[t][j] # NoRow
        BY <3>4, <3>5
      <3>9. QED
        BY <3>1, <3>6, <3>7, <3>8 DEF Loads
    <2>4. QED
      BY <2>3
  <1>6. \A p \in Patch : Edits(p)'
    BY <1>1 DEF ReminderInv, Edits, patches
  <1>7. ASSUME ~disturbed' PROVE InTurnScans'
    <2>1. InTurnScans
      BY <1>1, <1>7 DEF ReminderInv
    <2>2. ASSUME NEW j \in Key, NEW d \in Days, mail'[j][d] > 0
          PROVE  SentBy(j, d)'
      <3>1. CASE j = k /\ d = began[s]
        <4>1. row[k] # NoRow /\ k \in marked'[s] /\ d <= began[s]
          BY <1>1, <1>2, <1>3, <3>1 DEF ReminderInv, Loads, Days
        <4>2. QED
          BY <1>1, <3>1, <4>1 DEF SentBy
      <3>2. CASE mail[j][d] > 0
        <4>1. SentBy(j, d)
          BY <2>1, <3>2 DEF InTurnScans
        <4>2. \A t \in Scanner : marked[t] \subseteq marked'[t]
          BY <1>2
        <4>3. QED
          BY <1>1, <4>1, <4>2 DEF SentBy
      <3>3. QED
        BY <1>3, <2>2, <3>1, <3>2
    <2>3. QED
      BY <1>1, <2>1, <2>2 DEF InTurnScans, LoadsLast
  <1>8. ASSUME ~disturbed' PROVE OneReminderPerCooldown'
    <2>1. InTurnScans /\ ~disturbed
      BY <1>1, <1>7, <1>8 DEF ReminderInv
    <2>2. \A t \in Scanner : k \notin marked[t]
      <3>1. k \notin marked[s] /\ \A t \in Scanner : k \in marked[t] => stage[t] = "scanning"
        BY <1>t, <1>1 DEF ReminderInv, Loads, ReminderTypes
      <3>2. QED
        BY <1>1, <2>1, <3>1 DEF InTurnScans
    <2>3. loaded[s][k] # NoRow /\ loaded[s][k].notified = row[k].notified
      BY <1>1, <2>1 DEF ReminderInv, Loads, InTurnScans, LoadsLast
    <2>4. \A d \in Days : mail[k][d] > 0 =>
             row[k] # NoRow /\ row[k].notified # Never /\ d <= row[k].notified
      BY <2>1, <2>2 DEF InTurnScans, SentBy
    <2>5. row[k] # NoRow => row[k].notified \in Days \cup {Never}
      BY <1>t, RowFields DEF ReminderTypes
    <2>6. \A d \in Days : mail[k][d] > 0 => began[s] - d >= CooldownDays
      <3> SUFFICES ASSUME NEW d \in Days, mail[k][d] > 0
                   PROVE  began[s] - d >= CooldownDays
        OBVIOUS
      <3>1. row[k].notified \in Days /\ d <= row[k].notified /\ row[k].notified # Never
        BY <2>4, <2>5
      <3>2. ~(began[s] - row[k].notified < CooldownDays)
        BY <1>1, <2>3, <3>1 DEF Cooling
      <3>3. QED
        BY <1>3, <3>1, <3>2 DEF Days, ObligationAssumption
    <2>7. ASSUME NEW j \in Key, NEW d \in Days
          PROVE  /\ CooldownDays > 0 => mail'[j][d] <= 1
                 /\ mail'[j][d] > 0 =>
                       \A e \in (d + 1)..MaxDay : e - d < CooldownDays => mail'[j][e] = 0
      <3>n. MaxDay \in Nat /\ CooldownDays \in Nat /\ began[s] \in 0..MaxDay /\ d \in 0..MaxDay
        BY <1>3 DEF Days, ObligationAssumption
      <3>o. /\ CooldownDays > 0 => mail[j][d] <= 1
            /\ mail[j][d] > 0 =>
                  \A e \in (d + 1)..MaxDay : e - d < CooldownDays => mail[j][e] = 0
        BY <2>1 DEF ReminderInv, OneReminderPerCooldown
      <3>e. \A e \in (d + 1)..MaxDay : e \in Days
        BY <3>n DEF Days
      <3>1. CASE j # k
        <4>1. mail'[j][d] = mail[j][d] /\ \A e \in (d + 1)..MaxDay : mail'[j][e] = mail[j][e]
          BY <1>3, <3>1, <3>e
        <4>2. QED
          BY <3>o, <4>1
      <3>2. CASE j = k /\ d = began[s]
        <4>1. CooldownDays > 0 => mail[k][d] = 0
          <5> SUFFICES ASSUME CooldownDays > 0 PROVE mail[k][d] = 0
            OBVIOUS
          <5>1. mail[k][d] > 0 => d - d >= CooldownDays
            BY <2>6, <3>2
          <5>2. d - d = 0 /\ mail[k][d] \in Nat
            BY <1>3, <3>n
          <5>3. QED
            BY <5>1, <5>2, <3>n
        <4>2. \A e \in (d + 1)..MaxDay : mail[k][e] > 0 => d - e >= CooldownDays
          BY <2>6, <3>2, <3>e
        <4>3. \A e \in (d + 1)..MaxDay : mail[k][e] = 0
          <5> SUFFICES ASSUME NEW e \in (d + 1)..MaxDay PROVE mail[k][e] = 0
            OBVIOUS
          <5>1. mail[k][e] \in Nat /\ e > d /\ e \in Nat
            BY <1>3, <3>e, <3>n
          <5>2. QED
            BY <4>2, <5>1, <3>n
        <4>4. \A e \in (d + 1)..MaxDay : mail'[k][e] = mail[k][e]
          <5> SUFFICES ASSUME NEW e \in (d + 1)..MaxDay PROVE mail'[k][e] = mail[k][e]
            OBVIOUS
          <5>1. e \in Days /\ e # d
            BY <3>e, <3>n
          <5>2. QED
            BY <1>3, <3>2, <5>1
        <4>5. mail'[k][d] = mail[k][d] + 1
          BY <1>3, <3>2
        <4>6. QED
          BY <3>2, <4>1, <4>3, <4>4, <4>5
      <3>3. CASE j = k /\ d # began[s]
        <4>1. mail'[k][d] = mail[k][d]
          BY <1>3, <3>3
        <4>2. ASSUME mail[k][d] > 0, NEW e \in (d + 1)..MaxDay, e - d < CooldownDays
              PROVE  mail'[k][e] = 0
          <5>1. e # began[s]
            BY <2>6, <4>2, <3>n
          <5>2. mail'[k][e] = mail[k][e]
            BY <1>3, <3>e, <5>1
          <5>3. QED
            BY <3>3, <3>o, <4>2, <5>2
        <4>3. QED
          BY <3>3, <3>o, <4>1, <4>2
      <3>4. QED
        BY <3>1, <3>2, <3>3
    <2>8. QED
      BY <2>7 DEF OneReminderPerCooldown
  <1>9. QED
    BY <1>4, <1>5, <1>6, <1>7, <1>8 DEF ReminderInv, OneReminderPerCooldown

\* A scan that ends keeps nothing of what it had.
LEMMA EndedScan ==
    ASSUME ReminderTypes, NEW s \in Scanner, ScanEnds(s), 0 \in Days
    PROVE  /\ stage' \in [Scanner -> {"idle", "scanning"}]
           /\ began' \in [Scanner -> Days]
           /\ loaded' \in [Scanner -> [Key -> Row \cup {NoRow}]]
           /\ todo' \in [Scanner -> SUBSET Key]
           /\ marked' \in [Scanner -> SUBSET Key]
           /\ stage'[s] = "idle" /\ todo'[s] = {} /\ marked'[s] = {}
           /\ \A k \in Key : loaded'[s][k] = NoRow
           /\ \A t \in Scanner \ {s} :
                 /\ stage'[t] = stage[t] /\ began'[t] = began[t] /\ loaded'[t] = loaded[t]
                 /\ todo'[t] = todo[t] /\ marked'[t] = marked[t]
  <1>1. [k \in Key |-> NoRow] \in [Key -> Row \cup {NoRow}]
    OBVIOUS
  <1>2. loaded' \in [Scanner -> [Key -> Row \cup {NoRow}]]
    BY <1>1 DEF ReminderTypes, ScanEnds
  <1>3. QED
    BY <1>2 DEF ReminderTypes, ScanEnds

\* What a scan leaves of a row.
LEMMA ScannedRow ==
    ASSUME ObligationAssumption, ReminderTypes, NEW s \in Scanner, Loads(s), NEW k \in Key
    PROVE  /\ Scanned(s, k) \in Row \cup {NoRow}
           /\ Scanned(s, k) = NoRow <=> row[k] = NoRow
           /\ loaded[s][k] = NoRow => Scanned(s, k) = row[k]
           /\ row[k] # NoRow =>
                 /\ loaded[s][k] # NoRow /\ k \in marked[s] => Scanned(s, k).notified = began[s]
                 /\ k \notin marked[s] => Scanned(s, k).notified = row[k].notified
  <1>1. CASE loaded[s][k] = NoRow
    <2>1. Scanned(s, k) = row[k] /\ k \notin marked[s]
      BY <1>1 DEF Scanned, Loads
    <2>2. QED
      BY <1>1, <2>1 DEF ReminderTypes
  <1>2. CASE loaded[s][k] # NoRow
    <2> DEFINE new == NewStatus(loaded[s][k], began[s])
               r == [row[k] EXCEPT !.status = IF new = loaded[s][k].status THEN @ ELSE new,
                                   !.notified = IF k \in marked[s] THEN began[s] ELSE @]
    <2>1. Scanned(s, k) = r
      BY <1>2 DEF Scanned
    <2>2. row[k] # NoRow /\ row[k] \in Row /\ began[s] \in Days
      BY <1>2 DEF Loads, ReminderTypes
    <2>3. new \in Status
      BY DEF NewStatus, Status
    <2> HIDE DEF new
    <2>4. r \in Row /\ r.notified = IF k \in marked[s] THEN began[s] ELSE row[k].notified
      BY <2>2, <2>3 DEF Row
    <2>5. r # NoRow
      BY <2>4 DEF ObligationAssumption
    <2>6. QED
      BY <1>2, <2>1, <2>2, <2>4, <2>5
  <1>3. QED
    BY <1>1, <1>2

LEMMA CommitsKeeps ==
    ASSUME ObligationAssumption, ReminderInv, NEW s \in Scanner, ScanCommits(s)
    PROVE  ReminderInv'
  <1>t. ReminderTypes /\ 0 \in Days /\ \A t \in Scanner : Loads(t)
    BY DEF ReminderInv, Days, ObligationAssumption
  <1>1. /\ stage[s] = "scanning" /\ todo[s] = {}
        /\ row' = [k \in Key |-> Scanned(s, k)]
        /\ ScanEnds(s)
        /\ UNCHANGED <<today, mail, disturbed, syncs, patches, cutOffs>>
    BY DEF ScanCommits
  <1>2. \A k \in Key :
           /\ row'[k] = Scanned(s, k)
           /\ row'[k] \in Row \cup {NoRow}
           /\ row'[k] = NoRow <=> row[k] = NoRow
           /\ row[k] # NoRow =>
                 /\ k \in marked[s] => row'[k].notified = began[s]
                 /\ k \notin marked[s] => row'[k].notified = row[k].notified
    BY <1>t, <1>1, ScannedRow DEF Loads
  <1>3. ReminderTypes'
    <2>1. row' \in [Key -> Row \cup {NoRow}]
      BY <1>1, <1>2
    <2>2. QED
      BY <1>t, <1>1, <2>1, EndedScan DEF ReminderTypes, syncs, patches
  <1>4. \A t \in Scanner : Loads(t)'
    <2>1. Loads(s)'
      BY <1>t, <1>1, EndedScan DEF Loads
    <2>2. ASSUME NEW t \in Scanner \ {s} PROVE Loads(t)'
      <3>1. /\ stage'[t] = stage[t] /\ began'[t] = began[t] /\ loaded'[t] = loaded[t]
            /\ todo'[t] = todo[t] /\ marked'[t] = marked[t]
        BY <1>t, <1>1, EndedScan
      <3>2. QED
        BY <1>t, <1>1, <1>2, <3>1 DEF Loads
    <2>3. QED
      BY <2>1, <2>2
  <1>5. \A p \in Patch : Edits(p)'
    <2>1. \A p \in Patch : Wanted[p].key \in Key
      BY DEF ObligationAssumption
    <2>2. QED
      BY <1>1, <1>2, <2>1 DEF ReminderInv, Edits, patches
  <1>6. ASSUME ~disturbed' PROVE InTurnScans'
    <2>1. InTurnScans
      BY <1>1, <1>6 DEF ReminderInv
    <2>2. \A t \in Scanner : stage'[t] = "idle" /\ marked'[t] = {} /\ \A k \in Key : loaded'[t][k] = NoRow
      <3>1. ASSUME NEW t \in Scanner \ {s}
            PROVE  stage[t] = "idle" /\ marked[t] = {} /\ \A k \in Key : loaded[t][k] = NoRow
        <4>1. stage[t] # "scanning"
          BY <1>1, <2>1 DEF InTurnScans
        <4>2. QED
          BY <1>t, <4>1 DEF ReminderTypes, Loads
      <3>2. /\ stage'[s] = "idle" /\ marked'[s] = {} /\ \A k \in Key : loaded'[s][k] = NoRow
            /\ \A t \in Scanner \ {s} : /\ stage'[t] = stage[t] /\ loaded'[t] = loaded[t]
                                        /\ marked'[t] = marked[t]
        BY <1>t, <1>1, EndedScan
      <3>3. QED
        BY <3>1, <3>2
    <2>3. ASSUME NEW k \in Key, NEW d \in Days, mail'[k][d] > 0
          PROVE  SentBy(k, d)'
      <3>1. SentBy(k, d)
        BY <1>1, <2>1, <2>3 DEF InTurnScans
      <3>2. \A t \in Scanner : k \in marked[t] => t = s
        BY <1>t, <1>1, <2>1 DEF InTurnScans, Loads, ReminderTypes
      <3>3. row'[k] # NoRow /\ began[s] \in Days
        BY <1>2, <1>t, <3>1 DEF SentBy, ReminderTypes
      <3>4. row[k].notified \in Days \cup {Never}
        BY <1>t, <3>1, RowFields DEF SentBy, ReminderTypes
      <3>5. CASE k \in marked[s]
        <4>1. row'[k].notified = began[s] /\ began[s] # Never
          BY <1>2, <3>1, <3>3, <3>5 DEF SentBy, ObligationAssumption
        <4>2. d <= began[s]
          <5>1. CASE \E t \in Scanner : k \in marked[t] /\ d <= began[t]
            BY <3>2, <5>1
          <5>2. CASE row[k].notified # Never /\ d <= row[k].notified
            <6>1. loaded[s][k] # NoRow /\ ~Cooling(loaded[s][k], began[s])
              BY <1>t, <3>5 DEF Loads
            <6>2. loaded[s][k].notified = row[k].notified
              BY <2>1, <6>1 DEF InTurnScans, LoadsLast
            <6>3. ~(began[s] - row[k].notified < CooldownDays) /\ CooldownDays \in Nat
              BY <5>2, <6>1, <6>2 DEF Cooling, ObligationAssumption
            <6>4. began[s] \in Nat /\ row[k].notified \in Nat /\ d \in Nat
              BY <3>3, <3>4, <5>2 DEF Days, ObligationAssumption
            <6>5. QED
              BY <5>2, <6>3, <6>4
          <5>3. QED
            BY <3>1, <5>1, <5>2 DEF SentBy
        <4>3. QED
          BY <3>3, <4>1, <4>2 DEF SentBy
      <3>6. CASE k \notin marked[s]
        BY <1>2, <3>1, <3>2, <3>3, <3>6 DEF SentBy
      <3>7. QED
        BY <3>5, <3>6
    <2>4. QED
      BY <2>2, <2>3 DEF InTurnScans, LoadsLast
  <1>7. OneReminderPerCooldown'
    BY <1>1 DEF ReminderInv, OneReminderPerCooldown
  <1>8. QED
    BY <1>3, <1>4, <1>5, <1>6, <1>7 DEF ReminderInv

\* What a scan that is cut off leaves is disturbed: nothing more is claimed.
LEMMA CutOffKeeps ==
    ASSUME ObligationAssumption, ReminderInv, NEW s \in Scanner, ScanCutOff(s)
    PROVE  ReminderInv'
  <1>t. ReminderTypes /\ 0 \in Days /\ \A t \in Scanner : Loads(t)
    BY DEF ReminderInv, Days, ObligationAssumption
  <1>1. /\ cutOffs < MaxCutOffs /\ cutOffs' = cutOffs + 1
        /\ ScanEnds(s)
        /\ disturbed' = TRUE
        /\ UNCHANGED <<row, today, mail, syncs, patches>>
    BY DEF ScanCutOff
  <1>2. ReminderTypes'
    <2>1. cutOffs' \in 0..MaxCutOffs
      BY <1>t, <1>1 DEF ReminderTypes, ObligationAssumption
    <2>2. QED
      BY <1>t, <1>1, <2>1, EndedScan DEF ReminderTypes, syncs, patches
  <1>3. \A t \in Scanner : Loads(t)'
    <2>1. Loads(s)'
      BY <1>t, <1>1, EndedScan DEF Loads
    <2>2. ASSUME NEW t \in Scanner \ {s} PROVE Loads(t)'
      <3>1. /\ stage'[t] = stage[t] /\ began'[t] = began[t] /\ loaded'[t] = loaded[t]
            /\ todo'[t] = todo[t] /\ marked'[t] = marked[t]
        BY <1>t, <1>1, EndedScan
      <3>2. QED
        BY <1>t, <1>1, <3>1 DEF Loads
    <2>3. QED
      BY <2>1, <2>2
  <1>4. \A p \in Patch : Edits(p)'
    BY <1>1 DEF ReminderInv, Edits, patches
  <1>5. disturbed' /\ OneReminderPerCooldown'
    BY <1>1 DEF OneReminderPerCooldown
  <1>6. QED
    BY <1>2, <1>3, <1>4, <1>5 DEF ReminderInv

\* A write that leaves the rows that there are, and what they say of the last
\* reminder, keeps the invariant: syncs and edits.
LEMMA RowsKeep ==
    ASSUME ReminderInv, ReminderTypes', \A p \in Patch : Edits(p)', UNCHANGED scans,
           \A k \in Present : row'[k] # NoRow /\ row'[k].notified = row[k].notified
    PROVE  ReminderInv'
  <1>t. ReminderTypes /\ \A s \in Scanner : Loads(s)
    BY DEF ReminderInv
  <1>1. UNCHANGED <<stage, began, loaded, todo, marked, mail, disturbed>>
    BY DEF scans
  <1>2. \A k \in Key : row[k] # NoRow => row'[k] # NoRow /\ row'[k].notified = row[k].notified
    BY DEF Present
  <1>3. \A s \in Scanner : Loads(s)'
    BY <1>t, <1>1, <1>2 DEF Loads
  <1>4. ASSUME ~disturbed' PROVE InTurnScans'
    <2>1. InTurnScans
      BY <1>1, <1>4 DEF ReminderInv
    <2>2. \A s \in Scanner : LoadsLast(s)'
      BY <1>t, <1>1, <1>2, <2>1 DEF InTurnScans, LoadsLast, Loads
    <2>3. \A k \in Key, d \in Days : SentBy(k, d) => SentBy(k, d)'
      BY <1>1, <1>2 DEF SentBy
    <2>4. QED
      BY <1>1, <2>1, <2>2, <2>3 DEF InTurnScans
  <1>5. OneReminderPerCooldown'
    BY <1>1 DEF ReminderInv, OneReminderPerCooldown
  <1>6. QED
    BY <1>3, <1>4, <1>5 DEF ReminderInv

LEMMA SyncKeeps ==
    ASSUME ObligationAssumption, ReminderInv, NEW y \in Sync, SyncStep(y)
    PROVE  ReminderInv'
  <1>t. ReminderTypes /\ \A p \in Patch : Edits(p)
    BY DEF ReminderInv
  <1>p. Present \in SUBSET Key
    BY DEF Present
  <1>1. CASE SyncReads(y) \/ SyncRetried(y)
    <2>1. /\ UNCHANGED <<row, today, scans, patches, cutOffs>>
          /\ \E w \in {"queued", "write"} : sync' = [sync EXCEPT ![y] = w]
          /\ \E e \in SUBSET Key : existing' = [existing EXCEPT ![y] = e]
      BY <1>1, <1>p DEF SyncReads, SyncRetried
    <2>2. sync' \in [Sync -> {"queued", "write", "done"}] /\ existing' \in [Sync -> SUBSET Key]
      BY <1>t, <2>1 DEF ReminderTypes
    <2>3. ReminderTypes'
      BY <1>t, <2>1, <2>2 DEF ReminderTypes, scans, patches
    <2>4. \A p \in Patch : Edits(p)'
      BY <1>t, <2>1 DEF Edits, patches
    <2>5. QED
      BY <2>1, <2>3, <2>4, ReminderFrame DEF scans
  <1>2. CASE SyncWrites(y)
    <2>1. /\ \A d \in New(y) : d.key \notin Present
          /\ row' = [k \in Key |->
                        IF \E d \in New(y) : d.key = k
                        THEN [status |-> "upcoming",
                              due |-> today + (CHOOSE d \in New(y) : d.key = k).days,
                              notified |-> Never]
                        ELSE row[k]]
          /\ sync' = [sync EXCEPT ![y] = "done"]
          /\ existing' = [existing EXCEPT ![y] = {}]
          /\ UNCHANGED <<today, scans, patches, cutOffs>>
      BY <1>2 DEF SyncWrites, KeyTaken, Refreshed
    <2>2. \A d \in New(y) : d.days \in Nat
      BY DerivedTyped DEF New
    <2> DEFINE fresh(k) == [status |-> "upcoming",
                            due |-> today + (CHOOSE d \in New(y) : d.key = k).days,
                            notified |-> Never]
    <2>3. ASSUME NEW k \in Key, \E d \in New(y) : d.key = k
          PROVE  fresh(k) \in Row
      <3>1. (CHOOSE d \in New(y) : d.key = k) \in New(y)
        BY <2>3
      <3>2. today \in Nat
        BY <1>t DEF ReminderTypes, Days
      <3>3. today + (CHOOSE d \in New(y) : d.key = k).days \in Nat
        BY <2>2, <3>1, <3>2
      <3>4. QED
        BY <3>3 DEF Row, Status
    <2>4. \A k \in Key : row'[k] = IF \E d \in New(y) : d.key = k THEN fresh(k) ELSE row[k]
      BY <2>1
    <2> HIDE DEF fresh
    <2>5. row' \in [Key -> Row \cup {NoRow}]
      <3>1. row' = [k \in Key |-> row'[k]]
        BY <2>1
      <3>2. ASSUME NEW k \in Key PROVE row'[k] \in Row \cup {NoRow}
        <4>1. row'[k] = row[k] \/ ((\E d \in New(y) : d.key = k) /\ row'[k] = fresh(k))
          BY <2>4
        <4>2. row[k] \in Row \cup {NoRow}
          BY <1>t DEF ReminderTypes
        <4>3. QED
          BY <2>3, <4>1, <4>2
      <3>3. QED
        BY <3>1, <3>2
    <2>6. sync' \in [Sync -> {"queued", "write", "done"}] /\ existing' \in [Sync -> SUBSET Key]
      BY <1>t, <2>1 DEF ReminderTypes
    <2>7. ReminderTypes'
      BY <1>t, <2>1, <2>5, <2>6 DEF ReminderTypes, scans, patches
    <2>8. \A k \in Present : row'[k] = row[k] /\ row'[k] # NoRow
      BY <2>1, <2>4 DEF Present
    <2>9. \A p \in Patch : Edits(p)'
      <3>1. \A p \in Patch : Wanted[p].key \in Key
        BY DEF ObligationAssumption
      <3>2. QED
        BY <1>t, <2>1, <2>8, <3>1 DEF Edits, patches, Present
    <2>10. QED
      BY <2>1, <2>7, <2>8, <2>9, RowsKeep
  <1>3. QED
    BY <1>1, <1>2 DEF SyncStep

\* An edit writes a column's own value, the wanted one or the one that is there.
LEMMA PatchKeeps ==
    ASSUME ObligationAssumption, ReminderInv, NEW p \in Patch, PatchStep(p)
    PROVE  ReminderInv'
  <1> DEFINE k == Wanted[p].key
  <1>t. ReminderTypes /\ \A q \in Patch : Edits(q)
    BY DEF ReminderInv
  <1>k. /\ k \in Key /\ Wanted[p].status \in Status \cup {Keep}
        /\ Wanted[p].due = Keep \/ Wanted[p].due \in Nat
    BY DEF ObligationAssumption
  <1>1. CASE PatchReads(p)
    <2>1. /\ row[k] # NoRow
          /\ before' = [before EXCEPT ![p] = row[k]]
          /\ patch' = [patch EXCEPT ![p] = "write"]
          /\ UNCHANGED <<row, today, scans, syncs, cutOffs>>
      BY <1>1 DEF PatchReads
    <2>2. before' \in [Patch -> Row \cup {NoRow}] /\ patch' \in [Patch -> {"asked", "write", "done"}]
      <3>1. row[k] \in Row
        BY <1>t, <1>k, <2>1 DEF ReminderTypes
      <3>2. QED
        BY <1>t, <2>1, <3>1 DEF ReminderTypes
    <2>3. ReminderTypes'
      BY <1>t, <2>1, <2>2 DEF ReminderTypes, scans, syncs
    <2>4. \A q \in Patch : Edits(q)'
      BY <1>t, <2>1 DEF Edits, ReminderTypes
    <2>5. QED
      BY <2>1, <2>3, <2>4, ReminderFrame DEF scans
  <1>2. CASE PatchWrites(p)
    <2> DEFINE st == Column(before[p].status, Wanted[p].status, row[k].status)
               du == Column(before[p].due, Wanted[p].due, row[k].due)
               r == [row[k] EXCEPT !.status = st, !.due = du]
    <2>1. /\ patch[p] = "write"
          /\ row' = [row EXCEPT ![k] = r]
          /\ patch' = [patch EXCEPT ![p] = "done"]
          /\ before' = [before EXCEPT ![p] = NoRow]
          /\ UNCHANGED <<today, scans, syncs, cutOffs>>
      BY <1>2 DEF PatchWrites
    <2>2. row[k] \in Row
      BY <1>t, <1>k, <2>1 DEF ReminderTypes, Edits
    <2>3. st \in Status /\ du \in Nat
      BY <1>k, <2>2, RowFields DEF Column
    <2> HIDE DEF st, du
    <2>4. r \in Row /\ r.notified = row[k].notified
      BY <2>2, <2>3 DEF Row
    <2>5. row' \in [Key -> Row \cup {NoRow}] /\ row'[k] = r /\ \A j \in Key \ {k} : row'[j] = row[j]
      <3> HIDE DEF r
      <3>1. QED
        BY <1>t, <1>k, <2>1, <2>4 DEF ReminderTypes
    <2>6. r # NoRow
      BY <2>4 DEF ObligationAssumption
    <2> HIDE DEF r
    <2>7. \A j \in Key : row[j] # NoRow => row'[j] # NoRow /\ row'[j].notified = row[j].notified
      BY <2>4, <2>5, <2>6
    <2>8. patch' \in [Patch -> {"asked", "write", "done"}] /\ before' \in [Patch -> Row \cup {NoRow}]
      BY <1>t, <2>1 DEF ReminderTypes
    <2>9. ReminderTypes'
      BY <1>t, <2>1, <2>5, <2>8 DEF ReminderTypes, scans, syncs
    <2>10. \A q \in Patch : Edits(q)'
      <3>1. \A q \in Patch : Wanted[q].key \in Key
        BY DEF ObligationAssumption
      <3>2. \A q \in Patch \ {p} : patch'[q] = patch[q] /\ before'[q] = before[q]
        BY <1>t, <2>1 DEF ReminderTypes
      <3>3. patch'[p] = "done"
        BY <1>t, <2>1 DEF ReminderTypes
      <3>4. QED
        BY <1>t, <2>7, <3>1, <3>2, <3>3 DEF Edits
    <2>11. QED
      BY <2>1, <2>7, <2>9, <2>10, RowsKeep DEF Present
  <1>3. QED
    BY <1>1, <1>2 DEF PatchStep

LEMMA ReminderStep ==
    ObligationAssumption /\ ReminderInv /\ [ObligationNext]_obligationVars => ReminderInv'
  <1> SUFFICES ASSUME ObligationAssumption, ReminderInv, [ObligationNext]_obligationVars
               PROVE  ReminderInv'
    OBVIOUS
  <1>t. ReminderTypes /\ \A p \in Patch : Edits(p)
    BY DEF ReminderInv
  <1>1. ASSUME NEW s \in Scanner, ScanStep(s) \/ ScanCutOff(s) PROVE ReminderInv'
    BY <1>1, BeginsKeeps, CommitsKeeps, PassOverKeeps, RemindKeeps, CutOffKeeps DEF ScanStep
  <1>2. CASE Midnight
    <2>1. today' \in Days
      BY <1>2, <1>t DEF Midnight, ReminderTypes, Days, ObligationAssumption
    <2>2. UNCHANGED <<row, scans, syncs, patches, cutOffs>>
      BY <1>2 DEF Midnight
    <2>3. ReminderTypes' /\ \A p \in Patch : Edits(p)'
      BY <1>t, <2>1, <2>2 DEF ReminderTypes, Edits, scans, syncs, patches
    <2>4. QED
      BY <2>2, <2>3, ReminderFrame DEF scans
  <1>3. CASE UNCHANGED obligationVars
    <2>1. UNCHANGED <<row, today, scans, syncs, patches, cutOffs>>
      BY <1>3 DEF obligationVars
    <2>2. ReminderTypes' /\ \A p \in Patch : Edits(p)'
      BY <1>t, <2>1 DEF ReminderTypes, Edits, scans, syncs, patches
    <2>3. QED
      BY <2>1, <2>2, ReminderFrame DEF scans
  <1>4. QED
    BY <1>1, <1>2, <1>3, SyncKeeps, PatchKeeps DEF ObligationNext, NothingDue

-----------------------------------------------------------------------------
\* ObligationScan: the theorems

\* Every reachable state keeps the invariant.
THEOREM RemindersKeepInv == ObligationSpec => []ReminderInv
  <1>1. ObligationInit => ReminderInv
    BY ReminderInit, ObligationAssumption
  <1>2. ReminderInv /\ [ObligationNext]_obligationVars => ReminderInv'
    BY ReminderStep, ObligationAssumption
  <1>3. QED
    BY <1>1, <1>2, PTL DEF ObligationSpec

\* Every variable has its type (ObligationTypeOK).
THEOREM ObligationTypesCorrect == ObligationSpec => []ObligationTypeOK
  <1>1. ReminderInv => ObligationTypeOK
    <2> SUFFICES ASSUME ReminderInv PROVE ObligationTypeOK
      OBVIOUS
    <2>1. ReminderTypes
      BY DEF ReminderInv
    <2>2. \A k \in Present : row[k] \in Row
      BY <2>1 DEF ReminderTypes, Present
    <2>3. \A s \in Scanner : todo[s] \cup marked[s] \subseteq {k \in Key : loaded[s][k] # NoRow}
      BY <2>1 DEF ReminderInv, Loads, ReminderTypes
    <2>4. \A s \in Scanner : \A k \in marked[s] : mail[k][began[s]] > 0
      BY DEF ReminderInv, Loads
    <2>5. QED
      BY <2>1, <2>2, <2>3, <2>4 DEF ObligationTypeOK, ReminderTypes
  <1>2. QED
    BY <1>1, RemindersKeepInv, PTL

\* The cooldown of last_notified_at: while scans follow one another and come to
\* their end, no two reminders of an obligation are closer than the cooldown,
\* whatever the syncs and the owner's edits do (OneReminderPerCooldown).
THEOREM RemindersKeepCooldown == ObligationSpec => []OneReminderPerCooldown
  <1>1. ReminderInv => OneReminderPerCooldown
    BY DEF ReminderInv
  <1>2. QED
    BY <1>1, RemindersKeepInv, PTL

\* A step that opens a closed row is an edit that asked for it, or the end of a
\* scan that had loaded the row before it was closed.
LEMMA OpensClosed ==
    ASSUME ReminderInv, ObligationNext, NEW k \in Present,
           row[k].status \in Frozen, row'[k].status \notin Frozen
    PROVE  \/ \E p \in Patch : /\ patch[p] = "write" /\ patch'[p] = "done"
                               /\ Wanted[p].key = k /\ Wanted[p].status = row'[k].status
           \/ \E s \in Scanner : /\ stage[s] = "scanning" /\ stage'[s] = "idle"
                                 /\ loaded[s][k] # NoRow
                                 /\ loaded[s][k].status \notin Frozen
  <1>t. /\ ReminderTypes /\ k \in Key /\ row[k] # NoRow /\ row[k] \in Row
    BY DEF ReminderInv, ReminderTypes, Present
  <1>1. row'[k] # row[k]
    OBVIOUS
  <1>2. CASE \E s \in Scanner : ScanCommits(s)
    <2>1. PICK s \in Scanner : ScanCommits(s)
      BY <1>2
    <2>2. stage[s] = "scanning" /\ stage'[s] = "idle" /\ row'[k] = Scanned(s, k)
      BY <1>t, <2>1 DEF ScanCommits, ScanEnds, ReminderTypes
    <2>3. loaded[s][k] # NoRow
      BY <1>1, <2>2 DEF Scanned
    <2>4. loaded[s][k].status \notin Frozen
      BY <1>t, <2>3 DEF ReminderInv, Loads
    <2>5. QED
      BY <2>2, <2>3, <2>4
  <1>3. CASE \E p \in Patch : PatchWrites(p)
    <2>1. PICK p \in Patch : PatchWrites(p)
      BY <1>3
    <2> DEFINE key == Wanted[p].key
               st == Column(before[p].status, Wanted[p].status, row[key].status)
               du == Column(before[p].due, Wanted[p].due, row[key].due)
    <2>2. /\ patch[p] = "write"
          /\ row' = [row EXCEPT ![key] = [row[key] EXCEPT !.status = st, !.due = du]]
          /\ patch' = [patch EXCEPT ![p] = "done"]
      BY <2>1 DEF PatchWrites
    <2>3. patch'[p] = "done"
      BY <1>t, <2>2 DEF ReminderTypes
    <2> HIDE DEF du
    <2>4. key = k
      <3> HIDE DEF st
      <3>1. QED
        BY <1>t, <1>1, <2>2 DEF ReminderTypes
    <2>5. row'[k].status = st
      <3>1. row'[k] = [row[k] EXCEPT !.status = st, !.due = du]
        <4> HIDE DEF st
        <4>1. QED
          BY <1>t, <2>2, <2>4 DEF ReminderTypes
      <3> HIDE DEF st
      <3>2. QED
        BY <1>t, <3>1 DEF Row
    <2>6. st = row[k].status \/ st = Wanted[p].status
      BY <2>4 DEF Column
    <2> HIDE DEF st, key
    <2>7. Wanted[p].status = row'[k].status
      BY <2>5, <2>6
    <2>8. QED
      BY <2>2, <2>3, <2>4, <2>7 DEF key
  <1>4. CASE \E y \in Sync : SyncWrites(y)
    <2>1. PICK y \in Sync : SyncWrites(y)
      BY <1>4
    <2>2. row'[k] = row[k]
      BY <1>t, <2>1 DEF SyncWrites, KeyTaken, Refreshed, Present
    <2>3. QED
      BY <1>1, <2>2
  <1>5. CASE UNCHANGED row
    BY <1>1, <1>5
  <1>6. QED
    BY <1>2, <1>3, <1>4, <1>5
    DEF ObligationNext, ScanStep, SyncStep, PatchStep, NothingDue, obligationVars,
        ScanBegins, ScanCutOff, PassOver, Remind, SyncReads, SyncRetried, PatchReads, Midnight

\* What the owner closed stays closed, until the owner gives it another status or
\* the end of a scan that had loaded it before writes over it (ClosedStaysClosed).
THEOREM ClosedStays == ObligationSpec => ClosedStaysClosed
  <1> DEFINE A == \A k \in Present :
          row[k].status \in Frozen /\ row'[k].status \notin Frozen
              => \/ \E p \in Patch : /\ patch[p] = "write" /\ patch'[p] = "done"
                                     /\ Wanted[p].key = k /\ Wanted[p].status = row'[k].status
                 \/ \E s \in Scanner : /\ stage[s] = "scanning" /\ stage'[s] = "idle"
                                       /\ loaded[s][k] # NoRow
                                       /\ loaded[s][k].status \notin Frozen
  <1>1. ReminderInv /\ ObligationNext => A
    BY OpensClosed
  <1>2. ReminderInv /\ [ObligationNext]_obligationVars => [A]_obligationVars
    BY <1>1
  <1> HIDE DEF A
  <1>3. ObligationSpec => [][A]_obligationVars
    BY <1>2, RemindersKeepInv, PTL DEF ObligationSpec
  <1>4. QED
    BY <1>3 DEF ClosedStaysClosed, A
=============================================================================
