# A verification project for Handled / CaptureOS

TLA+ models of the parts of `apps/api/captureos` whose correctness depends on what
interleaves, fails or arrives twice, the TLC runs that check them and TLAPS proofs of
their main properties. `PROJECT.json` lists components, runs, hazards and theorems, and
for every definition the source lines it stands for. Paths below are relative to
`src/apps/api/captureos` unless they begin with `src/`.

## 1. The system

One FastAPI process serves requests; worker processes drain a job queue and a scheduler
sweeps the sources of a shared corpus; everything but the scheduler's clock file is kept in
PostgreSQL (READ COMMITTED) through an async SQLAlchemy session with `autoflush=False`.
Three facts shape every module:

- a request's session commits after the response has been produced and its background tasks
  have run (`db/session.py`, `get_session`), a worker's when its block ends (`session_scope`);
- the ORM writes only the columns whose value differs from what the session loaded, so a
  write based on a stale row may do nothing, or undo another's write;
- a run is one transaction. A step that raises marks it failed and what it had written is
  *committed* (`workflows/engine.py:113-128`); an error of the database, or a dead worker,
  rolls everything back and the queue tries again.

| Component | State | Operations | Interacts with | What is hard | What makes it correct |
|---|---|---|---|---|---|
| Job queue, worker loop (`workflows/queue.py`, `worker/main.py`, `workflows/dispatch.py`) | `workflow_jobs` | enqueue, claim, reap, drain, settle, retry | runner, every dispatching API | claims that outlive the reaper's timeout, crashes between three transactions | every job is settled; nothing is marked done early or executed by two at once |
| Runner, engine (`workflows/runner.py`, `engine.py`) | `workflow_runs`, `workflow_steps` | lock, skip, execute steps, record failure | queue, all pipelines | row lock held over provider calls; one transaction over all steps | a run settles once, with the rows that explain it |
| Spend authorization (`services/spend.py`, `api/spend_webhooks.py`) | `spend_authorizations`, `spend_budgets`, `spend_merchant_rules` | decide a charge, tell the cardholder, translate a budget | card network (webhook) | concurrent swipes, repeated delivery, edits during a decision, midnight | no budget is exceeded; one verdict per charge, and one message |
| Billing (`services/billing.py`, `api/billing.py`, `providers/billing.py`) | `entitlements`, `subscriptions`, `organizations.plan`, revenue events, `billing_events` | checkout, update, unpaid, cancel, gate | Stripe (webhook, at least once) | duplicates and different events at once, unique constraints as arbiters, unknown statuses and prices | no payment dropped, no event applied twice, no gate opened unpaid |
| Filings (`api/filings.py`, `services/approvals.py`, `packaging.py`, `recommendation.py`) | `filings.status`, `recommendations`, `generated_documents`, `approvals` | review, recommend, build, approve, reject, export | queue (every run), people, evidence | people decide while runs rewrite what they decide about | CON-1 and CON-2: what leaves was checked and approved |
| Requirements and the filing page (`services/filings.py`, `agents/requirements.py`, `api/filings.py`, `services/compliance.py`) | `filing_requirements` | extract, park, judge, show | queue, evidence | extractions and mappings that overlap or fail midway; a page of several statements | nothing extracted is lost or repeated, the parts of the page agree |
| Documents and profile (`api/documents.py`, `ingestion/*`, `services/company_brain.py`, `onboarding.py`, `api/company_profile.py`) | `documents`, `document_chunks`, `sources`, `company_profiles`, storage | upload, paste, ingest, build the brain, edit | storage, agents, evidence | equal contents in flight, retries, owner against agent | a content is chunked once and citable; what the owner set stays |
| Evidence, gaps, citations (`services/evidence.py`, `gaps.py`, `company_brain.py`, `packaging.py`) | `evidence_items`, `evidence_matches` | acquire, map, resolve a gap, replace, cite, check | documents, filings, packages | delete-and-insert by concurrent runs; `ON DELETE SET NULL` | no claim without cited evidence |
| Opportunities (`services/scan.py`, `programs.py`, `discovery.py`, `agents/opportunity.py`, `grant.py`, `program_finder.py`) | `opportunities` | scan, score, find programs, retract, start a filing | sources, agents, filings | no unique key on what is found; cascades to filings | a find is stored once, scored, and not taken from under a filing, nor away because the company states more |
| Payment guardrails (`api/guardrails.py`, `guardrails/evaluation_engine.py`) | accounts, policies, payment events, approvals | extract policies, evaluate, approve | provider, reviewers | duplicates, two reviewers, constraints that only migrations create | one event per payment, one decision, every standing rule obeyed |
| Obligations (`services/obligations.py`, `api/obligations.py`) | `obligations` | derive, scan, remind, edit | notifications, worker loop | concurrent scans, one failing send | a reminder once per cooldown, what is closed stays closed |
| Corpus (`corpus/*`, `services/corpus.py`, `corpus_discovery.py`) | `corpus_documents`, chunks, clock file | sweep, ingest, version, embed, discover | outside sources, agents | dying between fetch and clock; two processes on one document; sources that show a part of what they have | nothing missed that a source goes on offering, history only added to |
| Agents (`agents/base.py`, `audit/service.py`) | `agent_runs`, audit trail, a run's totals | call, validate, retry, record | language model | accounting of failed attempts | the budget bounds what is recorded, the trail tells the rest |
| Rate limiter, auth, forms, copilot, dashboards, providers | – | reads, plain inserts, I/O | – | – | not protocol state |

## 2. Plan

1. **Done.** `RunLifecycle`, `WorkflowQueue`: everything asynchronous goes through them, and
   the other modules assume what they show (a run executes once at a time, in one
   transaction, and is repeated after a roll-back).
2. **Done.** `SpendAuthorization`, 3. `Billing`: money.
4. **Done.** `FilingLifecycle`: the human gates.
5. **Done.** `DocumentIngestion`, `CompanyProfile`, composed by `EvidenceMapping`, which
   `PackageCitations` extends: from an upload to an approved citation, in one state space.
6. **Done.** `RequirementTracking`. 7. **Done.** `PaymentGuardrails`. 8. **Done.**
   `ObligationScan`. 9. **Done.** `CorpusSync`, which implements `VersionedStore`.
10. **Done.** `MatchScoring` (operators), used by `OpportunityScan`. 11. **Done.** `AgentRun`.

The proofs cover every safety property of the runs. What is left is the part of the spend
budgets that no request waits for, and the modules section 7 leaves out.

## 3. The modules

Each `MC` module holds the values a `.cfg` gives the constants of the module it extends;
`AgentRun`, whose constants are numbers, needs none. Where one proof module is about two
components, the second names its specification after itself, so that both can be extended:
`AgentSpec` beside `SpendAuthorization`, `ObligationSpec` beside `WorkflowQueue`,
`OpportunitySpec` beside `FilingLifecycle`.
Operators marked "a seeded defect" are plausible mistakes in the operator below them; they
are used nowhere and serve to show that a property notices them.

### RunLifecycle, WorkflowQueue

`RunLifecycle` is what a client polling a run may rely on: it is queued once and settles at
most once, in one step together with the step rows that explain the outcome.

`WorkflowQueue` has the committed rows `run`, `steps`, `job`, the run row's `lock`
(`SELECT ... FOR UPDATE` in `execute_workflow_run`), and for each process where it is (`pc`,
`at`, `tries`: the attempts it claimed with) and its uncommitted work (`next`, `rows`,
`outcome`). Processes are workers, which reap and drain for ever, and inline drains, which
process at most `MaxJobs` jobs. An action per step: `Dispatch`; `Reap`, `Claim`, `DrainEnds`;
`StartPipeline`, `BuildFails`, `SkipTerminal`; `StepDone`, `StepNeedsInput`, `StepFails`,
`StepBreaksSession`; `Commit`, `CommitFails`; `Finish`, `FinishFails`; `Handle`, `HandleFails`;
`Crash`; `ClaimExpires` and `ClaimOverruns` for the 300 seconds. A step's work is invisible
until `Commit`. `calls` counts executions of a step and exists for the properties only.
Abstracted: audit events, the content of params and results. `_finish_job` and `_retry_job`
read and write the job in one step: both happen in one short transaction.

### SpendAuthorization

`authz`, `budget`, `rules` are the tables; `lock` the budget rows locked by `_evaluate`.
A delivery goes through `Receive`, `LoadDeclines` or `LoadBudget` (rules, pick, limit and
interval are those seen *here*), `LockAndTotal` (waits for the row, totals with the clock of
*now*), `Insert` or `InsertDuplicate` (waits for the unique key's open transaction),
`SendAnswer`, `Notify` (the decline SMS, a background task that leaves before the commit),
`Commit`; `FailClosed` and `Crash` are the ways out. `EditReads`, `EditWrites`, `EditFails`
are `apply_budget_translation`. `Midnight` advances the clock. Case folding is the constant
`Fold`; the total compares unfolded spellings, as the code does. `Crews` says which deliveries
and edits take part in a behaviour, so that one run holds races of deliveries and chains of
edits without their product. Abstracted: amounts are small numbers, cardholders and cards are
given, an edit concerns one budget and at most one rule; what a model translates a text to is
an edit's input.

### Billing

`ent`, `mirror` (one slot per delivery that might insert one: the table has no unique
constraint), `plan`, `revenue`, `ledger` are the tables of one organization; `writer` is the
delivery holding row locks between its flush and its commit. `Parsed` turns a raw event
(`Raw`: statuses and prices the code may not know) into what the handlers see. A delivery is
`Replay`, `Ignore` or `Check`, then `Load` or `LoadRefused`, then `Flush`, `FlushDuplicate` or
`FlushRaises`, then `Commit`; `Fails` and `CommitLost` are errors before and after the answer,
`Redeliver` is the provider's repetition of what was answered with an error. `GateOpen` is
`assert_entitled`. Abstracted: amounts, periods and customer ids; checkout URLs.

### FilingLifecycle

`status`, `rec`, `docs` are the filing's rows; `docs[v]` stands for the documents of version v
and says who built it, whether all stood the citation check and whether they were marked
ready. `seenStatus`, `seenRec`, `seenLatest` are what a session has loaded. A run is
`Dispatch`ed (the only place where status is asked), `Load`s the filing, `Read`s what it
depends on after its agent answered, and ends with `Review`, `Recommend`, `Build` or
`BuildUnchecked` (the second step raises, and the engine commits what the first wrote), or
`Collide`s, fails (`StepFails`) or is rolled back (`Fault`). A decision `Load`s and `Read`s
too and ends with `DecideRecommendation`, `ApprovePackage`, `ApproveRefused` or
`RejectPackage`. `ExportChecks` and `ExportServes` are the two reads of an export. A write and
its commit are one step: the row lock between them delays others and nothing reads in between
what it could not read before.

### DocumentIngestion, CompanyProfile, EvidenceMapping, PackageCitations

`DocumentIngestion`: `docs` with hash, parse status and the text of their chunks, `blob` the
storage. An upload or paste makes a document and a run; a run parses the text, asks whether a
*committed* parsed document has the same hash (`Holders`), and stores chunks or marks a
duplicate. Texts are model values, some of which give no chunk (`Blank`). `torn` records the
documents that counted as parsed with the hash of a text but not its chunks (`Tears`).

`CompanyProfile`: one row and three kinds of writers that `Load`, `Send` and `Store` it. A
field's value is known by who set it; `overrides` are the keys the owner set.

`EvidenceMapping` composes both: `items` are evidence, known by who inserted it and from which
document; `matches` the verdicts. A mapping run acquires chunks (`Acquirable`), loads
requirements and evidence (`MapBegins`), erases the filing's matches (`MapErases`), judges
each requirement with an agent whose answer is degraded when it names nothing known and is
stored as given otherwise, whatever status it has (`Verdict`; `Answers` are statuses, `other`
stands for those the code does not know), and commits; a gap resolution adds the owner's
evidence and erases the requirement's verdicts (`GapErases`); a brain run replaces what is
inferred, which unlinks the matches that cite it. A `DELETE` takes what it saw when it began
(`sought`), waits for whoever has it locked, and leaves what was committed meanwhile. `crew`
is who takes part.

`PackageCitations` extends it by builds (matrix, join with the items still there, narrative,
citation check) and `Approve`, at READ COMMITTED, statement by statement.

### RequirementTracking

`rows` and `matches` of one filing, runs that `Extract` and `Match`, and a `View` that reads
page, matrix and verdicts in three statements. A text is compared by `Key`, the normalized
80-character prefix; the mock extractor's sentences have a cue, a heading and a length class.
A mapping loads the requirements, then erases what its `DELETE` sees (`Erases`, `EraseEnds`),
then judges what it loaded; any number of mappings may be at work, and `joint` is which have
been at once. A match is known by its row and its mapping, and the page shows one per row
(`Shown`), the last it meets in an order the query leaves open. A verdict may be any status, and
the `Summary` counts those the code does not know too. That a gap resolution replaces a row's
verdicts is in `EvidenceMapping` and not here.

### OpportunityScan, MatchScoring

`rows` are opportunities, known by the run that inserted them and their external id (nothing
in the schema keeps the external id unique), `own` and `update` what a run has not committed.
A scan finds, researches and scores; the program finder checks the catalogue, writes, and
deletes what no longer qualifies and has no filing; `Filer` starts filings. `overlap` records
the ids that two runs under way may both come upon (`Sought`), `unseen` the filings committed
after a finder had looked. `MatchScoring` has the points of the offline agents for contracts,
grants and programs and the advice of the recommendation. A text of the profile is reduced to the
phrases that occur in it; the grant agent looks for them in industry and services (`Focus`), the
program finder in services, codes and the description or, if that is blank, the capability
statement (`Haystack`). A profile that states all that another states `Extends` it; it `Displaces`
the other's statement if it has a description and the other had none.

### PaymentGuardrails

`policies`, `events`, `approvals` are the tables; `schema` says whether they come from the
models or the migrations, which differ in constraints. An evaluation is received, loads and
decides (`Evaluate`: conditions, operators with a missing or unlike value, precedence),
inserts or is refused, answers, commits. A review locks the event, answers, commits. Ids of
policies are chosen freely, since they break ties.

### ObligationScan

`row` with status, deadline and last reminder; a scan loads what is due, sends or passes over
one after the other, and commits (or is cut off: `ScanCutOff`, a failing send, an error or a
crash). A sync derives obligations from the profile; an edit reads and writes one. The clock
counts days.

### VersionedStore, CorpusSync

`VersionedStore` is the corpus's promise: versions are only added, and each differs from the
one before. `CorpusSync` has the sources (`Adapters`, the registry by kind, cadence and
jurisdiction), the clock file, the scheduler and an operator's commands as lists of tasks. A
transaction is a `draft`; a row somebody has written is locked, and the second insert of a
version label fails. `offered` is what the sources would deliver now: of the feed its newest
`PageSize` rules (`Page`; 20 in the code), of the others what has not been taken down.
`Publish` changes a text, `Issue` adds a rule, which may push another off the page, `Withdraw`
takes a document down; `Fetch` answers with what is offered or, disturbed, with a part of it.
A discovery run takes the page, plans with two agents under a token budget (`Triaged`,
`Proposed`) and fetches targets; `EmbedBatch` and `BatchStored` give vectors. Texts are
numbered as the adapter makes them: of a CFR section those are its first 50 000 characters.
`Crews` says which commands, issues and withdrawals happen in a behaviour.

### AgentRun

The responses of a run's agents (`billed`), `rows` of `agent_runs` in the run's transaction
and the audit `trail` in transactions of its own. A rejected response is retried, a run that
is over budget fails, one that is rolled back starts again.

## 4. The runs

All bounds are constants of the `.cfg`; the numbers are the distinct states of finished runs.

| Run | Instance | States | Holds |
|---|---|---|---|
| `queue` | One run of 2 steps, two workers and an inline drain, 2 attempts, 2 faults, 2 overruns. Three processes are enough for a late holder, the current one and a third claim; two attempts for a retry and a last one; two faults to fail both. | 428 692 | `SingleExecutor`, `DoneIsSettled`, `RepeatedOnlyByFaults`, `NothingToResume`, `EventuallySettled`; implements `RunLifecycle` |
| `spend` | Two charges against a daily limit one of them fills, one delivered twice, a midnight, two faults; edits to all-time, of the limit, of another budget and of rules. | 278 151 | `WithinLimit`, `ReplyIsRecorded`, `ToldOnceOfADecline` |
| `billing` | Six deliveries of four events, one of a status and price that are not known, one error or lost commit. | 183 218 | `NoRevenueDropped`, `AppliedOnce`, `GateIsPaid` |
| `filing` | A review, a recommendation, two builds, one decision on each topic, an export, one fault. Two builds are enough to compute the same version and to outdate an approval. | 408 000 | `TypeOK`, `OneVersionPerBuild`, `ReadyWasChecked`, `SerialGates` |
| `payments` | One payment sent twice, a rule of the account with a fragment and one of the organization at equal priority, two reviewers who disagree, one fault, both schemas. | 212 936 | `DecidedOnce`, `StandingRulesObeyed`, `OneEventPerPayment` |
| `payments_parked` | The same. | – | violated: `EscalationIsParked` |
| `obligations` | Two replicas that scan, two syncs, an owner who closes one of two obligations, two days within a cooldown of two, one fault (a failing send, a lost commit or a crash). Two scans overlap before either has marked a row, and a closing falls between a scan's read and its write. `MCObligationDays` has the day on which the cooldown ends. | 241 410 | `OneReminderPerCooldown`, `ClosedStaysClosed`, `DueIsReminded` |
| `corpus` | A weekly feed of two rules with room for one on its page and a publication swept quarterly that changes once; the scheduler, with a sync or embedding command beside it or with the second rule and a withdrawal to come; discovery with one target, one fault. | 463 309 | `ClockIsEarned`, `ChangesArrive`; implements `VersionedStore` (`LawIsVersioned`) |
| `scan` | Two runs (contracts, grants, programs in the combinations that meet), two notices in either order, a company that comes to state more and then fills in a blank description, a program it gains and loses by that, a filing, one fault. | 565 050 | `DuplicatesOnlyByOverlap`, `SucceededIsScored`, `FilingSurvives`, `KeptWhileStated` |
| `evidence` | Two documents of one text or none, three ingestions, two mappings whose agent may answer matched, user_provided or a status the code does not know, a gap, two brain runs, two edits, the wizard and a package, at most three of them at a time, one fault. | 1 291 879 | `ParsedIsCitedOnce`, `UncitedOnlyByReplacement`, `RepeatedOnlyByOverlap`, `ApprovedIsSupported`, `OwnerWins` |
| `agents` | Three calls of one or two tokens, budget 4, one retry, two executions, one lost event. | 1 272 896 | `TrailTellsAll`, `RecordedWithinBudget` |
| `requirements` | Two extractions, two mappings, a page, texts with a common prefix, an empty key and a missing solicitation, both providers, verdicts partial and unknown, one fault. Two mappings are enough for one to erase what the other has committed, or to leave it beside its own. | 1 417 528 | `RepeatedOnlyByOverlap`, `ExtractedIsKept`, `PageAgrees`, `VerdictsOnlyLostByFailure` |

What the properties mean in detail is said above each definition. Notes on some:

- `WithinLimit` compares with the highest limit a budget ever had, since an approval under a
  limit that is lowered later is no fault, and leaves out of a day's account a charge that
  waited for the lock over midnight: its row carries the day its transaction began, its
  verdict used the window of the next.
- `NothingToResume` says that the "already completed" branch of the engine never resumes
  anything: a retried run starts over, which is right, but not what the branch suggests.
- `SerialGates` is what the gates guarantee as long as no decision overlaps a run or another
  decision on the same topic; section 5 shows what happens otherwise.
- Several properties name the one way in which the bare promise fails: overlap of two runs
  (`RepeatedOnlyByOverlap`, `DuplicatesOnlyByOverlap`, `OneReminderPerCooldown`), replacement
  by the company brain (`UncitedOnlyByReplacement`), a filing committed after the finder had
  looked (`FilingSurvives`), an edit made while another writer had the row loaded
  (`OwnerWins`), a description in the place of a capability statement (`KeptWhileStated`),
  what a source no longer offers (`ChangesArrive`), mappings at work at once
  (`VerdictsOnlyLostByFailure`, `PageAgrees`). The history variable each needs is marked as
  such, and section 5 has the bare promise where the repository states it.
- `UncitedOnlyByReplacement` holds whatever status an agent answers, `user_provided` too: a
  rebuild unlinks an item for being inferred, and such an item only. What stays cited are the
  verdicts of gap resolutions (`OwnerStaysCited`), not what an agent says the owner supplied.
- `PageAgrees` does not say that the four known statuses add up to the rows: they need not
  (section 5).
- `KeptWhileStated` is about commits of the program finder and the rows committed by others; it
  compares with the profile whose score a row has, which may be older or newer than the one the
  finder has loaded.
- `StandingRulesObeyed` allows a rule stored during the evaluation to take precedence.
- `RecordedWithinBudget` bounds what `agent_runs` holds, not what the provider is paid for.

Every module's `TypeOK` was checked on the instance of its run; where it is not among the
run's properties, it is left out of the `.cfg` for brevity. Symmetry is used only where no
liveness is checked. Deadlock is checked in all runs but `evidence` and `agents`, whose
systems come to an end.

### Fairness

- `queue` (`FairSpec`): weak fairness of each process's `Progress` (its event loop goes on;
  provider calls have timeouts) and of `ClaimExpires` (time passes over the claim of a process
  that is gone). Faults, crashes and overruns are bounded, which is the assumption that they
  stop eventually; without it a claim that ends in a crash is requeued however often it was
  tried.
- `obligations`: weak fairness of scans (the worker loop never ends, `worker/main.py:22`) and
  of syncs (the queue retries them); not of edits, of midnight, nor of what cuts a scan off.
- `corpus`: weak fairness of a process that has work and of intervals passing; not of
  publications, issues, withdrawals or crashes.

The other runs check safety only.

### Further configurations

They are on disk for a reader who wants the counterexample, or a larger instance.

| Configuration | Shows |
|---|---|
| `MCWorkflowQueueLive` | `EventuallySettled` holds for two runs and two workers |
| `MCObligationDays` | The properties of `obligations` hold for a third day, with one sync (334 344 states) |
| `MCWorkflowQueueVisible` | `FailuresVisible` violated (section 5, 2) |
| `MCSpendSpelling` | `WithinLimit` violated (3) |
| `MCBillingRace`, `MCBillingCancel` | `AnsweredIsProcessed`, `CancelIsNotRefused` violated (4, 5) |
| `MCFilingExport`, `MCFilingGate` | `ExportIsApproved`, `BuiltAfterApproval` violated (6, 7) |
| `MCEvidenceCited`, `MCPackageStale` | `ClaimIsCited`, `ClaimsHoldAtApproval` violated (8, 9) |
| `MCCorpusOutage` | `OutageIsRetried` violated (10) |

`BilledWithinBudget` and `TrailCountsOnce` of `AgentRun` are violated too (11).

## 5. What the code does that its text does not say

Each of 1 to 11 has a counterexample; 1 is a run and quoted in `PROJECT.json`.

1. The approval row of an escalated payment takes `evt.id` before the event is flushed, so
   the row names no payment. In a migrated database the check constraint
   (`src/apps/api/migrations/versions/a3f9e8c21b47_guardrails_vertical.py:249-254`) refuses
   every escalation; in one made from the models the row is stored and never found again
   (`api/guardrails.py:328` against the comment at 323 and `models/guardrails.py:96-97`).
2. A job given up after errors that rolled back its run's transaction leaves the run `queued`
   for ever (`workflows/queue.py:94` against "Failures are always visible",
   `workflows/engine.py:4`).
3. A budget matches charges ignoring case and totals them by exact spelling
   (`services/spend.py:93`, `115`, against the promise at 295-299).
4. A subscription event that lost a race against *another* event is answered as processed
   (`services/billing.py:399`, against the comment at 400).
5. Two first events of an organization insert two mirror rows; from then on every event, the
   cancellation too, raises (`services/billing.py:173`, against 321).
6. An approval and an export read the latest version and the status at different moments; a
   rebuild in between puts an unapproved version behind the gate (`services/approvals.py:84`,
   `api/filings.py:320`, against 319).
7. Approving a recommendation, or rejecting a package, that does not exist makes a draft
   packageable (`services/approvals.py:52`, `86`, against `api/filings.py:287`).
8. A rebuild of the company brain deletes evidence that a filing's matches cite; the claim
   stays, its citation is gone (`services/company_brain.py:150-164`, `models/filings.py:99-103`,
   against "no claim-bearing row may exist without a cited evidence item",
   `src/apps/api/tests/test_evidence.py:72-75`).
9. The check of citations is not repeated at the approval: an approved package may cite
   evidence that was replaced since, and then resolves by the solicitation's source only
   (`services/packaging.py:259`, `services/approvals.py:55-56`).
10. A source that is unreachable yields no items and no error, so the cadence's clock moves
    and the outage is not retried until the next interval, against the comment at
    `corpus/schedule.py:165-168`.
11. The budget is compared after the call and counts recorded responses only: rejected
    attempts and executions that were rolled back are paid for and in no row, a run's totals
    are written only when it succeeds (`agents/base.py:128-156`), and a response whose event
    is emitted twice by a failure is counted twice in the trail.

Seen while modelling, without a property of their own:

- "SKIP LOCKED dedupes" (`worker/main.py:4`) is not true of the obligation scan, which takes
  no lock: two replicas send twice, and a failing send repeats those before it (26-27,
  `services/obligations.py:213-214`); and a scan that had loaded an obligation before its owner
  closed it undoes the closing (233). `notify_lead_days` can be edited and is read nowhere.
- Duplicate opportunities make every later scan that meets them fail (`scalar_one_or_none`);
  a finder can delete a program whose filing is not committed yet (`services/programs.py:96-97`).
- A deduplicated document has no `Source`, so evidence attached from it to a gap has none;
  a changed document fails on its chunks' ordinals when it is ingested again.
- A document gets its new hash before its new chunks are embedded (`ingestion/service.py:71-85`).
  If the embedding fails, the hash stays; if the document counts as parsed, from before or as
  a duplicate of yet another text later, documents of the failed text are then taken for its
  duplicates, and nothing of that text can be cited. It takes up to four ingestions, one more
  than the run has; the attempt to prove that parsed texts are citable found it.
- A mapping run that fails midway commits the deletion of the verdicts it was to renew. One
  that succeeds may take a verdict away too: it loads the requirements before it deletes the
  filing's matches (`services/evidence.py:122-127`), so a requirement that was extracted in
  between, and judged by another mapping, is left without one.
- A mapping's agent may answer with any status (`agents/matching.py:80`), which is stored as given
  if it names a known item (`services/evidence.py:146-171`). A requirement with an unknown status
  is neither met nor a gap, and in the summary under a key of its own
  (`services/compliance.py:75-83`, `services/packaging.py:39`, `services/recommendation.py:15`);
  an inferred item may count as the owner's; a status of more than 16 characters fails the flush
  and with it the whole run (`models/filings.py:105-106`).
- A build of the company brain that loaded the profile before its owner edited it may replace what
  the owner has set (`services/company_brain.py:102-119`).
- The program finder searches the description *or*, if that is blank, the capability statement
  (`services/programs.py:37`). A company that fills in a blank description, as it is told to
  ("Add detail to your Company Brain to sharpen this match", `agents/program_finder.py:118`), takes
  the statement's words away, and a program may lose its score and be deleted.
- The recommendation counts matched rows whose evidence was deleted; the package cannot cite
  them.
- An extraction parked for lack of a solicitation cannot be supplied with one: no endpoint
  sets `raw_text` (`services/filings.py:65-68`). The first extraction's mandatory flag stays,
  and texts that share an 80-character prefix are merged.
- The decline SMS leaves before the verdict is committed. `evaluated_at` and `resolved_at`
  are declared without a time zone (`models/guardrails.py:130-131`) and given aware values.
- A discovery run that keeps failing in the weekly cadence keeps monthly and quarterly sources
  from being recorded in the same tick; a rule that has left the feed is dropped silently
  (`services/corpus_discovery.py:485-487`).
- The feed is asked for its newest 20 rules (`corpus/adapters.py:62-75`) once a week: of more than
  20 in a week the oldest never reach the corpus, though no source failed. Nothing tells the
  corpus that a document is gone, so what was withdrawn or repealed stays the current law; and a
  change after the first 50 000 characters of a section (163) is no change.

## 6. The proofs

All theorems hold for every value of the constants that satisfies the named assumptions.

`WorkflowQueueProofs`, from `QueueAssumption` (finitely many runs, workers and drains
distinct, at least one step, attempt and job per drain):

- `TypeCorrect`, by the typing of every action and `ClaimOnRun` (whoever holds a claim holds
  it on a run, and a drain at its limit holds none).
- `OneExecutor`: `SingleExecutor` is not inductive. `Locking` is: whoever is inside a
  pipeline holds the run row's lock. A lock has one holder.
- `RetryStartsOver` and `EngineImplementsLifecycle`, from `SettleInv`: besides `Locking`,
  claims are of dispatched runs (`Dispatched`), an executor works on a run nobody has settled
  (`Unsettled`, which is what the terminal check under the lock buys), and the uncommitted
  rows are the prefix the engine writes (`TxnShape`), so that `Commit` is a `Settle` of
  `RunLifecycle` and every other step a `Queue` or a stutter.
- `DoneJobsAreSettled`, from `DoneInv`: who is about to mark a job done has seen its run
  settled, and settled runs stay so. It holds although a late holder's `Finish` writes over a
  newer claim.

`FilingLifecycleProofs`, from `FilingAssumption` (finitely many runs; runs, approvers and
exports distinct) and `NoDocsAssumption`:

- The inductive invariant `IInv` adds to `TypeOK` and `ReadyWasChecked` that a version
  somebody has read stays (`ReadStays`), that a ready or exported filing has a package
  (`ReadyHasPackage`), and that versions and finished builds correspond one to one
  (`VersionsOfBuilds`). Steps that leave the documents alone share one argument (`QuietSteps`).
- `BuildsHaveVersions`: the interesting lemma is `RoomForAVersion`. The versions up to the one
  a build has read were made by other builds, by an injection, so the next number exists.
- `ApprovedWasChecked` and `TypeCorrect` follow from the same invariant. `MaxIsGreatest` and
  `LatestExists` are the facts about `max(version)` they rest on; the maximum's existence is
  taken from the well-foundedness of strict inclusion of finite sets.

`PaymentGuardrailsProofs`, from `PaymentAssumption` (well-formed rules and a total `Norm`; ids
of policies are numbers, other ids are anything). Accounts, texts, payments and reviewers may
be infinitely many:

- `TypeCorrect`, from `TypeInv`: besides the types, stored rules are well-formed and who
  inserts has decided. It rests on `EvaluateFirst`, which says what `Evaluate` returns: of the
  matching rules one precedes all others (`FirstExists`: of the least priorities the least id,
  by the well-foundedness of the numbers), so its `CHOOSE` chooses something.
- `PaymentDecidedOnce`: `DecidedOnce` alone is not inductive. `ReviewInv` adds that a review in
  its transaction holds the row of a payment that is still held (`Deciding`), writes what it
  answered (`Answering`), and that a row is written at the end of an evaluation
  (`RowIsLast`), so no evaluation overwrites a decision.
- `PaymentRecordedOnce`, from `KeyInv`: of two evaluations of one payment at most one holds
  the index's key, inserted or committed.
- `RulesObeyed`, from `StandInv`: what stood is still stored and unchanged, since policies are
  only added, and what a decision cites is stored.

`WorkflowQueueProofs` also has `NoCallWasted` (`RepeatedOnlyByFaults`), from `CallsInv`: a step
was called at most as often as there were faults as long as a run is open and nobody executes
it, and while its executor has not come past the step; only then once more.

`FilingLifecycleProofs` also has `GatesHoldSerially` (`SerialGates`), from `SerialInv`: as long
as no decision has overlapped, whoever is at work on a topic has seen its approval if there is
one, and an approver has read the version or recommendation that is still the last
(`KnowsPackage`, `KnowsRecommendation`).

`BudgetProofs`, from `SpendAssumption` and `AgentAssumption`, is about both budgets, since both
rest on the laws of a total over a finite set, whatever order the community modules' fold takes
its members in. They are proved from the definition without induction over data: if a law is
false, one of the sets that break it is minimal (`MinimalSet`), and that one is refuted
(`SolutionExists`, `SolutionsAgree`, `TotalTakes`); `TotalAdds` is the law the rest cite.

- `RepliesAreRecorded` and `DeclinesToldOnce`, from `IInv`: one delivery of a charge at a time
  has inserted a row, and only if there was none (`OneInsert`); what it answers is its verdict
  (`Answered`); beyond the message of the verdict that is, or is about to be, recorded every
  message was followed by a fault (`Messages`).
- `LimitHolds`: whoever has approved against a total holds the budget's row (`Decided`), and
  what he is going to record still fits (`InTransit`): the recorded total and his amount are
  within the highest limit. Its hypothesis `OneSpelling` says that charges a budget matches
  are spelled like the budget; `MCSpendAuthorization` satisfies it, and in `MCSpendSpelling`,
  which does not, `WithinLimit` fails (section 5, 3).
- `ChargesAreAudited`: `TrailTellsAll` is inductive once responses are numbered by the order of
  their billing (`Numbered`): a step keeps the response in hand, emits its event or loses it.
- `BudgetHolds` (`RecordedWithinBudget`), from `BudgetInv`: an agent knows at least what the
  rows hold and the response in hand (`Charged`), a response in hand has no row yet
  (`Counters`), and only the row written by a run that fails for it may exceed the budget.

`BillingProofs`, from `BillingAssumption`: `EventsApplyOnce`, `PaymentsRecorded`,
`GateOpensPaid`. The invariant adds that a loaded row stays (`SeenExists`), that what was
flushed meets no constraint until it commits (`FlushedIsNew`, which the writer's lock gives),
that the ledger counts applications (`LedgerCounts`) and that what opens the gate came with
events that were applied (`EntIsPaid`). `TierOfPrices` says that the tier is the least of those
the prices name, which exists by the well-foundedness of the numbers.

`EvidenceProofs`, from the assumptions of `DocumentIngestion`, `CompanyProfile`,
`EvidenceMapping` and `PackageCitations`, about the composition `PackageSpec`, with any crews:

- `ParsedCitedOnce`, from `DocInv`: hashes are unique (`HashUnique`), what a run has flushed
  nobody else can have (`FlushedIsOwn`), chunks belong to the hash or the document is torn
  (`HashIsChunked`), and what counts as parsed was accepted for a text with chunks
  (`AcceptedIsCitable`).
- `OwnerKeepsWinning`, from `ProfileInv`: one writer at a time has sent its columns (`OneSends`),
  and a field the owner set is an override that no build at work sets (`OwnedIsKept`).
- `ClaimsStayCited` and `NothingRepeated`, from `EvidenceInv`: per run (`RunInv`), it writes its
  own items and matches only (`WritesOwn`), its verdicts cite (`VerdictsCite`), it knows who is
  active beside it (`KnowsOthers`), what it is about to delete was committed
  (`ErasesCommitted`), and what it is about to leave comes from runs it overlaps with
  (`LeavesOverlaps`); and a brain run that unlinks matches takes none that somebody else is
  deleting (`Unerased`), which the row locks give. `NothingRepeated` is inductive only with all
  of them, since a commit of one run disturbs what the others are about to leave.
- `ApprovedSupported`, from `PackageInv`: every version makes supported claims, and a valid one
  has a narrative that resolves (`Supported`, `Sound`); items leave only if they were inferred
  (`OnlyInferredLeaves`).

`RequirementTrackingProofs`, from `RequirementAssumption`:

- `NothingRepeated` and `NothingLost`, from `ReadsRows`: a run that has read knows the keys of
  all rows but of runs that filed since, and no others. That each key is filed (`KeysAreFiled`)
  uses the first finding of a key, by the least index.
- `VerdictsStay` and `PagesConsistent`, from `JointInv` (mappings at work at once know of each other,
  and a mapping gives a verdict to every row that has one but for those of mappings it was at
  work with) and `PageInv` (what a page has read only grows, but for failures and overlaps).
  `SummaryCountsGaps` is that as many rows are gaps as the summary counts missing and partial,
  whatever other statuses there are. The verdicts are any set.

`CorpusProofs`, from `CorpusAssumption`, whatever the sources offer (`WorldSteps`):

- `LawVersioned`: the refinement of `VersionedStore`, step by step; and `LawInForce`, that one
  version of a document is in force, the last. `LawInv` says that a draft is ahead of what is
  committed and extends it, that a document has one writer, and that what a process has read
  (`Reading`) still supersedes the last version unless a later one was committed.
- `ClocksEarned` (`ClockIsEarned`), from `EarnInv`: a text that was published before a sweep is,
  until the clock is recorded, still to be swept, among the items fetched, or in (`Promised`);
  and a clock is recorded after all of its sweeps (`RecordsLast`). Positions in the lists of
  tasks are ranked by a bijection (`Ranks`).
- `TypeCorrect`, from the shapes of lists and drafts and `Places`, where a process may be.

`WorkflowQueueProofs`, from `ObligationAssumption` (deadlines and cooldown are numbers of days,
certifications name entries of the table of renewals), is also about `ObligationScan`, for any
number of scanners, syncs and edits:

- `RemindersKeepCooldown`: `OneReminderPerCooldown` is about two days and says nothing of what a
  scan has in hand. `ReminderInv` does: what a scan has sent a reminder for was not cooling when
  it was loaded and is not to be come to again (`Loads`), an edit is of a row that exists
  (`Edits`), and as long as scans follow one another and come to their end, at most one is under
  way, what it has loaded of a row's last reminder is still so (`LoadsLast`), and no reminder is
  later than the one the row, or the marks of the scan that sent it, tells of (`SentBy`).
- `ClosedStays` (`ClosedStaysClosed`) is about steps and rests on `Loads`, which says that no scan
  loads a closed row: `OpensClosed` goes through the steps that can open one.
- `ObligationTypesCorrect`. That what is derived is an obligation of the tables
  (`DerivedFromTables`) is about a fold over the certifications held. `FoldValue`, `FoldsAgree`
  and `FoldExists` prove the fold's recursion from the community modules' definition without
  induction over data: of the sets of places on which it fails, one would be minimal.

`FilingLifecycleProofs`, from `ScanAssumption` (notices are of one kind each, a source answers
with notices of the kind asked for, catalog and notices are disjoint) and `MatchingAssumption`
(finitely many requirements, words and items), is also about `OpportunityScan` and
`MatchScoring`, for any number of scans and filers:

- `ScansKeepSlots`: `SlotInv` adds to the types what a scan may have in hand. It looks for and
  lists notices of its kind (`ListFits`), inserts its own rows only and deletes those of programs
  only (`WorkFits`), and programs' rows stay programs' (`RowKinds`). A step is judged by the scan
  that takes it (`SlotFrame`); the rest of the proofs sorts steps into those that go on
  (`Goes`), commit (`CommitsWork`) and roll back (`RollsBack`). `OpportunityTypesCorrect` follows.
- `StoredOnce` (`DuplicatesOnlyByOverlap`), from `TwiceInv`: of two runs under way the later one
  has had the ids they share counted (`Watched`), and what a run is about to insert is new unless
  another looked for it too (`NewOrWatched`), which the lookup gives (`TakesNew`) and a commit of
  another run keeps (`CommitsOnce`).
- `ScannedIsScored` (`SucceededIsScored`), from `ScoreInv`: listed rows exist (`ListedExists`),
  nobody else has committed what a scan inserts (`OwnIsNew`), what scoring is past has its score
  (`PastScored`), and a change takes no score away (`ChangeScored`). The last is needed since a
  column that does not differ from what was loaded is not written: the score that stands is then
  another scan's, and still one the company has had (`WriteScores`).
- `FilingsSurvive` (`FilingSurvives`), from `FiledInv`: between its look and its commit a finder
  deletes no program with a filing but one committed since, and none with a filing that is being
  inserted once the delete is sent (`SparedBy`).
- `FinderKeeps` (`KeptWhileStated`), from `KeptInv`: what a finder is about to write of a program
  is the score by the profile it loaded (`HandFits`), which is advised if it inserts or updates and
  is not if it deletes, and every listed program was advised when it was scored (`RowsAdvised`).
  `ProgramGain` says that a profile that extends another without displacing its statement scores
  no program lower; so the finder's score is advised too, and it deletes nothing.
- `EvidenceHelps`: a larger vault lowers no recommendation. The hard part is the cut-off: of the
  items shown from a larger vault one covers at least as much as any shown from the smaller
  (`LargerVaultShows`), whatever ties were broken how, so statuses only rise
  (`LargerVaultJudges`, `LargerVaultMeets`) and points with them (`LargerVaultScores`). It is
  about the offline agents and no run checks it.

Only model-checked: the liveness properties `EventuallySettled`, `DueIsReminded` and
`ChangesArrive`, since liveness under fairness is out of the prover's reach; and of course
whatever is violated. No module declares a recursive operator.

## 7. Not modelled

The rate limiter counts in one process's memory; authentication and password hashing are
cryptography; forms, the copilot and dashboards are model and file I/O around plain inserts
and reads, and their runs are covered by `WorkflowQueue`. Providers are modelled where a
caller depends on their failing. What language models answer, what parsers extract and what
sources publish is an input, constrained only as the code's validation constrains it (a text
or status longer than its column is left out: it fails the flush, as any lost commit); the mock
agents' deterministic answers are modelled where a later step depends on them. Durations
are nowhere modelled: that a budget row stays locked while a decline SMS is sent is a matter
of time only. Nor is isolation below READ COMMITTED, disk loss, or two databases.
