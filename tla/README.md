# EviStream in TLA+

EviStream investigates videos against versioned policies: it preprocesses a video, triages it,
lets a bounded agent investigate each case, derives a formal decision by rules, and leaves the last
word to human reviewers. This directory holds TLA+ models of the parts of it whose correctness
depends on the order of things: workers that die and are replaced, duplicate messages, retries,
people and workers who decide on the same case at the same time.

PostgreSQL holds all state. A component is a set of rows and the transactions that write them, and
that is how each module is written: the rows are the variables, a transaction is an action, and one
that reads rows without a lock and writes them later is several: an action for each read that matters,
and one for the commit.

## 1. The system

| Component | State | Operations | Hard behaviour | What makes it correct |
|---|---|---|---|---|
| Agent investigation (`agent/service.py`, `agent/engine.py`) | `agent_runs` with a versioned state snapshot, `agent_steps`, the case status | `prepare`, `claim`, `checkpoint`, `complete`, `fail`, `defer_retry`; the graph PLAN → RETRIEVE → INSPECT → VERIFY → CHALLENGE → (PLAN or DECIDE) | leases that run out under a slow worker, claims without a lock, resuming from a checkpoint | one linear history of steps, evidence exactly as the history says, bounded rounds, an end |
| Audited model calls (`agent/audit.py`) | `model_calls`, one row per run and request key | claim the row, answer from it, finish it | a call in flight when its worker dies, two workers with one call | an answer is asked for once and reused |
| Job queue (`jobs/*.py`, `application/*.py`) | `processing_jobs`, Redis messages | dispatch, retry, requeue due jobs, execute | lost and duplicated messages, attempts that run out | no job forgotten, none repeated beyond its attempts |
| Decisions (`governance/service.py`) | `decisions`, `cases.current_decision_id`, `requirements.current_result_id` | `finalize_case` | evaluations that overlap with reviews, repeated evaluations | append-only history, no machine decision over a human one |
| Reviews and appeals (`governance/review.py`) | `reviews`, `appeals`, `appeal_events` | `submit_review`, `submit_appeal`, `resolve_appeal` | repeated request keys, two reviewers, two locks | one review per human decision, an appeal resolved once, by a later decision |
| Aggregation, evidence, rules (`governance/aggregation.py`, `evidence.py`, `rule_evaluator.py`) | `requirement_results` | aggregate, classify, evaluate | three-valued logic, thresholds at zero, evidence whose source changes | a verdict only from resolved requirements with evidence |
| Policies and cases (`policies/*.py`) | `policies`, `cases`, `requirements` | save, publish, create a case | publishing twice, creating a case twice | versions do not change, one case per video and version |
| Replay (`replay/*.py`) | `replay_jobs`, `replay_items`, lineage | preview, prepare, claim, execute items, complete, fail | human decisions and appeals between preview and execution, an unrenewed lease | items executed once, human decisions left alone |
| Media (`media/service.py`) | `videos`, `segments`, artifacts, the job | register, process, complete, fail | duplicate messages, failing stages, resumption | extraction not repeated once ready, no job failed by a duplicate |
| Triage (`triage/service.py`) | `video_triage_checks`, cases | triage one policy, fail a check | repeated after a retry, a failing check among several | one check per policy, cases only for checks that ask for them |
| Tools (`tools/*.py`, `retrieval/service.py`) | `tool_runs` | execute, answer from the row | a run left running by a dead worker | a result is computed once |

Components interact through rows and through the queue. The API and the CLI call the services and
put job ids on the queue; `jobs/worker.py` takes an id, loads the job and dispatches it to a handler
(`application/job_handlers.py`). The agent handler claims the run, executes the graph, which calls
the tools and the audited gateways, and commits a checkpoint after every node; after a success
`jobs/runtime.py` calls `finalize_case`. Triage and replay call `create_case`, `prepare` and
`finalize_case` themselves. Reviewers act on the case row that the agent also writes.

**Not modelled**, because they keep no state of their own or only data: the web console, the CLI and
scripts (they call the services the models have), HTTP details of the API, the model and embedding
gateways, the speech, text and video adapters, the artifact store and the clip files that
`inspect_clip` leaves in it, segmentation, the ranking of retrieval, the audit timeline (a read-only
view), and the migrations but for the constraints and triggers that the actions meet. `PROJECT.json`
lists every component with its status, and every hazard with the line where it bites and the
properties that cover it.

## 2. The modules

| Module | Models | Proofs |
|---|---|---|
| `Investigation` | the agent run of a case, its job, its model calls, the queue | `InvestigationProofs` |
| `AgentRun` | what a run looks like to its readers: one process on one walk; `Investigation` implements it | `InvestigationProofs` |
| `AgentOnCase` | the agent's changes of the run's and the case's status, as the governance sees them | `InvestigationProofs` |
| `CaseGovernance`, `DecisionLedger` | formal decisions, reviews and appeals; the ledger they implement | `CaseGovernanceProofs` |
| `CaseLifecycle` | `Investigation` and `CaseGovernance` together on one case | `CaseLifecycleProofs` |
| `MediaJob` | the media job of a video: extraction, index, triage, queue | `MediaJobProofs` |
| `PolicyVersions` | versions of a policy, their cases, the plan of a replay | `PolicyVersionsProofs` |
| `Replay` | the execution of prepared replays | `ReplayProofs` |
| `CaseVerdict` | tools, evidence, aggregation and rules, up to the machine's verdict | `CaseVerdictProofs` |

They overlap where components meet. A media job creates cases that `Investigation` and
`CaseGovernance` move; here they move by themselves (`CaseMoves` of `MediaJob`). A replay fills target
cases whose investigations are `Investigation` (`RunBecomes` and the actions `Others...` of `Replay`).
`CaseVerdict` takes from `Investigation` what a round does to evidence, and gives `CaseGovernance` what
its `Decidable` and `Cited` inputs stand for.

### `Investigation.tla`

One case, its run and its job, the queue, and any number of workers.

| TLA+ | Code |
|---|---|
| `run`, `job`, `caseStatus` | columns of `agent_runs`, `processing_jobs`, `cases`; the two `lease_until` are `live` until they are `expired` |
| `log`, `evidence` | `agent_steps` (the state each step led to) and the evidence rows, named by the version whose VERIFY made them |
| `calls[v]` | the `model_calls` row of state version v; the request key contains the version, and the prompt is a function of the state |
| `messages` | job messages in Redis |
| `pc`, `st`, `seen`, `outcome` | a worker: where it is, its `InvestigationState`, the attempt its transaction read and the columns it found as it wants them, the status it will close with |
| `ClaimReadJob`, `ClaimReadRun`, `ClaimCommit`, `ClaimRefused`, `ClaimRolledBack` | `claim`: the SELECTs of job and run with their checks, and the rest, which has the two rows locked |
| `CallClaim`, `CallAnswered`, `CallSucceeds`, `CallFails` | `AuditedModelGateway` |
| `Checkpoint`, `CheckpointConflict` | `checkpoint` |
| `CloseReadRun`, `CloseReadJob`, `CloseReadCase`, `CloseCommit` | `complete` |
| `FailReadRun`, `FailCommit` | `fail` |
| `DeferReadRun`, `DeferReadJob`, `DeferCommit`, `ExhaustCommit` | `defer_retry`, with attempts left and without |
| `Reads`, `Same`, `Written` | the unit of work: which columns are left out of the UPDATE |
| `BudgetStop`, `NothingToExecute`, `OutputRejected` | the engine's ways out |
| `Prepare`, `Resubmit`, `Requeue`, `Retry`, `QueueLost` | `prepare`, dispatch, `jobs-requeue --due-only`, `POST /jobs/{id}/retry`, the loss of Redis |
| `Crash` | the worker dies, or an error that the handler does not catch ends the job |

What is abstracted, and why it may be:

- SQLAlchemy writes the columns whose new value differs from the one it read, and under READ COMMITTED
  others commit between two SELECTs. The model keeps both: `seen[w].same` has the columns that already
  had their new value when they were read, and `Written` leaves those as they are. The snapshot (it holds a
  timestamp), the attempt and a new lease always differ.
- What a statement reads after it has locked the row is one action with the commit. `claim` reads the case
  at line 315, by when the unit of work has flushed job and run: `ClaimCommit` looks at the case as it is, and
  a closed one rolls the claim back. `fail` likewise flushes the run before it reads the job. The case
  that it reads last may be decided before it is written, in which case the column might be left out
  (`CaseForReview`, which admits a little more than the code).
- An operator's `Retry` in the middle of `fail` or `defer_retry` has the effect of one before or after it.
- The deadline, the call and failure budgets and stagnation may stop a worker at any node
  (`BudgetStop`); only the iteration limit is computed, as the other counters would add states and
  no behaviour that the stop does not already cover.
- A PLAN whose model call failed has raised `iteration` in the worker's memory before it closes the
  run; the snapshot stored then is never resumed, so this is left out.
- A deadlock that the database resolves by an abort (two transactions that lock run and job in different
  orders), or any other uncaught exception, is a `Crash`.

Two small modules say what the rest of the system may expect of it. `AgentRun` is the run as its rows
show it: one process that commits one step after another along the graph, within its rounds, and is
interrupted, resumed and closed; its steps are the versions of the history, its node is the one the last
committed state names. `AgentOnCase` is the interface to the governance: the status of the run as
`finalize_case` reads it (`RunAsSeen`) and the status of the case, and every way in which the agent changes
them. `Investigation` has both as properties, by refinement (`ImplementsAgentRun`, `KeepsToCase`).

### `CaseGovernance.tla` and `DecisionLedger.tla`

The formal decisions of one case. A request (`ask`) is a review, an appeal, a resolution or an
evaluation; its steps are the ones whose order the database decides: look the request key up (`Ask`),
lock the appeal (`LockAppeal`), lock the case and read (`LockCase`, `StartEvaluation`), commit
(`SubmitReview`, `SubmitAppeal`, `ResolveAppeal`, `EvaluateAgain`, `EvaluateNew`) or roll back
(`Drop`). `input` is everything an aggregation reads; it changes while nobody looks
(`InputChanges`), and `Decidable` and `Cited` say for which inputs the policy gives a verdict and for
which there is valid evidence. The agent's writes to the run and to the case (`AgentPrepares`,
`AgentWrites`) are those of `AgentOnCase`, in any order, late writes included, but never while a
transaction holds the case row, for which an UPDATE waits. That the agent writes nothing else is what
`Investigation` is checked and proved to keep to.

Abstractions: decisions are named by their sequence; APPROVE and REJECT are one conclusive verdict;
the run statuses PENDING, RUNNING and FAILED are one, as an evaluation treats them alike; the
refusal of a disabled policy is a `Drop`; `allow_without_investigation` is folded into `MayEvaluate`,
which lets a case without a run be evaluated; what an evaluation reads while it holds the lock is
read in one step with its commit.

`DecisionLedger` is what the history promises, whoever writes it: append only, every decision
supersedes the current one, a machine decision never supersedes a human one, and the pointer moves
to the new decision or back to a machine decision. That it may also move back from a human decision
is what the code does (section 5).

### `CaseLifecycle.tla`

The two modules on the same rows: `Investigation`, which it extends, and `CaseGovernance` with the
investigation's run and case status in the place of its own. A step is one of the agent or one of the
governance. Between the agent's steps, reviews, appeals and evaluations now write `caseStatus`, which
`Investigation` alone leaves to the agent; and the agent under the governance is now the real one, with its
workers and its history, not a choice of statuses.

The lock on the case row is what orders them (`AgentMoves`). The agent takes no lock but writes the case
in most transactions that change the run's status, and such an UPDATE waits for the transaction that
holds the row. A checkpoint, a call or a retry that leaves both statuses as they are does not wait. A
change of the run alone (a claim that finds the case INVESTIGATING, a deferral) would not wait in the code
either; as an evaluation reads the run before and writes nothing that the agent reads of it, it is the
same as if it had come after the commit, which is how the module has it. `Investigation` lets a case be
DECIDED, which only the governance makes it.

The product of the two is too large for a run of its own (section 3); it is proved about.

### `MediaJob.tla`

One uploaded video, its job and its triage, the queue, any number of workers.

| TLA+ | Code |
|---|---|
| `job`, `lease`, `video` | the job's row with `lease_until`; `videos.status` and `triage_status` |
| `extracted`, `indexed` | whether segments, artifacts and documents are committed; the batches that have embeddings |
| `latest`, `checks`, `called`, `cases` | the latest published version of each policy, `video_triage_checks`, the versions with a `model_calls` row of the triage, a failed one included, the cases |
| `Gateway` | of the job's model profile; the mock one answers by trigger terms and leaves no call (`Recorded`, `MockAction`) |
| `CaseMoves`, `OthersCreateCase` | the agent and people move cases; replays and the demo seeds create them, with no check |
| `mine` | the attempt that a worker's conditional UPDATE returned |
| `ClaimRead`, `ClaimCommit`, `ClaimLost` | `process_job` up to the conditional UPDATE, and the UPDATE |
| `AnswerSucceeded`, `ClaimRefused` | a message whose job succeeded or is held, failed or used up |
| `Extract`, `ExtractFails`, `MarkFailed`, `MarkReady` | the rest of `process_job` |
| `IndexBatch`, `BatchFails`, `IndexDone` | `index_video` |
| `PoliciesRead`, `TriageStarts` ... `TriageDone` | `triage` and `_check_policy`, one action for each transaction |
| `CompleteJob`, `FailJob` | `complete_job`, `fail_job` |

Abstractions: policies are checked in any order; with `auto_triage` off no policy is selected; a video
whose policies are all checked is indexed and triaged again after a success, as the handler does; small
transactions that read and write one row are atomic; what a model call's row says about triage is
left out, as nothing reads it; a reviewed case that `finalize_case` refuses is a `TriageBreaks`; the
conflict of model profiles at registration and files left behind are left out.

### `PolicyVersions.tla`

The versions of one policy, and what is made from them while editors, creators of cases and clients of
the replay work at once. Each is a process that reads in one action and writes in another (`StartSave`
and `WriteRow`, `StartCase` and `InsertCase`, `AskPreview`, `StartPrepare` and `InsertItems`), as no row
is locked in between.

| TLA+ | Code |
|---|---|
| `policy[n]` | the `policies` row of version n: lifecycle, source text, compiled policy |
| `cases[n]` | the case of version n for one video, its requirement rows, whether it is decided or appealed |
| `items` | the `replay_items` of the source version's case |
| `Updated` | SQLAlchemy's UPDATE: only the columns that differ from what the session read are written |
| `MayUpdate`, `MayHaveCases` | the triggers `evistream_protect_published_policy` and `evistream_require_published_policy` of migration 0004 |
| `Unchanged`, `Modified`, `Added`, `Removed`, `PlanOf`, `StillCurrent` | `_diff`, `preview`, the comparison of digests in `prepare` |

A document is its version, a text, and what it compiles to: a semantic hash for each requirement and the
rest; hashes and the rest are any values (`Hashes`, `Rules`). Abstractions: the compiler is a function of the document; the first commit of two inserts wins;
`apply_demo_seeds`, which saves and creates in one transaction, is left out; a digest stands for the
plans it is computed from.

### `Replay.tla`

Replays of several source versions to one target version: the cases of one video meet in one target.

| TLA+ | Code |
|---|---|
| `job`, `replay` | the rows of `processing_jobs` and `replay_jobs` |
| `item` | `replay_items`: status, whether `target_case_id` is set, the target's decision |
| `target`, `run`, `copied`, `decisions` | the target case of a video, its investigation, the items whose evidence is copied, its machine decisions by what they weighed |
| `own`, `Findings` | what the target's own investigation amounts to: as it was first evaluated, or what late errors of its model calls made of its evidence |
| `Prepare`, `Claim`, `ClaimSucceeded` | `prepare`, `claim` |
| `CompleteRead`, `Complete`, `FailRead`, `Fail` | `_complete` and `fail`: the replay is read, and then replay and job are written |
| `PickItem`, `Materialize`, `PrepareRun`, `ClaimRun`, `Finalize`, `RecordItem` | `_execute_item` |
| `OthersCreate`, `OthersPrepare`, `OthersClaim`, `RunEnds`, `FindingsChange`, `OthersFinalize` | triage, people and other workers who use the target cases |

`PickItem` and `Materialize` are one transaction of the code in two actions, because the search for
another item with the same target happens before the write and no constraint repeats it; the item's
row is locked in between (`Unlocked`). The end of a replay is two actions as well: its row is read, others
may end it meanwhile, and then only what differs is written; the row is locked by that UPDATE before the job
is read, so `job` is never stale. Abstractions:

- leases may run out at any time, so there is no lease: a message of a RUNNING job is one that came when
  the lease was over (one that comes earlier is refused and changes nothing), and messages come any
  number of times;
- which plans are blocked is a choice among the cases in `Open` (`PolicyVersions` computes the plans); every
  item has evidence to copy;
- the input of an evaluation is the copied evidence and `own`. What an investigation found before any
  decision of its case is known to a replay makes no difference to the replays, so `own` is then `AsFound`,
  and only what it becomes later is distinguished (`Known`, `FindingsChange`). `Inconclusive` says which of
  the inputs the policy leaves to a human;
- the investigation inside an item is one run that others may claim too; a run DONE that a late worker
  sets FAILED or PENDING is refused by `finalize_case`, which is a `FailRead` or nothing;
- `RecordItem` locks the item and takes its writes as one; people's reviews of target cases are in
  `CaseGovernance`.

### `CaseVerdict.tla`

How tools' answers become a verdict, for one case under any policy of a given set.

| TLA+ | Code |
|---|---|
| `policy` | the compiled policy: required requirements, exceptions, thresholds, `reject_when`, `escalate_when` |
| `run` | the run's status and, of its snapshot, version, next node, action, items, missing requirements |
| `tools`, `calls`, `evidence` | `tool_runs`, the verifier's `model_calls`, the evidence rows |
| `verdicts` | the decisions that approve or reject, with the valid evidence each saw |
| `StartTool`, `ToolReturns`, `ToolKnown` | `ToolExecutor.execute` |
| `StartCall`, `CallSucceeds`, `CallFails`, `CallKnown`, `Verify` | the audited call, `_verify`, its checkpoint |
| `Outcome`, `Decide`, `Complete` | `_enforce_decision`, `_decide`, `complete` |
| `Modalities`, `Allowed`, `Items`, `Fits` | what a requirement allows, what the items of a request are of; `_modality_allowed` of a piece of evidence and its requirement |
| `FromItems` | `_validate_evidence`: a draft cites an item of the round |
| `IsValid`, `Aggregate`, `Leaf`, `Combine`, `Eval`, `IsOpen`, `Verdict` | `classify`, `aggregate`, `evaluate_expression`, `RuleEvaluator.evaluate` |
| `Evaluate` | `finalize_case`, at any time and any number of times |

Abstractions: PLAN, INSPECT and CHALLENGE are folded into their neighbours, as they write neither
evidence nor verdict (a tool that CHALLENGE calls leaves a row as a worker does that dies after
`ToolReturns`); claims, failures, retries and budgets are `StatusChanges`; a partial answer is a success,
one without items is empty like a failure; NEUTRAL evidence is UNCERTAIN; drafts of one answer that agree
in stance, in being sure enough and in the modality of their item count once; expressions are nested once; a verdict that leaves the
case to a human is not recorded. Requests that `_validate` would refuse are not made, since the engine
checks the action first.

## 3. The runs

| Run | Instance | Shows |
|---|---|---|
| `investigation_safety` | 2 workers, 2 attempts, 2 rounds, 1 message, symmetric workers; 1.6 million states | the invariants of `Investigation`, and that it implements `AgentRun` and keeps to `AgentOnCase` |
| `investigation_liveness` | 2 workers, 2 attempts, 1 round, 1 message | `EventuallyEnds` |
| `governance` | 2 requests at once, 2 keys, 1 appeal, 2 inputs (one without evidence), 3 decisions | the invariants and action properties of `CaseGovernance`, and that it implements `DecisionLedger` |
| `media_job` | 2 workers, 2 attempts, 1 policy that may be published meanwhile, 1 batch, 1 message | stages, attempts, checks and cases, with either gateway; the job ends |
| `replay` | 2 source versions, one with requirements to investigate, the other's case appealed, 1 video, 2 workers, 2 attempts, 1 late finding | what an item reports, and that it stands; how a replay ends |
| `policies` | 2 editors, 2 creators, 1 client, 2 requirements, 3 documents of version 1 and 2 of version 2 | versions, cases and plans under stale reads |
| `case_verdict` | 2 workers, 2 requests for 2 requirements, one of them with items of a modality its requirement does not allow, 4 verifier answers, 2 policies, 2 rounds | one answer for each request, evidence that counts, verdicts that agree and have grounds |
| five more | the smallest instance that shows it | the disagreements of section 5 |

The bounds. Two workers are what every race in the code is between: a third finds the rows in a state
that one of two could have left. Two attempts give a first execution and a resumed one, with the CHECK
constraint at its limit. Two rounds are needed because with one the DECIDE checkpoint is never
reached: CHALLENGE of the last round goes to DECIDE, and `_budget_stop` closes the run there. The first
round finds items, and a second one only follows when evidence was verified, and finds nothing
(`OnlyFirstRoundFinds`); in the liveness run the one round finds nothing (`FindsNothing`). Both bound
what is found, not how workers interleave. An error that arrives for the call of a step long
committed is tried in histories of one round (`NoLateErrorsInSecondRound`). The theorems of section
4 have none of these bounds. One
message at a time is enough for duplicates, as a message is taken before the next is enqueued and
the first worker may still be busy. Three decisions are a machine decision, a human one and one
more; two keys and one appeal allow a shared key and two resolutions of one appeal.

`CaseLifecycle` has no run: with the smallest instance that has a race (two workers, one request at a
time) its state space is larger than can be enumerated here. The properties its proofs rest on are checked
on its two halves, `KeepsToCase` by `investigation_safety` and everything of `CaseGovernance`, under the
steps of `AgentOnCase`, by `governance`.

One policy is enough in `media_job` because the checks of two share nothing but the video's triage
status; the version may be published before, during or after triage. One batch may fail, be indexed by
either worker or be left to the next attempt. Two source versions and one video are the least for two
items to meet in one target; one version is re-evaluated and one investigated; one `Findings` value is the
least for an evaluation to come out differently later. Of the documents of
`policies`, two differ in the text alone, one lacks a requirement, and the second version keeps
everything, changes a requirement, or changes rules only; two editors write over each other. In `case_verdict` a verdict needs one round
for each required requirement; two rounds let evidence for and against one requirement come in different
answers, and the policies use a nested expression, both sentinels and an exception.

`investigation_safety`, `investigation_liveness`, `media_job`, `replay` and the violation runs do not
check for deadlock: a job that ended, or whose attempts are used up, has nothing left to do.
`policies` and `case_verdict` check it. `governance` checks
it (evidence may always change, so the check says little there). `HumanDecisionStands` switches it off
because its instance has one input only.

**Fairness** (`Fairness` in `Investigation`). A live lease runs out (it is a time). `jobs-requeue
--due-only` is run again and again, as `docs/task-runtime.md` tells the operator. A worker that
executes goes on unless it dies: weak fairness of `Execute(w) \/ End(w)`, for each worker. That some worker
takes a message, and that some worker commits a claim, are strongly fair: the loss of the queue or the
death of a worker may interrupt them any number of times, but
not every time. Nothing is assumed of crashes, of the loss of the queue, of repeated requests and of
retries. `EventuallyEnds` starts at the first attempt, and excuses the runs whose last attempt was lost
with its worker (`Abandoned`); it makes no claim of runs that `defer_retry` of a late worker reopens
after `fail` has sent the case to a human.

`MediaJob` and `Replay` assume the same of their workers: leases run out, `jobs-requeue` runs again and
again (in `Replay` messages simply come), a claim that stays possible is some day made and committed, and
whoever executes goes on unless it dies. `JobEnds` and `ReplayEnds` excuse, like `EventuallyEnds`, the
job whose last attempt was lost with its worker. `PolicyVersions` and `CaseVerdict` state safety only
and assume no fairness.

**Properties** of `Investigation`: `OneHistory` (one walk through the graph, as long as the version),
`ResumesFromHistory` (whatever a worker holds or the next claim resumes from was committed),
`EvidenceIsAccounted` (evidence rows are those the last committed state lists), `RoundsBounded`,
`CaseGatesRun` (an open case has a run and a job that can be claimed, and no run of a closed one runs),
`CallsMatchHistory` (every step that asks a model has its answered
call, and no call is ahead of the history), `ImplementsAgentRun`, `KeepsToCase`, `EventuallyEnds`. Of `CaseGovernance`:
`MachineYieldsToHuman`, `ReviewsMatchDecisions`, `AppealsAreAnswered`, `ResultsMatchDecision`,
`ConclusiveCitesEvidence`, `ActsOnCurrent`, `ResolutionsAreFinal`, `ImplementsLedger`. Of `MediaJob`:
`StagesInOrder` (nothing is indexed before it is extracted, checked before all is indexed, or succeeds
before), `AttemptsAreExclusive` (no two workers hold one attempt), `CasesMatchChecks` (a check has the
case, the decision and the model call it claims), `JobEnds`. Of `Replay`: `ResultsAreReplayed` (an item reports a
decision of its own target, over its own evidence, after an investigation of its scope),
`SucceededIsSettled` (a replay that succeeded, by either row, has settled its items; the rows differ only
about how it ended), `ResultStands` (only a shared target, or an investigation that came to something
else, lets a reported decision change), `ReplayEnds`. Of `PolicyVersions`: `VersionsAreDense`, `PublishedStands`, `RowsAreWhole` (text and compiled
policy come from one document, and a write that finds what it read leaves them so; only one over a draft
it did not see may not), `CasesFollowPolicy`,
`PlansCoverTarget` (a plan divides the target's requirements). Of `CaseVerdict`: `AnswersStand` (a request
is executed once), `EvidenceCounts` (evidence cites an item of its request, and is only invalid for a modality that its
requirement does not allow or for a late error of its call), `VerdictsAgree` (never both APPROVE and REJECT), `VerdictsAreGrounded` (sure evidence about
every required requirement, no contested one). Each is stated in
words above its definition. For each, `PROJECT.json` names a mutation of the model that breaks it: a
dropped guard, a lock not taken, a forgotten write (the operators marked "Seeded fault").

## 4. What is proved

`CaseGovernanceProofs` proves, for any number of requests, keys, appeals, inputs and decisions, every
property that the `governance` run checks. The only assumption is `InputsAssumption`.

The argument. `TypeCorrect` comes first. `MachineYieldsToHuman` and the rest are not inductive
alone: a request writes what it read when it took the lock. The strengthening is `LockInv`: whoever
holds the case row holds it alone, and the pointer and the length it read are still the current ones
(`LockCorrect`). With it, each commit is an addition to the current history:

- `MachineYields`: the human guard looked at the decision that is superseded, and the lookup of a
  known evaluation saw every decision there is;
- `ReviewsMatch`: a review adds one decision and one row, under a key no row has;
- `ResultsMatch`, `ConclusiveCites`: by the kinds of steps that write decisions (`StepKinds`);
- `AppealsAnswered` needs two more facts, that a submitted appeal challenges a decision that exists
  and that a resolution is under way only while the appeal is open (`AppealInv`); the
  decision that resolves it is new, hence later than the one it challenges. `ResolvedOnce` follows
  from the same invariant;
- `ActingOnCurrent`: what was read under the lock is current at the commit;
- `CaseImplementsLedger`: the history maps to the ledger by leaving out the other columns; each commit of a
  decision is a `Decide`, a repeated evaluation a `Reinstate`, everything else stutters.

`InvestigationProofs` proves, for any number of workers, attempts, rounds and messages, everything
that `investigation_safety` checks. The only assumption is `BoundsAssumption` (the three
bounds are positive). None of the invariants but the types of the queue is inductive alone, so one
invariant, `IInv`, joins them all with two facts about how the code got where it is:

- `VersionsPlaced`: a version says where in its round of five nodes it stands (`Placed`), and nothing
  follows the state without a next node. This bounds the versions (`TypeOK`), and is why a worker
  that remembers a finished state remembers the last one (`RoundsBounded`);
- `WorkersKnow`: a worker that called a model has a node to finish within the limit, and one that closes a
  run as COMPLETED holds a finished state;
- `RowsTold`: a column that a close or a failure is to leave out of its UPDATE, because it read there the
  value of an end, was read of a case that is closed, and stays so.

`CaseGatesRun` is what is left to rely on when rows are read one after the other. Run and job do come
to disagree (a deferral that is committed between the two SELECTs of a claim; a deferral and a close that leave
out each other's column). But the case is closed by everything that ends a run, opened by nothing, and read by
the claim when it has locked the rows. So while it is open only claims and deferrals have written the two
statuses, which keeps them claimable; and once it is closed nothing sets the run RUNNING. A case that
another transaction closed between the reads and the commit of a close or a failure stays closed,
whichever columns are left out (`RowsTold`).

A worker's memory is recorded in the history (`ResumesFromHistory`) and its version is the run's when it
checkpoints, so what it advances is the last state (`StepTaken`, `HistoryGrows`); no other step touches the
history (`HistoryStays`). From these `OneHistory` and `EvidenceIsAccounted` follow. Three results come on top of `IInv`:

- `AuditIsComplete` needs what each worker has asked for (`AuditInv`): who waits for an answer or has it holds
  a committed state that needs one, and who goes on finds its row answered (`Asked`). An answer is never
  taken back (`CallsMove`), so a step committed by anyone at that version has its call;
- `OneProcess` maps every step of every worker to a step of `AgentRun` or to none. The checkpoint is its
  `Step`, because the version check makes the worker's memory the last state (`CheckpointIsStep`); a claim
  is its `Work`, since the case is open; a deferral its `Defer`; and a close as COMPLETED its `Complete`,
  since the history has ended;
- `CaseContract`: while the case is open, run and case change together (`Work` of `AgentOnCase`); once it is closed,
  late writers may leave any pair of statuses but not open it again (`WorkLate`), which is all that
  the governance assumes.

`CaseLifecycleProofs` composes. Nothing of the two proofs above is repeated; what is new is that each half is
left alone by the other:

- `AgentHoldsUnderGovernance`: the governance writes only `caseStatus` of what `Investigation` reads
  (`GovernanceTouches`), never opens a closed case, and closes an open one only while there is no run, so the
  agent's invariant `AgentInv` (`IInv`, `AuditInv`) survives its steps (`AgentUndisturbed`); hence
  `OneProcessUnderGovernance`;
- `GovernanceHoldsUnderAgent`: every behaviour of the composition is one of `CaseGovernance`, by `CaseStep` of
  `InvestigationProofs` for the agent's steps. So everything `CaseGovernanceProofs` proves holds with the
  real agent, which `GovernanceIsSoundUnderAgent` states, under the same `InputsAssumption`;
- `VerdictsRestOnTheEnd`: a machine verdict rests on no investigation at all or on a history that went through
  DECIDE to its end. This is a property of neither half: it needs that a run is COMPLETED only at the
  end of its walk, and that a case with a decision is closed (`DecidedIsClosed`) and a closed one gets no further
  step (`ClosedIsFinal`). A run may still be prepared for a case that triage decides at the same time, as
  `prepare` reads the case before; its claim is then rolled back.

`MediaJobProofs` proves the four invariants of `media_job`, for any number of workers, policies, batches,
versions, attempts and messages (`MediaBounds`). `Typed` adds to the types that a worker in the middle
of a check has one in hand. `StagesKnown` says what a worker that has reached a stage may rely on: one
that triages knows everything indexed, one that indexes without trouble knows that what is not indexed
is still in its hands. `AttemptsExclusive` needs that an unclaimed attempt is higher than any a worker
holds. `CheckKnownToWorker` says what a worker that is about to record a check has already committed, and
`MockRecordsNothing` that the gateway, which a job never changes, decides whether there are calls.

`ReplayProofs` proves the safety properties of `replay` for any cases, sources and workers
(`ReplayConstants`). The invariant `ReplayInv` joins: the two rows of a replay agree until it ends, and one
that succeeded by either of them is settled (`JobsAgree`); decisions of one target over the same input are one,
and none weighs evidence that is not copied (`DecisionsDiffer`); what each worker knows of its item, its
scope, the decision it got and the replay it is about to end (`Knows`); and `ResultsAreReplayed`. Evidence and
settled items only grow, and a replay that ended stays so (`Grows`), which keeps what others know.
`ResultStands` follows: a worker that records an item again got a decision over the evidence of the item's
own target, which without another item there is the evidence it had before, so the decision differs only if
the target's own investigation does.

`PolicyVersionsProofs` proves everything `policies` checks, for any documents, keys, hashes and
processes (`PolicyConstants`). `RowsWhole` rests on what SQLAlchemy leaves out: a write over the row that was read
sets every column that differs, which makes the row that of the new document (`FreshUpdate`). `VersionsDense` rests on what an editor read (`EditsFit`): versions are
never taken back, so a successor stays one until its number is taken. `PublishedProtected` rests on the
trigger alone. `CasesFollow` needs that what a creator read is published and hence stands
(`CreationsFit`). `PlansCover` needs a lemma about the four sets of keys (`KeysSplit`), and that plans,
made from published versions, stay right while they wait (`PlanInv`).

`CaseVerdictProofs` proves everything `case_verdict` checks, for any policies with expressions nested once,
requests, answers and workers (`VerdictConstants`):

- `AnswersKept`: whoever executes a request holds its running row alone (`Executing`);
- `EvidenceKept`: items in a state come from an answered tool (`ItemsAreStored`), drafts cite them
  (`FromItems`) and come from a call that was answered and may at most have failed since (`CallInv`,
  `EvidenceInv`);
- a run is COMPLETED only at the end of its graph and with nothing contested in all its evidence
  (`InStep`, `FinishInv`), and from then on no evidence is added, whatever late workers still do;
- `VerdictsHaveGrounds`: every verdict was lawful for the evidence it saw (`VerdictInv`);
- `VerdictsNeverOppose`: without contested evidence two sets of valid rows never give a requirement
  opposite values (`NeverOpposite`); so no expression is TRUE over one and FALSE over the other
  (`CombineOpposes`, `ExpressionsAgree`), and with every required requirement resolved the exceptions
  agree as well. That exceptions are required is an assumption about policies, which the compiler
  establishes.

Left to TLC: liveness (`EventuallyEnds`, `JobEnds`, `ReplayEnds`), as fairness is beyond the prover,
and the violations of section 5. Beyond TLC and the proofs is that expressions
nested deeper behave like those nested once.

## 5. Where the code and its documents disagree

Each is a run that TLC finds violated, and a finding in `PROJECT.json`.

- `HumanDecisionStands`: `finalize_case` looks for a machine decision with the same inputs before it
  checks whether the current decision is a human one, so a repeated evaluation takes the case back from
  the reviewer. A duplicate job message after the review is enough.
- `ResumedHasNextNode`: after the DECIDE checkpoint there is no next node; a worker that takes over
  before `complete` fails the run although its decision is stored.
- `RetryMayCallAgain`: the failure of a model call is the call's stored answer, so the retry that
  `RETRY_WAIT` promises cannot succeed.
- `TerminalResultStands`: a worker whose call another worker holds fails the run, which the other may have
  closed meanwhile: `fail` writes FAILED over the terminal status, and a later duplicate gets an error
  in the place of the stored result.
- `RunningJobEnds`: a job whose worker dies in the last attempt stays RUNNING for ever.

Also seen, each in the code and in a model that has it, but not stated as a property:

- `fail` keeps `retryable` from an earlier deferral, so an operator's retry makes a job PENDING whose run
  is FAILED; every claim of it is refused and it is requeued again and again.
- The statuses of run and job part when transactions overlap: a deferral between a claim's SELECTs leaves run
  RUNNING and job RETRY_WAIT; a deferral and a close that leave out each other's column, run COMPLETED and
  job RETRY_WAIT. `CaseGatesRun` says what holds all the same.
- A review while an appeal is open decides the case and leaves
  the appeal open.
- Media: a duplicate message that finds the job held or ended fails it (`job_handlers.py:68`), and
  `complete_job` of the worker that held it turns it SUCCEEDED again; a worker's death between the extraction's
  commit and READY (`media/service.py:246`) makes every retry meet the unique constraints; a late failure
  sets a READY video FAILED (`:243`); a late error overwrites a SUCCEEDED check (`triage/service.py:300`); a
  refusal of `finalize_case` leaves its check RUNNING.
- Replay: a `fail` committed between the reads and the writes of `_complete` leaves replay FAILED and job
  SUCCEEDED, as the unchanged status is left out (`:429`); two replays may come to share a target case (`replay/service.py:243`); `jobs-requeue` may hand the
  replay's own investigation to another worker, upon which the replay fails (`:351`); a failed replay is
  never repeated, since its items keep their unique pair; a target that another worker finalized lacks
  the item's id; the appeal that `docs/replay.md:5` says blocks automatic execution is looked for by the preview
  only (`_execute_item`, `:210`, does not look again), and missed if it comes between the two transactions of
  `prepare` (`:62` to `:75`).
- Policies: two editors of one draft can leave the text of one document with the compiled policy of
  another (`versioning.py:132`, `WritesStale`).
- Verdicts: `expand_temporal_context` answers with documents of any modality (`tools/core.py:138`), and the
  verifier's evidence from those that its requirement does not allow is stored and never counts
  (`governance/evidence.py:94`, `Fits`); items of `inspect_clip` have the modality `video` and bare segments `segment`
  (`tools/core.py:315`), which is not among the `VISION_MODALITIES` of `governance/evidence.py:20`, so
  evidence from them never counts either; a tool row whose worker died stays running, and the request
  is answered TOOL_ALREADY_RUNNING for ever (`executor.py:55`); two extractions of one clip share a file,
  which the failing one unlinks (`tools/core.py:364`, not modelled); a requirement named like a sentinel is
  read as the sentinel (`rule_evaluator.py:210`); `all: []` next to a non-empty `any` passes validation and
  is then evaluated as ALL (`schema.py:36`, `rule_evaluator.py:192`; not modelled); a late error of a
  model call turns an earlier verdict into NEEDS_HUMAN_REVIEW at the next evaluation, and in a replay
  replaces the decision an item reports when it is executed again (`FindingsChange`).

## 6. Plan

Done: the agent run with its calls and queue, formal decisions, reviews and appeals, the media job with
triage, policy versions and plans, replays, tools, evidence and rules; the safety invariants of all of
them proved, and the investigation composed with the governance of its case. Left, in this order:

1. `CaseVerdict` in `CaseLifecycle`, in the place of `Decidable` and `Cited`.
2. A proof that a replayed target is a case of `CaseGovernance`, and an abstract job that `MediaJob` and
   `Replay` implement.
3. `ClipFiles`: the artifact store under two extractions of one clip, and what the media job leaves behind.
4. Instances with two policies and two batches in `MediaJob`, and with two videos in `Replay`.
