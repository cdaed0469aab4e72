# Verification of datasheet-to-tscircuit

TLA+ models, TLC runs and TLAPS proofs about the server that turns a PDF
datasheet into a tscircuit component, a typical application and a SPICE model.
The subject is the server's control (which handler may do what to a job, in
which order, and what survives a cancellation, a failing write or a restart) and
the checks by which it accepts what agents and simulators deliver.
Paths are relative to the root of the repository; `src/server` is the backend.

## 1. The system

### Inventory

| Component | State | Operations | Talks to |
| --- | --- | --- | --- |
| Pipeline runner (`pipeline/pipeline-runner.ts`) | result table, debug bundles, `events.ndjson`, sequence counter, flags for failed, cancelled and committed stages | `runPipeline` and its local `emit` | stages (calls), the observer (`on_snapshot`), an abort signal |
| Job store (`job-store.ts`) | records, cancellation controllers, deletion leases, claimed pipelines, `job.json` | create, update, claim, release, cancel, lease, delete, restore | every job handler, subscribers |
| Job runner (`component-workflow/run-job.ts`) | two pipeline invocations in one workspace | `runJob`, `launchJobRunner` | job store, pipeline runner |
| Job API (`job-api/`) | `pending_retries` | create, cancel, retry, delete | job store, model run store, file system |
| Model run store (`model-run-store.ts`) | records, controllers, claimed executions, effort and repair budget, checkpoint | create, claim, segments, budgets, extend, retry, cancel, delete | model API, runner, stages |
| Model runner (`model-workflow/run-model.ts`) | one pipeline invocation | `runModel`, `launchModelRun` | both stores, pipeline runner |
| Local runs (`pipeline-local-run/`, `local-runs.ts`, `local-run-api.ts`) | summary with heartbeat | run, rerun, reconcile, refresh from disk | both stores, pipeline runner |
| Restorer (`job-restorer/`) | none of its own | restore at start-up | both stores, file system |
| Component and application stages (`component-workflow/stages/`) | evidence commit, published files | extract, generate, build, validate, repair, publish, wait for component | agent client, job store |
| Model stages (`model-workflow/stages/`) | candidates, publication | characterise, generate, validate, repair, publish, wait | agent client, both stores |
| Model publication (`modeling/model-publication/`) | bundles, publication pointer | commit, resolve, read | model stages, restorer, job API |
| Evidence commits (`component-workflow/*evidence-commit.ts`) | staged evidence, commit marker | commit, read snapshot | stages, retry, restorer |
| Task inputs and snapshots (`pipeline/task-input*.ts`, `artifact-snapshot.ts`) | retained copies, hashes | retain, restore, snapshot | pipeline runner, local runs |
| Persistence (`infrastructure/persistence/`) | files | atomic write, bounded log | stores |
| Agent client, artifact stage (`infrastructure/agent/`) | attempts, retained rejected candidates, attempt workspaces | run attempts, retry transport, validate, retain, promote | stages, process runner, artifact boundary |
| Artifact boundary (`infrastructure/artifacts/`) | attempt workspace, files at their destination | create workspace, collect, promote file or directory | artifact stage, model candidates |
| Process runner (`infrastructure/process/`) | one child, its streams and timers | run, terminate, check idleness | agent client, builds, tools |
| Waveform checks and ranking (`modeling/viewer-simulation`, `spice-validation/scoring.ts`, `model-workflow/candidate-*.ts`) | none | judge a waveform, score it, rank a candidate, fit parameters | model stages |
| Application checks (`application-connectivity-verification.ts`, `job-artifact-validator/`) | none | compare reviews of a drawing, compare the compiled circuit with the plan | application stages |
| Reference graphs (`model-workflow/reference-graph-*`, `characterization/`) | inventory, axis receipts, worker slots | find, calibrate, bind, digitise, combine, republish | model stages, agents |
| Geometry and evidence checks (`component-evidence`, `verify-*.ts`) | none | pure functions over geometry and text | stages |
| Web interface, command line (`src/web`, `src/cli`) | view state | rendering, arguments | the APIs |

JavaScript runs a handler without interruption from one `await` to the next, so
the races of this server lie at its awaits: a handler checks a record, awaits a
body, a log line or a file, and acts on what it saw. The hard behaviours are

- cancellation against publication: from the commit on, nothing may reclassify
  a published result;
- execution claims, deletion leases and retries taken by handlers that do not
  know of each other;
- writes that fail between two records of one fact (memory, checkpoint, log,
  observer);
- an answer that comes after the timeout that gave it up;
- a child process that ignores signals, leaves descendants or never closes its
  pipes, under a deadline;
- a candidate that is rejected, cancelled or lost half way through its promotion;
- a restart between two steps of a creation or deletion.

What makes each component correct is stated with its module in section 3;
`hazards` in `PROJECT.json` lists each danger at its line.

### How the modules divide it

```text
PipelineRunner      one invocation of runPipeline
    | "ends; a commit is final"
    v
JobLifecycle        one job: create, run, cancel, delete, local run, restart
JobRetry            one stopped job and the retries created from it
ModelRunLifecycle   one SPICE model run: create, run, extend, retry, cancel, delete
LocalRuns           local runs of a job, the live record and the browser

ComponentWorkflow   the component and the application pipeline over one directory, and
                    what a model run reads and writes there
ModelWorkflow       the model pipeline from the inventory to the handed-on candidate
    `-- ModelCandidateSearch   the tools of the agent inside (EXTENDS)
ModelPublication    bundles, pointer, readers, restart
    `-- PublicationRegister    what it promises (refinement)

AgentArtifactStage  one stage an agent works for: attempts, rejections, promotions
    |-- ProcessRunner       the agent's process in one attempt
    `-- ArtifactPromotion   one promoted file or directory

MCServerChecks      the pure checks, on enumerated inputs
    |-- ViewerSimulation, CandidateQuality (over QualityOrder)
    |-- ApplicationConnectivity, ApplicationCircuit
    |-- ReferenceGrid, ReferenceAxis, ReferenceSamples
    |-- ReferenceFixture, ApplicationFixture, ReferenceInventory, InventorySamples
    `-- GraphWorkerPool     the one among them with steps
```

The lifecycle modules use of a pipeline only what `PipelineRunner` establishes:
it ends, and if its last stage committed it returns `completed`. JobRetry uses of
a launched job only that it ends and may be resumed or deleted. AgentArtifactStage
uses of a process that it ends with success or an error, and of a promotion that
it reads the candidate, checks the signal for the last time, and succeeds or
fails; what becomes of the files in between is ArtifactPromotion's subject.
ModelWorkflow ranks candidates by a number; that the comparison of qualities is an
order that numbers can stand for is a theorem about QualityOrder, and that every
stage asks the same order is CandidateQuality's subject.

Modules have an `MC` module for their small instances where a configuration
needs more than values of constants, and a `Proofs` module where theorems exist.
Where a component has few theorems they stand in the Proofs module of a
component close to it: ArtifactPromotion's, ViewerSimulation's and
ReferenceInventory's in AgentArtifactStageProofs, those of ModelWorkflow,
ModelCandidateSearch, GraphWorkerPool and QualityOrder in
ModelRunLifecycleProofs, LocalRuns' in JobRetryProofs. Definitions whose comment
begins with "Mutant" are plausible bugs; each property of a run is violated when
one of them replaces the definition it is named for. A property that joins
several statements has a mutant for each of them.

## 2. Conventions

- An action is a handler from one await to the next. Everything it does
  synchronously, its calls into the stores included, is in the action.
- A file operation that may fail is a disjunct. Failures are counted in `faults`
  and bounded by `MaxFaults` in the lifecycle modules; the other modules let any
  operation fail at any time.
- History variables (`committed`, `asked`, `torn`, `deleted`, `resumed`,
  `leaked`, `withheld`, `history`, `passed`, `approved`, `preview`, `overlap`,
  `stopped`, `late`, `crossed`, `overtaken`) record what happened for the properties; no guard of the modelled
  code reads one, except that `leaked` keeps an id from being issued twice.
- Status values the properties do not tell apart are one value: `agent_running`
  and `building` are `"working"`.
- A deadlock is checked in PipelineRunner, whose end is an explicit `Settled`
  step, and in ModelWorkflow, whose end is `Ended`. Everything else may come to rest: all requests answered, the job finished
  or gone, the run, the stage or the promotion over.

## 3. The modules

### PipelineRunner (`pipeline/pipeline-runner.ts`)

`pc` names the await `runPipeline` stands at, `stage` the loop index. `results`
is the table in memory, `bundle` the debug bundles on disk, `events` the log,
`observed` the last snapshot the observer took, `flags` the three `has_*_stage`
variables, `outcome` and `block` the state of the try and catch blocks of a
stage. `Start` to `Finish` follow the function from top to bottom; `Abort` is the
caller's signal. What a stage computes is reduced to the kind of its outcome.

Properties: `RunIsConsistent`, which joins `CommitIsFinal` and
`PublicationReturns` (the commit barrier of `docs/architecture.md`),
`EventsMatchResults` and `DependenciesHold`; `ObservedIsMonotone` (with the log,
three records of one fact); and `Termination` under weak fairness of the
runner's steps: file operations return, the observer is raced against a timer,
stages bound their own processes.

Run `pipeline_runner`: three stages, a dependency relation with a skip over a
stage, all three kinds of target with complete and with missing supplied outputs,
and a target that does not exist. Three stages are enough for a failed,
a skipped and a committed stage in one run, with one before and one after.

### JobLifecycle (`job-store.ts`, `run-job.ts`, `job-api/`, `job-restorer/`)

One job. `status`, `complete`, `ready`, `aborted` are its record, `saved` and
`tomb` the checkpoint in its directory and in the tombstone, `lease` and `active`
the two maps of the store. `creator`, `runner`, `pipe`, `local` and `deleter` say
at which await `createJobFromRequest`, `runJob`, its two `runPipeline` calls, an
in-place local run and each DELETE stand. `stale` tells that `runJob` holds a
controller that `claimCoordinatedPipelineExecutions` has replaced: the signal is
read before the claim.

`torn` is set when `runJob` lets go of the job before all of it has ended: one
pipeline threw and the other goes on, or the last write failed. The invariants
about executions are stated for the other behaviours; what happens in these is
described in section 5.

- `job_lifecycle`: two DELETEs, two failed writes, one restart, a local run.
  `JobIntegrity`: executions exclude each other and a claimed job is registered
  and incomplete; deletion overlaps neither an execution nor another deletion and
  is not undone; the record follows the checkpoint. `CancelHonoured`: a
  cancellation reaches the execution it was meant for and no other. `JobSettles`:
  every created job ends although the write of its end fails, unless that of the error
  handler fails too. One case is excepted and real: a
  DELETE that holds the lease while the runner is launched and then gives up
  leaves a queued job without a runner. Two DELETEs are needed for a stolen
  lease, two faults for a failing error handler; more requests repeat the same
  interleavings.

### JobRetry (`job-api/retry-job.ts`, `job-api/prepare-job-workspace.ts`)

One source and the retries requested of it. `pending` is the entry of
`pending_retries`, `waiting` the promise each request awaits, `setup` the await
of the promise, `retry` and `dir` the record and the directory of the new job.
A promise settles together with the requests that await it, since their
continuations run before any other handler does.

- `job_retry`: two requests, three ids, two faults, a restart, a deletion and a
  local run of the source, local runs and deletions of retries.
  `RetryIsConsistent`: at most one active retry (`OneActiveRetry`), `job.json`
  exactly for registered jobs (`MarkerMeansRegistered`), no stray directory
  (`WorkspaceAccounted`). No retry of a source under deletion (`SourceNotDeleted`), and every request answered
  (`RequestsAnswered`). Three ids allow a second retry after a first has ended and
  one more that is abandoned; no symmetry, because of the liveness property.

The status of the source is checked before the workspace is prepared and not
after it: a local run that resumes the source meanwhile goes unnoticed, so that a
retry may stand beside an active source. No property claims otherwise.

### ModelRunLifecycle (`model-run-store.ts`, `run-model.ts`, `model-run-api/`)

One model run. `effort` and `budget` are `effort_multiplier` and
`repair_budget_ms`, `granted` the budget in the context of the running pipeline,
`phase` how far the pipeline is, `exec` the claim. `recovering` counts the calls of
`recordUnexpectedRunnerFailure` that wait for their log entry and have yet to mark
the run failed; `overtaken` is history: such a call has ended a run that a new runner
or a local run had taken over meanwhile, which the properties except (section 5).
`StageUpdate` tells the updates that reset `is_complete` (`find_reference_graphs` and
the two waits) from those that write the status alone (`run_simulations`,
`repair_spice_model`); the stages are the same in a local run.

- `model_run`: two creators, effort up to 3 of 8, two faults. `RunIntegrity`: one
  execution, a record that agrees with itself and with the execution, deletion after
  the runner, effort within its limit, which is checked before an await. A final
  status always comes with `is_complete`; the converse holds of runs that were not
  overtaken.
  `OutcomeHonoured`: a published model is reported complete and a cancellation is
  not reported as a failure. `RunSettles`: every launched run ends although the
  write of its end fails; two failed writes in a row, which the two faults allow,
  are what it takes to leave it open. Three units allow two extensions and a refused one.

### ProcessRunner (`infrastructure/process/process-runner.ts`)

One call of `BunProcessRunner.run`. `phase` says where the function stands: the
race of the child's tasks against a termination, the two waits of
`settleProcessTasks` (after a termination, `settle`; in the catch block,
`closing`), or returned. `termination`, `settled`, `wallTimer`, `killTimer` are
the variables of that name; `check`, `seen`, `beat`, `snapshot` and `quiet` are
the idle check with its stat calls; `stream` holds the two `readStream` tasks,
which stand at a read or at the observer. The child (`leader`) may ignore SIGTERM
and may have a descendant in its group that holds the pipes open.

- `process_runner`: every combination of the optional parts of a request.
  `NothingLeftBehind`: the child is not left running with a SIGTERM it may ignore,
  which rests on an order (the kill timer is armed before the settle timer with
  the same two seconds), and a success has no gap in the output it handed on.
  `ReturnIsFaithful`: what is reported is what happened, and no signal goes to a
  pid that may be somebody else's. `DeadlineHolds`: a run with a wall timeout
  returns, though the child, its descendant and the observer may hang for ever.

### ArtifactPromotion (`infrastructure/artifacts/stage-workspace.ts`)

One call of `promoteStageFile` or `promoteStageDirectory`: `step` is the await,
`dest`, `temp` and `prev` what the three names hold, `onDisk` every directory a
loss of power may leave, given that a sync makes the present one durable. It is
assumed that operations on the directory reach the disk in order. `published`,
`moved` and `unrolled` are the function's own variables, on which its catch block
decides.

- `artifact_promotion`: both functions, with nothing, a regular or an irregular
  value at the destination; any operation fails, and a cancellation, a kill or a
  loss of power comes at any point. `PromotionIsSafe`: no reader sees part of a
  candidate, success is durable, a failure that does not call itself unrolled has
  left the old value, and the old value is under one of the two names until the
  new one is in place. The module has no constants: the run is exhaustive.

### AgentArtifactStage (`infrastructure/agent/`)

One call of `runAgentArtifactStage`, `TsciAgentClient.run` included. `pc` is the
await, `attempt` the artifact attempt, `tries` the client's transport attempt.
`failures` are the rejected attempts, `retained` those with a copy under
`rejected-attempts/`, `base` the one the workspace was seeded from, `prompted`
those the agent was told of. `file` follows each promotion of the one
`Promise.all`: when one fails the stage goes on to its finally block and returns
while the others may still be at work.

- `artifact_stage`: three attempts of two transport attempts, three files. What is
  promoted was neither rejected nor followed by another attempt, and feedback is
  cumulative and covers the candidate the workspace was seeded from (`RejectionIsFinal`);
  workspaces are removed (`WorkspacesDisposed`), a cancellation is not reported as a
  rejection (`CancellationPreserved`), and the stage returns and its stragglers end,
  however often the transport fails and candidates are rejected (`StageReturns`). The
  third attempt tells the last candidate from the last but one, the third file leaves
  two stragglers.

### ModelPublication, PublicationRegister (`modeling/model-publication/`, `publish-model.ts`)

`accepted` and `published` are the two bundles of each generation, absent, whole or
damaged; `pointer` is `published-model.json`, `safe` what a loss of power
leaves of it. Each process (the server, a command line run) has a store, `run`,
and stands at `pc`; `checkpoint` is the model run on disk. The steps follow
`publishModel`: prepare, check the signal for the last time, switch the pointer,
project onto the record, mirror, or discard what was prepared. Readers look at the
pointer and read the bundle in two steps. `PublicationRegister` is one value that is
replaced in one step.

- `model_publication`: two processes and two invocations, so that each may publish
  under the other; two faults among kills, losses of power and damaged bundles. A
  bundle that was ever selected is never removed (`AcceptedNeverDeleted`); an
  invocation ends as published exactly when the pointer was switched to it, and no
  record calls a model complete or shows one that was never accepted
  (`RecordsAreHonest`); the whole implements the register (`RefinesRegister`, with
  the pointer as its value), so that a request is answered with the generation it saw
  or is refused. Symmetric in the processes; the refinement states no fairness.

### ComponentWorkflow (`component-workflow/`, `job-restorer/restore-job-directory.ts`)

`pc` has the stage of each pipeline. `marker` and `dirs` are the evidence commits,
`published` the two files of the component, either of them truncated while
`Bun.write` works, `record` the job's record with what it shows. `passed` and
`approved` are history: what passed validation with every footprint, and which
applications did. `stopped` is history too: a stop of the server between a draft and
its validation leaves the directory, and the record restored from it, with files of
two drafts. Each of the two is cleared by what puts that place right, a validation the
directory, the next projection of an application the record. Candidates and drafts are
numbered; whether one passes is free.

`model` is the job's model run: it inspects the record, captures the source, commits
its publication (`bundle`, which the record then shows) and copies the source with the
model over `index.circuit.tsx`, as one more candidate. Pipelines are claimed one by
one, so a rerun of the component may be at work: `crossed` is history, such a copy
replaced a source that was built and not yet published. The restart shows `bundle`
when it can be read (`usable`, free), which alone makes the component ready, and else
what is published. The pipeline that makes the model is ModelWorkflow, its bundle
ModelPublication.

- `component_workflow`: two runs of each pipeline with a repair each, two candidates,
  two drafts, one model, one stop of the server: one candidate to publish and one to
  publish over it, a draft that is repaired or one of a second run, a model of either
  candidate. The code allows two repairs, which are two rounds of the same steps. An
  application is generated for one component, one that passed
  (`AcceptedComponentIsOne`), unless the publication is torn at that moment; what the
  record shows is one component, published or published with a model, and validated,
  after failed reruns, cancellations and restarts (`ShownIsAccepted`); markers select
  whole revisions (`MarkerSelectsRevision`). That the wait for the component ends is
  its deadline alone, and no property. The exceptions in the formulas are real: see
  section 5.

### ModelCandidateSearch, ModelWorkflow (`model-workflow/`)

ModelCandidateSearch is the agent's session: files `lib` and card, the receipts of
the static and of the training check, the counters of the search and its retained
best, under writes, checks, fits, failed restores and a killed process. ModelWorkflow
extends it by the stages: `cands` are the candidate directories with their revision,
quality and fate, `bundles`, `marker` and `record` the three places of a preview,
`clock` and `repairBudget` the repair budget.

- `model_workflow`: two runs of the pipeline, three sources of two topologies (one
  violates the contract), up to five candidates, a transport failure, a restart,
  cancels, an exhausted and an extended budget. A candidate the server would accept is at
  least as good as the best of the session (`AcceptableIsBest`); what is handed on is
  what is shown, and what is shown never gets worse and was never rejected
  (`BestIsShown`); a retry starts from a candidate that was shown as validated
  (`ReuseNeverRejected`); and the repair ends (`RepairEnds`) whatever the agent and
  the simulator do. Nothing but the budget bounds the attempts: one fits the first
  run's budget and two fit it extended, so that a rejected and a better candidate
  follow the first; one attempt fits the budget of the second run, which reuses the
  candidate shown before or, when that one does not fit the new contract, infers a
  model again.

### LocalRuns (`local-runs.ts`, `local-run-api.ts`, `pipeline-local-run/`, `src/web/use-*.ts`)

`disk` and `age` are a run's summary and the age of its heartbeat, `pc` and `mode` its
process, `rec` and `chk` the server's record and the checkpoint as revisions, `view`
what the browser shows, with its load, its event stream and the reply to a
cancellation. `late`, `crossed` and `overtaken` record the cases the properties except.

- `live_view`: two runs, in the server or the command line, one fault (a crash of any
  process or one missed heartbeat). A recorded result stays and only a late or dead
  run is declared interrupted (`ResultKept`); no run stays running (`EveryRunEnds`);
  the record catches up with the checkpoint and the browser with the record
  (`Converges`). Two runs are needed for one that is synchronised while the other
  works; `Stale` is two intervals, so that one missed heartbeat is not enough alone.

### The pure checks (MCServerChecks)

A state holds one input of one check; an invariant compares the answer with a
reference statement that says what the check is for without following its steps.
Numbers are small integers; quotients are compared by cross multiplication.

- **ViewerSimulation** (`modeling/viewer-simulation`, `spice-validation/scoring.ts`):
  probes, timing and scores. `WaveformsAreJudged`: a waveform covers the planned
  interval with one sample per instant, its score is its deviation from the reference,
  and a case passes only with exactly one waveform for each observation.
- **CandidateQuality** (`candidate-quality.ts`, `candidate-validation.ts`,
  `candidate-stimulus-causality.ts`, `repair-effectiveness.ts`,
  `model-parameter-fit.ts`): `CandidatesJudged`: the stage that compares from saved
  files and the one that compares in memory agree, feedback leaves out no failure, a
  candidate that does not run never displaces one that does. `FitsWithinGrant`: the
  fit stays within its evaluations and ranges and never returns worse than its start.
- **ApplicationConnectivity, ApplicationCircuit**
  (`application-connectivity-verification.ts`, `application-plan.ts`,
  `job-artifact-validator/`): `DrawingsKept`: two reviews agree exactly when they
  describe one drawing up to the exchange of symmetric pins, the compiled circuit has
  the planned nets, and every compiled component is inside the compared scope.
- **ReferenceGrid, ReferenceAxis** (`reference-graph-axis-proof/`):
  grid lines in a crop, division markers and tick labels, calibration, the receipt,
  its parser, preflight and republication. `AxesArePrinted`: one stray stroke or one
  hidden line does not change a recovered grid, and an axis that is proved, published
  or let through by the preflight is the printed one. `ReferenceSamples` draws the
  pictures. Scales and ticks are compared by their relative tolerances; the absolute
  floor of 1e-12 under them (`scope-divisions.ts:815`, `explicit-ticks.ts:157`) is left
  out: it decides only for a scale below 25e-12 per division, or ticks below 4e-13 per
  pixel, which no sampled picture has.
- **ReferenceFixture, ApplicationFixture, ReferenceInventory**
  (`reference-graph-observation/`, `characterization/source-inventory.ts`,
  `application-fixture-contract/resolver.ts`): `ReferencesKept`: what the finder
  reports is kept or refused but not altered by later phases, detected captions cannot
  be dismissed, printed and plotted pulses lie in their window, and an experiment
  leaves no passive without a node. `InventorySamples` has the datasheets and devices.
- **GraphWorkerPool** (`reference-graph-worker-pool.ts`): the workers of the pool, in
  steps, with failures and a cancellation; the pool answers for every graph or reports
  the failure that stopped it (a conjunct of `ReferencesKept`).

Run `server_checks` takes each check over all its samples: up to four time samples at
the instants around the end of an interval, three points of a curve, two graphs of a
datasheet, three graphs for two workers. These are the sizes at which a second sample,
a swapped pair, a duplicate or a second failure first appears. What the recursive
and folded definitions compute for larger inputs is not claimed.

### Fairness

Weak fairness is assumed of what the event loop will run: continuations of
awaited file operations and logs, the end of pipelines (shown as `Termination`
by TLC under the runner's own fairness), and timers. In ProcessRunner it covers
settled promises and timers, and nothing of the child, its descendant, the
streams or the observer; AgentArtifactStage takes the end of the agent's process
from its `DeadlineHolds`. ModelWorkflow needs the steps
of the stages other than the agent's and the simulator's answers, the clock, and
that a stopped server is started again. LocalRuns needs that live processes beat
and end, that time passes, that somebody lists the runs (the sidebar polls), that
a stopped server is restarted, and that the browser's requests, events and
reconnections arrive. Requests, aborts, faults and crashes are never fair.

## 4. Proofs

All theorems hold for every value of the constants that satisfies the named
assumptions: `StagesAssumption` (a definition `validatePipelineDefinition`
accepts), `TargetsAssumption`, `RetryAssumption`, `RequestsAssumption`,
`StageAssumption` (the clamps of the two attempt counts), `LocalAssumption` (a
heartbeat is stale after two intervals or more), `PoolConcurrency` (a pool has a
worker), and `JobAssumption`, `ModelRunAssumption`, `PublicationAssumption`,
`SearchAssumption` and the two `WorkflowAssumption`s, which say that bounds are
numbers and reserved names are not used twice. ArtifactPromotion has no constants.

The properties a run checks as one conjunction are theorems of their own:
`RunConsistent`, `RetryConsistent`, `LeavesNothing`, `ReturnTold`,
`RejectionKept`, `JobIsSafe` and `ModelRunIsSafe` follow from their parts.

**PipelineRunnerProofs.** `IInv` is the conjunction of `TypeOK` and

- `Frontier`: stages before the loop are terminal, stages after it pending, and
  the stage under it has the status its await implies;
- `Barrier`: the life of a committed stage. While it is under the loop, `outcome`
  remembers the commit and the catch block records no other result;
- `Trace`: terminal events and terminal statuses the observer has seen belong to
  stages the loop has left, whose results are fixed;
- `Ready`: the dependencies of a stage on its way to execution are settled.

None of the properties is inductive alone: `CommitIsFinal` needs `Barrier` to
exclude a catch block that has forgotten the commit, `EventsMatchResults` needs
that the loop has left a stage once its terminal event is written. Each part has
a lemma that every step preserves it. From `Inductive` follow `TypeCorrect`,
`CommitBarrier`, `CommittedRunReturns`, `EventLogAgrees`,
`DependenciesRespected` and the action property `ObserverMonotone`.

**JobLifecycleProofs.** `ExecutionExclusive` speaks of what executes and of the
claims; neither says when a deletion may go on. `IInv` adds

- `Unlaunched`: until `createJob` has launched the runner nothing executes, and a
  cancellation is kept in the controller;
- `Claims`: the claims tell what executes, unless `Promise.all` left an orphan;
- `Runner`: the outcome is settled before `runJob` leaves its try block;
- `Deletion`: a deletion holds the lease, and once it took the job for complete
  nothing executes or starts;
- `Cancellation`: a cancellation is in the runner's signal until it is in the
  outcome, and a local run started after it sees none.

There is a lemma for each kind of step. From `JobInductive` follow `JobIsSafe`
(exclusive execution, deletion is final, the record agrees with its checkpoint)
and the action property `CancellationHonoured`, for any number of requests,
faults and restarts.

**ModelRunLifecycleProofs.** `IInv` has `Birth` (the run is created once and
launched by the request that created it), `Lease` (what a deletion owns at each
await), `Settled` (the outcome is settled once, a cancellation that came before is
in it) and `Recoveries` (each pending failure record has cost a failed write).
From `ModelRunInductive` follow `ModelRunIsSafe` and the action property
`OutcomeIsHonoured`. The attempt showed that a failure record must outlive the
runner it is about: it is the reason for `recovering` and `overtaken`.

Its further sections are about the work of the model pipeline.

- *The search* (ModelCandidateSearch, inside ModelWorkflow). `AcceptableIsBest` says
  nothing of a call that is under way. `SearchInv` adds `Halfway` (how far the removal
  of the receipts and the restoration of the best have come, file by file) and `Kept`
  (where no check is at work the receipt of the static check is gone, tells of a
  failure, or the workspace holds the best). From `SearchInductive` follows
  `AcceptableKept`: a candidate the server would accept is the retained best or no
  worse, after any number of calls, failed restores and killed processes.
- *The stages* (ModelWorkflow). `WorkflowInv` has `OnlyPromoted` (what the record or a
  bundle can show was promoted), `MarkerSafe` (a restart shows nothing worse than what
  is shown), `Projection` (bundle, marker and record are written in this order, of a
  promoted candidate as good as the one shown) and `Handed` (from the repair on, the
  incumbent is what all three places hold). `BestIsShown` compares two states that a
  restart or a retry may separate: it needs `MarkerSafe` for the one and
  `OnlyPromoted` for the other. From `WorkflowInductive` follow the action properties
  `ShownNeverWorse` and `ReusePromoted`, for any sources, qualities, runs and budgets.
- *The pool* (GraphWorkerPool, as `PoolSpec`, a pool for any number of graphs and
  workers). `PoolInv` has `Crewed` (a worker and its graph belong to each other alone),
  `InOrder` (graphs are taken in order and no worker rests while one waits), `Blame`
  (only the caller or a graph that failed by itself stops a pool) and `Told`. From
  `PoolInductive` follows `PoolAnswers`. That the first waiting graph exists rests on
  `LeastNatural`, which is taken from the well-foundedness of set inclusion on the
  intervals 0..n, where no induction over an operator is needed.
- *The order of qualities* (QualityOrder). `QualityIsRank`: the
  order of `compareCandidateQuality` is irreflexive and transitive, and not being better either
  way is transitive, over all qualities with their means as quotients. Candidates
  can therefore be ranked by a number, which is what ModelWorkflow does.

**JobRetryProofs.** `IInv` adds to the properties `OnePromise` (a promise at work
is the one on `pending_retries`, its job does not exist, and no retry is active
beside it but resumed ones) and `SetupOwnsDirectory` (which directory a promise
owns at which await). From `RetryInductive` follow `RetryTypes`,
`RetryIsUnique`, `MarkerIsFaithful`, `NoStrayWorkspace` and
`DeletedSourceRefused`.

Its last section is about LocalRuns. `LocalInv` says of every run that was never late
that it is `Punctual`: its summary is fresh while it works and its own result once it
ended, and a caller who is about to declare it interrupted has seen it dead. A punctual
heartbeat is one interval old at most, so the proof needs `Stale` above one and nothing
else. From `LocalInductive` follows `LocalResultKept`, for any number of runs and
faults, whatever the synchronisation and the browser do.

**ModelPublicationProofs.** `IInv` has `Selected` (the pointer, what a loss of power
leaves of it and the mirrors name accepted generations), `Records` (every record,
in memory, read or on disk, is honest), `Owned` (an invocation alone has its
generation, which is accepted exactly from the switch of the pointer on) and that
the bundles of an accepted generation are present. `Owned` is what keeps the
removal of a prepared bundle from an accepted one. From `PublicationInductive`
follow `PublicationTypes`, `AcceptedKept`, `RecordsHonest` and
`PublicationRefinesRegister`: every step maps to a step of the register or leaves
it alone, for any number of processes, readers, generations and faults.

**ComponentWorkflowProofs.** `IInv` has `Candidate` (what is validated and published
is newer than what is published, and is the candidate in the source file unless a
model run replaced that), `Publication` and `Compared` (a published file never goes
back behind what the application run has seen, so two equal reads are of one
candidate), `Ready`, `Model` and `Present` (a model run captures a published source,
because both files are there once a run completed), `Verdict` (a validation record that
says passed is of an approved draft, the one on disk unless a run is between the
two) and `Shown`. From `WorkflowInductive` follow `WorkflowTypes`,
`MarkerIsWhole`, `ComponentIsOne` and `ShownAccepted`. The attempt showed that the
exception for a stopped server was cleared too early for a third run, which two
runs of each pipeline do not reach: hence the two places of `stopped`.

**ProcessRunnerProofs.** `IInv` relates `phase` to `is_settled` and the timers
(`PhaseOK`), keeps the promise of a kill (`KillComes`: while a child runs under a
termination the kill timer is armed or SIGKILL is sent, and it is sent once
nobody waits for the timer) and accounts for every chunk the observer did not
get (`GapExplained`). `ChildNotAbandoned` alone is not inductive: it says nothing
of the termination that comes before the return. From `RunInductive` follow
`RunTypes` (with the Boolean variables in a lemma of their own), `ChildIsKilled`
and `SuccessIsDelivered`, and the action properties `OutcomeTold` and
`NoLateSignal`.

**AgentArtifactStageProofs.** `IInv` adds to the properties `FailuresSoFar` (the
failed attempts are exactly those before this one, or this one too once it is
rejected), `Promotions` (only an accepted attempt starts any), `Seeded` (a workspace
starts from the candidate rejected just before) and `Transport`.
From `StageInductive` follow `StageTypes` (the attempt counters stay within their
limits), `FeedbackComplete`, `PromotedIsAccepted` and the action
property `CancellationKept`, for any set of files and any limits.
`WorkspacesRemoved` has a small invariant of its own, `Workspaces`: at most the
workspace of the present attempt stands, and none once the stage has left it, but
those whose removal failed.

Its second section is about ArtifactPromotion. `PromotionInv` says what each of the
three names holds at each await, on disk as well as in memory, and what the
variables of the catch block know of it; `PromotionIsSafe` alone forgets which rename
has been made. From `PromotionInductive` follows `PromotionSafe`.

The last two are about what the server reads in the files.

- *ViewerSimulation.* `PassedShowsJudged`: a simulation that passes shows exactly one
  waveform of the one experiment for each planned observation (`OneWaveformEach`, a
  conjunct of `WaveformsAreJudged`), for any plan, circuit and policy that is
  `WellIdentified`: finite, with ids that are used once. The proof counts: as many
  graphs as observations, and no graph for two of them.
- *ReferenceInventory.* `EligibleWasFound` follows a graph from the finder's answer
  through the first parse, the preflight, the parse with the interface, the workers or
  a stored checkpoint, and the combined parse: what ends up eligible is the graph of
  the answer at its place, spoken for by the source, captioned, calibrated and proved.
  It holds for any number of graphs and any answers; the only hypothesis is that they
  have the fields of a graph. It rests on `CanonicalKeeps`, which says of
  `canonicalizeObservedGraphSource` what it may change in either phase.
  `CaptionsAreOwned`: accepted reviews give each captioned hint exactly one graph, of
  its page and figure.

Only model-checked:

- all liveness (`Termination`, `JobSettles`, `RunSettles`, `RequestsAnswered`,
  `DeadlineHolds`, `StageReturns`, `RepairEnds`, `EveryRunEnds`, `Converges`): fairness
  and ENABLED are beyond the prover;
- the pure checks of MCServerChecks but those named above: scores, fits, grids, axes,
  circuits and fixtures are computed by folds and recursive functions, and what these
  compute for every input cannot be proved, since the induction theorems take operators
  as parameters;
- that the answers of ReferenceInventory are not refused where they should not be (the
  other direction of `InventoryKept`): it speaks of particular drawings and devices.

Where a module has proofs, its type invariant is left to them; `JobIntegrity` and
`RunIntegrity` include those of their modules.

## 5. What the models show of the code

Behaviour that the modelling brought out and that a property therefore excepts, or
that a comment or a document describes differently. None of it is claimed as a
property.

Jobs and model runs

- `runJob` joins its pipelines with `Promise.all`; when one throws, the claims are
  released while the other runs. Such an orphan can write the checkpoint between the
  rename of a directory and the removal of the record, which creates the directory
  again, and a restart restores the deleted job (`delete-job.ts:91` rules this out).
  A local run can start beside it (`job-store.ts:299` rules this out). `mkdir` of a
  run directory can recreate a deleted job's directory too (`job-execution.ts:377`).
- A model run created just before a deletion is launched under its lease and
  uncancelled: `launchModelRun` does not look again after its await, and
  `claimModelExecution` ignores the lease (`tests/model-run-api01.test.ts:371`).
- `recordUnexpectedRunnerFailure` looks again, after its log entry, whether the run is
  complete, but not whether it is still the execution that failed
  (`launch-model-run.ts:51`). If the run was ended and retried meanwhile, the late
  record marks the new run failed under its runner, and a deletion need not wait for
  that runner. The stages that write their status alone then leave a complete run
  "validating" or "running" (`validate-model.ts:16`, `repair-model.ts:234`). If its
  runner ends in its catch block, which skips a complete run (`run-model.ts:340`), the
  run stays so: a retry goes by the status, an extension calls "validating" busy, a
  cancellation finds it complete, and only a local run or a deletion is left.
- Effort added to an active run before `repair_spice_model` begins is lost when the
  stage stores the budget the pipeline was launched with (`repair-model.ts:169`).
- A failed rerun in place leaves `component_ready` true while the record shows the
  rejected code.
- The copy of a committed model into `index.circuit.tsx` (`publication-commit.ts:277`)
  can fall between the validation of a component rerun and `publish_component`, which
  reads that file again (`publish-component.ts:43`): it then publishes the source with
  the model and the Circuit JSON of the validated candidate.
- After a rerun of the component a restart shows the component of the last model
  publication, not the one published since (`restore-job-directory.ts:175`).

Processes and files

- `signalProcess` does nothing once the child itself has exited, so a descendant that
  holds the pipes survives a cancellation (`docs/architecture.md:113` promises the
  complete group). The guard is what keeps signals from a reused pid.
- Between the two renames of a promotion nothing is at the destination, and a kill
  leaves it so (`docs/architecture.md:254` calls the promotion atomic).
- A repair of the TSX alone replaces the bundle its marker selects by two renames; a
  stop between them leaves the marker without a bundle, and the restart falls back to
  the checkpoint.

Restart and local runs

- A component whose default footprint passed and whose variant failed is restored as
  ready (`tests/job-restorer01.test.ts:412`), and an application draft made after the
  last validation is restored as shown.
- Between the read and the write of a reconciliation a live run can be declared
  interrupted; its next heartbeat brings it back (`tests/local-runs01.test.ts:56`).
  A command line run that ends while a server run is active restores the active
  checkpoint as interrupted (`local-run-api.ts:227`). The list synchronises the latest
  run of a job only.
- The reply to a cancellation can overtake a later event (`use-active-job.ts:155`).

Model candidates

- `model-training-plan.json` is not written into the inference workspace, so the
  training and fit tools are dormant, though `modeling/prompts.ts:238` names the file.
- A signal that expires while a validated candidate is projected fails the whole
  repair stage (`repair-model.ts:355`).
- The quality of the first candidate counts a simulation as valid when it has a
  series, that of later ones by `simulation_valid`; a candidate that repairs the
  response to its stimulus may displace one with more runnable cases.
- The greedy assignment of pins is sound but may reject a correct circuit, and
  `"chip resistor"` is not among the kinds whose pins may be exchanged.

Reference graphs

- A found graph with numeric time and no hint, one whose passives do not reconcile, or
  one of an application that is not documented is called usable when found and can
  never be accepted for comparison, so that `create_comparison_graphs` uses up its
  attempts.
- The guidance for a missing proof tests for a name the builder does not emit
  (`unique_printed_time_per_division`).
- The stored observation is the raw one; publication rebuilds the proof without the
  preflight analysis, so a scope-calibrated graph is published only if it was exactly
  canonical already. The receipt is not always rebuilt alike (`builder.ts:563`):
  after calibration another marker or tick labels may match. Calibrating twice gives
  the same graph, except for thick lines whose midpoint moves.
- Two anchors within eight pixels may snap to one line, which throws; a zero anchor
  that snaps to the right gives earlier points a negative time. A stray stroke and a
  hidden line together can change the recovered period.
- The preflight lets through crops in which the proof cannot succeed (narrow panels,
  voltage printed as ticks only).
- A pulse with one visible rising edge and no printed frequency has an unchecked
  period; a trace that begins high is accepted for a pulse that starts low. An
  experiment on a pin that hangs on a pull-up cannot be bound.

## 6. Not modelled

Geometry checks of pads and packages, parsing and compilation of SPICE and TSX, OCR and
image decoding: functions over real numbers, pixels and text, for which small instances
say little; the models take their answers as inputs. Digests are equality. Task inputs
and artifact snapshots are steps of the runner that may fail. Of the artifact boundary,
the creation of a workspace and the collection of outputs (path and size checks). The
rendering of the web interface and the parsing of arguments. Prompts, scaffolds, log
texts and warnings. `PROJECT.json` gives the reason per component.

## 7. Plan

1. An abstract pipeline that PipelineRunner refines, used by the lifecycle modules.
2. The deletion of a job and its model run under one lease, with local runs.
3. Task inputs and snapshots; the bounded log.
