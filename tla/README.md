# SE-Agent Studio: TLA+ models and proofs

SE-Agent Studio turns a requirement into documents (`technical_design_v1`) or a
working code base (`delivery_v1`) by carrying out a *workflow*: an ordered list
of steps, each of which asks a language model for structured output. A user
creates a *run* of a workflow, watches it, may cancel it, and may resume it
once it has failed or been cancelled. The hard part of the program is that a
run's rows are written by several processes (API requests, the execution of the
run, a redelivered execution, an earlier execution that has not noticed yet
that it was cancelled) with no lock and no version number between them, each
working from a copy of the run it loaded earlier. Around that lie a workspace
directory that the executions of a run share, a stream that shows the run to its
user, and settings and step lists that are edited while runs are being set up.
These modules are about that.

Paths are relative to `src/`; `backend/app/` is left out where it is obvious.

## 1. Inventory

| Component | State | Operations | Interacts with | What makes it correct |
|---|---|---|---|---|
| Run requests, `services/run_service.py`, `api/v1/runs.py` | none of its own; the `flow_runs` row | create, cancel, resume, dispatch, `mark_flow_run_failed` | broker or thread; repository | an accepted run is never orphaned; a refused request changes nothing |
| Run repository and session, `repositories/run_repository.py`, `db/session.py` | four tables; per session an identity map and, on MySQL, a snapshot | save = add, commit, refresh; `finalize_open_tasks`; `clear_run_history` | everything | what a stale copy may and may not overwrite |
| Execution, `execute_run_in_session`, `workers/` | the session; the message | load, run, handle the exception, acknowledge | Celery (late acknowledgement, soft and hard time limits) or a daemon thread | a lost worker's run is carried out again; every exception is recorded |
| `TechnicalDesignFlow` | `self.state`, the batch, the prepared tasks | mark, batch loop, prepare, execute, complete, fail | repository; a thread pool for parallel groups | batches in order, no output lost, a cancellation stops it |
| `DeliveryFlow` | a workspace directory, code bundles in the state | generate, write, verify, repair | the flow it inherits from; subprocesses | the bundle that is delivered is the one that was verified |
| Stage runner, `crewai_stage_runner.py` | none | one model call, one retry without structured output, payload extraction | vendored crewAI | every result has passed the schema |
| Event stream, `stream_run` | the last event id sent | poll, send, stop at a terminal status | repository; the browser's `EventSource` | no event is lost |
| Run monitor, `frontend/src/stores/run.ts`, `RunMonitorView.vue` | run, tasks, events on screen | refresh, append, cancel, resume | stream and REST | what is on screen becomes what is in the database |
| LLM configuration, `services/llm_config_service.py` | one row per user: the account's connection, models older versions stored per role, connections per role | update, read, discover | flow construction, stage runner | a stored key is kept; the page and the runs agree on what is usable |
| Catalog, bootstrap, `services/catalog_service.py` | agents, workflow templates and steps | update, replace the steps, seed | flow construction | the steps of a workflow are one list; a run loads one list |
| Projects, `services/project_service.py` | `projects` | create, update, delete, package | runs, the workspace | a package is what its run delivered |
| Artifacts, users, administration | rows | queries, login | runs | ownership |

Behaviours that are hard here: overlapping executions of one run (cancel then
resume; redelivery), status written from a stale copy, the ORM's habit of
leaving unchanged attributes out of an UPDATE, REPEATABLE READ on MySQL,
time limits that raise between any two statements, failure of one member of a
parallel group, processes that stop between two commits or between two files,
and requests that write back a row or a list they read before another changed it. `PROJECT.json`
lists each at its line under `hazards`.

## 2. Modules

| Module | Content |
|---|---|
| `FlowRun` | one run, its requests, its executions, the database, the faults; all its properties |
| `MCFlowRun` | workflows of one to four steps for TLC, and the symmetry |
| `RunLifecycle` | abstract: who may move the status of a run, and how often |
| `FlowRunLifecycle` | the refinement mapping from `FlowRun` |
| `FlowRunProofs`, `FlowRunSafety`, `FlowRunRefinement` | proofs: types and local control; `finished_at` and no orphaned run; the refinement |
| `FlowRunOutcome`, `FlowRunOrderly` | proofs: the end of a run is explained; what a run that is not overtaken keeps: batch order, outputs, completeness, no open task, a cancellation that is final |
| `RunStream` | the event stream of one run, against any commits of other sessions |
| `RunMonitor` | the page that shows the run, composed with the stream |
| `RunStreamProofs` | the stream's types, completeness, and why it may pass an event over; the page's types and its timeline |
| `Delivery` | `delivery_v1`: bundles, workspace, verification, repair, hand-off, package |
| `MCDelivery`, `DeliveryProofs` | its instance for TLC; types, what is delivered is what was verified, the package, what the event log says of repairs and fallbacks |
| `Catalog` | the steps of a workflow and the requests that replace them |
| `LLMConfig` | a user's connection settings, the page's and a run's view of them |
| `FlowSetup` | the constructor of the flow, composed with both; the batches |
| `MCFlowSetup`, `FlowSetupProofs` | step lists and request bodies for TLC; proofs about both tables and the batches |

`FlowSetup` ends where `FlowRun` begins: its `batches` are the constant `Batches`
there, and a refusal in it is `Load`'s failure there. `Delivery` repeats of the
run only its status and state and shows the inside of what `FlowRun` takes to be
one outcome, the computation of a stage. `RunStream` accepts any commits and so those of
`FlowRun`.

### `FlowRun`

The unit of interleaving is the **commit**. Every repository save is add +
commit + refresh, and what a process does between two commits no other process
can see, so an action is the code of one process up to and including its next
commit, or its next read of a row others write. `pc` says where each process is.

* `run`, `rows`, `artifacts`, `events`: the rows of one run. `run` keeps
  `status`, whether `finished_at` is set, and the stages whose output
  `state_json` holds. `rows` is `task_runs` by id; `lastRow` the id given out
  last. SQLite gives the ids of deleted rows out again (the tables are created
  without AUTOINCREMENT), MySQL does not; `engine` is which of them it is.
* `sess[p].seen`: status and finished_at as loaded in the session of `p`.
  `expire_on_commit` is off, so the copy is renewed only by that session's own
  save or refresh of the run. `StatusAfter` is the ORM's net-change rule: an
  attribute set to the value it was loaded with is not in the UPDATE.
* `sess[p].snap`: on MySQL, what the open read transaction shows. The refresh
  after each commit opens it, so a later `db.refresh(flow_run)` answers from
  that moment (`Fresh`).
* `work[e]`: the flow object: batch, stage in hand, stages still to prepare or
  to settle, task ids, outputs in `self.state`, whether a member failed.
* Requests: `CreateRun`, `Dispatch`, `DispatchFails`; `CancelRead`,
  `CancelWrite`, `CancelEvent`; `ResumeRead`, `ResumeClear`, `ResumeReset`.
  Cancel and resume decide on a read that may be out of date when they write.
* `mark_flow_run_failed`: `MarkFailed`, `SelectOpenTasks`, `FinalizeOpenTasks`,
  `FailEvent`, run by an execution's handler or by a request.
* The flow: `MarkRunning`, `EmitStarted`, `NextBatch`, then per stage
  `CreateTask` (or `PrepareFails`, when the agent of the stage is unknown, with
  the members of the group that were prepared before it still RUNNING),
  `MarkStage`, `EmitTaskStarted`; `StageReturns`; `SaveTask`,
  `CreateArtifact`, `SaveState`, `EmitTaskCompleted`, or
  `RefreshAfterFailure` and one of the two ways on; `CompleteRun`. The members
  of a parallel group compute in pool threads that touch no row; the main
  thread deals with them one at a time in the order they return.
* An INSERT or UPDATE whose row has been deleted by a resumption fails and
  leaves the session in need of a rollback; the refresh in each handler then
  raises too, and the execution ends having written nothing (`Abandon`).
* Faults: `WorkerLost` (redelivered), `HardKill` (hard time limit, not
  redelivered), `ServerStops` (every request and, in thread mode, every
  execution), `SoftTimeLimit`.

What is abstracted: one run in the database; a stage's computation is an
outcome (`Delivery` opens it up for `delivery_v1`); `current_stage`,
`error_message`, `started_at`, the project row and the ownership checks, which
no later decision reads; the second commit of `create_task`/`save_task` for the
prompt; `state_json` is taken as written whenever it is assigned. Database
errors other than the missing rows above and a soft time limit outside of the
wait for a group are not modelled.

### `RunLifecycle` and `FlowRunLifecycle`

`RunLifecycle` has two variables: the status, and for each process the right to
move it. A request acquires its right by finding a status that allows it, an
execution by being dispatched or redelivered; each right is good for one write,
which may come much later; an execution that has failed the run can only fail it
again. An execution's write may be left out (its copy already shows the value), a
cancellation's or resumption's never. `FlowRunLifecycle` maps the program points
of each process to its right, and `StatusLifecycle` says that `FlowRun`
implements the abstract specification.

### `RunStream` and `RunMonitor`

`RunStream` is `event_generator`, a step per query and per message: `ReadRun`,
`ReadEvents`, `SendEvent`, `SendState`, `Refuse`. `conn` holds its local
variables and three history fields (`due`, `sent`, `missed`) that only the
properties read. The database is any sequence of repository commits (`Others`):
more than `FlowRun` produces, so what holds here holds for every order of them.
`engine` picks SQLite (one writer, ids of cleared events given out again, every
query sees the latest commit) or MySQL (ids given out before the commit, the
queries of one poll share a snapshot). `last_event_id` is assigned when the
events are read, not one by one; nobody can tell, the generator being its only
reader.

`RunMonitor` extends it with the browser: `Refresh` starts a `fetchRun`, whose
GETs (`GetRun`, `ListRunEvents`) are served one by one and whose `FetchRun`
replaces what is shown; `OnEvent`, `OnState` are the listeners of
`connectStream`; `EventSource` reconnects for ever, as browsers do;
`Click`, `ServeClick`, `ClickAnswered` are the two buttons; `Leave` is
`onUnmounted`, also while the first refresh is under way; `Login` is what a 401
does. Left out: the task list (a third GET like the second), GETs that fail
otherwise, and more than one visit of the page.

### `Delivery`

The grain is the file operation, the model call and the verification command;
what an execution commits between two of these is one action. `disk` is the
workspace directory by part (backend, frontend), `job[e]` the flow object and
the locals of the integration stage, `run.state` what the run has recorded. A
bundle of files is named by where it comes from: the execution, the template or
the model, the round of repair, and whether its files lie where the check of the
part runs.

* `Begin`, `NextBatch`, `Proceed`, `Raise`, `Return`: the loop over the batches
  and its ways out. `Plan` stands for `delivery_requirements` and
  `solution_design`.
* `CompleteBundle`, `AnnounceFallback`, `FailBundle`, `EndGroup`: the parallel
  group, with the template in place of a model answer that was cut off.
* `ClearWorkspace`, `WriteFiles`, `CheckFiles`, `ReportChecks`, `DecideRepair`,
  `RepairBundle`, `RecordIntegration`: `_build_integration` with the repair loop.
* `HandOff`; `AskPackage`, `ListFiles`, `ZipFile`: `build_delivery_package`,
  which reads a directory that belongs to whatever execution comes next.
* `Cancel`, `Resume`, `WorkerLost` at any time; `Abandon` for an execution whose
  task a resumption has deleted.

Left out, being `FlowRun`'s: task and artifact rows, requests in two steps, the
soft time limit, stale copies of the status. Also the README and .gitignore
written with the bundles, the text of prompts, documents and templates, and the
other parts of the verification report. Two simplifications bear on what "the
files" means: the code validates no path of a generated file, so the two bundles
and the workspace's own files may overwrite one another, and the model takes them
as disjoint; and the verification commands may leave caches, or whatever generated
tests write, in the directory that is packaged later, and the model has them leave
it alone. `Faulty` bounds which modes meet a
resumption or a lost worker.

### `Catalog`, `LLMConfig` and `FlowSetup`

`Catalog`: `ReadWorkflow` loads the template with its steps; `Refuse`, `Save`,
`Replace` are the rest of `update_workflow`. A replacement deletes the rows it
loaded, *by id*, and inserts its own, in one transaction whose first write locks
out other writers and which is therefore one action. It fails and is rolled back
when a row that others inserted since has one of its step codes. SQLite gives ids
of deleted rows out again, so a request may delete rows it never saw, and part
of a list: `StepsOfOneRequest` judges overlapping replacements on MySQL only. A
request that is done keeps its list and whether it was `stale`, for the property.
Left out: lock timeouts, equal `sort_order`, and the bootstrap, which runs before the
service. `Apart` and other lists make groups that touch or return.

`LLMConfig`: `ReadConfig` and `CommitConfig` are `update_user_config`; `Updated`
is the merge of a body into the row (a key left out or blank is kept, `clear`
beats a typed key, a role that is named takes the place of its older model),
`Written` the UPDATE of the columns that changed, which for roles is the whole
mapping. `RoleReady`, `IsReady` are what the page shows; `RuntimeOf` is
`get_runtime_config_for_user`; `Connection` is `resolve_runtime_settings`. A key
is the request that typed it. `KeyAsAsked` judges a request committed over a row
it had not read, unless it speaks of the very column that another has changed
(`Crossed`): api_key, or the roles' settings, which are written back as a whole.
`RoleSettingsAreUsed` is about roles and accounts
that are ready: for others each part of a connection is resolved on its own and
the parts may come from different sources. Left out: provider names and temperatures, keys
that cannot be decrypted, codes of agents that do not exist, the list of models
asked of the provider.

`FlowSetup`: `LoadTemplate`, `LoadSteps`, `LoadRuntimeConfig`, `ResolveMode`,
`BuildStages` are the reads and decisions of the constructor, each of which other
requests may precede; on MySQL a snapshot is one of these behaviours. A resumed
run is constructed anew from the lists as they are then. `StageBatches` is
`_iter_stage_batches`, two nested loops as two recursive functions. Nothing reads
`depends_on`: the order of the steps and their groups is all there is.

## 3. Runs

No run checks deadlock (`CHECK_DEADLOCK FALSE`): a run that has come to rest,
with no request left to arrive, has legitimately nothing more to do. That it
comes to rest at all is what the liveness properties say.

| Run | Instance | Shows |
|---|---|---|
| `redelivery` | 2 executions, 1 cancellation, fork/join of 4 stages, 1 lost worker | ownership, batch order, no lost output, completeness, no open task after a failure, an explained end; the run settles, and a cancellation before the last batch is final while no worker is lost |
| `resume` | 2 executions, 1 cancellation, 1 resumption, 2 stages, both databases, 1 process stopped for good | types, `finished_at`, ownership, explained end and the abstract lifecycle, with two executions writing one run, ids given out twice and snapshot reads |
| `resumes` | thread mode, 3 executions, 2 resumptions, 1 stage, the server may stop | ownership and explained end under concurrent resumptions |
| `liveness` | 2 executions, cancellation, resumption, 1 process lost for good | every run settles; one that lost its process settles once resumed |
| `stream` | 4 inserts and saves, any clearings, 1 dropped connection, both databases | a stream that ends is complete; causes of a gap, on either database |
| `monitor` | 2 inserts and saves, 2 refreshes in flight, 1 click, one visit | types, no event shown twice, the page catches up |
| `delivery` | 2 executions, both modes, 2 repairs, 1 resumption, 1 lost worker, cancellation at any time | workspace, record, results, events and package agree; the run settles |
| `setup` | 3 requests of either kind, 7 lists, 9 bodies, 2 stored rows, both databases, both flows | the steps are one list, or whole ones; keys are kept; page and runs agree; the batches are the list |
| `cancel_overwritten`, `cancel_unseen`, `resume_overlap`, `auto_refused` | small | the findings below |

Bounds: two executions are what it takes for a stale one and a current one to
meet, a third (run `resumes`) lets the second be stale too; two stages give
every stage of a batch an earlier or a later one, four the shape of
`technical_design_v1`. `MaxRows` is exactly executions x stages, so no behaviour
is cut by it. Each process dies at most once, and `MaxCrashes`/`MaxKills` 1 let
the fault fall at every point. Of the symmetric runs only `resume` has a temporal
property, and that one is a safety property of which no process is singled out.

`StatusIsExplained` and `OutputsMatchArtifacts` are stated for the settings in
which they hold: not for MySQL with overlapping executions (the UPDATE of the
open tasks then finds a row gone and the event is never written), and not for a
resumption of a run whose execution is alive, respectively. `PackageIsWhole`
excludes a resumption under a live execution and the loss of the very worker that
completed the run, whose message runs the COMPLETED run once more, over the
workspace that is being packaged.

Fairness (`FairSpec`): weak, of each request once it has begun and of each
execution. Uvicorn serves a request, Redis delivers a message, a thread is
scheduled, and a model call returns or times out (`llm_timeout_seconds`). Users
and faults are not fair: `Arrive`, `WorkerLost`, `HardKill` and `ServerStops`
need never happen. In `RunMonitor` the server's generator, each GET, the
listeners and the reconnection are weakly fair; other sessions' commits, the
user, the network and the expiry of the token are not.

`liveness` has a process that is lost for good, `redelivery` and `delivery` a
worker whose message is delivered again. In `Delivery` the execution is weakly
fair: a command has its timeout of 45 s, a model call the client's.

Bounds of `delivery`: two repairs make a first, a middle and a last round; two
executions are one that is overtaken or lost and the one that follows. Only
`template` executions are overtaken or lost there (`Faulty`); the proofs have no
such bound. Bounds of `setup`: two requests overlap, the third comes before,
between or after them, and uses an id again. A request may be of either kind, so
the mixed cases are there too. The lists have up to three steps: a group at the
end, two that touch, one that returns, and one list for each refusal.

Bounds of `stream` and `monitor`: an insert, a clearing and a second insert are
what it takes to give an id out twice, a terminal status and a later event what
it takes to end a stream early; a clearing needs an event and so is bounded by
the inserts. Two refreshes in flight can answer in either order; a third waits,
as in a browser that limits its connections to one host. `MaxWire` 1 makes the
server wait for the browser, 2 (in `stream`) lets it run ahead.

## 4. Proofs

TLAPS checks, for every number of executions, requests, stages and batches, and
for every bound and setting:

* `TypeCorrect == Spec => [](TypeOK /\ ControlOK)`. `TypeOK` alone is not
  inductive: that the row in hand is a row, that an artifact belongs to a stage
  and that the next batch exists depends on what the flow object holds at that
  point of its code. `ControlOK` says so for each group of program points.
* `FinishedAtCorrect == Spec => []TerminalHasFinishedAt`. Status and finished_at
  are two columns that a stale copy may each leave out of its UPDATE. The
  strengthening, `RequestOK`, says what a request that is about to write knows
  of them.
* `OwnershipCorrect == Spec => []LiveRunIsOwned`. The invariant names who still
  owes a live run its end: a message, a request about to send one, or an
  execution whose rows are intact (`Mine`), whose verdict the ORM will write
  (`Undecided`) and whose snapshot is not out of date (`SeesLive`). It needs
  `RowsOK` (an id beyond `lastRow` is no row, so a task an execution inserts
  cannot collide with another execution's) and the case analysis of every step
  of every other process, which must leave the owner an owner or become one.
* `LifecycleCorrect == Spec => StatusLifecycle`, the refinement: the initial
  state maps to an initial state, and each action to one abstract step or a
  stutter. It needs what the request read (`RequestOK`) and the types.
* `ExplanationCorrect == Spec => []StatusIsExplained`. For each terminal status
  the invariant says that its event is there, or that a process is on a path
  that ends in it (`CancelExplained`, `CompleteExplained`, `FailExplained`), or
  that a resumption has cleared the log and is about to reset the status. On
  that path nothing may raise, so for FAILED the selected tasks must still be
  rows (`RowsFixed`); this is where MySQL with resumptions drops out.

Where the code promises something only of runs that are not overtaken, the
hypothesis is written down as a step condition: `Orderly` says that a resumption
clears the history of a FAILED or CANCELLED run, at which nothing is at work,
and `OrderlySpec == Spec /\ [][Orderly]_vars`. `resume_run` checks the status and
not whether an execution is alive, so a behaviour of `Spec` need not be orderly
(`resume_overlap`); one without resumptions is, and
`WithoutResumptionsCorrect` says so of `Spec` itself, with any number of
cancellations, lost workers and redeliveries. In an orderly run at most one
process is at work (`OneAtWork`) and others can do no more to it than write
CANCELLED (`WorksAlone`). On this rests `OrderlyInv`: the execution's rows are its
own and open (`RowsInv`), its copy of the status is not older than RUNNING
(`RunningOK`), every stage of every batch before has ended well (`ProgressOK`),
outputs, artifacts and `self.state` agree up to the one commit in between
(`OutputsInv`), and a FAILED run has no open task that nobody will close (`Tidy`).

* `BarrierCorrect`, `OutputsCorrect`, `CompletionCorrect`, `FailureCorrect`:
  `OrderlySpec => []P` for `BatchBarrier`, `OutputsMatchArtifacts`,
  `CompletedHasOutputs`, `FailedLeavesNoOpenTask`.
* `CancelCorrect`: `Spec => CancelBeforeLastBatchSticks` where reads see the latest
  commit and nobody resumes, which is what the property is stated for. Once a
  cancellation meets an execution that waits in a batch that is not the last,
  whatever is at work will read the status before it writes it (`Sticks`), and
  stays so.

Of the stream, for any number of writers, events and connections, on both
databases:

* `StreamTypeCorrect == StreamSpec => []StreamTypeOK`.
* `StreamEndsCompleteCorrect == StreamSpec => []StreamEndsComplete`. The
  invariant (`StreamInv`) says that an event of the log has been sent, is queued,
  was passed over, or has an id beyond those read (`Kept`), and that on MySQL the
  snapshot holds all that is due (`ViewOK`).
* `MissedHasCauseCorrect == StreamSpec => []MissedHasCause`. On SQLite the cursor
  is always the id of an event that was read (`CursorOK`), so what lies below it
  was given out again. On MySQL ids are allotted in the order of insertion
  (`OrderOK`) and the cursor is the id of an event that was read: it was inserted
  after every event that is passed over below it, and committed before it
  (`OvertakenCause`, `OrderInv`).

Of the page, for any number of refreshes, messages and clicks:

* `PageTypeCorrect == Spec => []TypeOK`, in which the list on screen is always a
  sequence of events: the events of a run have distinct ids at every moment,
  though SQLite gives ids out again (`IdsOK`), so the query that orders them by id
  has an answer, and what a refresh brings keeps that property (`FetchesOK`).
* `TimelineCorrect == Spec => []NoEventTwice`.

Of the delivery, for any number of executions, repairs, resumptions and losses:

* `TypeCorrect`, in which `attempt` never exceeds `max_repair_attempts`.
* `DeliveryCorrect == Spec => []DeliveredAsRecorded`. The invariant follows one
  execution at a time: as long as nothing was overtaken a single one is alive
  (`Undisturbed`), and at each point of the integration stage the directory
  agrees with the part of `files` already written and the results with what has
  been checked. A lost worker leaves any mixture, and the one that follows removes
  it before it writes.
* `PackageCorrect == Spec => []PackageIsWhole` (`PackageKept`). The run is
  completed by the author of what it records (`CompletesOwn`), which from then on
  is the only execution alive (`LastAtWork`): unless it is lost, none is left that
  could write while the archive is made, whatever was lost before.
* `RepairsCorrect`, `FailuresCorrect`, `FallbackCorrect`: `RepairsFollowFailures`,
  `FailuresDeliveredLast`, `FallbackIsAnnounced`. `Logged` relates the live
  execution's bundles, results and round to the events it has written: a part
  that passed keeps its bundle, a part that failed has one more round, and the
  last report is of the files as they are. A COMPLETED run inherits it from the
  execution that completed it (`LogDelivered`).

Of the two tables and the constructor, for any requests with any bodies
(`SetupInv`):

* `SetupTypeCorrect == Spec => []TypeOK`. On SQLite the next id is one more than
  the largest of the rows that are left: that there is a largest one needs
  `IdsBounded`.
* `KeysCorrect == Spec => []KeyAsAsked`: what a request leaves in a column it has
  not crossed is what it would have made of the column as it is now
  (`WrittenUncrossed`), whatever others have written to the rest of the row.
* `ReadyCorrect`, `RolesCorrect`: `ReadyIffRuntime` and `RoleSettingsAreUsed` are
  facts about every row, so their proof is case analysis under the types.
* `StepsCorrect == Spec => []StepsOfOneRequest`: a request that finds the table
  as it read it deletes all of it. On MySQL an id says which row it is, among the
  rows there are and those a request has read (`SeenOK`); a request has read the
  whole of a list or nothing of it, so that is what it deletes (`KeptWhole`).
* `BatchesCorrect == Spec => []BatchesPartition`, for lists of any length. The
  loops of `_iter_stage_batches` are recursive functions; `StageBatchesCut` shows
  that the batches lie between cuts of the list, each at the end of a run of one
  group (`GroupRun`). That the list exists at all (`SortedExists`) needs a finite
  table with distinct ids (`TableOK`), also where ids are given out again.

The prover takes neither induction theorems with an operator as parameter nor a
recursive function at its word. Both are replaced by the least-number principle
(`LeastNatural`, from the well-founded order of the numbers): a recursive function
or a sorted list is shown to exist by extending the one for the next smaller case,
so the `CHOOSE` behind it satisfies its equation, and what it computes is shown by
a least counterexample.

Assumed: `ProcsAssumption` (processes are distinct), `BatchesAssumption` (a
batch is not empty, a workflow has finitely many steps), `DisjointAssumption` (a
step is in one batch: `uq_workflow_step_code`, and `BatchesCorrect` for the list)
and `BoundsAssumption`; for the stream `StatusAssumption`, `EngineAssumption` and
`BoundAssumption`; `DeliveryAssumption`; `CatalogAssumption` and
`ConfigAssumption`. The runs evaluate them.

Every safety property a passing run checks is proved. Only model-checked: the
liveness properties `LiveRunSettles` and `ResumedRunSettles` of `FlowRun`,
`ScreenCatchesUp` of `RunMonitor` and `Settles` of `Delivery`, which rest on
fairness and are out of the prover's reach.

## 5. Findings

* `cancel_overwritten`: the status is read before each batch, never after the
  last; a run cancelled during its last stage ends COMPLETED.
* `cancel_unseen`: on MySQL the refresh after a failed stage answers from the
  snapshot the open transaction took before the stage ran, so a cancellation
  made meanwhile is missed and overwritten with FAILED. After a stage that
  succeeds, `save_task` has opened a new transaction and it is seen.
* `resume_overlap`: resuming a cancelled run does not wait for its execution,
  and a stage gets two tasks.
* `auto_refused`: with `AGENT_RUNTIME_MODE=auto` and no model configuration
  `technical_design_v1` refuses the run; README.md says that it falls back to the
  templates, as `delivery_v1` does.

## 6. Not modelled

* `crewAI/`: a vendored copy of a third-party framework, by far most of the
  repository's lines. Of it the program calls `Agent`, `Task`, `LLM` and
  `Crew.kickoff` in one function of the stage runner; a call is an outcome here.
* The stage runner's retry without structured output and its search for a JSON
  object in the answer: sequential, without state, and seen by nobody but the
  caller, which gets a payload or an exception.
* Deletion of a project while one of its runs is alive: the rows go, the
  execution does not know, and SQLite may give the run's id to another run.
  `FlowRun` has one run whose row always exists; see the plan.
* The agent factory, templates, output models and guardrails: construction of
  values without state. Artifacts and administration: queries.
* Users: login and tokens; that a request is the owner's is a precondition.
* Bootstrap and migrations: run once, before the service.
* The web client's other views: forms over the API. Of the monitor, more than one
  visit of the page, and GETs that fail other than by a 401.

## 7. Plan

1. Proofs: what an overtaken execution can and cannot do on MySQL, where
   `StatusIsExplained` makes an exception.
2. Several runs of several projects: deletion under a live execution, ids of runs
   given out again, the choice of the run to package.
3. The monitor across visits of different runs' pages.
