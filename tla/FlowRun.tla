------------------------------- MODULE FlowRun -------------------------------
(***************************************************************************)
(* One workflow run of SE-Agent Studio, from the request that creates it   *)
(* to the state it comes to rest in: the API requests that create, cancel  *)
(* and resume it (RunService), the executions that carry it out            *)
(* (execute_run_in_session and TechnicalDesignFlow.run, in a Celery worker *)
(* or in a thread of the server), and the rows they share in the database. *)
(*                                                                         *)
(* The unit of interleaving is the database commit: every repository save  *)
(* is add + commit + refresh, and everything between two commits of one    *)
(* process is invisible to the others.  An action is therefore the code of *)
(* one process up to and including its next commit (or its next read of a  *)
(* row that another process may have written).                             *)
(***************************************************************************)
EXTENDS Integers, Sequences, FiniteSets

CONSTANTS
  Execs,      \* executions: one per delivery of the run's message (or thread)
  Creator,    \* the POST /projects/{uid}/runs request
  Cancels,    \* POST /runs/{uid}/cancel requests
  Resumes,    \* POST /runs/{uid}/resume requests
  Stages,     \* the steps of the workflow
  Batches,    \* their grouping by parallel_group, in sort_order
  None,       \* "no stage", "no execution"
  Celery,     \* TRUE: execution_mode = "celery"; FALSE: a daemon thread
  Engines,    \* subset of {"sqlite", "mysql"}: the databases considered
  MaxRows,    \* bound: task rows ever inserted (MySQL) or held (SQLite)
  MaxCrashes, \* bound: workers lost (their message is delivered again)
  MaxKills    \* bound: processes lost for good

Requests == {Creator} \union Cancels \union Resumes
Procs == Execs \union Requests

ASSUME ProcsAssumption ==
  /\ Creator \notin Cancels \union Resumes
  /\ Cancels \intersect Resumes = {}
  /\ Execs \intersect Requests = {}
  /\ None \notin Procs \union Stages

ASSUME BatchesAssumption ==
  /\ IsFiniteSet(Stages)
  /\ Batches \in Seq(SUBSET Stages)
  /\ \A i \in DOMAIN Batches : Batches[i] # {}

\* A step is in one batch: its code is unique in a workflow
\* (uq_workflow_step_code), and each step is put into one group.
ASSUME DisjointAssumption ==
  \A i, j \in DOMAIN Batches : i # j => Batches[i] \intersect Batches[j] = {}

ASSUME BoundsAssumption ==
  /\ MaxRows \in Nat
  /\ MaxCrashes \in Nat
  /\ MaxKills \in Nat
  /\ Celery \in BOOLEAN
  /\ Engines \subseteq {"sqlite", "mysql"}

VARIABLES
  engine,     \* the database of the deployment, fixed
  run,        \* the flow_runs row
  rows,       \* the task_runs table, by id
  lastRow,    \* the id the task_runs table gave out last
  artifacts,  \* the artifacts table: who produced what
  events,     \* the run_events table
  pc,         \* where each process is in its code
  sess,       \* what each process's database session has read
  work,       \* the flow object of each execution
  crashes,    \* workers lost so far
  kills       \* processes lost for good so far

db == <<run, rows, lastRow, artifacts, events>>
faults == <<engine, crashes, kills>>
vars == <<engine, run, rows, lastRow, artifacts, events, pc, sess, work, crashes, kills>>

-----------------------------------------------------------------------------
(***************************************************************************)
(* The values.                                                             *)
(***************************************************************************)
Terminal == {"COMPLETED", "FAILED", "CANCELLED"}
Resumable == {"FAILED", "CANCELLED"}
Live == {"QUEUED", "RUNNING"}
RunStatus == {"none"} \union Live \union Terminal
OnlyPending == {} \* mutated: finalize_open_tasks forgets the RUNNING ones
OpenTask == {"RUNNING"}
TaskStatus == {"absent", "RUNNING", "SUCCEEDED", "FAILED", "CANCELLED"}

\* The columns of the run that decisions are taken on.  "finished" is whether
\* finished_at is set, "outputs" the stages whose output state_json holds.
RunRow == [status : RunStatus, finished : BOOLEAN, outputs : SUBSET Stages]
RunView == [status : RunStatus, finished : BOOLEAN]
View(r) == [status |-> r.status, finished |-> r.finished]
NoView == [status |-> "none", finished |-> FALSE]

RowIds == 1..MaxRows
TaskRow == [by : Execs \union {None}, stage : Stages \union {None}, status : TaskStatus]
NoRow == [by |-> None, stage |-> None, status |-> "absent"]

EventType == {"flow.started", "flow.cancelled", "flow.completed", "flow.failed",
              "flow.dispatch_failed", "flow.cancel_requested", "task.started",
              "task.completed", "task.cancelled", "task.failed"}
Event == [type : EventType, by : Procs, stage : Stages \union {None}]

\* seen: the run as loaded in the session, what an ORM write is compared with.
\* snap: the run as the session's open read transaction would show it (MySQL).
\* open: the unfinished tasks finalize_open_tasks has selected.
Session == [seen : RunView, snap : RunView, open : SUBSET RowIds]
NoSession == [seen |-> NoView, snap |-> NoView, open |-> {}]

\* The flow object: the batch in progress, the stage in hand, the stages of the
\* batch still to prepare or to settle, the id of each task row, the outputs in
\* self.state and whether a stage of a parallel group has failed.
Work == [batch : Nat \ {0}, stage : Stages \union {None}, todo : SUBSET Stages,
         row : [Stages -> 0..MaxRows], done : SUBSET Stages, failed : BOOLEAN]
NoWork == [batch |-> 1, stage |-> None, todo |-> {},
           row |-> [s \in Stages |-> 0], done |-> {}, failed |-> FALSE]

\* Where a process is in its code: an execution in the flow, any process in
\* mark_flow_run_failed, an execution or a request outside of them.
InFlow == {"start", "started", "loop", "prepare", "prepRun", "prepEvent", "wait",
           "saveTask", "artifact", "saveState", "doneEvent", "stageFailed",
           "cancelTask", "taskCancelEvent", "flowCancelEvent", "failTask",
           "failRun", "taskFailEvent", "handler"}
InFailure == {"markFailed", "finalize", "finalizeCommit", "failEvent"}
ExecActive == InFlow \union InFailure \union {"cancelEvent", "completeEvent"}
RequestActive == {"cancel", "cancelRequested", "clear", "reset", "dispatch"} \union InFailure
PC == {"idle", "queued", "return", "done", "lost"} \union ExecActive \union RequestActive

TypeOK ==
  /\ engine \in Engines
  /\ run \in RunRow
  /\ rows \in [RowIds -> TaskRow]
  /\ lastRow \in 0..MaxRows
  /\ artifacts \subseteq (Execs \X Stages)
  /\ events \subseteq Event
  /\ pc \in [Procs -> PC]
  /\ sess \in [Procs -> Session]
  /\ work \in [Execs -> Work]
  /\ crashes \in 0..MaxCrashes
  /\ kills \in 0..MaxKills

Init ==
  /\ engine \in Engines
  /\ run = [status |-> "none", finished |-> FALSE, outputs |-> {}]
  /\ rows = [i \in RowIds |-> NoRow]
  /\ lastRow = 0
  /\ artifacts = {}
  /\ events = {}
  /\ pc = [p \in Procs |-> "idle"]
  /\ sess = [p \in Procs |-> NoSession]
  /\ work = [e \in Execs |-> NoWork]
  /\ crashes = 0
  /\ kills = 0

-----------------------------------------------------------------------------
(***************************************************************************)
(* The session.  expire_on_commit is off and every save refreshes what it  *)
(* saved, so a session knows the run as of its own last save or refresh.   *)
(***************************************************************************)
Go(p, next) == pc' = [pc EXCEPT ![p] = next]

\* MySQL: snapshot reads, enforced foreign keys, ids never given out again.
MySQL == engine = "mysql"

\* What a SELECT of the run returns now.  InnoDB's REPEATABLE READ answers from
\* the snapshot taken by the first read after the session's last commit, which
\* is the refresh that follows that commit.
Fresh(p) == IF MySQL THEN sess[p].snap ELSE View(run)

\* The process is over: its session is closed, its objects are gone.
Close(p) ==
  /\ sess' = [sess EXCEPT ![p] = NoSession]
  /\ work' = [e \in Execs |-> IF e = p THEN NoWork ELSE work[e]]

\* save_run: commit, then refresh of the run.
Saved(p) == sess' = [sess EXCEPT ![p].seen = View(run'),
                                 ![p].snap = IF MySQL THEN View(run') ELSE @]

\* A commit that refreshes another row: the run is not reloaded.
Committed(p) == sess' = [sess EXCEPT ![p].snap = IF MySQL THEN View(run) ELSE @]

\* db.refresh(self.flow_run)
Refreshed(p) == sess' = [sess EXCEPT ![p].seen = Fresh(p)]

\* The status column after a flush that set the attribute to s: the ORM leaves
\* a column out of the UPDATE when the loaded value is already s.
StatusAfter(p, s) == IF sess[p].seen.status = s THEN run.status ELSE s

\* create_event
Emit(p, type, s) == events' = events \union {[type |-> type, by |-> p, stage |-> s]}

Present(i) == i \in RowIds /\ rows[i].status # "absent"
OpenRows == {i \in RowIds : rows[i].status \in OpenTask}

\* The task row behind the stage in hand, and whether an INSERT may refer to it.
RowInHand(e) == work[e].row[work[e].stage]
Referable(e) == MySQL => Present(RowInHand(e))
SetRow(e, status) == rows' = [rows EXCEPT ![RowInHand(e)].status = status]

-----------------------------------------------------------------------------
(***************************************************************************)
(* Requests: RunService.create_run, cancel_run, resume_run, dispatch_run.  *)
(***************************************************************************)
\* Insert the run, then activate its project (a row nothing here reads).
CreateRun(r) ==
  /\ r = Creator /\ pc[r] = "idle"
  /\ run' = [status |-> "QUEUED", finished |-> FALSE, outputs |-> {}]
  /\ Saved(r)
  /\ Go(r, "dispatch")
  /\ UNCHANGED <<rows, lastRow, artifacts, events, work, faults>>

\* apply_async puts the message in the broker, or Thread.start() the thread:
\* either way the next execution exists and has not begun.
Dispatch(r) ==
  /\ r \in Requests /\ pc[r] = "dispatch"
  /\ \E e \in Execs :
       /\ pc[e] = "idle"
       /\ pc' = [pc EXCEPT ![r] = "done", ![e] = "queued"]
  /\ Close(r)
  /\ UNCHANGED <<db, faults>>

DispatchFailsUnnoticed(r) == \* mutated: the error is swallowed
  /\ r \in Requests /\ pc[r] = "dispatch" /\ Celery
  /\ Go(r, "done") /\ Close(r)
  /\ UNCHANGED <<db, faults>>

\* The publish retries are exhausted: OperationalError, WorkerDispatchError.
DispatchFails(r) ==
  /\ r \in Requests /\ pc[r] = "dispatch" /\ Celery
  /\ Go(r, "markFailed")
  /\ UNCHANGED <<db, sess, work, faults>>

CancelReadAny(r) == \* mutated: a terminal run is cancelled as well
  /\ r \in Cancels /\ pc[r] = "idle" /\ run.status # "none"
  /\ Go(r, "cancel") /\ sess' = [sess EXCEPT ![r].seen = View(run)]
  /\ UNCHANGED <<db, work, faults>>

CancelRead(r) ==
  /\ r \in Cancels /\ pc[r] = "idle" /\ run.status # "none"
  /\ IF run.status \in Terminal
     THEN Go(r, "done") /\ UNCHANGED sess
     ELSE Go(r, "cancel") /\ sess' = [sess EXCEPT ![r].seen = View(run)]
  /\ UNCHANGED <<db, work, faults>>

CancelStatusOnly(r) == \* mutated: finished_at is not set
  /\ r \in Cancels /\ pc[r] = "cancel"
  /\ run' = [run EXCEPT !.status = StatusAfter(r, "CANCELLED")]
  /\ Saved(r)
  /\ Go(r, "cancelRequested")
  /\ UNCHANGED <<rows, lastRow, artifacts, events, work, faults>>

CancelWrite(r) ==
  /\ r \in Cancels /\ pc[r] = "cancel"
  /\ run' = [run EXCEPT !.status = StatusAfter(r, "CANCELLED"), !.finished = TRUE]
  /\ Saved(r)
  /\ Go(r, "cancelRequested")
  /\ UNCHANGED <<rows, lastRow, artifacts, events, work, faults>>

CancelEvent(r) ==
  /\ r \in Cancels /\ pc[r] = "cancelRequested"
  /\ Emit(r, "flow.cancel_requested", None)
  /\ Go(r, "done") /\ Close(r)
  /\ UNCHANGED <<run, rows, lastRow, artifacts, faults>>

ResumeRead(r) ==
  /\ r \in Resumes /\ pc[r] = "idle" /\ run.status # "none"
  /\ IF run.status \in Resumable
     THEN Go(r, "clear") /\ sess' = [sess EXCEPT ![r].seen = View(run)]
     ELSE Go(r, "done") /\ UNCHANGED sess
  /\ UNCHANGED <<db, work, faults>>

\* clear_run_history: one commit.  Without AUTOINCREMENT, SQLite gives the ids
\* of the deleted rows out again.
ResumeClear(r) ==
  /\ r \in Resumes /\ pc[r] = "clear"
  /\ rows' = [i \in RowIds |-> NoRow]
  /\ lastRow' = IF MySQL THEN lastRow ELSE 0
  /\ artifacts' = {}
  /\ events' = {}
  /\ Go(r, "reset")
  /\ UNCHANGED <<run, sess, work, faults>>

ResumeToCreated(r) == \* mutated: back to the column's default
  /\ r \in Resumes /\ pc[r] = "reset"
  /\ run' = [status |-> StatusAfter(r, "CREATED"), finished |-> FALSE, outputs |-> {}]
  /\ Saved(r)
  /\ Go(r, "dispatch")
  /\ UNCHANGED <<rows, lastRow, artifacts, events, work, faults>>

ResumeReset(r) ==
  /\ r \in Resumes /\ pc[r] = "reset"
  /\ run' = [status |-> StatusAfter(r, "QUEUED"),
             finished |-> IF sess[r].seen.finished THEN FALSE ELSE run.finished,
             outputs |-> {}]
  /\ Saved(r)
  /\ Go(r, "dispatch")
  /\ UNCHANGED <<rows, lastRow, artifacts, events, work, faults>>

-----------------------------------------------------------------------------
(***************************************************************************)
(* mark_flow_run_failed, run by an execution's handler or by a request     *)
(* whose dispatch failed: save the run, finalize_open_tasks, one event.    *)
(***************************************************************************)
Over(p) == Go(p, IF p \in Execs THEN "return" ELSE "done") /\ Close(p)

MarkFailed(p) ==
  /\ pc[p] = "markFailed"
  /\ run' = [run EXCEPT !.status = StatusAfter(p, "FAILED"), !.finished = TRUE]
  /\ sess' = [sess EXCEPT ![p] = [seen |-> View(run'),
                                  snap |-> IF MySQL THEN View(run') ELSE @.snap,
                                  open |-> IF MySQL THEN OpenRows ELSE {}]]
  /\ Go(p, "finalize")
  /\ UNCHANGED <<rows, lastRow, artifacts, events, work, faults>>

SelectOrLeave(p) == \* mutated: nothing to finalize, nothing to announce
  /\ pc[p] = "finalize"
  /\ LET open == IF MySQL THEN sess[p].open ELSE OpenRows
     IN  IF open = {} THEN Over(p)
         ELSE /\ sess' = [sess EXCEPT ![p].open = open]
              /\ Go(p, "finalizeCommit")
              /\ UNCHANGED work
  /\ UNCHANGED <<db, faults>>

\* The SELECT: on MySQL it still reads the snapshot of the save before it.
SelectOpenTasks(p) ==
  /\ pc[p] = "finalize"
  /\ LET open == IF MySQL THEN sess[p].open ELSE OpenRows
     IN  /\ sess' = [sess EXCEPT ![p].open = open]
         /\ Go(p, IF open = {} THEN "failEvent" ELSE "finalizeCommit")
  /\ UNCHANGED <<db, work, faults>>

\* The UPDATEs of the selected tasks.  One that finds its row gone raises
\* StaleDataError, which leaves the handler before it has emitted its event.
FinalizeOpenTasks(p) ==
  /\ pc[p] = "finalizeCommit"
  /\ IF \A i \in sess[p].open : Present(i)
     THEN /\ rows' = [i \in RowIds |-> IF i \in sess[p].open
                                       THEN [rows[i] EXCEPT !.status = "FAILED"]
                                       ELSE rows[i]]
          /\ Go(p, "failEvent")
          /\ UNCHANGED <<sess, work>>
     ELSE Over(p) /\ UNCHANGED rows
  /\ UNCHANGED <<run, lastRow, artifacts, events, faults>>

FailEvent(p) ==
  /\ pc[p] = "failEvent"
  /\ Emit(p, IF p \in Execs THEN "flow.failed" ELSE "flow.dispatch_failed", None)
  /\ Over(p)
  /\ UNCHANGED <<run, rows, lastRow, artifacts, faults>>

MarkFlowRunFailed(p) ==
  MarkFailed(p) \/ SelectOpenTasks(p) \/ FinalizeOpenTasks(p) \/ FailEvent(p)

-----------------------------------------------------------------------------
(***************************************************************************)
(* Executions: execute_run_in_session.                                     *)
(***************************************************************************)
\* get_run and create_flow_runner.  The status of the run is not looked at.
\* The runner may refuse: workflow disabled, step unsupported, no model.
Load(e) ==
  /\ pc[e] = "queued"
  /\ sess' = [sess EXCEPT ![e].seen = View(run),
                          ![e].snap = IF MySQL THEN View(run) ELSE @]
  /\ Go(e, "start") \/ Go(e, "handler")
  /\ UNCHANGED <<db, work, faults>>

HandlerSwallows(e) == \* mutated: the exception is not recorded
  /\ pc[e] = "handler"
  /\ Over(e)
  /\ UNCHANGED <<db, faults>>

\* except Exception: refresh, leave a cancelled run alone, fail any other.
Handler(e) ==
  /\ pc[e] = "handler"
  /\ IF Fresh(e).status = "CANCELLED"
     THEN Over(e)
     ELSE Go(e, "markFailed") /\ Refreshed(e) /\ UNCHANGED work
  /\ UNCHANGED <<db, faults>>

\* The function has returned or raised: the thread ends, the message is acked.
Acknowledge(e) ==
  /\ pc[e] = "return"
  /\ Go(e, "done")
  /\ UNCHANGED <<db, sess, work, faults>>

-----------------------------------------------------------------------------
(***************************************************************************)
(* TechnicalDesignFlow.run.                                                *)
(***************************************************************************)
MarkRunning(e) ==
  /\ pc[e] = "start"
  /\ run' = [run EXCEPT !.status = StatusAfter(e, "RUNNING"), !.outputs = {}]
  /\ Saved(e)
  /\ Go(e, "started")
  /\ UNCHANGED <<rows, lastRow, artifacts, events, work, faults>>

EmitStarted(e) ==
  /\ pc[e] = "started"
  /\ Emit(e, "flow.started", None)
  /\ Committed(e)
  /\ Go(e, "loop")
  /\ UNCHANGED <<run, rows, lastRow, artifacts, work, faults>>

\* The head of the loop: the only place a cancellation stops an execution.
NextBatch(e) ==
  /\ pc[e] = "loop" /\ work[e].batch <= Len(Batches)
  /\ Refreshed(e)
  /\ IF Fresh(e).status = "CANCELLED"
     THEN Go(e, "cancelEvent") /\ UNCHANGED work
     ELSE /\ Go(e, "prepare")
          /\ work' = [work EXCEPT ![e].todo = Batches[work[e].batch]]
  /\ UNCHANGED <<db, faults>>

EmitCancelled(e) ==
  /\ pc[e] = "cancelEvent"
  /\ Emit(e, "flow.cancelled", None)
  /\ Over(e)
  /\ UNCHANGED <<run, rows, lastRow, artifacts, faults>>

\* After the last batch the status is not read again.
CompleteRun(e) ==
  /\ pc[e] = "loop" /\ work[e].batch > Len(Batches)
  /\ run' = [status |-> StatusAfter(e, "COMPLETED"), finished |-> TRUE,
             outputs |-> work[e].done]
  /\ Saved(e)
  /\ Go(e, "completeEvent")
  /\ UNCHANGED <<rows, lastRow, artifacts, events, work, faults>>

EmitFlowCompleted(e) ==
  /\ pc[e] = "completeEvent"
  /\ Emit(e, "flow.completed", None)
  /\ Over(e)
  /\ UNCHANGED <<run, rows, lastRow, artifacts, faults>>

-----------------------------------------------------------------------------
(***************************************************************************)
(* One batch: _run_stage when it has one stage, _run_parallel_stage_group  *)
(* when it has more.  The stages of a group compute in threads of a pool   *)
(* that touch no row; the main thread prepares all of them, then completes *)
(* or fails them one at a time, in the order they return.                  *)
(***************************************************************************)
Alone(e) == Cardinality(Batches[work[e].batch]) = 1

\* An INSERT or UPDATE whose row another process has deleted fails, and leaves
\* the session waiting for a rollback: the refresh in each handler on the way
\* out raises as well, so the execution ends without writing anything more.
Abandon(e) == Over(e) /\ UNCHANGED db

\* _prepare_stage_execution: create_task, and save_task for the prompt.
CreateTask(e) ==
  /\ pc[e] = "prepare" /\ lastRow < MaxRows
  /\ \E s \in work[e].todo :
       /\ rows' = [rows EXCEPT ![lastRow + 1] = [by |-> e, stage |-> s, status |-> "RUNNING"]]
       /\ work' = [work EXCEPT ![e].stage = s, ![e].row[s] = lastRow + 1]
  /\ lastRow' = lastRow + 1
  /\ Committed(e)
  /\ Go(e, "prepRun")
  /\ UNCHANGED <<run, artifacts, events, faults>>

\* agent_factory.resolve knows no agent of that code.  Preparing a stage is outside
\* of every try of the flow: the tasks of the members prepared so far stay open.
PrepareFails(e) ==
  /\ pc[e] = "prepare"
  /\ Go(e, "handler")
  /\ UNCHANGED <<db, sess, work, faults>>

\* _mark_run(stage=...) rewrites state_json from self.state.
MarkStage(e) ==
  /\ pc[e] = "prepRun"
  /\ run' = [run EXCEPT !.outputs = work[e].done]
  /\ Saved(e)
  /\ Go(e, "prepEvent")
  /\ UNCHANGED <<rows, lastRow, artifacts, events, work, faults>>

EmitTaskStarted(e) ==
  /\ pc[e] = "prepEvent"
  /\ IF Referable(e)
     THEN LET left == work[e].todo \ {work[e].stage}
          IN  /\ Emit(e, "task.started", work[e].stage)
              /\ work' = [work EXCEPT ![e].stage = None,
                                      ![e].todo = IF left = {} THEN Batches[work[e].batch] ELSE left]
              /\ Go(e, IF left = {} THEN "wait" ELSE "prepare")
              /\ Committed(e)
              /\ UNCHANGED <<run, rows, lastRow, artifacts>>
     ELSE Abandon(e)
  /\ UNCHANGED faults

\* A stage of the batch returns (its output passes validation and the quality
\* gate) or raises.
StageReturns(e) ==
  /\ pc[e] = "wait"
  /\ \E s \in work[e].todo : work' = [work EXCEPT ![e].stage = s]
  /\ Go(e, "saveTask") \/ Go(e, "stageFailed")
  /\ UNCHANGED <<db, sess, faults>>

\* Celery's soft time limit raises in the main thread.  While that thread waits
\* for a parallel group the exception is not one of a stage: no task is marked.
SoftTimeLimit(e) ==
  /\ pc[e] = "wait" /\ ~Alone(e) /\ Celery
  /\ Go(e, "handler")
  /\ UNCHANGED <<db, sess, work, faults>>

\* The stage in hand is dealt with; after the last one of the batch the first
\* failure is raised, or the loop goes on.
SettleForgetful(e, fails) == \* mutated: only the last failure of a group is kept
  LET left == work[e].todo \ {work[e].stage}
  IN  /\ work' = [work EXCEPT ![e].todo = left, ![e].stage = None, ![e].failed = fails,
                              ![e].batch = IF left = {} /\ ~fails THEN @ + 1 ELSE @]
      /\ Go(e, IF left # {} THEN "wait" ELSE IF fails THEN "handler" ELSE "loop")

Settle(e, fails) ==
  LET left   == work[e].todo \ {work[e].stage}
      failed == work[e].failed \/ fails
  IN  /\ work' = [work EXCEPT ![e].todo = left, ![e].stage = None, ![e].failed = failed,
                              ![e].batch = IF left = {} /\ ~failed THEN @ + 1 ELSE @]
      /\ Go(e, IF left # {} THEN "wait" ELSE IF failed THEN "handler" ELSE "loop")

\* self.state after the output of the stage in hand is applied to a copy of it.
MergedIntoSnapshot(e) == \* mutated: applied to the copy taken for the batch
  (work[e].done \ Batches[work[e].batch]) \union {work[e].stage}
Merged(e) == work[e].done \union {work[e].stage}

\* _complete_stage_execution: merge the output into self.state, save the task,
\* create the artifact, save state_json, emit the event.
SaveTask(e) ==
  /\ pc[e] = "saveTask"
  /\ IF Present(RowInHand(e))
     THEN /\ SetRow(e, "SUCCEEDED")
          /\ work' = [work EXCEPT ![e].done = Merged(e)]
          /\ Committed(e)
          /\ Go(e, "artifact")
          /\ UNCHANGED <<run, lastRow, artifacts, events>>
     ELSE Abandon(e)
  /\ UNCHANGED faults

CreateArtifact(e) ==
  /\ pc[e] = "artifact"
  /\ IF Referable(e)
     THEN /\ artifacts' = artifacts \union {<<e, work[e].stage>>}
          /\ Committed(e)
          /\ Go(e, "saveState")
          /\ UNCHANGED <<run, rows, lastRow, events, work>>
     ELSE Abandon(e)
  /\ UNCHANGED faults

SaveState(e) ==
  /\ pc[e] = "saveState"
  /\ run' = [run EXCEPT !.outputs = work[e].done]
  /\ Saved(e)
  /\ Go(e, "doneEvent")
  /\ UNCHANGED <<rows, lastRow, artifacts, events, work, faults>>

EmitTaskCompleted(e) ==
  /\ pc[e] = "doneEvent"
  /\ IF Referable(e)
     THEN /\ Emit(e, "task.completed", work[e].stage)
          /\ Committed(e)
          /\ Settle(e, FALSE)
          /\ UNCHANGED <<run, rows, lastRow, artifacts>>
     ELSE Abandon(e)
  /\ UNCHANGED faults

FailureUnrefreshed(e) == \* mutated: no db.refresh, the loaded copy is compared
  /\ pc[e] = "stageFailed"
  /\ Go(e, IF sess[e].seen.status = "CANCELLED" THEN "cancelTask" ELSE "failTask")
  /\ UNCHANGED <<db, sess, work, faults>>

\* _mark_stage_execution_failed: a cancelled run turns the failure into a
\* cancelled task, and the flow carries on as if the stage had returned.
RefreshAfterFailure(e) ==
  /\ pc[e] = "stageFailed"
  /\ Refreshed(e)
  /\ Go(e, IF Fresh(e).status = "CANCELLED" THEN "cancelTask" ELSE "failTask")
  /\ UNCHANGED <<db, work, faults>>

CancelTask(e) ==
  /\ pc[e] = "cancelTask"
  /\ IF Present(RowInHand(e))
     THEN /\ SetRow(e, "CANCELLED")
          /\ Committed(e)
          /\ Go(e, "taskCancelEvent")
          /\ UNCHANGED <<run, lastRow, artifacts, events, work>>
     ELSE Abandon(e)
  /\ UNCHANGED faults

EmitTaskCancelled(e) ==
  /\ pc[e] = "taskCancelEvent"
  /\ IF Referable(e)
     THEN /\ Emit(e, "task.cancelled", work[e].stage)
          /\ Committed(e)
          /\ Go(e, "flowCancelEvent")
          /\ UNCHANGED <<run, rows, lastRow, artifacts, work>>
     ELSE Abandon(e)
  /\ UNCHANGED faults

EmitFlowCancelled(e) ==
  /\ pc[e] = "flowCancelEvent"
  /\ Emit(e, "flow.cancelled", work[e].stage)
  /\ Committed(e)
  /\ Settle(e, FALSE)
  /\ UNCHANGED <<run, rows, lastRow, artifacts, faults>>

FailTask(e) ==
  /\ pc[e] = "failTask"
  /\ IF Present(RowInHand(e))
     THEN /\ SetRow(e, "FAILED")
          /\ Committed(e)
          /\ Go(e, IF Alone(e) THEN "failRun" ELSE "taskFailEvent")
          /\ UNCHANGED <<run, lastRow, artifacts, events, work>>
     ELSE Abandon(e)
  /\ UNCHANGED faults

\* mark_run_failed is set for a stage that runs alone.
FailRun(e) ==
  /\ pc[e] = "failRun"
  /\ run' = [status |-> StatusAfter(e, "FAILED"), finished |-> TRUE,
             outputs |-> work[e].done]
  /\ Saved(e)
  /\ Go(e, "taskFailEvent")
  /\ UNCHANGED <<rows, lastRow, artifacts, events, work, faults>>

EmitTaskFailed(e) ==
  /\ pc[e] = "taskFailEvent"
  /\ IF Referable(e)
     THEN /\ Emit(e, "task.failed", work[e].stage)
          /\ Committed(e)
          /\ Settle(e, TRUE)
          /\ UNCHANGED <<run, rows, lastRow, artifacts>>
     ELSE Abandon(e)
  /\ UNCHANGED faults

-----------------------------------------------------------------------------
(***************************************************************************)
(* Faults.                                                                 *)
(***************************************************************************)
\* The worker process is lost before it has acknowledged the message (acks_late,
\* reject_on_worker_lost): the broker delivers it again, to a new execution.
WorkerLost(e) ==
  /\ Celery /\ crashes < MaxCrashes
  /\ pc[e] \in ExecActive \union {"return"}
  /\ \E d \in Execs :
       /\ pc[d] = "idle"
       /\ pc' = [pc EXCEPT ![e] = "lost", ![d] = "queued"]
  /\ Close(e)
  /\ crashes' = crashes + 1
  /\ UNCHANGED <<engine, db, kills>>

\* Celery's hard time limit stops the execution and acknowledges its message.
HardKill(e) ==
  /\ Celery /\ kills < MaxKills
  /\ pc[e] \in ExecActive
  /\ Go(e, "lost") /\ Close(e)
  /\ kills' = kills + 1
  /\ UNCHANGED <<engine, db, crashes>>

\* The processes of the server: the requests and, without Celery, the
\* executions, which are daemon threads of it.
Server == IF Celery THEN Requests ELSE Procs

\* They end with the server, and nothing starts them again.
ServerStops ==
  /\ kills < MaxKills
  /\ \E p \in Server : pc[p] \notin {"idle", "done", "lost"}
  /\ pc' = [p \in Procs |-> IF p \in Server /\ pc[p] \notin {"idle", "done"}
                           THEN "lost" ELSE pc[p]]
  /\ sess' = [p \in Procs |-> IF p \in Server THEN NoSession ELSE sess[p]]
  /\ work' = [e \in Execs |-> IF e \in Server THEN NoWork ELSE work[e]]
  /\ kills' = kills + 1
  /\ UNCHANGED <<engine, db, crashes>>

-----------------------------------------------------------------------------
\* What a user may do, at a time of the user's choosing.
Arrive(r) == CreateRun(r) \/ CancelRead(r) \/ ResumeRead(r)

Serve(r) ==
  \/ Dispatch(r) \/ DispatchFails(r)
  \/ CancelWrite(r) \/ CancelEvent(r)
  \/ ResumeClear(r) \/ ResumeReset(r)
  \/ MarkFlowRunFailed(r)

Execute(e) ==
  \/ Load(e) \/ Handler(e) \/ Acknowledge(e) \/ MarkFlowRunFailed(e)
  \/ MarkRunning(e) \/ EmitStarted(e) \/ NextBatch(e) \/ EmitCancelled(e)
  \/ CompleteRun(e) \/ EmitFlowCompleted(e)
  \/ CreateTask(e) \/ PrepareFails(e) \/ MarkStage(e) \/ EmitTaskStarted(e)
  \/ StageReturns(e) \/ SoftTimeLimit(e)
  \/ SaveTask(e) \/ CreateArtifact(e) \/ SaveState(e) \/ EmitTaskCompleted(e)
  \/ RefreshAfterFailure(e) \/ CancelTask(e) \/ EmitTaskCancelled(e) \/ EmitFlowCancelled(e)
  \/ FailTask(e) \/ FailRun(e) \/ EmitTaskFailed(e)

Next ==
  \/ \E r \in Requests : Arrive(r) \/ Serve(r)
  \/ \E e \in Execs : Execute(e) \/ WorkerLost(e) \/ HardKill(e)
  \/ ServerStops

Spec == Init /\ [][Next]_vars

\* A request that has begun is served, a queued message is delivered, a thread
\* runs, and a model call returns or times out.  Users and faults are not fair.
Fairness ==
  /\ \A r \in Requests : WF_vars(Serve(r))
  /\ \A e \in Execs : WF_vars(Execute(e))

FairSpec == Spec /\ Fairness

-----------------------------------------------------------------------------
(***************************************************************************)
(* Properties.                                                             *)
(***************************************************************************)
\* Whatever the interleaving of executions, cancellations and resumptions, a
\* run in a terminal status has its finished_at.  Status and finished_at are
\* two columns that _mark_run, cancel_run, resume_run and mark_flow_run_failed
\* each write from a copy that may be stale, and the ORM leaves out of the
\* UPDATE whichever of the two the copy already agrees with.
TerminalHasFinishedAt == run.status \in Terminal => run.finished

\* The processes that still owe the run a terminal status or a message.
Mine(e) == \A s \in Stages : work[e].row[s] # 0 =>
             /\ Present(work[e].row[s])
             /\ rows[work[e].row[s]].by = e
Undecided(p) == sess[p].seen.status \notin {"COMPLETED", "FAILED"}
SeesLive(e) == MySQL => sess[e].snap.status \in Live
WillSettle(e) ==
  \/ pc[e] \in {"queued", "start"}
  \/ pc[e] \in InFlow \union {"markFailed"} /\ Mine(e) /\ Undecided(e) /\ SeesLive(e)
WillDispatch(r) ==
  \/ pc[r] \in {"reset", "dispatch"}
  \/ pc[r] = "markFailed" /\ Undecided(r)

\* A QUEUED or RUNNING run is never orphaned: as long as no process is lost for
\* good, a message for it is queued, or a request is about to send one, or an
\* execution is at work whose rows are intact, whose snapshot is not out of date
\* and whose verdict the ORM will write.  resume_run refuses a run in these
\* statuses, so nobody could restart an orphan.
LiveRunIsOwned ==
  run.status \in Live /\ kills = 0 =>
    \/ \E e \in Execs : WillSettle(e)
    \/ \E r \in Requests : WillDispatch(r)

\* No execution and no request is in progress.
Quiescent == \A p \in Procs : pc[p] \in {"idle", "done", "lost"}

Succeeded(e, s) == \E i \in RowIds : rows[i] = [by |-> e, stage |-> s, status |-> "SUCCEEDED"]
Cancelled(e, s) == \E i \in RowIds : rows[i] = [by |-> e, stage |-> s, status |-> "CANCELLED"]

\* An execution gives a stage a task only when every stage of every earlier
\* batch has succeeded in that same execution: neither a failure inside a
\* parallel group nor a cancellation lets the next batch begin.  Holds as long
\* as nobody resumes the run while an execution of it is alive.
BatchBarrier ==
  \A i \in RowIds : Present(i) =>
    \A k \in DOMAIN Batches : rows[i].stage \in Batches[k] =>
      \A j \in 1..(k - 1) : \A t \in Batches[j] : Succeeded(rows[i].by, t)

\* Between two stages state_json holds the output of exactly the stages whose
\* artifact exists: completing the members of a parallel group one after the
\* other loses none of their outputs, and a redelivered execution starts from
\* nothing.  Holds as long as nobody resumes a run with a live execution.
OutputsMatchArtifacts ==
  \A e \in Execs : pc[e] \in {"loop", "prepare", "wait", "completeEvent"} =>
    run.outputs = {s \in Stages : <<e, s>> \in artifacts}

\* A completed run has, from one execution, the task, the artifact and the
\* output of every stage, except that a stage of the last batch may have ended
\* as a cancelled task.  Holds as long as nobody resumes a live execution.
CompletedHasOutputs ==
  run.status = "COMPLETED" =>
    \E e \in Execs : \A k \in DOMAIN Batches : \A s \in Batches[k] :
      \/ Succeeded(e, s) /\ <<e, s>> \in artifacts /\ s \in run.outputs
      \/ Cancelled(e, s) /\ k = Len(Batches)

\* Once everything has come to rest, a failed run has no task left RUNNING,
\* even when an earlier execution was lost in the middle of a stage.
FailedLeavesNoOpenTask ==
  Quiescent /\ run.status = "FAILED" /\ kills = 0 =>
    \A i \in RowIds : rows[i].status # "RUNNING"

Has(types) == \E event \in events : event.type \in types

\* Once everything has come to rest, the event log says how the run ended:
\* whatever was overwritten, cleared or emitted late on the way, the event that
\* goes with the final status is there.  On MySQL one case is excepted: there
\* an execution that was overtaken by a resumption can still save FAILED, and
\* the foreign key of its deleted task then refuses the event.
StatusIsExplained ==
  Quiescent /\ kills = 0 =>
    /\ run.status = "COMPLETED" => Has({"flow.completed"})
    /\ run.status = "FAILED" /\ (MySQL => \A r \in Resumes : pc[r] = "idle")
         => Has({"flow.failed", "flow.dispatch_failed"})
    /\ run.status = "CANCELLED" => Has({"flow.cancel_requested"})

\* A cancellation that is written while an execution waits for its stages, in a
\* batch that is not the last, is final.  Holds with reads that see the latest
\* commit, while no worker is lost and nobody resumes.
CancelledEarly ==
  /\ run.status = "CANCELLED"
  /\ \E e \in Execs : pc[e] = "wait" /\ work[e].batch < Len(Batches)
CancelBeforeLastBatchSticks ==
  [](CancelledEarly => [](crashes = 0 => run.status = "CANCELLED"))

\* A run that is accepted comes to rest in a terminal status, unless a process
\* is lost for good.
Settled == run.status \in Terminal /\ Quiescent
LiveRunSettles == run.status \in Live ~> (Settled \/ kills > 0)

\* A process lost for good orphans its run, which nothing restarts; but a user
\* who cancels and resumes it gets it to rest.
ResumedRunSettles == \A r \in Resumes : (pc[r] = "dispatch" /\ kills = MaxKills) ~> Settled

-----------------------------------------------------------------------------
(***************************************************************************)
(* What the repository's tests and comments say of a run, which the code   *)
(* does not keep in every interleaving (see the findings).                 *)
(***************************************************************************)
\* test_cancel_run_preserves_cancelled_status_during_inflight_stage: a cancelled
\* run stays cancelled, unless it is resumed.
CancelIsFinal ==
  [][run.status = "CANCELLED" => run'.status \in {"CANCELLED", "QUEUED"}]_vars

\* test_resume_run_clears_previous_attempt_records: after a resumption there is
\* one task per step.
OneTaskPerStage ==
  Quiescent => \A i, j \in RowIds :
    Present(i) /\ Present(j) /\ rows[i].stage = rows[j].stage => i = j
=============================================================================
