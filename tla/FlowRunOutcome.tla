---------------------------- MODULE FlowRunOutcome ----------------------------
(***************************************************************************)
(* How a run ends, proved for every instance and whatever overlaps: at     *)
(* rest the event log holds the event that goes with the final status.     *)
(***************************************************************************)
EXTENDS FlowRunRefinement

-----------------------------------------------------------------------------
(***************************************************************************)
(* What a step does to the status, the events and a pending reset.         *)
(***************************************************************************)
\* The code an execution runs next is where its program counter stands.
LEMMA StepAt ==
  ASSUME NEW e \in Execs, Execute(e)
  PROVE  /\ pc[e] = "queued" => Load(e)
         /\ pc[e] = "start" => MarkRunning(e)
         /\ pc[e] = "started" => EmitStarted(e)
         /\ pc[e] = "loop" => NextBatch(e) \/ CompleteRun(e)
         /\ pc[e] = "cancelEvent" => EmitCancelled(e)
         /\ pc[e] = "completeEvent" => EmitFlowCompleted(e)
         /\ pc[e] = "prepare" => CreateTask(e) \/ PrepareFails(e)
         /\ pc[e] = "prepRun" => MarkStage(e)
         /\ pc[e] = "prepEvent" => EmitTaskStarted(e)
         /\ pc[e] = "wait" => StageReturns(e) \/ SoftTimeLimit(e)
         /\ pc[e] = "saveTask" => SaveTask(e)
         /\ pc[e] = "artifact" => CreateArtifact(e)
         /\ pc[e] = "saveState" => SaveState(e)
         /\ pc[e] = "doneEvent" => EmitTaskCompleted(e)
         /\ pc[e] = "stageFailed" => RefreshAfterFailure(e)
         /\ pc[e] = "cancelTask" => CancelTask(e)
         /\ pc[e] = "taskCancelEvent" => EmitTaskCancelled(e)
         /\ pc[e] = "flowCancelEvent" => EmitFlowCancelled(e)
         /\ pc[e] = "failTask" => FailTask(e)
         /\ pc[e] = "failRun" => FailRun(e)
         /\ pc[e] = "taskFailEvent" => EmitTaskFailed(e)
         /\ pc[e] = "handler" => Handler(e)
         /\ pc[e] = "markFailed" => MarkFailed(e)
         /\ pc[e] = "finalize" => SelectOpenTasks(e)
         /\ pc[e] = "finalizeCommit" => FinalizeOpenTasks(e)
         /\ pc[e] = "failEvent" => FailEvent(e)
         /\ pc[e] = "return" => Acknowledge(e)
         /\ pc[e] \in ExecActive \union {"queued", "return"}
BY DEF ExecActive, InFlow, InFailure,
    Execute, Load, Handler, Acknowledge, MarkFlowRunFailed, MarkFailed, SelectOpenTasks,
    FinalizeOpenTasks, FailEvent, MarkRunning, EmitStarted, NextBatch, EmitCancelled,
    CompleteRun, EmitFlowCompleted, CreateTask, MarkStage, EmitTaskStarted, StageReturns,
    SoftTimeLimit, PrepareFails, SaveTask, CreateArtifact, SaveState, EmitTaskCompleted,
    RefreshAfterFailure, CancelTask, EmitTaskCancelled, EmitFlowCancelled, FailTask,
    FailRun, EmitTaskFailed

LEMMA RequestStepAt ==
  ASSUME NEW r \in Requests, Arrive(r) \/ Serve(r)
  PROVE  /\ pc[r] = "idle" => CreateRun(r) \/ CancelRead(r) \/ ResumeRead(r)
         /\ pc[r] = "dispatch" => Dispatch(r) \/ DispatchFails(r)
         /\ pc[r] = "cancel" => CancelWrite(r)
         /\ pc[r] = "cancelRequested" => CancelEvent(r)
         /\ pc[r] = "clear" => ResumeClear(r)
         /\ pc[r] = "reset" => ResumeReset(r)
         /\ pc[r] = "markFailed" => MarkFailed(r)
         /\ pc[r] = "finalize" => SelectOpenTasks(r)
         /\ pc[r] = "finalizeCommit" => FinalizeOpenTasks(r)
         /\ pc[r] = "failEvent" => FailEvent(r)
         /\ pc[r] \in {"idle"} \union RequestActive
BY DEF RequestActive, InFailure, Arrive, Serve, CreateRun, CancelRead, ResumeRead, Dispatch,
       DispatchFails, CancelWrite, CancelEvent, ResumeClear, ResumeReset, MarkFlowRunFailed,
       MarkFailed, SelectOpenTasks, FinalizeOpenTasks, FailEvent

\* An event that is emitted is there.
LEMMA Emitted ==
  ASSUME NEW p, NEW t, NEW s, Emit(p, t, s), NEW types, t \in types PROVE Has(types)'
<1> DEFINE event == [type |-> t, by |-> p, stage |-> s]
<1>1. event \in events' /\ event.type \in types
  BY DEF Emit
<1> QED
  BY <1>1 DEF Has

\* Each status that says how the run ended has few writers.
LEMMA NewStatus ==
  ASSUME TypeOK, RequestOK, [Next]_vars, run'.status # run.status
  PROVE  /\ run'.status = "CANCELLED" => \E r \in Cancels : CancelWrite(r)
         /\ run'.status = "COMPLETED" => \E e \in Execs : CompleteRun(e)
         /\ run'.status = "FAILED" => \/ \E p \in Procs : MarkFailed(p)
                                      \/ \E e \in Execs : FailRun(e)
<1> DEFINE Goal ==
      /\ run'.status = "CANCELLED" => \E r \in Cancels : CancelWrite(r)
      /\ run'.status = "COMPLETED" => \E e \in Execs : CompleteRun(e)
      /\ run'.status = "FAILED" => \/ \E p \in Procs : MarkFailed(p)
                                   \/ \E e \in Execs : FailRun(e)
<1>s. \A p \in Procs, s \in RunStatus : StatusAfter(p, s) \in {run.status, s}
  BY DEF StatusAfter
<1>t. {"QUEUED", "RUNNING", "COMPLETED", "FAILED", "CANCELLED"} \subseteq RunStatus
  BY DEF RunStatus, Live, Terminal
<1>r. run \in RunRow
  BY DEF TypeOK
<1>1. ASSUME NEW r \in Requests, Arrive(r) \/ Serve(r) PROVE Goal
  <2>r. r \in Procs
    BY DEF Procs
  <2>1. RequestWrites(r)
    BY <1>1, RequestWritesRun
  <2>2. CASE CreateRun(r) \/ ResumeReset(r)
    <3>1. run'.status = "QUEUED"
      BY <2>2, ResetQueues DEF CreateRun, RequestOK
    <3> QED
      BY <3>1
  <2>3. CASE CancelWrite(r)
    <3>1. run'.status \in {run.status, "CANCELLED"} /\ r \in Cancels
      BY <2>3, <2>r, <1>s, <1>t, <1>r DEF CancelWrite, RunRow
    <3> QED
      BY <2>3, <3>1
  <2>4. CASE MarkFailed(r)
    <3>1. run'.status \in {run.status, "FAILED"}
      BY <2>4, <2>r, <1>s, <1>t, <1>r DEF MarkFailed, RunRow
    <3> QED
      BY <2>4, <2>r, <3>1
  <2> QED
    BY <2>1, <2>2, <2>3, <2>4 DEF RequestWrites
<1>2. ASSUME NEW e \in Execs, Execute(e) PROVE Goal
  <2>e. e \in Procs
    BY DEF Procs
  <2>1. ExecutionWrites(e)
    BY <1>2, ExecuteWritesRun
  <2>2. CASE MarkFailed(e)
    <3>1. run'.status \in {run.status, "FAILED"}
      BY <2>2, <2>e, <1>s, <1>t, <1>r DEF MarkFailed, RunRow
    <3> QED
      BY <2>2, <2>e, <3>1
  <2>5. CASE FailRun(e)
    <3>1. run'.status \in {run.status, "FAILED"}
      BY <2>5, <2>e, <1>s, <1>t DEF FailRun
    <3> QED
      BY <2>5, <3>1
  <2>3. CASE CompleteRun(e)
    <3>1. run'.status \in {run.status, "COMPLETED"}
      BY <2>3, <2>e, <1>s, <1>t DEF CompleteRun
    <3> QED
      BY <2>3, <3>1
  <2>4. CASE MarkRunning(e) \/ MarkStage(e) \/ SaveState(e)
    <3>1. run'.status \in {run.status, "RUNNING"}
      BY <2>4, <2>e, <1>s, <1>t, <1>r DEF MarkRunning, MarkStage, SaveState, RunRow
    <3> QED
      BY <3>1
  <2> QED
    BY <2>1, <2>2, <2>3, <2>4, <2>5 DEF ExecutionWrites
<1>3. ~(\E e \in Execs : WorkerLost(e) \/ HardKill(e)) /\ ~ServerStops /\ ~UNCHANGED vars
  BY DEF WorkerLost, HardKill, ServerStops, vars, db
<1> QED
  BY <1>1, <1>2, <1>3 DEF Next

\* Only clear_run_history takes events away.
LEMMA FailureEventsGrow ==
  ASSUME NEW p \in Procs, MarkFlowRunFailed(p) PROVE events \subseteq events'
BY DEF MarkFlowRunFailed, MarkFailed, SelectOpenTasks, FinalizeOpenTasks, FailEvent, Emit, db

LEMMA ExecuteEventsGrow ==
  ASSUME NEW e \in Execs, Execute(e) PROVE events \subseteq events'
<1>1. CASE MarkFlowRunFailed(e)
  BY <1>1, FailureEventsGrow DEF Procs
<1>2. CASE \/ Load(e) \/ Handler(e) \/ Acknowledge(e) \/ MarkRunning(e) \/ EmitStarted(e)
           \/ NextBatch(e) \/ EmitCancelled(e) \/ CompleteRun(e) \/ EmitFlowCompleted(e)
           \/ CreateTask(e) \/ MarkStage(e) \/ StageReturns(e) \/ SoftTimeLimit(e) \/ PrepareFails(e)
  BY <1>2 DEF Load, Handler, Acknowledge, MarkRunning, EmitStarted, NextBatch, EmitCancelled,
              CompleteRun, EmitFlowCompleted, CreateTask, MarkStage, StageReturns, SoftTimeLimit, PrepareFails,
              Emit, db
<1>3. CASE \/ SaveTask(e) \/ CreateArtifact(e) \/ SaveState(e) \/ RefreshAfterFailure(e)
           \/ CancelTask(e) \/ EmitFlowCancelled(e) \/ FailTask(e) \/ FailRun(e)
  BY <1>3 DEF SaveTask, CreateArtifact, SaveState, RefreshAfterFailure, CancelTask,
              EmitFlowCancelled, FailTask, FailRun, Abandon, Emit, db
<1>4. CASE \/ EmitTaskStarted(e) \/ EmitTaskCompleted(e) \/ EmitTaskCancelled(e)
           \/ EmitTaskFailed(e)
  BY <1>4 DEF EmitTaskStarted, EmitTaskCompleted, EmitTaskCancelled, EmitTaskFailed,
              Abandon, Emit, db
<1> QED
  BY <1>1, <1>2, <1>3, <1>4 DEF Execute

LEMMA RequestEventsGrow ==
  ASSUME NEW r \in Requests, Arrive(r) \/ Serve(r)
  PROVE  events \subseteq events' \/ ResumeClear(r)
<1>1. CASE MarkFlowRunFailed(r)
  BY <1>1, FailureEventsGrow DEF Procs
<1>2. CASE \/ CreateRun(r) \/ CancelRead(r) \/ ResumeRead(r) \/ Dispatch(r) \/ DispatchFails(r)
           \/ CancelWrite(r) \/ CancelEvent(r) \/ ResumeReset(r)
  BY <1>2 DEF CreateRun, CancelRead, ResumeRead, Dispatch, DispatchFails, CancelWrite,
              CancelEvent, ResumeReset, Emit, db
<1> QED
  BY <1>1, <1>2 DEF Arrive, Serve

\* A request has cleared the history of the run and will reset it.
Resetting == \E r \in Resumes : pc[r] = "reset"

\* What the steps of others leave of the explanation of a status.
LEMMA NextEvents ==
  ASSUME TypeOK, RequestOK, [Next]_vars, kills' = 0,
         run'.status \in Terminal, NEW types, Has(types) \/ Resetting
  PROVE  Has(types)' \/ Resetting'
<1>n. kills \in Nat
  BY BoundsAssumption DEF TypeOK
<1>g. ASSUME events \subseteq events', Has(types) PROVE Has(types)'
  BY <1>g DEF Has
<1>1. ASSUME NEW r \in Requests, Arrive(r) \/ Serve(r) PROVE Has(types)' \/ Resetting'
  <2>r. r \in Procs
    BY DEF Procs
  <2>1. CASE ResumeClear(r)
    <3>1. pc'[r] = "reset" /\ r \in Resumes
      BY <2>1, <2>r DEF ResumeClear, Go, TypeOK
    <3> QED
      BY <3>1 DEF Resetting
  <2>2. CASE ~ResumeClear(r) /\ Has(types)
    BY <1>1, <2>2, <1>g, RequestEventsGrow
  <2>3. CASE ~Has(types)
    <3>1. PICK q \in Resumes : pc[q] = "reset"
      BY <2>3 DEF Resetting
    <3>2. q \in Requests /\ q \in Procs /\ q \notin Execs /\ Knows(q)
      BY ProcsAssumption DEF Requests, Procs, RequestOK
    <3>3. CASE q # r
      <4>1. pc'[q] = "reset"
        BY <1>1, <3>1, <3>2, <3>3, RequestFrame
      <4> QED
        BY <4>1 DEF Resetting
    <3>4. CASE q = r
      <4>1. ~ResumeReset(r)
        BY <3>2, <3>4, ResetQueues DEF Terminal
      <4> QED
        BY <1>1, <3>1, <3>4, <4>1, RequestStepAt
    <3> QED
      BY <3>3, <3>4
  <2> QED
    BY <2>1, <2>2, <2>3
<1>r. ASSUME \A q \in Requests : pc'[q] = pc[q] PROVE Resetting => Resetting'
  BY <1>r DEF Resetting, Requests
<1>2. ASSUME NEW e \in Execs, Execute(e) PROVE Has(types)' \/ Resetting'
  <2>1. \A q \in Requests : pc'[q] = pc[q]
    BY <1>2, ExecuteFrame, ProcsAssumption DEF Frame, Procs
  <2> QED
    BY <1>2, <2>1, <1>g, <1>r, ExecuteEventsGrow
<1>3. ASSUME NEW e \in Execs, WorkerLost(e) PROVE Has(types)' \/ Resetting'
  <2>1. \A q \in Requests : pc'[q] = pc[q]
    BY <1>3, ProcsAssumption DEF WorkerLost, TypeOK, Procs
  <2>2. events' = events
    BY <1>3 DEF WorkerLost, db
  <2> QED
    BY <2>1, <2>2, <1>g, <1>r
<1>4. CASE UNCHANGED vars
  BY <1>4, <1>g, <1>r DEF vars
<1>5. ~(\E e \in Execs : HardKill(e)) /\ ~ServerStops
  BY <1>n DEF HardKill, ServerStops
<1> QED
  BY <1>1, <1>2, <1>3, <1>4, <1>5 DEF Next

-----------------------------------------------------------------------------
(***************************************************************************)
(* A cancelled run.                                                        *)
(***************************************************************************)
CancelExplained ==
  kills = 0 /\ run.status = "CANCELLED" =>
    \/ Has({"flow.cancel_requested"}) \/ Resetting
    \/ \E r \in Cancels : pc[r] = "cancelRequested"

LEMMA NextCancelExplained ==
  ASSUME TypeOK, RequestOK, CancelExplained, [Next]_vars PROVE CancelExplained'
<1> SUFFICES ASSUME kills' = 0, run'.status = "CANCELLED"
             PROVE  \/ Has({"flow.cancel_requested"})' \/ Resetting'
                    \/ \E r \in Cancels : pc'[r] = "cancelRequested"
  BY DEF CancelExplained
<1>n. kills \in Nat
  BY BoundsAssumption DEF TypeOK
<1>c. Cancels \subseteq Requests /\ Cancels \subseteq Procs /\ Cancels \intersect Execs = {}
  BY ProcsAssumption DEF Requests, Procs
<1>1. CASE run.status # "CANCELLED"
  <2>1. PICK r \in Cancels : CancelWrite(r)
    BY <1>1, NewStatus
  <2>2. pc'[r] = "cancelRequested"
    BY <2>1, <1>c DEF CancelWrite, Go, TypeOK
  <2> QED
    BY <2>2
<1>2. CASE run.status = "CANCELLED" /\ (Has({"flow.cancel_requested"}) \/ Resetting)
  BY <1>2, NextEvents DEF Terminal
<1>3. ASSUME NEW r \in Cancels, pc[r] = "cancelRequested"
      PROVE  \/ Has({"flow.cancel_requested"})' \/ Resetting'
             \/ \E q \in Cancels : pc'[q] = "cancelRequested"
  <2>1. CASE pc'[r] = "cancelRequested"
    BY <2>1
  <2>2. ASSUME NEW q \in Requests, Arrive(q) \/ Serve(q), pc'[r] # "cancelRequested"
        PROVE  Has({"flow.cancel_requested"})'
    <3>1. q = r
      BY <2>2, <1>3, <1>c, RequestFrame
    <3>2. CancelEvent(r)
      BY <2>2, <3>1, <1>3, RequestStepAt
    <3> QED
      BY <3>2, Emitted DEF CancelEvent
  <2>3. ASSUME NEW e \in Execs, Execute(e) PROVE pc'[r] = pc[r]
    BY <2>3, <1>c, ExecuteFrame DEF Frame
  <2>4. ASSUME NEW e \in Execs, WorkerLost(e) PROVE pc'[r] = pc[r]
    BY <2>4, <1>c DEF WorkerLost, TypeOK
  <2>5. ~(\E e \in Execs : HardKill(e)) /\ ~ServerStops
    BY <1>n DEF HardKill, ServerStops
  <2> QED
    BY <2>1, <2>2, <2>3, <2>4, <2>5, <1>3 DEF Next, vars
<1>k. kills = 0
  <2>1. kills' = kills \/ kills' = kills + 1
    BY RequestFrame, ExecuteFrame DEF Next, vars, faults, Frame, WorkerLost, HardKill, ServerStops
  <2> QED
    BY <2>1, <1>n
<1> QED
  BY <1>1, <1>2, <1>3, <1>k DEF CancelExplained

-----------------------------------------------------------------------------
(***************************************************************************)
(* A completed run.  The execution that has completed it still owes the    *)
(* event; if its worker is lost first, the message is delivered again and  *)
(* the next execution takes the status away or fails the run.              *)
(***************************************************************************)
WillComplete(e) ==
  \/ pc[e] \in {"queued", "completeEvent"}
  \/ pc[e] \in {"start", "markFailed"} /\ sess[e].seen.status = "COMPLETED"
  \/ pc[e] = "handler" /\ Fresh(e).status = "COMPLETED"

CompleteExplained ==
  kills = 0 /\ run.status = "COMPLETED" =>
    \/ Has({"flow.completed"}) \/ Resetting
    \/ \E e \in Execs : WillComplete(e)

\* Steps without a process lost for good.
LEMMA StepsWithoutKill ==
  ASSUME TypeOK, [Next]_vars, kills' = 0
  PROVE  /\ kills = 0 /\ engine' = engine
         /\ \/ \E r \in Requests : Arrive(r) \/ Serve(r)
            \/ \E e \in Execs : Execute(e) \/ WorkerLost(e)
            \/ UNCHANGED vars
<1>n. kills \in Nat
  BY BoundsAssumption DEF TypeOK
<1>1. ~(\E e \in Execs : HardKill(e)) /\ ~ServerStops
  BY <1>n DEF HardKill, ServerStops
<1>2. \/ \E r \in Requests : Arrive(r) \/ Serve(r)
      \/ \E e \in Execs : Execute(e) \/ WorkerLost(e)
      \/ UNCHANGED vars
  BY <1>1 DEF Next
<1>3. kills' = kills /\ engine' = engine
  BY <1>2, RequestFrame, ExecuteFrame DEF vars, faults, Frame, WorkerLost
<1> QED
  BY <1>2, <1>3

\* The status a handler reads, after a step of another process.
LEMMA FreshElsewhere ==
  ASSUME TypeOK, NEW p \in Procs, engine' = engine, sess'[p] = sess[p],
         NEW s, Fresh(p).status = s, run'.status = s
  PROVE  Fresh(p)'.status = s
BY DEF Fresh, MySQL, View

LEMMA OwnCompletion ==
  ASSUME TypeOK, NEW e \in Execs, Execute(e), WillComplete(e),
         run.status = "COMPLETED", run'.status = "COMPLETED"
  PROVE  WillComplete(e)' \/ Has({"flow.completed"})'
<1>e. e \in Procs
  BY DEF Procs
<1>g. engine' = engine
  BY ExecuteFrame DEF Frame, faults
<1>t. /\ run \in RunRow /\ sess[e] \in Session /\ sess \in [Procs -> Session] /\ pc \in [Procs -> PC]
  BY <1>e DEF TypeOK
<1>1. CASE pc[e] = "queued"
  <2>1. Load(e)
    BY <1>1, StepAt
  <2>2. pc'[e] \in {"start", "handler"} /\ run' = run
    BY <2>1, <1>e, <1>t DEF Load, Go, db
  <2>3. sess'[e].seen = View(run) /\ (MySQL => sess'[e].snap = View(run))
    BY <2>1, <1>e, <1>t DEF Load, Session
  <2>4. Fresh(e)'.status = "COMPLETED" /\ sess'[e].seen.status = "COMPLETED"
    BY <2>2, <2>3, <1>g DEF Fresh, MySQL, View
  <2> QED
    BY <2>2, <2>4 DEF WillComplete
<1>2. CASE pc[e] = "start" /\ sess[e].seen.status = "COMPLETED"
  <2>1. MarkRunning(e)
    BY <1>2, StepAt
  <2>2. run'.status = "RUNNING"
    BY <2>1, <1>2, <1>t DEF MarkRunning, StatusAfter, RunRow
  <2> QED
    BY <2>2
<1>3. CASE pc[e] = "handler" /\ Fresh(e).status = "COMPLETED"
  <2>1. Handler(e)
    BY <1>3, StepAt
  <2>2. pc'[e] = "markFailed" /\ sess'[e].seen = Fresh(e)
    BY <2>1, <1>3, <1>e, <1>t DEF Handler, Refreshed, Go, Session
  <2> QED
    BY <2>2, <1>3 DEF WillComplete
<1>4. CASE pc[e] = "markFailed" /\ sess[e].seen.status = "COMPLETED"
  <2>1. MarkFailed(e)
    BY <1>4, StepAt
  <2>2. run'.status = "FAILED"
    BY <2>1, <1>4, <1>t DEF MarkFailed, StatusAfter, RunRow
  <2> QED
    BY <2>2
<1>5. CASE pc[e] = "completeEvent"
  <2>1. EmitFlowCompleted(e)
    BY <1>5, StepAt
  <2> QED
    BY <2>1, Emitted DEF EmitFlowCompleted
<1> QED
  BY <1>1, <1>2, <1>3, <1>4, <1>5 DEF WillComplete

LEMMA NextCompleteExplained ==
  ASSUME TypeOK, RequestOK, CompleteExplained, [Next]_vars PROVE CompleteExplained'
<1> SUFFICES ASSUME kills' = 0, run'.status = "COMPLETED"
             PROVE  \/ Has({"flow.completed"})' \/ Resetting'
                    \/ \E e \in Execs : WillComplete(e)'
  BY DEF CompleteExplained
<1>k. kills = 0 /\ engine' = engine
  BY StepsWithoutKill
<1>1. CASE run.status # "COMPLETED"
  <2>1. PICK e \in Execs : CompleteRun(e)
    BY <1>1, NewStatus
  <2>2. pc'[e] = "completeEvent"
    BY <2>1 DEF CompleteRun, Go, TypeOK, Procs
  <2> QED
    BY <2>2 DEF WillComplete
<1>2. CASE run.status = "COMPLETED" /\ (Has({"flow.completed"}) \/ Resetting)
  BY <1>2, NextEvents DEF Terminal
<1>3. ASSUME NEW e \in Execs, WillComplete(e), run.status = "COMPLETED"
      PROVE  \/ Has({"flow.completed"})'
             \/ \E d \in Execs : WillComplete(d)'
  <2>e. e \in Procs /\ e \notin Requests /\ pc[e] # "idle"
    BY <1>3, ProcsAssumption DEF Procs, WillComplete
  <2>s. ASSUME pc'[e] = pc[e], sess'[e] = sess[e] PROVE WillComplete(e)'
    BY <1>3, <1>k, <2>e, <2>s, FreshElsewhere DEF WillComplete
  <2>1. ASSUME NEW r \in Requests, Arrive(r) \/ Serve(r) PROVE WillComplete(e)'
    <3>1. r # e /\ pc'[e] = pc[e] /\ sess'[e] = sess[e]
      BY <2>1, <2>e, RequestFrame
    <3> QED
      BY <3>1, <2>s
  <2>2. ASSUME NEW d \in Execs, Execute(d) PROVE WillComplete(e)' \/ Has({"flow.completed"})'
    <3>1. CASE d = e
      BY <1>3, <2>2, <3>1, OwnCompletion
    <3>2. CASE d # e
      BY <2>2, <2>e, <2>s, <3>2, ExecuteFrame DEF Frame
    <3> QED
      BY <3>1, <3>2
  <2>3. ASSUME NEW d \in Execs, WorkerLost(d) PROVE \E f \in Execs : WillComplete(f)'
    <3>1. PICK f \in Execs : pc[f] = "idle" /\ pc' = [pc EXCEPT ![d] = "lost", ![f] = "queued"]
      BY <2>3 DEF WorkerLost
    <3>2. pc'[f] = "queued"
      BY <3>1 DEF TypeOK, Procs
    <3> QED
      BY <3>2 DEF WillComplete
  <2>4. CASE UNCHANGED vars
    BY <2>4, <2>s DEF vars
  <2> QED
    BY <2>1, <2>2, <2>3, <2>4, StepsWithoutKill
<1> QED
  BY <1>1, <1>2, <1>3, <1>k DEF CompleteExplained

-----------------------------------------------------------------------------
(***************************************************************************)
(* Rows, as long as nobody resumes: they stay.  On MySQL that is what lets *)
(* a failing execution write its events.                                   *)
(***************************************************************************)
NoResume == \A r \in Resumes : pc[r] = "idle"
Selected(p) ==
  pc[p] \in {"finalize", "finalizeCommit"} => \A i \in sess[p].open : Present(i)
RowsFixed ==
  NoResume => (\A e \in Execs : Mine(e)) /\ (\A p \in Procs : Selected(p))

\* A flow object keeps its task ids, drops all of them, or gets one more.
LEMMA ExecuteRowIds ==
  ASSUME TypeOK, NEW e \in Execs, Execute(e), ~CreateTask(e)
  PROVE  work'[e].row = work[e].row \/ work'[e] = NoWork
<1>c. Close(e) => work'[e] = NoWork
  BY DEF Close
<1>1. CASE MarkFlowRunFailed(e)
  BY <1>1, <1>c DEF MarkFlowRunFailed, MarkFailed, SelectOpenTasks, FinalizeOpenTasks, FailEvent, Over
<1>2. CASE Abandon(e) \/ EmitCancelled(e) \/ EmitFlowCompleted(e) \/ Handler(e)
  BY <1>2, <1>c DEF Abandon, EmitCancelled, EmitFlowCompleted, Handler, Over
<1>3. CASE \/ Load(e) \/ Acknowledge(e) \/ MarkRunning(e) \/ EmitStarted(e) \/ CompleteRun(e)
           \/ MarkStage(e) \/ SoftTimeLimit(e) \/ PrepareFails(e) \/ SaveState(e) \/ RefreshAfterFailure(e) \/ FailRun(e)
           \/ (CreateArtifact(e) \/ EmitTaskCancelled(e)) /\ Referable(e)
           \/ (CancelTask(e) \/ FailTask(e)) /\ Present(RowInHand(e))
  BY <1>3 DEF Load, Acknowledge, MarkRunning, EmitStarted, CompleteRun, MarkStage, SoftTimeLimit, PrepareFails,
              SaveState, RefreshAfterFailure, FailRun, CreateArtifact, EmitTaskCancelled, CancelTask,
              FailTask
<1>4. CASE NextBatch(e) \/ StageReturns(e)
  BY <1>4 DEF NextBatch, StageReturns, TypeOK, Work
<1>5. CASE EmitTaskStarted(e) /\ Referable(e)
  BY <1>5 DEF EmitTaskStarted, TypeOK, Work
<1>6. CASE SaveTask(e) /\ Present(RowInHand(e))
  BY <1>6 DEF SaveTask, TypeOK, Work
<1>7. CASE \/ EmitFlowCancelled(e)
           \/ (EmitTaskCompleted(e) \/ EmitTaskFailed(e)) /\ Referable(e)
  BY <1>7, SettleOwner DEF EmitFlowCancelled, EmitTaskCompleted, EmitTaskFailed
<1>b. \/ EmitTaskStarted(e) \/ CreateArtifact(e) \/ EmitTaskCompleted(e)
      \/ EmitTaskCancelled(e) \/ EmitTaskFailed(e)
      => Referable(e) \/ Abandon(e)
  BY DEF EmitTaskStarted, CreateArtifact, EmitTaskCompleted, EmitTaskCancelled, EmitTaskFailed
<1>d. SaveTask(e) \/ CancelTask(e) \/ FailTask(e) => Present(RowInHand(e)) \/ Abandon(e)
  BY DEF SaveTask, CancelTask, FailTask
<1> QED
  BY <1>1, <1>2, <1>3, <1>4, <1>5, <1>6, <1>7, <1>b, <1>d DEF Execute

LEMMA ExecuteMine ==
  ASSUME TypeOK, TypeOK', RowsOK, NEW e \in Execs, Mine(e), Execute(e) PROVE Mine(e)'
<1>1. CASE CreateTask(e)
  <2>1. PICK s \in work[e].todo :
          /\ rows' = [rows EXCEPT ![lastRow + 1] = [by |-> e, stage |-> s, status |-> "RUNNING"]]
          /\ work' = [work EXCEPT ![e].stage = s, ![e].row[s] = lastRow + 1]
    BY <1>1 DEF CreateTask
  <2>2. lastRow + 1 \in RowIds
    <3>1. lastRow < MaxRows
      BY <1>1 DEF CreateTask
    <3> QED
      BY <3>1, BoundsAssumption DEF TypeOK, RowIds
  <2>n. PICK n \in RowIds : n = lastRow + 1
    BY <2>2
  <2>3. Present(n)' /\ rows'[n].by = e
    BY <2>1, <2>n DEF Present, TypeOK
  <2>4. \A t \in Stages : work'[e].row[t] = work[e].row[t] \/ work'[e].row[t] = n
    BY <2>1, <2>n DEF TypeOK, Work
  <2>5. RowsKept
    BY ExecuteRows
  <2> SUFFICES ASSUME NEW t \in Stages, (work[e].row[t] # 0)'
               PROVE  (Present(work[e].row[t]) /\ rows[work[e].row[t]].by = e)'
    BY DEF Mine
  <2>6. CASE work'[e].row[t] = n
    BY <2>6, <2>3 DEF Present
  <2>7. CASE work'[e].row[t] = work[e].row[t]
    BY <2>7, <2>5 DEF Mine, RowsKept, Present
  <2> QED
    BY <2>4, <2>6, <2>7
<1>2. CASE work'[e] = NoWork
  BY <1>2 DEF Mine, NoWork
<1>3. CASE work'[e].row = work[e].row
  BY <1>3, ExecuteRows, MineKept
<1> QED
  BY <1>1, <1>2, <1>3, ExecuteRowIds

\* The tasks a process is about to finalize have been selected among those there are.
LEMMA ExecuteSelected ==
  ASSUME TypeOK, NEW p \in Procs, MarkFlowRunFailed(p), Selected(p), RowsKept
  PROVE  Selected(p)'
<1>k. ASSUME NEW i, Present(i) PROVE Present(i)'
  BY <1>k DEF RowsKept, Present
<1>1. CASE MarkFailed(p)
  <2>1. sess'[p].open \subseteq OpenRows
    BY <1>1 DEF MarkFailed, TypeOK
  <2> QED
    BY <2>1, <1>k DEF Selected, OpenRows, OpenTask, Present
<1>2. CASE SelectOpenTasks(p)
  <2>1. sess'[p].open \subseteq OpenRows \/ sess'[p].open = sess[p].open
    BY <1>2 DEF SelectOpenTasks, TypeOK, Session
  <2> QED
    BY <1>2, <2>1, <1>k DEF Selected, OpenRows, OpenTask, Present, SelectOpenTasks
<1>3. CASE FinalizeOpenTasks(p) \/ FailEvent(p)
  <2>1. pc'[p] \in {"failEvent", "return", "done"}
    BY <1>3 DEF FinalizeOpenTasks, FailEvent, Over, Go, TypeOK
  <2> QED
    BY <2>1 DEF Selected
<1> QED
  BY <1>1, <1>2, <1>3 DEF MarkFlowRunFailed

\* Only mark_flow_run_failed leads to its own commits.
LEMMA ExecuteFinalizes ==
  ASSUME TypeOK, NEW e \in Execs, Execute(e), pc'[e] \in {"finalize", "finalizeCommit"}
  PROVE  MarkFlowRunFailed(e)
<1>e. e \in Procs
  BY DEF Procs
<1>1. ~(Abandon(e) \/ Over(e))
  BY <1>e DEF Abandon, Over, Go, TypeOK
<1>2. ~(\/ Load(e) \/ Acknowledge(e) \/ MarkRunning(e) \/ EmitStarted(e) \/ NextBatch(e)
        \/ CompleteRun(e) \/ CreateTask(e) \/ MarkStage(e) \/ StageReturns(e)
        \/ SoftTimeLimit(e) \/ PrepareFails(e) \/ SaveState(e) \/ RefreshAfterFailure(e) \/ FailRun(e))
  BY <1>e DEF Load, Acknowledge, MarkRunning, EmitStarted, NextBatch, CompleteRun, CreateTask,
              MarkStage, StageReturns, SoftTimeLimit, PrepareFails, SaveState, RefreshAfterFailure, FailRun,
              Go, TypeOK
<1>3. ~(Handler(e) \/ EmitCancelled(e) \/ EmitFlowCompleted(e))
  BY <1>1, <1>e DEF Handler, EmitCancelled, EmitFlowCompleted, Go, TypeOK
<1>4. ~(EmitTaskStarted(e) \/ CreateArtifact(e) \/ EmitTaskCancelled(e) \/ SaveTask(e)
        \/ CancelTask(e) \/ FailTask(e))
  BY <1>1, <1>e DEF EmitTaskStarted, CreateArtifact, EmitTaskCancelled, SaveTask, CancelTask,
                    FailTask, Go, TypeOK
<1>5. ~(Settle(e, TRUE) \/ Settle(e, FALSE))
  BY <1>e DEF Settle, Go, TypeOK
<1>6. ~(EmitTaskCompleted(e) \/ EmitTaskFailed(e) \/ EmitFlowCancelled(e))
  BY <1>1, <1>5 DEF EmitTaskCompleted, EmitTaskFailed, EmitFlowCancelled
<1> QED
  BY <1>2, <1>3, <1>4, <1>6 DEF Execute

LEMMA RequestFinalizes ==
  ASSUME TypeOK, NEW r \in Requests, Arrive(r) \/ Serve(r)
  PROVE  /\ pc'[r] # "idle"
         /\ pc'[r] \in {"finalize", "finalizeCommit"} => MarkFlowRunFailed(r)
<1>r. r \in Procs
  BY DEF Procs
<1>1. CASE MarkFlowRunFailed(r)
  <2>1. pc'[r] \in {"finalize", "finalizeCommit", "failEvent", "return", "done"}
    BY <1>1, <1>r DEF MarkFlowRunFailed, MarkFailed, SelectOpenTasks, FinalizeOpenTasks, FailEvent,
                      Over, Go, TypeOK
  <2> QED
    BY <1>1, <2>1
<1>2. CASE \/ CreateRun(r) \/ CancelRead(r) \/ ResumeRead(r) \/ Dispatch(r) \/ DispatchFails(r)
           \/ CancelWrite(r) \/ CancelEvent(r) \/ ResumeReset(r) \/ ResumeClear(r)
  <2>1. pc'[r] \in {"dispatch", "done", "cancel", "clear", "queued", "markFailed",
                    "cancelRequested", "reset"}
    BY <1>2, <1>r DEF CreateRun, CancelRead, ResumeRead, Dispatch, DispatchFails, CancelWrite,
                      CancelEvent, ResumeReset, ResumeClear, Go, TypeOK
  <2> QED
    BY <2>1
<1> QED
  BY <1>1, <1>2 DEF Arrive, Serve

\* A process that a fault reaches ends, or is the delivery that replaces it.
LEMMA FaultLeaves ==
  ASSUME TypeOK, NEW p \in Procs,
         (\E e \in Execs : WorkerLost(e) \/ HardKill(e)) \/ ServerStops
  PROVE  \/ pc'[p] = pc[p] /\ sess'[p] = sess[p]
         \/ pc'[p] \in {"lost", "done", "queued"}
         \/ pc'[p] = "idle" /\ pc[p] = "idle"
<1>1. ASSUME NEW e \in Execs, WorkerLost(e)
      PROVE  (pc'[p] = pc[p] /\ sess'[p] = sess[p]) \/ pc'[p] \in {"lost", "queued"}
  BY <1>1 DEF WorkerLost, Close, TypeOK, Procs
<1>2. ASSUME NEW e \in Execs, HardKill(e)
      PROVE  (pc'[p] = pc[p] /\ sess'[p] = sess[p]) \/ pc'[p] = "lost"
  BY <1>2 DEF HardKill, Close, Go, TypeOK, Procs
<1>3. ASSUME ServerStops
      PROVE  \/ pc'[p] = pc[p] /\ sess'[p] = sess[p]
             \/ pc'[p] \in {"lost", "done"}
             \/ pc'[p] = "idle" /\ pc[p] = "idle"
  BY <1>3 DEF ServerStops, TypeOK
<1> QED
  BY <1>1, <1>2, <1>3

LEMMA FaultRows ==
  ASSUME TypeOK, RowsOK, (\E e \in Execs : WorkerLost(e) \/ HardKill(e)) \/ ServerStops
  PROVE  /\ RowsKept
         /\ \A e \in Execs : work'[e] \in {work[e], NoWork}
<1>1. rows' = rows /\ lastRow' = lastRow
  BY DEF WorkerLost, HardKill, ServerStops, db
<1>2. \A e \in Execs : work'[e] \in {work[e], NoWork}
  BY DEF WorkerLost, HardKill, ServerStops, Close
<1> QED
  BY <1>1, <1>2, UnchangedRows

LEMMA NextRowsFixed ==
  ASSUME TypeOK, TypeOK', RowsOK, RowsFixed, [Next]_vars PROVE RowsFixed'
<1> SUFFICES ASSUME NoResume' PROVE (\A e \in Execs : Mine(e)') /\ (\A p \in Procs : Selected(p)')
  BY DEF RowsFixed
<1>p. Resumes \subseteq Requests /\ Requests \subseteq Procs /\ Execs \subseteq Procs
  BY DEF Requests, Procs
<1>s. \A p \in Procs : pc'[p] \notin {"finalize", "finalizeCommit"} => Selected(p)'
  BY DEF Selected
<1>k. ASSUME RowsKept, NEW p \in Procs, Selected(p), pc'[p] = pc[p], sess'[p] = sess[p]
      PROVE  Selected(p)'
  BY <1>k DEF Selected, RowsKept, Present
<1>m. ASSUME RowsKept, NEW e \in Execs, Mine(e), work'[e] \in {work[e], NoWork} PROVE Mine(e)'
  <2>1. CASE work'[e] = work[e]
    BY <1>m, <2>1, MineKept
  <2>2. CASE work'[e] = NoWork
    BY <2>2 DEF Mine, NoWork
  <2> QED
    BY <1>m, <2>1, <2>2
<1>1. ASSUME NEW r \in Requests, Arrive(r) \/ Serve(r)
      PROVE  (\A e \in Execs : Mine(e)') /\ (\A p \in Procs : Selected(p)')
  <2>r. r \in Procs /\ r \notin Execs
    BY ProcsAssumption DEF Procs
  <2>1. ASSUME NEW q \in Resumes PROVE pc[q] = "idle"
    <3>1. pc'[q] = "idle"
      BY DEF NoResume
    <3>2. q # r
      BY <1>1, <3>1, RequestFinalizes
    <3> QED
      BY <1>1, <1>p, <3>1, <3>2, RequestFrame
  <2>2. (\A e \in Execs : Mine(e)) /\ (\A p \in Procs : Selected(p))
    BY <2>1 DEF NoResume, RowsFixed
  <2>3. ~ResumeClear(r)
    BY <2>1 DEF ResumeClear
  <2>4. RowsKept
    BY <1>1, <2>3, RequestRows
  <2>5. ASSUME NEW p \in Procs PROVE Selected(p)'
    <3>1. CASE p # r
      <4>1. \/ pc'[p] = pc[p] /\ sess'[p] = sess[p]
            \/ pc'[p] = "queued"
        BY <1>1, <3>1, RequestFrame
      <4> QED
        BY <4>1, <1>s, <1>k, <2>2, <2>4
    <3>2. CASE p = r /\ MarkFlowRunFailed(r)
      BY <3>2, <2>r, <2>2, <2>4, ExecuteSelected
    <3>3. CASE p = r /\ ~MarkFlowRunFailed(r)
      BY <1>1, <3>3, <1>s, <2>r, RequestFinalizes
    <3> QED
      BY <3>1, <3>2, <3>3
  <2>6. ASSUME NEW e \in Execs PROVE Mine(e)'
    <3>1. work'[e] = work[e]
      BY <1>1, RequestFrame
    <3> QED
      BY <3>1, <1>m, <2>2, <2>4
  <2> QED
    BY <2>5, <2>6
<1>i. ASSUME \A q \in Resumes : pc'[q] = "idle" => pc[q] = "idle"
      PROVE  (\A e \in Execs : Mine(e)) /\ (\A p \in Procs : Selected(p))
  BY <1>i DEF NoResume, RowsFixed
<1>2. ASSUME NEW e \in Execs, Execute(e)
      PROVE  (\A d \in Execs : Mine(d)') /\ (\A p \in Procs : Selected(p)')
  <2>1. \A q \in Resumes : pc'[q] = pc[q]
    BY <1>2, <1>p, ExecuteFrame, ProcsAssumption DEF Frame
  <2>2. (\A d \in Execs : Mine(d)) /\ (\A p \in Procs : Selected(p)) /\ RowsKept
    BY <1>2, <1>i, <2>1, ExecuteRows
  <2>3. ASSUME NEW p \in Procs PROVE Selected(p)'
    <3>1. CASE p # e
      <4>1. pc'[p] = pc[p] /\ sess'[p] = sess[p]
        BY <1>2, <3>1, ExecuteFrame DEF Frame
      <4> QED
        BY <4>1, <1>k, <2>2
    <3>2. CASE p = e /\ MarkFlowRunFailed(e)
      BY <3>2, <2>2, ExecuteSelected
    <3>3. CASE p = e /\ ~MarkFlowRunFailed(e)
      BY <1>2, <3>3, <1>s, ExecuteFinalizes
    <3> QED
      BY <3>1, <3>2, <3>3
  <2>4. ASSUME NEW d \in Execs PROVE Mine(d)'
    <3>1. CASE d # e
      <4>1. work'[d] = work[d]
        BY <1>2, <3>1, ExecuteFrame DEF Frame
      <4> QED
        BY <4>1, <1>m, <2>2
    <3>2. CASE d = e
      BY <1>2, <2>2, <3>2, ExecuteMine
    <3> QED
      BY <3>1, <3>2
  <2> QED
    BY <2>3, <2>4
<1>3. CASE (\E e \in Execs : WorkerLost(e) \/ HardKill(e)) \/ ServerStops
  <2>1. \A q \in Resumes : pc'[q] = "idle" => pc[q] = "idle"
    BY <1>3, <1>p, FaultLeaves
  <2>2. /\ (\A d \in Execs : Mine(d)) /\ (\A p \in Procs : Selected(p)) /\ RowsKept
        /\ \A d \in Execs : work'[d] \in {work[d], NoWork}
    BY <1>3, <1>i, <2>1, FaultRows
  <2>3. ASSUME NEW p \in Procs PROVE Selected(p)'
    BY <1>3, <1>k, <1>s, <2>2, FaultLeaves
  <2> QED
    BY <2>2, <2>3, <1>m
<1>4. CASE UNCHANGED vars
  <2>1. RowsKept
    BY <1>4, UnchangedRows DEF vars
  <2>2. (\A d \in Execs : Mine(d)) /\ (\A p \in Procs : Selected(p))
    BY <1>4, <1>i DEF vars
  <2> QED
    BY <1>4, <1>k, <1>m, <2>1, <2>2 DEF vars
<1> QED
  BY <1>1, <1>2, <1>3, <1>4 DEF Next

-----------------------------------------------------------------------------
(***************************************************************************)
(* A failed run.  A process on its way to the failure event writes it,     *)
(* unless the rows it refers to are gone: on SQLite nothing refuses them,  *)
(* on MySQL they stay as long as nobody resumes.                           *)
(***************************************************************************)
FailureTypes == {"flow.failed", "flow.dispatch_failed"}
WillFail(p) ==
  \/ pc[p] \in {"queued", "markFailed", "finalize", "failEvent"}
  \/ pc[p] = "start" /\ sess[p].seen.status = "FAILED"
  \/ pc[p] = "finalizeCommit" /\ \A i \in sess[p].open : Present(i)
  \/ pc[p] = "handler" /\ Fresh(p).status # "CANCELLED"
  \/ p \in Execs /\ pc[p] = "taskFailEvent" /\ Alone(p) /\ Referable(p)

FailExplained ==
  kills = 0 /\ run.status = "FAILED" /\ (MySQL => NoResume) =>
    \/ Has(FailureTypes) \/ Resetting
    \/ \E p \in Procs : WillFail(p)

\* In mark_flow_run_failed, a process comes to its event.
LEMMA FailureProceeds ==
  ASSUME TypeOK, NEW p \in Procs, MarkFlowRunFailed(p), WillFail(p),
         MySQL => Selected(p), engine' = engine
  PROVE  WillFail(p)' \/ Has(FailureTypes)'
<1>1. CASE MarkFailed(p)
  <2>1. pc'[p] = "finalize"
    BY <1>1 DEF MarkFailed, Go, TypeOK
  <2> QED
    BY <2>1 DEF WillFail
<1>2. CASE SelectOpenTasks(p)
  <2> DEFINE open == IF MySQL THEN sess[p].open ELSE OpenRows
  <2>1. /\ sess' = [sess EXCEPT ![p].open = open]
        /\ pc'[p] = IF open = {} THEN "failEvent" ELSE "finalizeCommit"
        /\ rows' = rows /\ pc[p] = "finalize"
    BY <1>2 DEF SelectOpenTasks, Go, TypeOK, db
  <2>2. \A i \in open : Present(i)
    BY <2>1 DEF Selected, OpenRows, OpenTask, Present
  <2>3. sess'[p].open = open
    BY <2>1 DEF TypeOK, Session
  <2>4. \A i \in sess'[p].open : Present(i)'
    BY <2>1, <2>2, <2>3 DEF Present
  <2> QED
    BY <2>1, <2>4 DEF WillFail
<1>3. CASE FinalizeOpenTasks(p)
  <2>1. pc[p] = "finalizeCommit" /\ \A i \in sess[p].open : Present(i)
    BY <1>3 DEF FinalizeOpenTasks, WillFail
  <2>2. pc'[p] = "failEvent"
    BY <1>3, <2>1 DEF FinalizeOpenTasks, Go, TypeOK
  <2> QED
    BY <2>2 DEF WillFail
<1>4. CASE FailEvent(p)
  <2>1. Emit(p, IF p \in Execs THEN "flow.failed" ELSE "flow.dispatch_failed", None)
    BY <1>4 DEF FailEvent
  <2>2. (IF p \in Execs THEN "flow.failed" ELSE "flow.dispatch_failed") \in FailureTypes
    BY DEF FailureTypes
  <2> QED
    BY <2>1, <2>2, Emitted
<1> QED
  BY <1>1, <1>2, <1>3, <1>4 DEF MarkFlowRunFailed

LEMMA OwnFailure ==
  ASSUME TypeOK, ControlOK, BatchOK, NEW e \in Execs, Execute(e), WillFail(e),
         MySQL => Selected(e),
         run.status = "FAILED", run'.status = "FAILED"
  PROVE  WillFail(e)' \/ Has(FailureTypes)'
<1>e. e \in Procs
  BY DEF Procs
<1>g. engine' = engine
  BY ExecuteFrame DEF Frame, faults
<1>t. /\ run \in RunRow /\ sess[e] \in Session /\ sess \in [Procs -> Session] /\ pc \in [Procs -> PC]
  BY <1>e DEF TypeOK
<1>1. CASE pc[e] = "queued"
  <2>1. Load(e)
    BY <1>1, StepAt
  <2>2. pc'[e] \in {"start", "handler"} /\ run' = run
    BY <2>1, <1>e, <1>t DEF Load, Go, db
  <2>3. sess'[e].seen = View(run) /\ (MySQL => sess'[e].snap = View(run))
    BY <2>1, <1>e, <1>t DEF Load, Session
  <2>4. Fresh(e)'.status = "FAILED" /\ sess'[e].seen.status = "FAILED"
    BY <2>2, <2>3, <1>g DEF Fresh, MySQL, View
  <2> QED
    BY <2>2, <2>4 DEF WillFail
<1>2. CASE pc[e] = "start" /\ sess[e].seen.status = "FAILED"
  <2>1. MarkRunning(e)
    BY <1>2, StepAt
  <2>2. run'.status = "RUNNING"
    BY <2>1, <1>2, <1>t DEF MarkRunning, StatusAfter, RunRow
  <2> QED
    BY <2>2
<1>3. CASE pc[e] = "handler" /\ Fresh(e).status # "CANCELLED"
  <2>1. Handler(e)
    BY <1>3, StepAt
  <2>2. pc'[e] = "markFailed"
    BY <2>1, <1>3, <1>e, <1>t DEF Handler, Refreshed, Go, Session
  <2> QED
    BY <2>2 DEF WillFail
<1>4. CASE pc[e] = "taskFailEvent" /\ Alone(e) /\ Referable(e)
  <2>1. EmitTaskFailed(e)
    BY <1>4, StepAt
  <2>2. Settle(e, TRUE) /\ Committed(e) /\ run' = run
    BY <1>4, <2>1 DEF EmitTaskFailed
  <2>l. work[e].todo \ {work[e].stage} = {}
    BY <1>4, <1>e, AloneSettles DEF Settling, ControlOK, BatchOK
  <2>3. pc'[e] = "handler"
    BY <2>2, <2>l, <1>e, <1>t DEF Settle, Go
  <2>4. Fresh(e)'.status = "FAILED"
    BY <2>2, <1>e, <1>t, <1>g DEF Committed, Fresh, MySQL, View, Session
  <2> QED
    BY <2>3, <2>4 DEF WillFail
<1>5. CASE pc[e] \in {"markFailed", "finalize", "finalizeCommit", "failEvent"}
  <2>1. MarkFlowRunFailed(e)
    BY <1>5, StepAt DEF MarkFlowRunFailed
  <2> QED
    BY <2>1, <1>e, <1>g, FailureProceeds
<1> QED
  BY <1>1, <1>2, <1>3, <1>4, <1>5 DEF WillFail

LEMMA ResumesStay == ASSUME TypeOK, [Next]_vars, NoResume' PROVE NoResume
<1> SUFFICES ASSUME NEW q \in Resumes PROVE pc[q] = "idle"
  BY DEF NoResume
<1>q. q \in Requests /\ q \in Procs /\ q \notin Execs /\ pc'[q] = "idle"
  BY ProcsAssumption DEF Requests, Procs, NoResume
<1>1. ASSUME NEW r \in Requests, Arrive(r) \/ Serve(r) PROVE pc[q] = "idle"
  <2>1. q # r
    BY <1>1, <1>q, RequestFinalizes
  <2> QED
    BY <1>1, <1>q, <2>1, RequestFrame
<1>2. ASSUME NEW e \in Execs, Execute(e) PROVE pc[q] = "idle"
  BY <1>2, <1>q, ExecuteFrame DEF Frame
<1>3. CASE (\E e \in Execs : WorkerLost(e) \/ HardKill(e)) \/ ServerStops
  BY <1>3, <1>q, FaultLeaves
<1>4. CASE UNCHANGED vars
  BY <1>4, <1>q DEF vars
<1> QED
  BY <1>1, <1>2, <1>3, <1>4 DEF Next

LEMMA NextFailExplained ==
  ASSUME TypeOK, ControlOK, BatchOK, RequestOK, RowsOK, RowsFixed, FailExplained, [Next]_vars
  PROVE  FailExplained'
<1> SUFFICES ASSUME kills' = 0, run'.status = "FAILED", MySQL' => NoResume'
             PROVE  Has(FailureTypes)' \/ Resetting' \/ \E p \in Procs : WillFail(p)'
  BY DEF FailExplained
<1>k. kills = 0 /\ engine' = engine
  BY StepsWithoutKill
<1>m. MySQL => NoResume
  BY <1>k, ResumesStay DEF MySQL
<1>f. MySQL => (\A e \in Execs : Mine(e)) /\ (\A p \in Procs : Selected(p))
  BY <1>m DEF RowsFixed
<1>e. Execs \subseteq Procs /\ Requests \subseteq Procs /\ Execs \intersect Requests = {}
  BY ProcsAssumption DEF Procs
<1>1. CASE run.status # "FAILED"
  <2>1. ASSUME NEW p \in Procs, MarkFailed(p) PROVE WillFail(p)'
    <3>1. pc'[p] = "finalize"
      BY <2>1 DEF MarkFailed, Go, TypeOK
    <3> QED
      BY <3>1 DEF WillFail
  <2>2. ASSUME NEW e \in Execs, FailRun(e) PROVE WillFail(e)'
    <3>1. pc[e] = "failRun" /\ pc'[e] = "taskFailEvent" /\ work' = work /\ rows' = rows
      BY <2>2, <1>e DEF FailRun, Go, TypeOK
    <3>2. Alone(e)
      BY <3>1 DEF BatchOK, AloneOK
    <3>3. MySQL => Present(RowInHand(e))
      BY <3>1, <1>f, OwnerRowPresent DEF ControlOK, Settling
    <3>4. Alone(e)' /\ Referable(e)'
      BY <3>1, <3>2, <3>3, <1>k DEF Alone, Referable, RowInHand, Present, MySQL
    <3> QED
      BY <3>1, <3>4 DEF WillFail
  <2> QED
    BY <1>1, <1>e, <2>1, <2>2, NewStatus
<1>2. CASE run.status = "FAILED" /\ (Has(FailureTypes) \/ Resetting)
  BY <1>2, NextEvents DEF Terminal
<1>3. ASSUME NEW p \in Procs, WillFail(p), run.status = "FAILED"
      PROVE  Has(FailureTypes)' \/ Resetting' \/ \E q \in Procs : WillFail(q)'
  <2>i. pc[p] # "idle"
    BY <1>3 DEF WillFail
  <2>s. ASSUME RowsKept, pc'[p] = pc[p], sess'[p] = sess[p], p \in Execs => work'[p] = work[p]
        PROVE  WillFail(p)'
    <3>1. \A i : Present(i) => Present(i)'
      BY <2>s DEF RowsKept, Present
    <3>2. Fresh(p).status # "CANCELLED" => Fresh(p)'.status # "CANCELLED"
      BY <2>s, <1>k DEF Fresh, MySQL, View
    <3>3. p \in Execs /\ Alone(p) => Alone(p)'
      BY <2>s DEF Alone
    <3>4. p \in Execs /\ Referable(p) => Referable(p)'
      BY <2>s, <3>1, <1>k DEF Referable, RowInHand, MySQL
    <3> QED
      BY <1>3, <2>s, <3>1, <3>2, <3>3, <3>4 DEF WillFail
  <2>1. ASSUME NEW r \in Requests, Arrive(r) \/ Serve(r), ~ResumeClear(r)
        PROVE  WillFail(p)' \/ Has(FailureTypes)'
    <3>1. CASE p # r
      <4>1. pc'[p] = pc[p] /\ sess'[p] = sess[p] /\ work' = work /\ RowsKept
        BY <2>1, <2>i, <3>1, RequestFrame, RequestRows
      <4> QED
        BY <4>1, <2>s
    <3>2. CASE p = r
      <4>1. pc[p] \in {"idle"} \union RequestActive /\ p \notin Execs
        BY <2>1, <3>2, <1>e, RequestStepAt
      <4>2. pc[p] \in {"markFailed", "finalize", "finalizeCommit", "failEvent"}
        BY <4>1, <1>3 DEF WillFail, RequestActive, InFailure
      <4>3. MarkFlowRunFailed(p)
        BY <2>1, <3>2, <4>2, RequestStepAt DEF MarkFlowRunFailed
      <4> QED
        BY <4>3, <1>3, <1>f, <1>k, FailureProceeds
    <3> QED
      BY <3>1, <3>2
  <2>2. ASSUME NEW r \in Requests, ResumeClear(r) PROVE Resetting'
    <3>1. pc'[r] = "reset" /\ r \in Resumes
      BY <2>2, <1>e DEF ResumeClear, Go, TypeOK
    <3> QED
      BY <3>1 DEF Resetting
  <2>3. ASSUME NEW d \in Execs, Execute(d) PROVE WillFail(p)' \/ Has(FailureTypes)'
    <3>1. CASE d = p
      BY <1>3, <1>f, <2>3, <3>1, OwnFailure
    <3>2. CASE d # p
      <4>1. /\ pc'[p] = pc[p] /\ sess'[p] = sess[p] /\ (p \in Execs => work'[p] = work[p])
            /\ RowsKept
        BY <2>3, <3>2, ExecuteFrame, ExecuteRows DEF Frame
      <4> QED
        BY <4>1, <2>s
    <3> QED
      BY <3>1, <3>2
  <2>4. ASSUME NEW d \in Execs, WorkerLost(d) PROVE \E q \in Procs : WillFail(q)'
    <3>1. PICK f \in Execs : pc[f] = "idle" /\ pc' = [pc EXCEPT ![d] = "lost", ![f] = "queued"]
      BY <2>4 DEF WorkerLost
    <3>2. pc'[f] = "queued" /\ f \in Procs
      BY <3>1, <1>e DEF TypeOK
    <3> QED
      BY <3>2 DEF WillFail
  <2>5. CASE UNCHANGED vars
    BY <2>5, <2>s, UnchangedRows DEF vars
  <2> QED
    BY <2>1, <2>2, <2>3, <2>4, <2>5, StepsWithoutKill
<1> QED
  BY <1>1, <1>2, <1>3, <1>k, <1>m DEF FailExplained

\* Once everything has come to rest and no process was lost for good, the event
\* log holds the event that goes with the final status, for any number of
\* overlapping executions, cancellations, resumptions and redeliveries; on
\* MySQL, for a failed run, as long as no resumption has arrived.
THEOREM ExplanationCorrect == Spec => []StatusIsExplained
<1> DEFINE Explained == CancelExplained /\ CompleteExplained /\ FailExplained
           Inv == /\ TypeOK /\ ControlOK /\ BatchOK /\ RequestOK /\ RowsOK
                  /\ RowsFixed /\ Explained
<1>1. Init => Inv
  <2>1. ASSUME Init PROVE RowsOK /\ RowsFixed
    BY <2>1 DEF Init, RowsOK, Present, NoRow, RowsFixed, Mine, NoWork, Selected
  <2>2. Init => Explained
    BY DEF Init, CancelExplained, CompleteExplained, FailExplained
  <2> QED
    BY <2>1, <2>2, InitTypeOK, InitControlOK, InitBatchOK, InitRequestOK
<1>2. Inv /\ [Next]_vars => Inv'
  <2> SUFFICES ASSUME Inv, [Next]_vars PROVE Inv'
    OBVIOUS
  <2>1. TypeOK' /\ ControlOK' /\ BatchOK' /\ RequestOK' /\ RowsOK'
    BY NextTypeOK, NextControlOK, NextBatchOK, NextRequestOK, NextRowsOK
  <2>2. RowsFixed'
    BY <2>1, NextRowsFixed
  <2>3. Explained'
    BY NextCancelExplained, NextCompleteExplained, NextFailExplained
  <2> QED
    BY <2>1, <2>2, <2>3
<1>3. Inv => StatusIsExplained
  <2> SUFFICES ASSUME Inv, Quiescent, kills = 0 PROVE StatusIsExplained
    BY DEF StatusIsExplained
  <2>q. \A p \in Procs : pc[p] \in {"idle", "done", "lost"}
    BY DEF Quiescent
  <2>e. Execs \subseteq Procs /\ Cancels \subseteq Procs /\ Resumes \subseteq Procs
    BY DEF Procs, Requests
  <2>1. ~Resetting /\ ~\E r \in Cancels : pc[r] = "cancelRequested"
    BY <2>q, <2>e DEF Resetting
  <2>2. \A p \in Procs : ~WillFail(p) /\ ~WillComplete(p)
    BY <2>q DEF WillFail, WillComplete
  <2> QED
    BY <2>1, <2>2, <2>e DEF StatusIsExplained, CancelExplained, CompleteExplained, FailExplained,
                            FailureTypes, NoResume
<1> QED
  BY <1>1, <1>2, <1>3, PTL DEF Spec
=============================================================================
