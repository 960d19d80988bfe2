---------------------------- MODULE FlowRunProofs ----------------------------
(***************************************************************************)
(* What TLAPS proves of FlowRun, for every set of executions, requests and *)
(* stages, every grouping into batches and every bound.                    *)
(***************************************************************************)
EXTENDS FlowRun, TLAPS

-----------------------------------------------------------------------------
(***************************************************************************)
(* Lemmas about the helpers: what each leaves of the types.                *)
(***************************************************************************)
LEMMA ViewType == ASSUME NEW r \in RunRow PROVE View(r) \in RunView
BY DEF View, RunView, RunRow

LEMMA GoType ==
  ASSUME pc \in [Procs -> PC], NEW p \in Procs, NEW next \in PC, Go(p, next)
  PROVE  pc' \in [Procs -> PC]
BY DEF Go

LEMMA SavedType ==
  ASSUME sess \in [Procs -> Session], run' \in RunRow, NEW p \in Procs, Saved(p)
  PROVE  sess' \in [Procs -> Session]
BY ViewType DEF Saved, Session

LEMMA CommittedType ==
  ASSUME sess \in [Procs -> Session], run \in RunRow, NEW p \in Procs, Committed(p)
  PROVE  sess' \in [Procs -> Session]
BY ViewType DEF Committed, Session

LEMMA FreshType ==
  ASSUME sess \in [Procs -> Session], run \in RunRow, NEW p \in Procs
  PROVE  Fresh(p) \in RunView
BY ViewType DEF Fresh, Session

LEMMA RefreshedType ==
  ASSUME sess \in [Procs -> Session], run \in RunRow, NEW p \in Procs, Refreshed(p)
  PROVE  sess' \in [Procs -> Session]
BY FreshType DEF Refreshed, Session

LEMMA NoWorkType == NoWork \in Work
BY BoundsAssumption DEF NoWork, Work

LEMMA NoSessionType == NoSession \in Session
BY DEF NoSession, Session, NoView, RunView, RunStatus

LEMMA CloseType ==
  ASSUME sess \in [Procs -> Session], work \in [Execs -> Work], NEW p \in Procs, Close(p)
  PROVE  sess' \in [Procs -> Session] /\ work' \in [Execs -> Work]
BY NoWorkType, NoSessionType DEF Close

LEMMA StatusAfterType ==
  ASSUME run \in RunRow, NEW p \in Procs, NEW s \in RunStatus
  PROVE  StatusAfter(p, s) \in RunStatus
BY DEF StatusAfter, RunRow

LEMMA EmitType ==
  ASSUME events \subseteq Event, NEW p \in Procs, NEW t \in EventType,
         NEW s \in Stages \union {None}, Emit(p, t, s)
  PROVE  events' \subseteq Event
BY DEF Emit, Event

-----------------------------------------------------------------------------
(***************************************************************************)
(* The control invariant: what the flow object of an execution holds at    *)
(* each point of its code.                                                 *)
(***************************************************************************)
Preparing == {"prepare", "prepRun", "prepEvent"}
Settling == {"saveTask", "artifact", "saveState", "doneEvent", "stageFailed", "cancelTask",
             "taskCancelEvent", "flowCancelEvent", "failTask", "failRun", "taskFailEvent"}

WorkOK(e) ==
  /\ pc[e] \in {"idle", "queued", "start", "started"} => work[e] = NoWork
  /\ pc[e] \in Preparing \union {"wait"} \union Settling => work[e].batch \in DOMAIN Batches
  /\ pc[e] \in Preparing =>
       \A s \in Batches[work[e].batch] \ work[e].todo : work[e].row[s] # 0
  /\ pc[e] \in {"prepRun", "prepEvent"} \union Settling =>
       work[e].stage \in work[e].todo /\ work[e].row[work[e].stage] # 0
  /\ pc[e] \in {"wait"} \union Settling => \A s \in work[e].todo : work[e].row[s] # 0

ControlOK == \A e \in Execs : WorkOK(e)

LEMMA BatchIsStages ==
  ASSUME NEW i \in DOMAIN Batches PROVE Batches[i] \subseteq Stages
BY BatchesAssumption

-----------------------------------------------------------------------------
LEMMA InitTypeOK == Init => TypeOK
<1> SUFFICES ASSUME Init PROVE TypeOK
  OBVIOUS
<1>1. run \in RunRow
  BY DEF Init, RunRow, RunStatus
<1>2. rows \in [RowIds -> TaskRow]
  BY DEF Init, NoRow, TaskRow, TaskStatus
<1>3. pc \in [Procs -> PC]
  BY DEF Init, PC
<1>4. sess \in [Procs -> Session] /\ work \in [Execs -> Work]
  BY NoSessionType, NoWorkType DEF Init
<1> QED
  BY <1>1, <1>2, <1>3, <1>4, BoundsAssumption DEF Init, TypeOK

\* mark_flow_run_failed keeps the types, whichever process runs it.
LEMMA MarkFlowRunFailedTypeOK ==
  ASSUME TypeOK, NEW p \in Procs, MarkFlowRunFailed(p)
  PROVE  TypeOK'
<1> USE DEF TypeOK, faults
<1> DEFINE pcs == {"finalize", "finalizeCommit", "failEvent", "return", "done"}
<1>p. pcs \subseteq PC
  BY DEF PC, ExecActive, InFailure
<1> HIDE DEF pcs
<1>o. OpenRows \subseteq RowIds
  BY DEF OpenRows
<1>1. CASE MarkFailed(p)
  <2>1. run' \in RunRow
    BY <1>1, StatusAfterType DEF MarkFailed, RunRow, RunStatus, Terminal
  <2>2. sess' \in [Procs -> Session]
    BY <1>1, <1>o, <2>1, ViewType DEF MarkFailed, Session
  <2>3. pc' \in [Procs -> PC]
    BY <1>1, <1>p, GoType DEF MarkFailed, pcs
  <2> QED
    BY <1>1, <2>1, <2>2, <2>3 DEF MarkFailed
<1>2. CASE SelectOpenTasks(p)
  <2>1. sess' \in [Procs -> Session]
    BY <1>2, <1>o DEF SelectOpenTasks, Session
  <2>2. pc' \in [Procs -> PC]
    BY <1>2, <1>p, GoType DEF SelectOpenTasks, pcs
  <2> QED
    BY <1>2, <2>1, <2>2 DEF SelectOpenTasks, db
<1>3. CASE FinalizeOpenTasks(p)
  <2>1. rows' \in [RowIds -> TaskRow]
    BY <1>3 DEF FinalizeOpenTasks, TaskRow, TaskStatus
  <2>2. pc' \in [Procs -> PC]
    BY <1>3, <1>p, GoType DEF FinalizeOpenTasks, Over, pcs
  <2>3. sess' \in [Procs -> Session] /\ work' \in [Execs -> Work]
    BY <1>3, CloseType DEF FinalizeOpenTasks, Over
  <2> QED
    BY <1>3, <2>1, <2>2, <2>3 DEF FinalizeOpenTasks
<1>4. CASE FailEvent(p)
  <2>1. events' \subseteq Event
    BY <1>4, EmitType DEF FailEvent, EventType
  <2>2. pc' \in [Procs -> PC]
    BY <1>4, <1>p, GoType DEF FailEvent, Over, pcs
  <2> QED
    BY <1>4, <2>1, <2>2, CloseType DEF FailEvent, Over
<1> QED
  BY <1>1, <1>2, <1>3, <1>4 DEF MarkFlowRunFailed

LEMMA RequestTypeOK ==
  ASSUME TypeOK, NEW r \in Requests, Arrive(r) \/ Serve(r)
  PROVE  TypeOK'
<1> USE DEF TypeOK, faults
<1>r. r \in Procs
  BY DEF Procs
<1> DEFINE pcs == {"queued", "done", "dispatch", "cancel", "cancelRequested", "clear", "reset", "markFailed"}
<1>p. pcs \subseteq PC
  BY DEF PC, RequestActive, InFailure
<1> HIDE DEF pcs
<1>1. CASE CreateRun(r)
  <2>1. run' \in RunRow
    BY <1>1 DEF CreateRun, RunRow, RunStatus, Live
  <2>2. pc' \in [Procs -> PC]
    BY <1>1, <1>p, <1>r, GoType DEF CreateRun, pcs
  <2> QED
    BY <1>1, <1>r, <2>1, <2>2, SavedType DEF CreateRun
<1>2. CASE CancelRead(r)
  <2>1. pc' \in [Procs -> PC]
    BY <1>2, <1>p, <1>r, GoType DEF CancelRead, pcs
  <2>2. sess' \in [Procs -> Session]
    BY <1>2, <1>r, ViewType DEF CancelRead, Session
  <2> QED
    BY <1>2, <2>1, <2>2 DEF CancelRead, db
<1>3. CASE ResumeRead(r)
  <2>1. pc' \in [Procs -> PC]
    BY <1>3, <1>p, <1>r, GoType DEF ResumeRead, pcs
  <2>2. sess' \in [Procs -> Session]
    BY <1>3, <1>r, ViewType DEF ResumeRead, Session
  <2> QED
    BY <1>3, <2>1, <2>2 DEF ResumeRead, db
<1>4. CASE Dispatch(r)
  <2>1. pc' \in [Procs -> PC]
    BY <1>4, <1>p, <1>r DEF Dispatch, pcs, Procs
  <2> QED
    BY <1>4, <1>r, <2>1, CloseType DEF Dispatch, db
<1>5. CASE DispatchFails(r)
  <2>1. pc' \in [Procs -> PC]
    BY <1>5, <1>p, <1>r, GoType DEF DispatchFails, pcs
  <2> QED
    BY <1>5, <2>1 DEF DispatchFails, db
<1>6. CASE CancelWrite(r)
  <2>1. run' \in RunRow
    BY <1>6, <1>r, StatusAfterType DEF CancelWrite, RunRow, RunStatus, Terminal
  <2>2. pc' \in [Procs -> PC]
    BY <1>6, <1>p, <1>r, GoType DEF CancelWrite, pcs
  <2> QED
    BY <1>6, <1>r, <2>1, <2>2, SavedType DEF CancelWrite
<1>7. CASE CancelEvent(r)
  <2>1. events' \subseteq Event
    BY <1>7, <1>r, EmitType DEF CancelEvent, EventType
  <2>2. pc' \in [Procs -> PC]
    BY <1>7, <1>p, <1>r, GoType DEF CancelEvent, pcs
  <2> QED
    BY <1>7, <1>r, <2>1, <2>2, CloseType DEF CancelEvent
<1>8. CASE ResumeClear(r)
  <2>1. rows' \in [RowIds -> TaskRow]
    BY <1>8 DEF ResumeClear, NoRow, TaskRow, TaskStatus
  <2>2. pc' \in [Procs -> PC]
    BY <1>8, <1>p, <1>r, GoType DEF ResumeClear, pcs
  <2> QED
    BY <1>8, <2>1, <2>2, BoundsAssumption DEF ResumeClear
<1>9. CASE ResumeReset(r)
  <2>1. run' \in RunRow
    BY <1>9, <1>r, StatusAfterType DEF ResumeReset, RunRow, RunStatus, Live
  <2>2. pc' \in [Procs -> PC]
    BY <1>9, <1>p, <1>r, GoType DEF ResumeReset, pcs
  <2> QED
    BY <1>9, <1>r, <2>1, <2>2, SavedType DEF ResumeReset
<1>10. CASE MarkFlowRunFailed(r)
  BY <1>10, <1>r, MarkFlowRunFailedTypeOK
<1> QED
  BY <1>1, <1>2, <1>3, <1>4, <1>5, <1>6, <1>7, <1>8, <1>9, <1>10 DEF Arrive, Serve

\* The steps of an execution up to its first batch, and after its last.
LEMMA ExecuteOutsideTypeOK ==
  ASSUME TypeOK, NEW e \in Execs,
         \/ Load(e) \/ Handler(e) \/ Acknowledge(e)
         \/ MarkRunning(e) \/ EmitStarted(e) \/ NextBatch(e) \/ EmitCancelled(e)
         \/ CompleteRun(e) \/ EmitFlowCompleted(e)
  PROVE  TypeOK'
<1> USE DEF TypeOK, faults
<1>e. e \in Procs
  BY DEF Procs
<1> DEFINE pcs == {"start", "handler", "markFailed", "return", "done", "started", "loop",
                   "cancelEvent", "prepare", "completeEvent"}
<1>p. pcs \subseteq PC
  BY DEF PC, ExecActive, InFlow, InFailure
<1> HIDE DEF pcs
<1>1. CASE Load(e)
  <2>1. pc' \in [Procs -> PC]
    BY <1>1, <1>p, <1>e, GoType DEF Load, pcs
  <2>2. sess' \in [Procs -> Session]
    BY <1>1, <1>e, ViewType DEF Load, Session
  <2> QED
    BY <1>1, <2>1, <2>2 DEF Load, db
<1>2. CASE Handler(e)
  <2>1. pc' \in [Procs -> PC]
    BY <1>2, <1>p, <1>e, GoType DEF Handler, Over, pcs
  <2>2. sess' \in [Procs -> Session] /\ work' \in [Execs -> Work]
    BY <1>2, <1>e, CloseType, RefreshedType DEF Handler, Over
  <2> QED
    BY <1>2, <2>1, <2>2 DEF Handler, db
<1>3. CASE Acknowledge(e)
  <2>1. pc' \in [Procs -> PC]
    BY <1>3, <1>p, <1>e, GoType DEF Acknowledge, pcs
  <2> QED
    BY <1>3, <2>1 DEF Acknowledge, db
<1>4. CASE MarkRunning(e)
  <2>1. run' \in RunRow
    BY <1>4, <1>e, StatusAfterType DEF MarkRunning, RunRow, RunStatus, Live
  <2>2. pc' \in [Procs -> PC]
    BY <1>4, <1>p, <1>e, GoType DEF MarkRunning, pcs
  <2> QED
    BY <1>4, <1>e, <2>1, <2>2, SavedType DEF MarkRunning
<1>5. CASE EmitStarted(e)
  <2>1. events' \subseteq Event
    BY <1>5, <1>e, EmitType DEF EmitStarted, EventType
  <2>2. pc' \in [Procs -> PC]
    BY <1>5, <1>p, <1>e, GoType DEF EmitStarted, pcs
  <2> QED
    BY <1>5, <1>e, <2>1, <2>2, CommittedType DEF EmitStarted
<1>6. CASE NextBatch(e)
  <2>1. work[e].batch \in DOMAIN Batches
    BY <1>6, BatchesAssumption DEF NextBatch, Work
  <2>2. Batches[work[e].batch] \in SUBSET Stages
    BY <2>1, BatchIsStages
  <2>4. [work EXCEPT ![e].todo = Batches[work[e].batch]] \in [Execs -> Work]
    BY <2>2 DEF Work
  <2>5. work' \in [Execs -> Work]
    BY <1>6, <2>4 DEF NextBatch
  <2>3. pc' \in [Procs -> PC]
    BY <1>6, <1>p, <1>e, GoType DEF NextBatch, pcs
  <2> QED
    BY <1>6, <1>e, <2>5, <2>3, RefreshedType DEF NextBatch, db
<1>7. CASE EmitCancelled(e)
  <2>1. events' \subseteq Event
    BY <1>7, <1>e, EmitType DEF EmitCancelled, EventType
  <2>2. pc' \in [Procs -> PC]
    BY <1>7, <1>p, <1>e, GoType DEF EmitCancelled, Over, pcs
  <2> QED
    BY <1>7, <1>e, <2>1, <2>2, CloseType DEF EmitCancelled, Over
<1>8. CASE CompleteRun(e)
  <2>1. run' \in RunRow
    BY <1>8, <1>e, StatusAfterType DEF CompleteRun, RunRow, RunStatus, Terminal, Work
  <2>2. pc' \in [Procs -> PC]
    BY <1>8, <1>p, <1>e, GoType DEF CompleteRun, pcs
  <2> QED
    BY <1>8, <1>e, <2>1, <2>2, SavedType DEF CompleteRun
<1>9. CASE EmitFlowCompleted(e)
  <2>1. events' \subseteq Event
    BY <1>9, <1>e, EmitType DEF EmitFlowCompleted, EventType
  <2>2. pc' \in [Procs -> PC]
    BY <1>9, <1>p, <1>e, GoType DEF EmitFlowCompleted, Over, pcs
  <2> QED
    BY <1>9, <1>e, <2>1, <2>2, CloseType DEF EmitFlowCompleted, Over
<1> QED
  BY <1>1, <1>2, <1>3, <1>4, <1>5, <1>6, <1>7, <1>8, <1>9

\* Leaving by Over or Abandon keeps the types.
LEMMA OverTypeOK ==
  ASSUME TypeOK, NEW e \in Execs, Over(e)
  PROVE  /\ pc' \in [Procs -> PC]
         /\ sess' \in [Procs -> Session]
         /\ work' \in [Execs -> Work]
<1>1. e \in Procs /\ "return" \in PC /\ "done" \in PC
  BY DEF Procs, PC
<1> QED
  BY <1>1, GoType, CloseType DEF Over, TypeOK

LEMMA SetRowType ==
  ASSUME TypeOK, NEW e \in Execs, NEW t \in TaskStatus, SetRow(e, t)
  PROVE  rows' \in [RowIds -> TaskRow]
BY DEF TypeOK, SetRow, TaskRow

LEMMA EitherIsBoolean ==
  ASSUME NEW x \in BOOLEAN, NEW y \in BOOLEAN PROVE (x \/ y) \in BOOLEAN
OBVIOUS

\* Settling a stage moves to the next one, to the next batch or to the handler.
LEMMA SettleType ==
  ASSUME TypeOK, NEW e \in Execs, NEW fails \in BOOLEAN, Settle(e, fails)
  PROVE  pc' \in [Procs -> PC] /\ work' \in [Execs -> Work]
<1>1. e \in Procs /\ "wait" \in PC /\ "handler" \in PC /\ "loop" \in PC
  BY DEF Procs, PC, ExecActive, InFlow
<1>2. pc' \in [Procs -> PC]
  BY <1>1, GoType DEF Settle, TypeOK
<1>3. work' \in [Execs -> Work]
  <2> DEFINE left   == work[e].todo \ {work[e].stage}
             failed == work[e].failed \/ fails
             next   == IF left = {} /\ ~failed THEN work[e].batch + 1 ELSE work[e].batch
  <2>1. left \in SUBSET Stages /\ next \in Nat \ {0}
    BY DEF TypeOK, Work
  <2>3. failed \in BOOLEAN
    <3>1. work[e].failed \in BOOLEAN
      BY DEF TypeOK, Work
    <3> QED
      BY <3>1, EitherIsBoolean
  <2> DEFINE w == [work[e] EXCEPT !.todo = left, !.stage = None,
                                  !.failed = failed, !.batch = next]
  <2>2. work' = [work EXCEPT ![e] = w]
    BY DEF Settle, TypeOK
  <2> HIDE DEF left, failed, next
  <2>4. w \in Work
    BY <2>1, <2>3 DEF TypeOK, Work
  <2> HIDE DEF w
  <2> QED
    BY <2>2, <2>4 DEF TypeOK
<1> QED
  BY <1>2, <1>3

\* The steps of an execution within a batch.
LEMMA ExecuteInsideTypeOK ==
  ASSUME TypeOK, NEW e \in Execs, WorkOK(e),
         \/ CreateTask(e) \/ MarkStage(e) \/ EmitTaskStarted(e)
         \/ StageReturns(e) \/ SoftTimeLimit(e) \/ PrepareFails(e)
         \/ SaveTask(e) \/ CreateArtifact(e) \/ SaveState(e) \/ EmitTaskCompleted(e)
         \/ RefreshAfterFailure(e) \/ CancelTask(e) \/ EmitTaskCancelled(e)
         \/ EmitFlowCancelled(e) \/ FailTask(e) \/ FailRun(e) \/ EmitTaskFailed(e)
  PROVE  TypeOK'
<1> USE DEF faults
<1>e. e \in Procs
  BY DEF Procs
<1> DEFINE pcs == {"prepRun", "prepEvent", "wait", "prepare", "saveTask", "stageFailed",
                   "handler", "artifact", "saveState", "doneEvent", "cancelTask", "failTask",
                   "taskCancelEvent", "flowCancelEvent", "failRun", "taskFailEvent"}
<1>p. pcs \subseteq PC
  BY DEF PC, ExecActive, InFlow
<1> HIDE DEF pcs
<1>s. /\ work[e].stage \in Stages \union {None}
      /\ work[e].todo \in SUBSET Stages
      /\ work[e].done \in SUBSET Stages
  BY DEF TypeOK, Work
<1>t. pc[e] \in Settling => work[e].stage \in Stages
  BY <1>s DEF WorkOK, TypeOK, Work, Settling
<1>g. ASSUME NEW next \in pcs, Go(e, next) PROVE pc' \in [Procs -> PC]
  BY <1>g, <1>p, <1>e, GoType DEF TypeOK
<1>a. CASE Abandon(e) /\ UNCHANGED faults
  BY <1>a, OverTypeOK DEF TypeOK, Abandon, db
<1>1. CASE CreateTask(e)
  <2>1. PICK s \in work[e].todo :
          /\ rows' = [rows EXCEPT ![lastRow + 1] = [by |-> e, stage |-> s, status |-> "RUNNING"]]
          /\ work' = [work EXCEPT ![e].stage = s, ![e].row[s] = lastRow + 1]
    BY <1>1 DEF CreateTask
  <2>2. s \in Stages
    BY <1>s
  <2>3. lastRow + 1 \in RowIds /\ lastRow' = lastRow + 1 /\ lastRow' \in 0..MaxRows
    <3>1. lastRow < MaxRows /\ lastRow' = lastRow + 1
      BY <1>1 DEF CreateTask
    <3>2. lastRow \in 0..MaxRows /\ MaxRows \in Nat
      BY BoundsAssumption DEF TypeOK
    <3> QED
      BY <3>1, <3>2 DEF RowIds
  <2>4. rows' \in [RowIds -> TaskRow]
    <3>1. [by |-> e, stage |-> s, status |-> "RUNNING"] \in TaskRow
      BY <2>2 DEF TaskRow, TaskStatus
    <3> QED
      BY <2>1, <2>3, <3>1 DEF TypeOK
  <2>5. work' \in [Execs -> Work]
    <3> DEFINE w == [work[e] EXCEPT !.stage = s, !.row[s] = lastRow + 1]
    <3>1. work \in [Execs -> Work]
      BY DEF TypeOK
    <3>2. w \in Work
      BY <2>2, <2>3, <3>1 DEF Work
    <3>3. work' = [work EXCEPT ![e] = w]
      BY <2>1, <3>1
    <3> QED
      BY <3>1, <3>2, <3>3
  <2>6. pc' \in [Procs -> PC] /\ sess' \in [Procs -> Session]
    BY <1>1, <1>g, <1>e, CommittedType DEF CreateTask, pcs, TypeOK
  <2> QED
    BY <1>1, <2>3, <2>4, <2>5, <2>6 DEF CreateTask, TypeOK
<1>2. CASE MarkStage(e)
  <2>1. run' \in RunRow
    BY <1>2, <1>s DEF MarkStage, RunRow, TypeOK
  <2>2. pc' \in [Procs -> PC] /\ sess' \in [Procs -> Session]
    BY <1>2, <2>1, <1>g, <1>e, SavedType DEF MarkStage, pcs, TypeOK
  <2> QED
    BY <1>2, <2>1, <2>2 DEF MarkStage, TypeOK
<1>3. CASE EmitTaskStarted(e) /\ Referable(e)
  <2>1. pc[e] = "prepEvent" /\ work[e].batch \in DOMAIN Batches
    BY <1>3 DEF EmitTaskStarted, WorkOK, Preparing
  <2>2. Batches[work[e].batch] \in SUBSET Stages
    BY <2>1, BatchIsStages
  <2>3. work' \in [Execs -> Work]
    <3> DEFINE left == work[e].todo \ {work[e].stage}
               next == IF left = {} THEN Batches[work[e].batch] ELSE left
    <3>1. next \in SUBSET Stages
      BY <2>2, <1>s
    <3>2. work' = [work EXCEPT ![e].stage = None, ![e].todo = next]
      BY <1>3 DEF EmitTaskStarted
    <3> HIDE DEF next
    <3> QED
      BY <3>1, <3>2 DEF TypeOK, Work
  <2>4. events' \subseteq Event
    BY <1>3, <1>e, <1>s, EmitType DEF EmitTaskStarted, EventType, TypeOK
  <2>5. pc' \in [Procs -> PC]
    BY <1>3, <1>g DEF EmitTaskStarted, pcs
  <2>6. sess' \in [Procs -> Session]
    BY <1>3, <1>e, CommittedType DEF EmitTaskStarted, TypeOK
  <2> QED
    BY <1>3, <2>3, <2>4, <2>5, <2>6 DEF EmitTaskStarted, TypeOK
<1>4. CASE StageReturns(e)
  <2>1. work' \in [Execs -> Work]
    BY <1>4, <1>s DEF StageReturns, TypeOK, Work
  <2>2. pc' \in [Procs -> PC]
    BY <1>4, <1>g DEF StageReturns, pcs
  <2> QED
    BY <1>4, <2>1, <2>2 DEF StageReturns, TypeOK, db
<1>5. CASE SoftTimeLimit(e) \/ PrepareFails(e)
  BY <1>5, <1>g DEF SoftTimeLimit, PrepareFails, pcs, TypeOK, db
<1>6. CASE SaveTask(e) /\ Present(RowInHand(e))
  <2>1. work[e].stage \in Stages
    BY <1>6, <1>t DEF SaveTask, Settling
  <2>2. work' \in [Execs -> Work]
    <3>1. Merged(e) \in SUBSET Stages
      BY <2>1, <1>s DEF Merged
    <3>2. work' = [work EXCEPT ![e].done = Merged(e)]
      BY <1>6 DEF SaveTask
    <3> QED
      BY <3>1, <3>2 DEF TypeOK, Work
  <2>3. rows' \in [RowIds -> TaskRow]
    BY <1>6, SetRowType DEF SaveTask, TaskStatus
  <2>4. pc' \in [Procs -> PC] /\ sess' \in [Procs -> Session]
    BY <1>6, <1>g, <1>e, CommittedType DEF SaveTask, pcs, TypeOK
  <2> QED
    BY <1>6, <2>2, <2>3, <2>4 DEF SaveTask, TypeOK
<1>7. CASE CreateArtifact(e) /\ Referable(e)
  <2>1. artifacts' \subseteq Execs \X Stages
    BY <1>7, <1>t DEF CreateArtifact, Settling, TypeOK
  <2>2. pc' \in [Procs -> PC] /\ sess' \in [Procs -> Session]
    BY <1>7, <1>g, <1>e, CommittedType DEF CreateArtifact, pcs, TypeOK
  <2> QED
    BY <1>7, <2>1, <2>2 DEF CreateArtifact, TypeOK
<1>8. CASE SaveState(e)
  <2>1. run' \in RunRow
    BY <1>8, <1>s DEF SaveState, RunRow, TypeOK
  <2>2. pc' \in [Procs -> PC] /\ sess' \in [Procs -> Session]
    BY <1>8, <2>1, <1>g, <1>e, SavedType DEF SaveState, pcs, TypeOK
  <2> QED
    BY <1>8, <2>1, <2>2 DEF SaveState, TypeOK
<1>9. CASE EmitTaskCompleted(e) /\ Referable(e)
  <2>1. events' \subseteq Event
    BY <1>9, <1>e, <1>s, EmitType DEF EmitTaskCompleted, EventType, TypeOK
  <2> QED
    BY <1>9, <2>1, <1>e, CommittedType, SettleType DEF EmitTaskCompleted, TypeOK
<1>10. CASE RefreshAfterFailure(e)
  <2>1. pc' \in [Procs -> PC]
    BY <1>10, <1>g DEF RefreshAfterFailure, pcs
  <2> QED
    BY <1>10, <2>1, <1>e, RefreshedType DEF RefreshAfterFailure, TypeOK, db
<1>11. CASE (CancelTask(e) \/ FailTask(e)) /\ Present(RowInHand(e))
  <2>1. rows' \in [RowIds -> TaskRow]
    BY <1>11, SetRowType DEF CancelTask, FailTask, TaskStatus
  <2>2. pc' \in [Procs -> PC]
    BY <1>11, <1>g DEF CancelTask, FailTask, pcs
  <2>3. sess' \in [Procs -> Session]
    BY <1>11, <1>e, CommittedType DEF CancelTask, FailTask, TypeOK
  <2> QED
    BY <1>11, <2>1, <2>2, <2>3 DEF CancelTask, FailTask, TypeOK
<1>12. CASE EmitTaskCancelled(e) /\ Referable(e)
  <2>1. events' \subseteq Event
    BY <1>12, <1>e, <1>s, EmitType DEF EmitTaskCancelled, EventType, TypeOK
  <2>2. pc' \in [Procs -> PC]
    BY <1>12, <1>g DEF EmitTaskCancelled, pcs
  <2> QED
    BY <1>12, <2>1, <2>2, <1>e, CommittedType DEF EmitTaskCancelled, TypeOK
<1>13. CASE EmitFlowCancelled(e)
  <2>1. events' \subseteq Event
    BY <1>13, <1>e, <1>s, EmitType DEF EmitFlowCancelled, EventType, TypeOK
  <2> QED
    BY <1>13, <2>1, <1>e, CommittedType, SettleType DEF EmitFlowCancelled, TypeOK
<1>14. CASE FailRun(e)
  <2>1. run' \in RunRow
    BY <1>14, <1>s, <1>e, StatusAfterType DEF FailRun, RunRow, RunStatus, Terminal, TypeOK
  <2>2. pc' \in [Procs -> PC] /\ sess' \in [Procs -> Session]
    BY <1>14, <2>1, <1>g, <1>e, SavedType DEF FailRun, pcs, TypeOK
  <2> QED
    BY <1>14, <2>1, <2>2 DEF FailRun, TypeOK
<1>15. CASE EmitTaskFailed(e) /\ Referable(e)
  <2>1. events' \subseteq Event
    BY <1>15, <1>e, <1>s, EmitType DEF EmitTaskFailed, EventType, TypeOK
  <2> QED
    BY <1>15, <2>1, <1>e, CommittedType, SettleType DEF EmitTaskFailed, TypeOK
<1> QED
  BY <1>a, <1>1, <1>2, <1>3, <1>4, <1>5, <1>6, <1>7, <1>8, <1>9, <1>10, <1>11, <1>12, <1>13,
     <1>14, <1>15
  DEF EmitTaskStarted, SaveTask, CreateArtifact, EmitTaskCompleted, CancelTask, FailTask,
      EmitTaskCancelled, EmitTaskFailed

-----------------------------------------------------------------------------
(***************************************************************************)
(* The control invariant is inductive.                                     *)
(***************************************************************************)
\* What a step of process p leaves alone.
Frame(p) ==
  /\ \A q \in Procs \ {p} : pc'[q] = pc[q] /\ sess'[q] = sess[q]
  /\ \A d \in Execs \ {p} : work'[d] = work[d]
  /\ UNCHANGED faults

LEMMA OverFrame ==
  ASSUME TypeOK, NEW p \in Procs, Over(p), UNCHANGED faults PROVE Frame(p)
BY DEF TypeOK, Over, Close, Go, Frame

LEMMA AbandonFrame ==
  ASSUME TypeOK, NEW e \in Execs, Abandon(e), UNCHANGED faults PROVE Frame(e)
BY OverFrame DEF Abandon, Procs

LEMMA SettleFrame ==
  ASSUME TypeOK, NEW e \in Execs, NEW f \in BOOLEAN, Settle(e, f), Committed(e), UNCHANGED faults
  PROVE  Frame(e)
BY DEF TypeOK, Settle, Committed, Go, Frame

LEMMA MarkFlowRunFailedFrame ==
  ASSUME TypeOK, NEW p \in Procs, MarkFlowRunFailed(p)
  PROVE  Frame(p)
<1>1. CASE MarkFailed(p)
  BY <1>1 DEF MarkFailed, TypeOK, Frame, Go
<1>2. CASE SelectOpenTasks(p)
  BY <1>2 DEF SelectOpenTasks, TypeOK, Frame, Go
<1>3. CASE FinalizeOpenTasks(p)
  BY <1>3, OverFrame DEF FinalizeOpenTasks, TypeOK, Frame, Go
<1>4. CASE FailEvent(p)
  BY <1>4, OverFrame DEF FailEvent
<1> QED
  BY <1>1, <1>2, <1>3, <1>4 DEF MarkFlowRunFailed

\* A step of an execution touches its own process only.
LEMMA ExecuteFrame ==
  ASSUME TypeOK, NEW e \in Execs, Execute(e)
  PROVE  Frame(e)
<1>e. e \in Procs
  BY DEF Procs
<1>1. CASE MarkFlowRunFailed(e)
  BY <1>1, <1>e, MarkFlowRunFailedFrame
<1>2. CASE Abandon(e) /\ UNCHANGED faults
  BY <1>2, AbandonFrame
<1>3. CASE Handler(e)
  BY <1>3, <1>e, OverFrame DEF Handler, Refreshed, Go, Frame, TypeOK
<1>4. CASE EmitCancelled(e) \/ EmitFlowCompleted(e)
  BY <1>4, <1>e, OverFrame DEF EmitCancelled, EmitFlowCompleted
<1>5. CASE Load(e) \/ Acknowledge(e) \/ MarkRunning(e) \/ EmitStarted(e) \/ NextBatch(e) \/ CompleteRun(e)
  BY <1>5 DEF Load, Acknowledge, MarkRunning, EmitStarted, NextBatch, CompleteRun,
              TypeOK, Go, Saved, Committed, Refreshed, Frame
<1>6. CASE CreateTask(e) \/ MarkStage(e) \/ StageReturns(e) \/ SoftTimeLimit(e) \/ PrepareFails(e) \/ SaveState(e)
           \/ RefreshAfterFailure(e) \/ FailRun(e)
  BY <1>6 DEF CreateTask, MarkStage, StageReturns, SoftTimeLimit, PrepareFails, SaveState, RefreshAfterFailure,
              FailRun, TypeOK, Go, Saved, Committed, Refreshed, Frame
<1>7. CASE EmitTaskStarted(e) /\ Referable(e)
  BY <1>7 DEF EmitTaskStarted, TypeOK, Go, Committed, Frame
<1>8. CASE (SaveTask(e) \/ CancelTask(e) \/ FailTask(e)) /\ Present(RowInHand(e))
  BY <1>8 DEF SaveTask, CancelTask, FailTask, TypeOK, Go, Committed, Frame
<1>9. CASE (CreateArtifact(e) \/ EmitTaskCancelled(e)) /\ Referable(e)
  BY <1>9 DEF CreateArtifact, EmitTaskCancelled, TypeOK, Go, Committed, Frame
<1>10. CASE (EmitTaskCompleted(e) \/ EmitTaskFailed(e)) /\ Referable(e)
  BY <1>10, SettleFrame DEF EmitTaskCompleted, EmitTaskFailed
<1>11. CASE EmitFlowCancelled(e)
  BY <1>11, SettleFrame DEF EmitFlowCancelled
<1> QED
  BY <1>1, <1>2, <1>3, <1>4, <1>5, <1>6, <1>7, <1>8, <1>9, <1>10, <1>11
  DEF Execute, EmitTaskStarted, SaveTask, CreateArtifact, EmitTaskCompleted, CancelTask,
      FailTask, EmitTaskCancelled, EmitTaskFailed

\* Where no flow object is in use its contents do not matter.
LEMMA WorkOKElsewhere ==
  ASSUME NEW e \in Execs, pc[e] \notin {"idle", "queued", "start", "started"},
         pc[e] \notin Preparing \union {"wait"} \union Settling
  PROVE  WorkOK(e)
BY DEF WorkOK, Preparing, Settling

\* Settling the stage in hand leaves the others of the batch as they are.
LEMMA SettleControl ==
  ASSUME TypeOK, NEW e \in Execs, WorkOK(e), pc[e] \in Settling, NEW f \in BOOLEAN, Settle(e, f)
  PROVE  WorkOK(e)'
<1>e. e \in Procs
  BY DEF Procs
<1>1. CASE work[e].todo \ {work[e].stage} = {}
  <2>1. pc'[e] \in {"handler", "loop"}
    BY <1>1, <1>e DEF Settle, Go, TypeOK
  <2> QED
    BY <2>1 DEF WorkOK, Preparing, Settling
<1>2. CASE work[e].todo \ {work[e].stage} # {}
  <2>1. pc'[e] = "wait"
    BY <1>2, <1>e DEF Settle, Go, TypeOK
  <2>2. /\ work'[e].batch = work[e].batch
        /\ work'[e].todo \subseteq work[e].todo
        /\ work'[e].row = work[e].row
    BY <1>2 DEF Settle, TypeOK, Work
  <2> QED
    BY <2>1, <2>2 DEF WorkOK, Preparing, Settling
<1> QED
  BY <1>1, <1>2

\* A step of an execution keeps its own control invariant.
LEMMA ExecuteControl ==
  ASSUME TypeOK, NEW e \in Execs, WorkOK(e), Execute(e)
  PROVE  WorkOK(e)'
<1>e. e \in Procs
  BY DEF Procs
<1>o. ASSUME NEW next \in {"handler", "markFailed", "return", "done", "loop", "cancelEvent",
                           "completeEvent", "finalize", "finalizeCommit", "failEvent"}, pc'[e] = next
      PROVE  WorkOK(e)'
  BY <1>o DEF WorkOK, Preparing, Settling
<1>a. CASE Abandon(e)
  BY <1>a, <1>e, <1>o DEF Abandon, Over, Go, TypeOK
<1>1. CASE MarkFlowRunFailed(e)
  <2>1. pc'[e] \in {"finalize", "finalizeCommit", "failEvent", "return"}
    BY <1>1, <1>e DEF MarkFlowRunFailed, MarkFailed, SelectOpenTasks, FinalizeOpenTasks, FailEvent,
                      Over, Go, TypeOK
  <2> QED
    BY <2>1, <1>o
<1>2. CASE Handler(e) \/ Acknowledge(e) \/ EmitCancelled(e) \/ EmitFlowCompleted(e) \/ CompleteRun(e)
           \/ EmitStarted(e) \/ SoftTimeLimit(e) \/ PrepareFails(e)
  <2>1. pc'[e] \in {"markFailed", "return", "done", "completeEvent", "loop", "handler"}
    BY <1>2, <1>e DEF Handler, Acknowledge, EmitCancelled, EmitFlowCompleted, CompleteRun,
                      EmitStarted, SoftTimeLimit, PrepareFails, Over, Go, TypeOK
  <2> QED
    BY <2>1, <1>o
<1>3. CASE Load(e) \/ MarkRunning(e)
  <2>1. pc'[e] \in {"start", "started", "handler"} /\ work'[e] = NoWork
    BY <1>3, <1>e DEF Load, MarkRunning, Go, WorkOK, TypeOK
  <2> QED
    BY <2>1 DEF WorkOK, Preparing, Settling
<1>4. CASE NextBatch(e)
  <2>1. CASE pc'[e] = "cancelEvent"
    BY <2>1, <1>o
  <2>2. CASE pc'[e] # "cancelEvent"
    <3>1. work[e].batch \in DOMAIN Batches
      BY <1>4, BatchesAssumption DEF NextBatch, TypeOK, Work
    <3>2. /\ pc'[e] = "prepare"
          /\ work'[e].batch = work[e].batch
          /\ work'[e].todo = Batches[work[e].batch]
      BY <1>4, <2>2, <1>e DEF NextBatch, Go, TypeOK, Work
    <3> QED
      BY <3>1, <3>2 DEF WorkOK, Preparing, Settling
  <2> QED
    BY <2>1, <2>2
<1>5. CASE CreateTask(e)
  <2>1. PICK s \in work[e].todo : work' = [work EXCEPT ![e].stage = s, ![e].row[s] = lastRow + 1]
    BY <1>5 DEF CreateTask
  <2>2. s \in Stages /\ lastRow + 1 # 0
    BY DEF TypeOK, Work
  <2>3. /\ work'[e].stage = s
        /\ work'[e].batch = work[e].batch
        /\ work'[e].todo = work[e].todo
        /\ work'[e].row[s] # 0
        /\ \A t \in Stages : work[e].row[t] # 0 => work'[e].row[t] # 0
    BY <2>1, <2>2 DEF TypeOK, Work
  <2>4. pc[e] = "prepare" /\ pc'[e] = "prepRun"
    BY <1>5, <1>e DEF CreateTask, Go, TypeOK
  <2>5. Batches[work[e].batch] \subseteq Stages /\ work[e].batch \in DOMAIN Batches
    BY <2>4, BatchIsStages DEF WorkOK, Preparing
  <2> QED
    BY <2>3, <2>4, <2>5 DEF WorkOK, Preparing, Settling
<1>6. CASE EmitTaskStarted(e) /\ Referable(e)
  <2> DEFINE left == work[e].todo \ {work[e].stage}
  <2>0. pc[e] = "prepEvent" /\ work[e].stage \in work[e].todo /\ work[e].row[work[e].stage] # 0
    BY <1>6 DEF EmitTaskStarted, WorkOK
  <2>1. \A s \in Batches[work[e].batch] \ left : work[e].row[s] # 0
    BY <2>0 DEF WorkOK, Preparing
  <2>2. work'[e].batch = work[e].batch /\ work'[e].row = work[e].row
    BY <1>6 DEF EmitTaskStarted, TypeOK, Work
  <2>3. CASE left = {}
    <3>1. pc'[e] = "wait" /\ work'[e].todo = Batches[work[e].batch]
      BY <1>6, <2>3, <1>e DEF EmitTaskStarted, Go, TypeOK, Work
    <3> QED
      BY <2>0, <2>1, <2>2, <2>3, <3>1 DEF WorkOK, Preparing, Settling
  <2>4. CASE left # {}
    <3>1. pc'[e] = "prepare" /\ work'[e].todo = left
      BY <1>6, <2>4, <1>e DEF EmitTaskStarted, Go, TypeOK, Work
    <3> HIDE DEF left
    <3> QED
      BY <2>0, <2>1, <2>2, <3>1 DEF WorkOK, Preparing, Settling
  <2> QED
    BY <2>3, <2>4
<1>7. CASE StageReturns(e)
  <2>1. PICK s \in work[e].todo : work' = [work EXCEPT ![e].stage = s]
    BY <1>7 DEF StageReturns
  <2>2. /\ work'[e].stage = s
        /\ work'[e].batch = work[e].batch
        /\ work'[e].todo = work[e].todo
        /\ work'[e].row = work[e].row
    BY <2>1 DEF TypeOK, Work
  <2>3. pc[e] = "wait" /\ pc'[e] \in {"saveTask", "stageFailed"}
    BY <1>7, <1>e DEF StageReturns, Go, TypeOK
  <2> QED
    BY <2>2, <2>3 DEF WorkOK, Preparing, Settling
<1>8. CASE MarkStage(e)
  <2>1. pc[e] = "prepRun" /\ pc'[e] = "prepEvent" /\ work' = work
    BY <1>8, <1>e DEF MarkStage, Go, TypeOK
  <2> QED
    BY <2>1 DEF WorkOK, Preparing, Settling
<1>9. CASE \/ SaveState(e) \/ RefreshAfterFailure(e) \/ FailRun(e)
           \/ (CreateArtifact(e) \/ EmitTaskCancelled(e)) /\ Referable(e)
           \/ (SaveTask(e) \/ CancelTask(e) \/ FailTask(e)) /\ Present(RowInHand(e))
  <2>1. pc[e] \in Settling /\ pc'[e] \in Settling
    BY <1>9, <1>e DEF SaveState, RefreshAfterFailure, FailRun, CreateArtifact, EmitTaskCancelled,
                      SaveTask, CancelTask, FailTask, Go, TypeOK, Settling
  <2>2. /\ work'[e].stage = work[e].stage
        /\ work'[e].batch = work[e].batch
        /\ work'[e].todo = work[e].todo
        /\ work'[e].row = work[e].row
    BY <1>9 DEF SaveState, RefreshAfterFailure, FailRun, CreateArtifact, EmitTaskCancelled,
                SaveTask, CancelTask, FailTask, TypeOK, Work
  <2> QED
    BY <2>1, <2>2 DEF WorkOK, Preparing, Settling
<1>10. CASE \/ EmitFlowCancelled(e)
            \/ (EmitTaskCompleted(e) \/ EmitTaskFailed(e)) /\ Referable(e)
  <2>1. pc[e] \in Settling /\ (Settle(e, TRUE) \/ Settle(e, FALSE))
    BY <1>10 DEF EmitFlowCancelled, EmitTaskCompleted, EmitTaskFailed, Settling
  <2> QED
    BY <2>1, SettleControl
<1>b. \/ EmitTaskStarted(e) \/ CreateArtifact(e) \/ EmitTaskCompleted(e)
      \/ EmitTaskCancelled(e) \/ EmitTaskFailed(e)
      => Referable(e) \/ Abandon(e)
  BY DEF EmitTaskStarted, CreateArtifact, EmitTaskCompleted, EmitTaskCancelled, EmitTaskFailed
<1>c. SaveTask(e) \/ CancelTask(e) \/ FailTask(e) => Present(RowInHand(e)) \/ Abandon(e)
  BY DEF SaveTask, CancelTask, FailTask
<1> QED
  BY <1>a, <1>b, <1>c, <1>1, <1>2, <1>3, <1>4, <1>5, <1>6, <1>7, <1>8, <1>9, <1>10 DEF Execute

\* A step of a request moves that request, and Dispatch one idle execution.
LEMMA RequestFrame ==
  ASSUME TypeOK, NEW r \in Requests, Arrive(r) \/ Serve(r)
  PROVE  /\ work' = work
         /\ UNCHANGED faults
         /\ \A q \in Procs \ {r} : sess'[q] = sess[q]
         /\ \A q \in Procs \ {r} : \/ pc'[q] = pc[q]
                                   \/ q \in Execs /\ pc[q] = "idle" /\ pc'[q] = "queued"
<1>r. r \in Procs /\ r \notin Execs
  BY ProcsAssumption DEF Procs
<1>c. Close(r) => work' = work /\ \A q \in Procs \ {r} : sess'[q] = sess[q]
  BY <1>r DEF Close, TypeOK
<1>1. CASE Dispatch(r)
  BY <1>1, <1>c, <1>r DEF Dispatch, TypeOK, Procs
<1>2. CASE MarkFlowRunFailed(r)
  <2>1. Frame(r)
    BY <1>2, <1>r, MarkFlowRunFailedFrame
  <2>2. work' = work
    BY <1>2, <1>c, <1>r DEF MarkFlowRunFailed, MarkFailed, SelectOpenTasks, FinalizeOpenTasks,
                          FailEvent, Over
  <2> QED
    BY <2>1, <2>2 DEF Frame
<1>3. CASE CancelEvent(r)
  BY <1>3, <1>c DEF CancelEvent, Go, TypeOK
<1>4. CASE CreateRun(r) \/ CancelRead(r) \/ ResumeRead(r)
  BY <1>4 DEF CreateRun, CancelRead, ResumeRead, Go, Saved, TypeOK
<1>5. CASE DispatchFails(r) \/ CancelWrite(r) \/ ResumeClear(r) \/ ResumeReset(r)
  BY <1>5 DEF DispatchFails, CancelWrite, ResumeClear, ResumeReset, Go, Saved, TypeOK
<1> QED
  BY <1>1, <1>2, <1>3, <1>4, <1>5 DEF Arrive, Serve

LEMMA FaultTypeOK ==
  ASSUME TypeOK, (\E e \in Execs : WorkerLost(e) \/ HardKill(e)) \/ ServerStops
  PROVE  TypeOK'
<1>p. "lost" \in PC /\ "queued" \in PC
  BY DEF PC
<1>1. ASSUME NEW e \in Execs, WorkerLost(e) PROVE TypeOK'
  <2>1. pc' \in [Procs -> PC]
    BY <1>1, <1>p DEF WorkerLost, TypeOK
  <2>2. crashes' \in 0..MaxCrashes
    BY <1>1, BoundsAssumption DEF WorkerLost, TypeOK
  <2>3. sess' \in [Procs -> Session] /\ work' \in [Execs -> Work]
    BY <1>1, CloseType DEF WorkerLost, TypeOK, Procs
  <2> QED
    BY <1>1, <2>1, <2>2, <2>3 DEF WorkerLost, TypeOK, db
<1>2. ASSUME NEW e \in Execs, HardKill(e) PROVE TypeOK'
  <2>1. pc' \in [Procs -> PC]
    BY <1>2, <1>p, GoType DEF HardKill, TypeOK, Procs
  <2>2. kills' \in 0..MaxKills
    BY <1>2, BoundsAssumption DEF HardKill, TypeOK
  <2>3. sess' \in [Procs -> Session] /\ work' \in [Execs -> Work]
    BY <1>2, CloseType DEF HardKill, TypeOK, Procs
  <2> QED
    BY <1>2, <2>1, <2>2, <2>3 DEF HardKill, TypeOK, db
<1>3. ASSUME ServerStops PROVE TypeOK'
  <2>1. pc' \in [Procs -> PC]
    BY <1>3, <1>p DEF ServerStops, Server, TypeOK
  <2>2. kills' \in 0..MaxKills
    BY <1>3, BoundsAssumption DEF ServerStops, Server, TypeOK
  <2>3. sess' \in [Procs -> Session] /\ work' \in [Execs -> Work]
    BY <1>3, NoSessionType, NoWorkType DEF ServerStops, Server, TypeOK
  <2> QED
    BY <1>3, <2>1, <2>2, <2>3 DEF ServerStops, Server, TypeOK, db
<1> QED
  BY <1>1, <1>2, <1>3

\* A fault ends executions or queues a new one: neither holds a flow object.
LEMMA FaultControl ==
  ASSUME TypeOK, NEW d \in Execs, WorkOK(d),
         (\E e \in Execs : WorkerLost(e) \/ HardKill(e)) \/ ServerStops
  PROVE  WorkOK(d)'
<1>d. d \in Procs
  BY DEF Procs
<1>l. ASSUME pc'[d] = "lost" PROVE WorkOK(d)'
  BY <1>l DEF WorkOK, Preparing, Settling
<1>s. ASSUME pc'[d] = pc[d], work'[d] = work[d] PROVE WorkOK(d)'
  BY <1>s DEF WorkOK
<1>1. ASSUME NEW e \in Execs, WorkerLost(e) PROVE WorkOK(d)'
  <2>1. PICK f \in Execs : pc[f] = "idle" /\ pc' = [pc EXCEPT ![e] = "lost", ![f] = "queued"]
    BY <1>1 DEF WorkerLost
  <2>2. pc[e] # "idle"
    BY <1>1 DEF WorkerLost, ExecActive, InFlow, InFailure
  <2>3. CASE d = e
    BY <2>1, <2>2, <2>3, <1>d, <1>l DEF TypeOK
  <2>4. CASE d # e
    <3>1. work'[d] = work[d]
      BY <1>1, <2>4 DEF WorkerLost, Close
    <3>2. CASE d = f
      <4>1. pc'[d] = "queued" /\ work[d] = NoWork
        BY <2>1, <3>2, <1>d DEF WorkOK, TypeOK
      <4> QED
        BY <3>1, <4>1 DEF WorkOK, Preparing, Settling
    <3>3. CASE d # f
      BY <2>1, <2>4, <3>1, <3>3, <1>d, <1>s DEF TypeOK
    <3> QED
      BY <3>2, <3>3
  <2> QED
    BY <2>3, <2>4
<1>2. ASSUME NEW e \in Execs, HardKill(e) PROVE WorkOK(d)'
  BY <1>2, <1>d, <1>l, <1>s DEF HardKill, Close, Go, TypeOK
<1>3. ASSUME ServerStops PROVE WorkOK(d)'
  <2>1. CASE d \notin Server
    BY <1>3, <2>1, <1>d, <1>s DEF ServerStops, TypeOK
  <2>2. CASE d \in Server /\ pc[d] \notin {"idle", "done"}
    BY <1>3, <2>2, <1>d, <1>l DEF ServerStops
  <2>3. CASE d \in Server /\ pc[d] \in {"idle", "done"}
    <3>1. pc'[d] = pc[d] /\ work'[d] = NoWork
      BY <1>3, <2>3, <1>d DEF ServerStops
    <3> QED
      BY <2>3, <3>1 DEF WorkOK, Preparing, Settling
  <2> QED
    BY <2>1, <2>2, <2>3
<1> QED
  BY <1>1, <1>2, <1>3

-----------------------------------------------------------------------------
(***************************************************************************)
(* Type correctness.  On its own TypeOK is not inductive: that an artifact *)
(* or a task belongs to a stage, and that the next batch exists, rests on  *)
(* what the flow object holds at that point of its code.                   *)
(***************************************************************************)
LEMMA InitControlOK == Init => ControlOK
BY DEF Init, ControlOK, WorkOK, Preparing, Settling, Procs

LEMMA NextTypeOK ==
  ASSUME TypeOK, ControlOK, [Next]_vars PROVE TypeOK'
<1>1. ASSUME NEW r \in Requests, Arrive(r) \/ Serve(r) PROVE TypeOK'
  BY <1>1, RequestTypeOK
<1>2. ASSUME NEW e \in Execs, Execute(e) PROVE TypeOK'
  <2>1. WorkOK(e) /\ e \in Procs
    BY DEF ControlOK, Procs
  <2> QED
    BY <1>2, <2>1, MarkFlowRunFailedTypeOK, ExecuteOutsideTypeOK, ExecuteInsideTypeOK DEF Execute
<1>3. CASE UNCHANGED vars
  BY <1>3 DEF vars, TypeOK
<1> QED
  BY <1>1, <1>2, <1>3, FaultTypeOK DEF Next

LEMMA NextControlOK ==
  ASSUME TypeOK, ControlOK, [Next]_vars PROVE ControlOK'
<1> SUFFICES ASSUME NEW d \in Execs PROVE WorkOK(d)'
  BY DEF ControlOK
<1>d. WorkOK(d) /\ d \in Procs
  BY DEF ControlOK, Procs
<1>s. ASSUME pc'[d] = pc[d], work'[d] = work[d] PROVE WorkOK(d)'
  BY <1>d, <1>s DEF WorkOK
<1>1. ASSUME NEW r \in Requests, Arrive(r) \/ Serve(r) PROVE WorkOK(d)'
  <2>1. /\ r # d /\ work'[d] = work[d]
        /\ \/ pc'[d] = pc[d]
           \/ pc[d] = "idle" /\ pc'[d] = "queued"
    BY <1>1, <1>d, RequestFrame, ProcsAssumption DEF Procs
  <2>2. CASE pc[d] = "idle" /\ pc'[d] = "queued"
    BY <2>1, <2>2, <1>d DEF WorkOK, Preparing, Settling
  <2> QED
    BY <2>1, <2>2, <1>s
<1>2. ASSUME NEW e \in Execs, Execute(e) PROVE WorkOK(d)'
  <2>1. CASE d = e
    BY <1>2, <1>d, <2>1, ExecuteControl
  <2>2. CASE d # e
    BY <1>2, <1>d, <1>s, <2>2, ExecuteFrame DEF Frame
  <2> QED
    BY <2>1, <2>2
<1>3. CASE UNCHANGED vars
  BY <1>3, <1>s DEF vars
<1> QED
  BY <1>1, <1>2, <1>3, <1>d, FaultControl DEF Next

\* Every reachable state has the types of the model, and every execution holds
\* at each point of _prepare, _complete and _mark_stage_execution_failed the
\* stage, the batch and the task rows that this point of the code uses.
THEOREM TypeCorrect == Spec => [](TypeOK /\ ControlOK)
<1>1. Init => TypeOK /\ ControlOK
  BY InitTypeOK, InitControlOK
<1>2. TypeOK /\ ControlOK /\ [Next]_vars => TypeOK' /\ ControlOK'
  BY NextTypeOK, NextControlOK
<1> QED
  BY <1>1, <1>2, PTL DEF Spec
=============================================================================
