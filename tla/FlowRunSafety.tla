---------------------------- MODULE FlowRunSafety ----------------------------
(***************************************************************************)
(* Two invariants of the run, proved for every instance: a terminal run    *)
(* has its finished_at, and a QUEUED or RUNNING run is not orphaned.       *)
(***************************************************************************)
EXTENDS FlowRunProofs

-----------------------------------------------------------------------------
(***************************************************************************)
(* What a request knows of the run between its read and its write.         *)
(***************************************************************************)
Knows(r) ==
  /\ pc[r] \in {"clear", "reset"} => sess[r].seen.status \in Resumable
  /\ pc[r] = "cancel" => sess[r].seen.status \notin Terminal
  /\ pc[r] \in {"dispatch", "markFailed"} => Undecided(r)

RequestOK == \A r \in Requests : Knows(r)

LEMMA InitRequestOK == Init => RequestOK
BY DEF Init, RequestOK, Knows, Procs

\* resume_run resets the run to QUEUED: it was entered in another status, so
\* the ORM does not leave the column out.
LEMMA ResetQueues ==
  ASSUME TypeOK, NEW r \in Requests, Knows(r), ResumeReset(r)
  PROVE  run'.status = "QUEUED" /\ sess'[r].seen.status = "QUEUED"
<1>1. sess[r].seen.status \in Resumable
  BY DEF ResumeReset, Knows
<1>2. run'.status = "QUEUED"
  BY <1>1 DEF ResumeReset, StatusAfter, Resumable
<1>3. sess'[r].seen = View(run')
  BY DEF ResumeReset, Saved, TypeOK, Session, Procs
<1> QED
  BY <1>2, <1>3 DEF View

\* A request keeps what it knows.
LEMMA RequestKnows ==
  ASSUME TypeOK, NEW r \in Requests, Knows(r), Arrive(r) \/ Serve(r)
  PROVE  Knows(r)'
<1>r. r \in Procs
  BY DEF Procs
<1>o. ASSUME pc'[r] \notin {"clear", "reset", "dispatch", "cancel", "markFailed"} PROVE Knows(r)'
  BY <1>o DEF Knows
<1>1. CASE CreateRun(r)
  <2>1. pc'[r] = "dispatch" /\ sess'[r].seen = View(run') /\ run'.status = "QUEUED"
    BY <1>1, <1>r DEF CreateRun, Go, Saved, TypeOK, Session
  <2> QED
    BY <2>1 DEF Knows, Undecided, View
<1>2. CASE ResumeRead(r)
  <2>1. CASE run.status \in Resumable
    <3>1. pc'[r] = "clear" /\ sess'[r].seen = View(run)
      BY <1>2, <2>1, <1>r DEF ResumeRead, Go, TypeOK, Session
    <3> QED
      BY <2>1, <3>1 DEF Knows, View
  <2>2. CASE run.status \notin Resumable
    BY <1>2, <2>2, <1>o, <1>r DEF ResumeRead, Go, TypeOK
  <2> QED
    BY <2>1, <2>2
<1>3. CASE ResumeClear(r)
  <2>1. pc[r] = "clear" /\ pc'[r] = "reset" /\ sess' = sess
    BY <1>3, <1>r DEF ResumeClear, Go, TypeOK
  <2> QED
    BY <2>1 DEF Knows
<1>4. CASE ResumeReset(r)
  <2>1. pc'[r] = "dispatch"
    BY <1>4, <1>r DEF ResumeReset, Go, TypeOK
  <2> QED
    BY <1>4, <2>1, ResetQueues DEF Knows, Undecided
<1>5. CASE MarkFlowRunFailed(r)
  <2>1. pc'[r] \in {"finalize", "finalizeCommit", "failEvent", "return", "done"}
    BY <1>5, <1>r DEF MarkFlowRunFailed, MarkFailed, SelectOpenTasks, FinalizeOpenTasks, FailEvent,
                      Over, Go, TypeOK
  <2> QED
    BY <2>1, <1>o
<1>6. CASE CancelWrite(r) \/ CancelEvent(r)
  <2>1. pc'[r] \in {"done", "cancelRequested"}
    BY <1>6, <1>r DEF CancelWrite, CancelEvent, Go, TypeOK
  <2> QED
    BY <2>1, <1>o
<1>8. CASE DispatchFails(r)
  <2>1. pc[r] = "dispatch" /\ pc'[r] = "markFailed" /\ sess' = sess
    BY <1>8, <1>r DEF DispatchFails, Go, TypeOK
  <2> QED
    BY <2>1 DEF Knows, Undecided
<1>9. CASE CancelRead(r)
  <2>1. CASE run.status \in Terminal
    BY <1>9, <2>1, <1>o, <1>r DEF CancelRead, Go, TypeOK
  <2>2. CASE run.status \notin Terminal
    <3>1. pc'[r] = "cancel" /\ sess'[r].seen = View(run)
      BY <1>9, <2>2, <1>r DEF CancelRead, Go, TypeOK, Session
    <3> QED
      BY <2>2, <3>1 DEF Knows, View
  <2> QED
    BY <2>1, <2>2
<1>7. CASE Dispatch(r)
  <2>1. pc'[r] \in {"done", "queued"}
    BY <1>7, <1>r DEF Dispatch, TypeOK
  <2> QED
    BY <2>1, <1>o
<1> QED
  BY <1>1, <1>2, <1>3, <1>4, <1>5, <1>6, <1>7, <1>8, <1>9 DEF Arrive, Serve

\* A fault leaves a process where it is, with what it has read, or ends it.
LEMMA FaultFrame ==
  ASSUME TypeOK, NEW q \in Requests,
         (\E e \in Execs : WorkerLost(e) \/ HardKill(e)) \/ ServerStops
  PROVE  \/ pc'[q] = pc[q] /\ sess'[q] = sess[q]
         \/ pc'[q] \in {"idle", "done", "lost"}
<1>q. q \in Procs /\ q \notin Execs
  BY ProcsAssumption DEF Procs
<1>1. ASSUME NEW e \in Execs, WorkerLost(e) PROVE pc'[q] = pc[q] /\ sess'[q] = sess[q]
  BY <1>1, <1>q DEF WorkerLost, Close, TypeOK
<1>2. ASSUME NEW e \in Execs, HardKill(e)
      PROVE  \/ pc'[q] = pc[q] /\ sess'[q] = sess[q]
             \/ pc'[q] = "lost"
  BY <1>2, <1>q DEF HardKill, Close, Go, TypeOK
<1>3. ASSUME ServerStops PROVE pc'[q] \in {"idle", "done", "lost"}
  BY <1>3, <1>q DEF ServerStops, Server, TypeOK
<1> QED
  BY <1>1, <1>2, <1>3

LEMMA NextRequestOK ==
  ASSUME TypeOK, RequestOK, [Next]_vars PROVE RequestOK'
<1> SUFFICES ASSUME NEW q \in Requests PROVE Knows(q)'
  BY DEF RequestOK
<1>q. q \in Procs /\ q \notin Execs /\ Knows(q)
  BY ProcsAssumption DEF Procs, RequestOK
<1>s. ASSUME pc'[q] = pc[q], sess'[q] = sess[q] PROVE Knows(q)'
  BY <1>s, <1>q DEF Knows, Undecided
<1>1. ASSUME NEW r \in Requests, Arrive(r) \/ Serve(r) PROVE Knows(q)'
  <2>1. CASE r = q
    BY <1>1, <1>q, <2>1, RequestKnows
  <2>2. CASE r # q
    BY <1>1, <1>q, <1>s, <2>2, RequestFrame
  <2> QED
    BY <2>1, <2>2
<1>2. ASSUME NEW e \in Execs, Execute(e) PROVE Knows(q)'
  BY <1>2, <1>q, <1>s, ExecuteFrame DEF Frame
<1>3. CASE (\E e \in Execs : WorkerLost(e) \/ HardKill(e)) \/ ServerStops
  BY <1>3, <1>s, FaultFrame DEF Knows
<1>4. CASE UNCHANGED vars
  BY <1>4, <1>s DEF vars
<1> QED
  BY <1>1, <1>2, <1>3, <1>4 DEF Next

-----------------------------------------------------------------------------
(***************************************************************************)
(* finished_at.  A step that does not write the run keeps the invariant;   *)
(* each of the nine that do either sets finished_at, or leaves a status    *)
(* that is not terminal, or leaves both columns as they were.              *)
(***************************************************************************)
RequestWrites(r) == CreateRun(r) \/ CancelWrite(r) \/ ResumeReset(r) \/ MarkFailed(r)
ExecutionWrites(e) ==
  MarkFailed(e) \/ MarkRunning(e) \/ MarkStage(e) \/ SaveState(e) \/ CompleteRun(e) \/ FailRun(e)

LEMMA FinalizeKeepsRun ==
  ASSUME NEW p, SelectOpenTasks(p) \/ FinalizeOpenTasks(p) \/ FailEvent(p) PROVE run' = run
BY DEF SelectOpenTasks, FinalizeOpenTasks, FailEvent, db

LEMMA RequestWritesRun ==
  ASSUME NEW r \in Requests, Arrive(r) \/ Serve(r) PROVE run' = run \/ RequestWrites(r)
<1>1. CASE CreateRun(r) \/ CancelWrite(r) \/ ResumeReset(r) \/ MarkFailed(r)
  BY <1>1 DEF RequestWrites
<1>2. CASE \/ CancelRead(r) \/ ResumeRead(r) \/ Dispatch(r) \/ DispatchFails(r)
           \/ CancelEvent(r) \/ ResumeClear(r)
  BY <1>2 DEF CancelRead, ResumeRead, Dispatch, DispatchFails, CancelEvent, ResumeClear, db
<1> QED
  BY <1>1, <1>2, FinalizeKeepsRun DEF Arrive, Serve, MarkFlowRunFailed

LEMMA ExecuteWritesRun ==
  ASSUME NEW e \in Execs, Execute(e) PROVE run' = run \/ ExecutionWrites(e)
<1>1. CASE \/ Load(e) \/ Handler(e) \/ Acknowledge(e) \/ EmitStarted(e) \/ NextBatch(e)
           \/ EmitCancelled(e) \/ EmitFlowCompleted(e) \/ CreateTask(e) \/ StageReturns(e)
           \/ SoftTimeLimit(e) \/ PrepareFails(e) \/ RefreshAfterFailure(e) \/ EmitFlowCancelled(e)
  BY <1>1 DEF Load, Handler, Acknowledge, EmitStarted, NextBatch, EmitCancelled, EmitFlowCompleted,
              CreateTask, StageReturns, SoftTimeLimit, PrepareFails, RefreshAfterFailure, EmitFlowCancelled, db
<1>2. CASE \/ EmitTaskStarted(e) \/ SaveTask(e) \/ CreateArtifact(e) \/ EmitTaskCompleted(e)
           \/ CancelTask(e) \/ EmitTaskCancelled(e) \/ FailTask(e) \/ EmitTaskFailed(e)
  BY <1>2 DEF EmitTaskStarted, SaveTask, CreateArtifact, EmitTaskCompleted, CancelTask,
              EmitTaskCancelled, FailTask, EmitTaskFailed, Abandon, db
<1>3. CASE \/ MarkFailed(e) \/ MarkRunning(e) \/ MarkStage(e) \/ SaveState(e)
           \/ CompleteRun(e) \/ FailRun(e)
  BY <1>3 DEF ExecutionWrites
<1> QED
  BY <1>1, <1>2, <1>3, FinalizeKeepsRun DEF Execute, MarkFlowRunFailed

LEMMA NextFinished ==
  ASSUME TypeOK, RequestOK, TerminalHasFinishedAt, [Next]_vars
  PROVE  TerminalHasFinishedAt'
<1> USE DEF TerminalHasFinishedAt
<1>1. CASE run' = run
  BY <1>1
<1>2. ASSUME NEW r \in Requests, CreateRun(r) \/ CancelWrite(r) PROVE TerminalHasFinishedAt'
  <2>1. CASE CreateRun(r)
    BY <2>1 DEF CreateRun, Terminal
  <2>2. CASE CancelWrite(r)
    <3>1. run'.finished = TRUE
      BY <2>2 DEF CancelWrite, TypeOK, RunRow
    <3> QED
      BY <3>1
  <2> QED
    BY <1>2, <2>1, <2>2
<1>3. ASSUME NEW r \in Requests, ResumeReset(r) PROVE TerminalHasFinishedAt'
  BY <1>3, ResetQueues DEF RequestOK, Terminal
<1>4. ASSUME NEW p \in Procs, MarkFailed(p) PROVE TerminalHasFinishedAt'
  <2>1. run'.finished = TRUE
    BY <1>4 DEF MarkFailed, TypeOK, RunRow
  <2> QED
    BY <2>1
<1>5. ASSUME NEW e \in Execs, MarkRunning(e) PROVE TerminalHasFinishedAt'
  BY <1>5 DEF MarkRunning, StatusAfter, Terminal, TypeOK, RunRow
<1>6. ASSUME NEW e \in Execs, MarkStage(e) \/ SaveState(e) PROVE TerminalHasFinishedAt'
  BY <1>6 DEF MarkStage, SaveState, TypeOK, RunRow
<1>7. ASSUME NEW e \in Execs, CompleteRun(e) \/ FailRun(e) PROVE TerminalHasFinishedAt'
  BY <1>7 DEF CompleteRun, FailRun
<1>8. CASE (\E e \in Execs : WorkerLost(e) \/ HardKill(e)) \/ ServerStops
  BY <1>8, <1>1 DEF WorkerLost, HardKill, ServerStops, db
<1>9. CASE UNCHANGED vars
  BY <1>9, <1>1 DEF vars
<1>10. CASE \E r \in Requests : Arrive(r) \/ Serve(r)
  BY <1>10, <1>1, <1>2, <1>3, <1>4, RequestWritesRun DEF RequestWrites, Procs
<1>11. CASE \E e \in Execs : Execute(e)
  BY <1>11, <1>1, <1>4, <1>5, <1>6, <1>7, ExecuteWritesRun DEF ExecutionWrites, Procs
<1> QED
  BY <1>8, <1>9, <1>10, <1>11 DEF Next

\* A run that is COMPLETED, FAILED or CANCELLED has its finished_at, whatever
\* requests and executions overlap and however stale the copies they write from.
THEOREM FinishedAtCorrect == Spec => []TerminalHasFinishedAt
<1>1. Init => RequestOK /\ TerminalHasFinishedAt
  BY InitRequestOK DEF Init, TerminalHasFinishedAt, Terminal
<1>2. /\ TypeOK /\ RequestOK /\ TerminalHasFinishedAt /\ [Next]_vars
      => RequestOK' /\ TerminalHasFinishedAt'
  BY NextRequestOK, NextFinished
<1> QED
  BY <1>1, <1>2, TypeCorrect, PTL DEF Spec

-----------------------------------------------------------------------------
(***************************************************************************)
(* Ownership.  The invariant is nearly inductive: besides the types, the   *)
(* control invariant and what requests know, it needs that task ids above  *)
(* lastRow are free, so that a new row never takes the place of an owner's *)
(* row.                                                                    *)
(***************************************************************************)
RowsOK == \A i \in RowIds : i > lastRow => ~Present(i)
RowsKept == \A i \in RowIds : Present(i) => Present(i)' /\ rows'[i].by = rows[i].by
Owned == (\E e \in Execs : WillSettle(e)) \/ (\E r \in Requests : WillDispatch(r))

-----------------------------------------------------------------------------
(***************************************************************************)
(* Rows: only clear_run_history takes a row away or gives it to another.   *)
(***************************************************************************)
LEMMA UnchangedRows ==
  ASSUME RowsOK, rows' = rows, lastRow' = lastRow PROVE RowsKept /\ RowsOK'
BY DEF RowsOK, RowsKept, Present, RowIds

LEMMA SetRowRows ==
  ASSUME TypeOK, RowsOK, NEW e \in Execs, NEW t \in TaskStatus \ {"absent"},
         Present(RowInHand(e)), SetRow(e, t), lastRow' = lastRow
  PROVE  RowsKept /\ RowsOK'
BY DEF TypeOK, RowsOK, RowsKept, Present, SetRow, RowIds, TaskRow

LEMMA MarkFlowRunFailedRows ==
  ASSUME TypeOK, RowsOK, NEW p \in Procs, MarkFlowRunFailed(p)
  PROVE  RowsKept /\ RowsOK'
<1>1. CASE FinalizeOpenTasks(p)
  <2>1. CASE rows' = rows
    BY <1>1, <2>1, UnchangedRows DEF FinalizeOpenTasks
  <2>2. CASE rows' # rows
    <3>1. /\ \A i \in sess[p].open : Present(i)
          /\ rows' = [i \in RowIds |-> IF i \in sess[p].open THEN [rows[i] EXCEPT !.status = "FAILED"]
                                                             ELSE rows[i]]
          /\ lastRow' = lastRow
      BY <1>1, <2>2 DEF FinalizeOpenTasks
    <3>2. \A i \in RowIds : rows[i] \in TaskRow
      BY DEF TypeOK
    <3>3. \A i \in RowIds : rows'[i].by = rows[i].by /\ (Present(i)' <=> Present(i))
      BY <3>1, <3>2 DEF Present, TaskRow, RowIds
    <3> QED
      BY <3>1, <3>3 DEF RowsOK, RowsKept, RowIds
  <2> QED
    BY <2>1, <2>2
<1>2. CASE MarkFailed(p) \/ SelectOpenTasks(p) \/ FailEvent(p)
  BY <1>2, UnchangedRows DEF MarkFailed, SelectOpenTasks, FailEvent, db
<1> QED
  BY <1>1, <1>2 DEF MarkFlowRunFailed

LEMMA ExecuteRows ==
  ASSUME TypeOK, RowsOK, NEW e \in Execs, Execute(e)
  PROVE  RowsKept /\ RowsOK'
<1>1. CASE MarkFlowRunFailed(e)
  BY <1>1, MarkFlowRunFailedRows DEF Procs
<1>2. CASE Abandon(e)
  BY <1>2, UnchangedRows DEF Abandon, db
<1>3. CASE (SaveTask(e) \/ CancelTask(e) \/ FailTask(e)) /\ Present(RowInHand(e))
  BY <1>3, SetRowRows DEF SaveTask, CancelTask, FailTask, TaskStatus
<1>4. CASE CreateTask(e)
  <2>1. PICK s \in work[e].todo :
          rows' = [rows EXCEPT ![lastRow + 1] = [by |-> e, stage |-> s, status |-> "RUNNING"]]
    BY <1>4 DEF CreateTask
  <2>2. lastRow' = lastRow + 1 /\ lastRow \in Nat
    BY <1>4, BoundsAssumption DEF CreateTask, TypeOK
  <2>3. \A i \in RowIds : i # lastRow + 1 => rows'[i] = rows[i]
    BY <2>1 DEF TypeOK
  <2>4. \A i \in RowIds : Present(i) => i # lastRow + 1
    BY <2>2 DEF RowsOK, RowIds
  <2> QED
    BY <2>2, <2>3, <2>4 DEF RowsOK, RowsKept, Present, RowIds
<1>5. CASE \/ Load(e) \/ Handler(e) \/ Acknowledge(e) \/ EmitStarted(e) \/ NextBatch(e)
           \/ EmitCancelled(e) \/ EmitFlowCompleted(e) \/ StageReturns(e)
           \/ SoftTimeLimit(e) \/ PrepareFails(e) \/ RefreshAfterFailure(e) \/ EmitFlowCancelled(e)
  BY <1>5, UnchangedRows
  DEF Load, Handler, Acknowledge, EmitStarted, NextBatch, EmitCancelled, EmitFlowCompleted,
      StageReturns, SoftTimeLimit, PrepareFails, RefreshAfterFailure, EmitFlowCancelled, db
<1>6. CASE MarkRunning(e) \/ MarkStage(e) \/ SaveState(e) \/ CompleteRun(e) \/ FailRun(e)
  BY <1>6, UnchangedRows DEF MarkRunning, MarkStage, SaveState, CompleteRun, FailRun
<1>7. CASE /\ Referable(e)
           /\ \/ EmitTaskStarted(e) \/ CreateArtifact(e) \/ EmitTaskCompleted(e)
              \/ EmitTaskCancelled(e) \/ EmitTaskFailed(e)
  BY <1>7, UnchangedRows
  DEF EmitTaskStarted, CreateArtifact, EmitTaskCompleted, EmitTaskCancelled, EmitTaskFailed
<1>8. \/ EmitTaskStarted(e) \/ CreateArtifact(e) \/ EmitTaskCompleted(e)
      \/ EmitTaskCancelled(e) \/ EmitTaskFailed(e)
      => Referable(e) \/ Abandon(e)
  BY DEF EmitTaskStarted, CreateArtifact, EmitTaskCompleted, EmitTaskCancelled, EmitTaskFailed
<1>9. SaveTask(e) \/ CancelTask(e) \/ FailTask(e) => Present(RowInHand(e)) \/ Abandon(e)
  BY DEF SaveTask, CancelTask, FailTask
<1> QED
  BY <1>1, <1>2, <1>3, <1>4, <1>5, <1>6, <1>7, <1>8, <1>9 DEF Execute

LEMMA RequestRows ==
  ASSUME TypeOK, RowsOK, NEW r \in Requests, Arrive(r) \/ Serve(r)
  PROVE  RowsOK' /\ (RowsKept \/ ResumeClear(r))
<1>1. CASE MarkFlowRunFailed(r)
  BY <1>1, MarkFlowRunFailedRows DEF Procs
<1>2. CASE ResumeClear(r)
  BY <1>2 DEF ResumeClear, RowsOK, Present, NoRow
<1>3. CASE \/ CreateRun(r) \/ CancelRead(r) \/ ResumeRead(r) \/ Dispatch(r) \/ DispatchFails(r)
           \/ CancelWrite(r) \/ CancelEvent(r) \/ ResumeReset(r)
  BY <1>3, UnchangedRows DEF CreateRun, CancelRead, ResumeRead, Dispatch, DispatchFails, CancelWrite,
                             CancelEvent, ResumeReset, db
<1> QED
  BY <1>1, <1>2, <1>3 DEF Arrive, Serve

LEMMA NextRowsOK == ASSUME TypeOK, RowsOK, [Next]_vars PROVE RowsOK'
<1>1. CASE (\E e \in Execs : WorkerLost(e) \/ HardKill(e)) \/ ServerStops
  BY <1>1, UnchangedRows DEF WorkerLost, HardKill, ServerStops, db
<1>2. CASE UNCHANGED vars
  BY <1>2, UnchangedRows DEF vars
<1> QED
  BY <1>1, <1>2, ExecuteRows, RequestRows DEF Next

-----------------------------------------------------------------------------
(***************************************************************************)
(* An owner keeps the run, as long as the run is live.                     *)
(***************************************************************************)
LEMMA MineKept ==
  ASSUME TypeOK, TypeOK', NEW e \in Execs, Mine(e), RowsKept, work'[e].row = work[e].row
  PROVE  Mine(e)'
<1> SUFFICES ASSUME NEW s \in Stages, (work[e].row[s] # 0)'
             PROVE  (Present(work[e].row[s]) /\ rows[work[e].row[s]].by = e)'
  BY DEF Mine
<1>1. work'[e].row[s] = work[e].row[s]
  OBVIOUS
<1>2. Present(work[e].row[s]) /\ rows[work[e].row[s]].by = e
  BY <1>1 DEF Mine
<1> QED
  BY <1>1, <1>2 DEF RowsKept, Present

\* The steps of others do not cost an execution its ownership.
LEMMA BystanderSettles ==
  ASSUME TypeOK, engine' = engine, TypeOK', NEW e \in Execs, WillSettle(e), RowsKept,
         pc'[e] = pc[e], sess'[e] = sess[e], work'[e] = work[e]
  PROVE  WillSettle(e)'
<1>1. Mine(e) => Mine(e)'
  BY MineKept
<1> QED
  BY <1>1 DEF WillSettle, Undecided, SeesLive, MySQL

\* Every commit, save or refresh of an owner shows it the run as live.
LEMMA CommittedOwner ==
  ASSUME TypeOK, engine' = engine, run.status \in Live, NEW e \in Execs, Undecided(e), Committed(e)
  PROVE  Undecided(e)' /\ SeesLive(e)'
BY DEF TypeOK, Session, Committed, Undecided, SeesLive, MySQL, View, Procs

LEMMA SavedOwner ==
  ASSUME TypeOK, engine' = engine, run'.status \in Live, NEW e \in Execs, Saved(e)
  PROVE  Undecided(e)' /\ SeesLive(e)'
BY DEF TypeOK, Session, Saved, Undecided, SeesLive, MySQL, View, Procs, Live

LEMMA RefreshedOwner ==
  ASSUME TypeOK, engine' = engine, run.status \in Live, NEW e \in Execs, SeesLive(e), Refreshed(e)
  PROVE  Undecided(e)' /\ SeesLive(e)'
BY DEF TypeOK, Session, Refreshed, Fresh, Undecided, SeesLive, MySQL, View, Procs, Live

LEMMA FreshOwner ==
  ASSUME run.status \in Live, NEW e \in Execs, SeesLive(e)
  PROVE  Fresh(e).status \in Live /\ Fresh(e).status # "CANCELLED"
BY DEF Fresh, SeesLive, View, Live

\* The ORM writes the verdict of a process that has not loaded one already.
LEMMA VerdictWritten ==
  ASSUME NEW p \in Procs, Undecided(p)
  PROVE  StatusAfter(p, "COMPLETED") = "COMPLETED" /\ StatusAfter(p, "FAILED") = "FAILED"
BY DEF StatusAfter, Undecided

LEMMA MarkFailedFails ==
  ASSUME TypeOK, NEW p \in Procs, Undecided(p), MarkFailed(p) PROVE run'.status = "FAILED"
BY VerdictWritten DEF MarkFailed, TypeOK, RunRow

\* The rows of the stage in hand are there, so no statement of an owner fails.
LEMMA OwnerRowPresent ==
  ASSUME TypeOK, NEW e \in Execs, WorkOK(e), Mine(e),
         pc[e] \in {"prepRun", "prepEvent"} \union Settling
  PROVE  Present(RowInHand(e)) /\ Referable(e)
<1>1. work[e].stage \in Stages /\ work[e].row[work[e].stage] # 0
  BY DEF WorkOK, TypeOK, Work
<1> QED
  BY <1>1 DEF Mine, RowInHand, Referable

LEMMA SettleOwner ==
  ASSUME TypeOK, NEW e \in Execs, NEW f \in BOOLEAN, Settle(e, f)
  PROVE  pc'[e] \in InFlow /\ work'[e].row = work[e].row
<1>1. pc'[e] \in InFlow
  BY DEF Settle, Go, TypeOK, InFlow, Procs
<1>2. work'[e].row = work[e].row
  BY DEF Settle, TypeOK, Work
<1> QED
  BY <1>1, <1>2

\* An execution that owns a live run still owns it after its own step, unless
\* the step makes the run terminal.
LEMMA OwnerSettles ==
  ASSUME TypeOK, TypeOK', ControlOK, NEW e \in Execs, RowsKept, WillSettle(e), Execute(e),
         run.status \in Live, run'.status \in Live
  PROVE  WillSettle(e)'
<1>e. e \in Procs /\ WorkOK(e) /\ engine' = engine
  BY ExecuteFrame DEF Procs, ControlOK, Frame, faults
<1>k. ASSUME pc'[e] \in InFlow \union {"markFailed"}, Mine(e), work'[e].row = work[e].row,
             Undecided(e)', SeesLive(e)'
      PROVE  WillSettle(e)'
  BY <1>k, MineKept DEF WillSettle
<1>0. ASSUME work'[e] = NoWork PROVE Mine(e)'
  BY <1>0 DEF Mine, NoWork
<1>1. CASE Load(e)
  <2>1. pc'[e] \in {"start", "handler"} /\ work'[e] = NoWork
    BY <1>1, <1>e DEF Load, Go, TypeOK, WorkOK
  <2>2. sess'[e].seen = View(run) /\ (MySQL => sess'[e].snap = View(run))
    BY <1>1, <1>e DEF Load, TypeOK, Session
  <2>3. Undecided(e)' /\ SeesLive(e)'
    BY <2>2, <1>e DEF Undecided, SeesLive, MySQL, View, Live
  <2> QED
    BY <1>0, <2>1, <2>3 DEF WillSettle, InFlow
<1>2. CASE MarkRunning(e)
  <2>1. pc'[e] = "started" /\ work'[e] = NoWork
    BY <1>2, <1>e DEF MarkRunning, Go, TypeOK, WorkOK
  <2>2. Undecided(e)' /\ SeesLive(e)'
    BY <1>e, <1>2, SavedOwner DEF MarkRunning
  <2> QED
    BY <1>0, <2>1, <2>2 DEF WillSettle, InFlow
<1>3. ASSUME pc[e] \notin {"queued", "start"} PROVE WillSettle(e)'
  <2>w. Mine(e) /\ Undecided(e) /\ SeesLive(e) /\ pc[e] \in InFlow \union {"markFailed"}
    BY <1>3 DEF WillSettle
  <2>1. CASE Handler(e)
    <3>1. pc'[e] = "markFailed" /\ Refreshed(e) /\ work' = work
      BY <2>1, <2>w, <1>e, FreshOwner DEF Handler, Go, TypeOK
    <3> QED
      BY <1>e, <3>1, <2>w, <1>k, RefreshedOwner
  <2>2. CASE NextBatch(e)
    <3>1. pc'[e] = "prepare" /\ Refreshed(e) /\ work'[e].row = work[e].row
      BY <2>2, <2>w, <1>e, FreshOwner DEF NextBatch, Go, TypeOK, Work
    <3> QED
      BY <1>e, <3>1, <2>w, <1>k, RefreshedOwner DEF InFlow
  <2>3. CASE RefreshAfterFailure(e)
    <3>1. pc'[e] \in InFlow /\ Refreshed(e) /\ work' = work
      BY <2>3, <1>e DEF RefreshAfterFailure, Go, TypeOK, InFlow
    <3> QED
      BY <1>e, <3>1, <2>w, <1>k, RefreshedOwner
  <2>4. CASE CreateTask(e)
    <3>1. PICK s \in work[e].todo :
            /\ rows' = [rows EXCEPT ![lastRow + 1] = [by |-> e, stage |-> s, status |-> "RUNNING"]]
            /\ work' = [work EXCEPT ![e].stage = s, ![e].row[s] = lastRow + 1]
      BY <2>4 DEF CreateTask
    <3>2. lastRow + 1 \in RowIds
      <4>1. lastRow < MaxRows
        BY <2>4 DEF CreateTask
      <4> QED
        BY <4>1, BoundsAssumption DEF TypeOK, RowIds
    <3>n. PICK n \in RowIds : n = lastRow + 1
      BY <3>2
    <3>3. Present(n)' /\ rows'[n].by = e
      BY <3>1, <3>n DEF Present, TypeOK
    <3>4. \A t \in Stages : work'[e].row[t] = work[e].row[t] \/ work'[e].row[t] = n
      BY <3>1, <3>n DEF TypeOK, Work
    <3>5. Mine(e)'
      <4> SUFFICES ASSUME NEW t \in Stages, (work[e].row[t] # 0)'
                   PROVE  (Present(work[e].row[t]) /\ rows[work[e].row[t]].by = e)'
        BY DEF Mine
      <4>1. CASE work'[e].row[t] = n
        BY <4>1, <3>3 DEF Present
      <4>2. CASE work'[e].row[t] = work[e].row[t]
        BY <4>2, <2>w DEF Mine, RowsKept, Present
      <4> QED
        BY <3>4, <4>1, <4>2
    <3>6. pc'[e] = "prepRun" /\ Committed(e)
      BY <2>4, <1>e DEF CreateTask, Go, TypeOK
    <3> QED
      BY <1>e, <3>5, <3>6, <2>w, CommittedOwner DEF WillSettle, InFlow
  <2>5. CASE MarkStage(e) \/ SaveState(e)
    <3>1. pc'[e] \in InFlow /\ Saved(e) /\ work' = work
      BY <2>5, <1>e DEF MarkStage, SaveState, Go, TypeOK, InFlow
    <3> QED
      BY <1>e, <3>1, <2>w, <1>k, SavedOwner
  <2>6. CASE StageReturns(e) \/ SoftTimeLimit(e) \/ PrepareFails(e)
    <3>1. pc'[e] \in InFlow /\ sess' = sess /\ work'[e].row = work[e].row
      BY <2>6, <1>e DEF StageReturns, SoftTimeLimit, PrepareFails, Go, TypeOK, Work, InFlow
    <3> QED
      BY <3>1, <2>w, <1>k, <1>e DEF Undecided, SeesLive, MySQL
  <2>7. CASE EmitStarted(e)
    <3>1. pc'[e] \in InFlow /\ Committed(e) /\ work' = work
      BY <2>7, <1>e DEF EmitStarted, Go, TypeOK, InFlow
    <3> QED
      BY <1>e, <3>1, <2>w, <1>k, CommittedOwner
  <2>8. CASE EmitTaskStarted(e)
    <3>1. Referable(e)
      BY <2>8, <2>w, <1>e, OwnerRowPresent DEF EmitTaskStarted
    <3>2. pc'[e] \in InFlow /\ Committed(e) /\ work'[e].row = work[e].row
      BY <2>8, <3>1, <1>e DEF EmitTaskStarted, Go, TypeOK, Work, InFlow
    <3> QED
      BY <1>e, <3>2, <2>w, <1>k, CommittedOwner
  <2>9. CASE SaveTask(e) \/ CancelTask(e) \/ FailTask(e)
    <3>1. Present(RowInHand(e))
      BY <2>9, <2>w, <1>e, OwnerRowPresent DEF SaveTask, CancelTask, FailTask, Settling
    <3>2. pc'[e] \in InFlow /\ Committed(e) /\ work'[e].row = work[e].row
      BY <2>9, <3>1, <1>e DEF SaveTask, CancelTask, FailTask, Go, TypeOK, Work, InFlow
    <3> QED
      BY <1>e, <3>2, <2>w, <1>k, CommittedOwner
  <2>10. CASE CreateArtifact(e) \/ EmitTaskCancelled(e)
    <3>1. Referable(e)
      BY <2>10, <2>w, <1>e, OwnerRowPresent DEF CreateArtifact, EmitTaskCancelled, Settling
    <3>2. pc'[e] \in InFlow /\ Committed(e) /\ work' = work
      BY <2>10, <3>1, <1>e DEF CreateArtifact, EmitTaskCancelled, Go, TypeOK, InFlow
    <3> QED
      BY <1>e, <3>2, <2>w, <1>k, CommittedOwner
  <2>11. CASE EmitTaskCompleted(e) \/ EmitTaskFailed(e) \/ EmitFlowCancelled(e)
    <3>1. Referable(e)
      BY <2>11, <2>w, <1>e, OwnerRowPresent
      DEF EmitTaskCompleted, EmitTaskFailed, EmitFlowCancelled, Settling
    <3>2. (Settle(e, TRUE) \/ Settle(e, FALSE)) /\ Committed(e)
      BY <2>11, <3>1 DEF EmitTaskCompleted, EmitTaskFailed, EmitFlowCancelled
    <3>3. pc'[e] \in InFlow /\ work'[e].row = work[e].row
      BY <3>2, SettleOwner
    <3> QED
      BY <1>e, <3>2, <3>3, <2>w, <1>k, CommittedOwner
  <2>12. CASE CompleteRun(e) \/ FailRun(e) \/ MarkFailed(e)
    <3>1. CASE CompleteRun(e) \/ FailRun(e)
      BY <3>1, <2>w, <1>e, VerdictWritten DEF CompleteRun, FailRun, Live
    <3>2. CASE MarkFailed(e)
      BY <3>2, <2>w, <1>e, MarkFailedFails DEF Live
    <3> QED
      BY <2>12, <3>1, <3>2
  <2>13. CASE \/ Acknowledge(e) \/ EmitCancelled(e) \/ EmitFlowCompleted(e) \/ SelectOpenTasks(e)
              \/ FinalizeOpenTasks(e) \/ FailEvent(e)
    BY <2>13, <2>w DEF Acknowledge, EmitCancelled, EmitFlowCompleted, SelectOpenTasks,
                       FinalizeOpenTasks, FailEvent, InFlow
  <2>14. ~Load(e) /\ ~MarkRunning(e)
    BY <1>3 DEF Load, MarkRunning
  <2> QED
    BY <2>1, <2>2, <2>3, <2>4, <2>5, <2>6, <2>7, <2>8, <2>9, <2>10, <2>11, <2>12, <2>13, <2>14
    DEF Execute, MarkFlowRunFailed
<1>4. CASE pc[e] \in {"queued", "start"} /\ ~Load(e) /\ ~MarkRunning(e)
  BY <1>4 DEF Execute, MarkFlowRunFailed, MarkFailed, SelectOpenTasks, FinalizeOpenTasks, FailEvent,
              Handler, Acknowledge, EmitStarted, NextBatch, EmitCancelled, CompleteRun,
              EmitFlowCompleted, CreateTask, MarkStage, EmitTaskStarted, StageReturns,
              SoftTimeLimit, PrepareFails, SaveTask, CreateArtifact, SaveState, EmitTaskCompleted,
              RefreshAfterFailure, CancelTask, EmitTaskCancelled, EmitFlowCancelled, FailTask,
              FailRun, EmitTaskFailed
<1> QED
  BY <1>1, <1>2, <1>3, <1>4

-----------------------------------------------------------------------------
(***************************************************************************)
(* Every step leaves a live run with an owner.                             *)
(***************************************************************************)
LEMMA ExecuteOwned ==
  ASSUME TypeOK, TypeOK', ControlOK, RowsOK, NEW e \in Execs, Execute(e),
         run.status \in Live => Owned, run'.status \in Live
  PROVE  Owned'
<1>f. Frame(e) /\ RowsKept /\ e \in Procs /\ WorkOK(e) /\ engine' = engine
  BY ExecuteFrame, ExecuteRows DEF Procs, ControlOK, Frame, faults
<1>1. CASE run.status \notin Live
  <2>1. MarkRunning(e)
    <3>1. run' # run
      BY <1>1
    <3>2. ~CompleteRun(e) /\ ~FailRun(e) /\ ~MarkFailed(e)
      <4>1. StatusAfter(e, "COMPLETED") \notin Live /\ StatusAfter(e, "FAILED") \notin Live
        BY <1>1 DEF StatusAfter, Live
      <4>2. ~CompleteRun(e) /\ ~FailRun(e)
        BY <4>1 DEF CompleteRun, FailRun
      <4>3. MarkFailed(e) => run'.status = StatusAfter(e, "FAILED")
        BY DEF MarkFailed, TypeOK, RunRow
      <4> QED
        BY <4>1, <4>2, <4>3
    <3>3. ~MarkStage(e) /\ ~SaveState(e)
      BY <1>1 DEF MarkStage, SaveState, TypeOK, RunRow
    <3> QED
      BY <3>1, <3>2, <3>3, ExecuteWritesRun DEF ExecutionWrites
  <2>2. pc'[e] = "started" /\ work'[e] = NoWork
    BY <2>1, <1>f DEF MarkRunning, Go, TypeOK, WorkOK
  <2>3. Undecided(e)' /\ SeesLive(e)'
    BY <1>f, <2>1, SavedOwner DEF MarkRunning
  <2>4. WillSettle(e)'
    BY <2>2, <2>3 DEF WillSettle, InFlow, Mine, NoWork
  <2> QED
    BY <2>4 DEF Owned
<1>2. CASE run.status \in Live
  <2>1. CASE \E d \in Execs : WillSettle(d)
    <3>1. PICK d \in Execs : WillSettle(d)
      BY <2>1
    <3>2. CASE d = e
      BY <1>2, <1>f, <3>1, <3>2, OwnerSettles DEF Owned
    <3>3. CASE d # e
      <4>1. pc'[d] = pc[d] /\ sess'[d] = sess[d] /\ work'[d] = work[d]
        BY <1>f, <3>3 DEF Frame, Procs
      <4> QED
        BY <1>f, <3>1, <4>1, BystanderSettles DEF Owned
    <3> QED
      BY <3>2, <3>3
  <2>2. CASE \E r \in Requests : WillDispatch(r)
    <3>1. PICK r \in Requests : WillDispatch(r)
      BY <2>2
    <3>2. pc'[r] = pc[r] /\ sess'[r] = sess[r]
      BY <1>f, ProcsAssumption DEF Frame, Procs
    <3>3. WillDispatch(r)'
      BY <3>1, <3>2 DEF WillDispatch, Undecided
    <3> QED
      BY <3>3 DEF Owned
  <2> QED
    BY <1>2, <2>1, <2>2 DEF Owned
<1> QED
  BY <1>1, <1>2

LEMMA RequestOwned ==
  ASSUME TypeOK, TypeOK', ControlOK, RequestOK, RowsOK, NEW r \in Requests, Arrive(r) \/ Serve(r),
         run.status \in Live => Owned, run'.status \in Live
  PROVE  Owned'
<1>r. r \in Procs /\ r \notin Execs /\ Knows(r) /\ engine' = engine
  BY ProcsAssumption, RequestFrame DEF Procs, RequestOK, faults
<1>d. ASSUME WillDispatch(r)' PROVE Owned'
  BY <1>d DEF Owned
<1>1. CASE CreateRun(r) \/ ResumeReset(r)
  <2>1. pc'[r] = "dispatch"
    BY <1>1, <1>r DEF CreateRun, ResumeReset, Go, TypeOK
  <2> QED
    BY <2>1, <1>d DEF WillDispatch
<1>2. CASE ResumeClear(r)
  <2>1. pc'[r] = "reset"
    BY <1>2, <1>r DEF ResumeClear, Go, TypeOK
  <2> QED
    BY <2>1, <1>d DEF WillDispatch
<1>3. CASE Dispatch(r)
  <2>1. PICK e \in Execs : pc' = [pc EXCEPT ![r] = "done", ![e] = "queued"]
    BY <1>3 DEF Dispatch
  <2>2. pc'[e] = "queued"
    BY <2>1 DEF TypeOK, Procs
  <2> QED
    BY <2>2 DEF Owned, WillSettle
<1>4. CASE DispatchFails(r)
  <2>1. pc[r] = "dispatch" /\ pc'[r] = "markFailed" /\ sess' = sess
    BY <1>4, <1>r DEF DispatchFails, Go, TypeOK
  <2> QED
    BY <2>1, <1>r, <1>d DEF WillDispatch, Knows, Undecided
<1>5. CASE ~(CreateRun(r) \/ ResumeReset(r) \/ ResumeClear(r) \/ Dispatch(r) \/ DispatchFails(r))
  <2>1. run.status \in Live
    <3>1. CASE run' = run
      BY <3>1
    <3>2. CASE run' # run
      <4>1. CancelWrite(r) \/ MarkFailed(r)
        BY <1>5, <3>2, RequestWritesRun DEF RequestWrites
      <4> QED
        BY <4>1 DEF CancelWrite, MarkFailed, StatusAfter, Live, TypeOK, RunRow
    <3> QED
      BY <3>1, <3>2
  <2>2. /\ RowsKept /\ work' = work
        /\ \A q \in Procs \ {r} : sess'[q] = sess[q]
        /\ \A q \in Procs \ {r} : pc'[q] = pc[q] \/ (pc[q] = "idle" /\ q \in Execs)
    BY <1>5, RequestFrame, RequestRows
  <2>3. CASE \E e \in Execs : WillSettle(e)
    <3>1. PICK e \in Execs : WillSettle(e)
      BY <2>3
    <3>2. pc[e] # "idle"
      BY <3>1 DEF WillSettle, InFlow
    <3>3. pc'[e] = pc[e] /\ sess'[e] = sess[e]
      BY <1>r, <2>2, <3>2 DEF Procs
    <3> QED
      BY <1>r, <2>2, <3>1, <3>3, BystanderSettles DEF Owned
  <2>4. CASE \E q \in Requests : WillDispatch(q)
    <3>1. PICK q \in Requests : WillDispatch(q)
      BY <2>4
    <3>2. CASE q # r
      <4>1. pc'[q] = pc[q] /\ sess'[q] = sess[q]
        BY <2>2, <3>2, ProcsAssumption DEF Procs
      <4>2. WillDispatch(q)'
        BY <3>1, <4>1 DEF WillDispatch, Undecided
      <4> QED
        BY <4>2 DEF Owned
    <3>3. CASE q = r
      <4>1. MarkFailed(r)
        <5>1. pc[r] \in {"reset", "dispatch", "markFailed"}
          BY <3>1, <3>3 DEF WillDispatch
        <5> QED
          BY <1>5, <5>1 DEF Arrive, Serve, CancelRead, ResumeRead, CancelWrite, CancelEvent,
                            MarkFlowRunFailed, SelectOpenTasks, FinalizeOpenTasks, FailEvent
      <4>2. Undecided(r)
        BY <3>1, <3>3, <4>1 DEF WillDispatch, MarkFailed
      <4> QED
        BY <1>r, <4>1, <4>2, MarkFailedFails DEF Live
    <3> QED
      BY <3>2, <3>3
  <2> QED
    BY <2>1, <2>3, <2>4 DEF Owned
<1> QED
  BY <1>1, <1>2, <1>3, <1>4, <1>5

LEMMA NextOwned ==
  ASSUME TypeOK, TypeOK', ControlOK, RequestOK, RowsOK, LiveRunIsOwned, [Next]_vars
  PROVE  LiveRunIsOwned'
<1> SUFFICES ASSUME run'.status \in Live, kills' = 0 PROVE Owned'
  BY DEF LiveRunIsOwned, Owned
<1>1. ASSUME NEW r \in Requests, Arrive(r) \/ Serve(r) PROVE Owned'
  <2>1. kills' = kills
    BY <1>1, RequestFrame DEF faults
  <2> QED
    BY <1>1, <2>1, RequestOwned DEF LiveRunIsOwned, Owned
<1>2. ASSUME NEW e \in Execs, Execute(e) PROVE Owned'
  <2>1. kills' = kills
    BY <1>2, ExecuteFrame DEF Frame, faults
  <2> QED
    BY <1>2, <2>1, ExecuteOwned DEF LiveRunIsOwned, Owned
<1>3. ASSUME NEW e \in Execs, WorkerLost(e) PROVE Owned'
  <2>1. PICK d \in Execs : pc' = [pc EXCEPT ![e] = "lost", ![d] = "queued"]
    BY <1>3 DEF WorkerLost
  <2>2. pc'[d] = "queued"
    BY <2>1 DEF TypeOK, Procs
  <2> QED
    BY <2>2 DEF Owned, WillSettle
<1>4. CASE (\E e \in Execs : HardKill(e)) \/ ServerStops
  <2>1. kills' = kills + 1 /\ kills \in Nat
    BY <1>4, BoundsAssumption DEF HardKill, ServerStops, TypeOK
  <2> QED
    BY <2>1
<1>5. CASE UNCHANGED vars
  BY <1>5 DEF vars, LiveRunIsOwned, Owned, WillSettle, WillDispatch, Mine, Present, Undecided, SeesLive, MySQL
<1> QED
  BY <1>1, <1>2, <1>3, <1>4, <1>5 DEF Next

\* As long as no process is lost for good, a QUEUED or RUNNING run has a queued
\* message, a request about to send one, or an execution that will settle it:
\* for any number of overlapping executions, cancellations, resumptions and
\* redeliveries, on SQLite as on MySQL.
THEOREM OwnershipCorrect == Spec => []LiveRunIsOwned
<1> DEFINE Inv == TypeOK /\ ControlOK /\ RequestOK /\ RowsOK /\ LiveRunIsOwned
<1>1. Init => Inv
  <2>1. Init => RowsOK /\ LiveRunIsOwned
    BY DEF Init, RowsOK, Present, NoRow, LiveRunIsOwned, Live
  <2> QED
    BY <2>1, InitTypeOK, InitControlOK, InitRequestOK
<1>2. Inv /\ [Next]_vars => Inv'
  BY NextTypeOK, NextControlOK, NextRequestOK, NextRowsOK, NextOwned
<1>3. Inv => LiveRunIsOwned
  OBVIOUS
<1> QED
  BY <1>1, <1>2, <1>3, PTL DEF Spec
=============================================================================
