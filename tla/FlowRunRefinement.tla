-------------------------- MODULE FlowRunRefinement --------------------------
(***************************************************************************)
(* FlowRun implements RunLifecycle, proved for every instance.             *)
(*                                                                         *)
(* The mapping reads off the program counters what a process may still do  *)
(* to the status.  Two facts are needed beyond the earlier invariants: the *)
(* stages a flow has still to settle belong to its batch, and FailRun is   *)
(* reached only by a stage that runs alone; so that the execution that has *)
(* failed the run for its stage goes straight to its handler.              *)
(***************************************************************************)
EXTENDS FlowRunSafety, FlowRunLifecycle, FiniteSetTheorems

AloneOK(e) ==
  /\ pc[e] \in Preparing \union {"wait"} \union Settling =>
       work[e].todo \subseteq Batches[work[e].batch]
  /\ pc[e] = "failRun" => Alone(e)

BatchOK == \A e \in Execs : AloneOK(e)

-----------------------------------------------------------------------------
(***************************************************************************)
(* The batch of an execution.                                              *)
(***************************************************************************)
LEMMA InitBatchOK == Init => BatchOK
BY DEF Init, BatchOK, AloneOK, Preparing, Settling, Procs

LEMMA AloneSettles ==
  ASSUME TypeOK, NEW e \in Execs, WorkOK(e), AloneOK(e), pc[e] \in Settling, Alone(e)
  PROVE  work[e].todo \ {work[e].stage} = {}
<1> DEFINE batch == Batches[work[e].batch]
<1>1. batch \subseteq Stages /\ work[e].todo \subseteq batch /\ work[e].stage \in work[e].todo
  BY BatchIsStages DEF WorkOK, AloneOK
<1>2. IsFiniteSet(batch)
  BY <1>1, BatchesAssumption, FS_Subset
<1>3. Cardinality(batch) = 1
  BY DEF Alone
<1>4. \E x : batch = {x}
  BY <1>2, <1>3, FS_Singleton
<1> QED
  BY <1>1, <1>4

LEMMA ExecuteAlone ==
  ASSUME TypeOK, NEW e \in Execs, WorkOK(e), AloneOK(e), Execute(e)
  PROVE  AloneOK(e)'
<1>e. e \in Procs
  BY DEF Procs
<1>o. ASSUME pc'[e] \notin Preparing \union {"wait"} \union Settling PROVE AloneOK(e)'
  BY <1>o DEF AloneOK, Settling
<1>s. ASSUME pc[e] \in Preparing \union {"wait"} \union Settling, pc'[e] # "failRun",
             work'[e].todo \subseteq work[e].todo, work'[e].batch = work[e].batch
      PROVE  AloneOK(e)'
  BY <1>s DEF AloneOK
<1>1. CASE \/ Load(e) \/ Handler(e) \/ Acknowledge(e) \/ MarkRunning(e) \/ EmitStarted(e)
           \/ EmitCancelled(e) \/ CompleteRun(e) \/ EmitFlowCompleted(e) \/ SoftTimeLimit(e) \/ PrepareFails(e)
           \/ MarkFlowRunFailed(e) \/ Abandon(e)
  <2>1. pc'[e] \in {"start", "handler", "return", "markFailed", "done", "started", "loop",
                    "completeEvent", "finalize", "finalizeCommit", "failEvent"}
    BY <1>1, <1>e DEF Load, Handler, Acknowledge, MarkRunning, EmitStarted, EmitCancelled,
                      CompleteRun, EmitFlowCompleted, SoftTimeLimit, PrepareFails, MarkFlowRunFailed, MarkFailed,
                      SelectOpenTasks, FinalizeOpenTasks, FailEvent, Abandon, Over, Go, TypeOK
  <2> QED
    BY <2>1, <1>o DEF Preparing, Settling
<1>2. CASE NextBatch(e)
  <2>1. CASE pc'[e] = "cancelEvent"
    BY <2>1, <1>o DEF Preparing, Settling
  <2>2. CASE pc'[e] # "cancelEvent"
    <3>1. /\ pc'[e] = "prepare"
          /\ work'[e].batch = work[e].batch
          /\ work'[e].todo = Batches[work[e].batch]
      BY <1>2, <2>2, <1>e DEF NextBatch, Go, TypeOK, Work
    <3> QED
      BY <3>1 DEF AloneOK
  <2> QED
    BY <2>1, <2>2
<1>3. CASE EmitTaskStarted(e) /\ Referable(e)
  <2>1. pc'[e] \in {"wait", "prepare"} /\ work'[e].batch = work[e].batch
    BY <1>3, <1>e DEF EmitTaskStarted, Go, TypeOK, Work
  <2>2. \/ work'[e].todo = Batches[work[e].batch]
        \/ work'[e].todo \subseteq work[e].todo
    BY <1>3 DEF EmitTaskStarted, TypeOK, Work
  <2>3. pc[e] \in Preparing
    BY <1>3 DEF EmitTaskStarted, Preparing
  <2> QED
    BY <2>1, <2>2, <2>3, <1>s DEF AloneOK
<1>4. CASE \/ CreateTask(e) \/ MarkStage(e) \/ StageReturns(e) \/ SaveState(e)
           \/ RefreshAfterFailure(e) \/ FailRun(e)
           \/ (CreateArtifact(e) \/ EmitTaskCancelled(e)) /\ Referable(e)
           \/ (SaveTask(e) \/ CancelTask(e)) /\ Present(RowInHand(e))
  <2>1. pc[e] \in Preparing \union {"wait"} \union Settling /\ pc'[e] # "failRun"
    BY <1>4, <1>e DEF CreateTask, MarkStage, StageReturns, SaveState, RefreshAfterFailure, FailRun,
                      CreateArtifact, EmitTaskCancelled, SaveTask, CancelTask, Go, TypeOK,
                      Preparing, Settling
  <2>2. work'[e].todo = work[e].todo /\ work'[e].batch = work[e].batch
    <3>1. CASE CreateTask(e)
      BY <3>1 DEF CreateTask, TypeOK, Work
    <3>2. CASE \/ StageReturns(e) \/ MarkStage(e) \/ SaveState(e)
               \/ RefreshAfterFailure(e) \/ FailRun(e)
      BY <3>2 DEF StageReturns, MarkStage, SaveState, RefreshAfterFailure, FailRun, TypeOK, Work
    <3>3. CASE \/ (CreateArtifact(e) \/ EmitTaskCancelled(e)) /\ Referable(e)
               \/ (SaveTask(e) \/ CancelTask(e)) /\ Present(RowInHand(e))
      BY <3>3 DEF CreateArtifact, EmitTaskCancelled, SaveTask, CancelTask, TypeOK, Work
    <3> QED
      BY <1>4, <3>1, <3>2, <3>3
  <2> QED
    BY <2>1, <2>2, <1>s
<1>5. CASE FailTask(e) /\ Present(RowInHand(e))
  <2>1. pc[e] \in Settling /\ work' = work /\ (pc'[e] = "failRun" => Alone(e))
    BY <1>5, <1>e DEF FailTask, Go, TypeOK, Settling
  <2> QED
    BY <2>1 DEF AloneOK, Alone
<1>6. CASE \/ EmitFlowCancelled(e)
           \/ (EmitTaskCompleted(e) \/ EmitTaskFailed(e)) /\ Referable(e)
  <2>1. pc[e] \in Settling /\ (Settle(e, TRUE) \/ Settle(e, FALSE))
    BY <1>6 DEF EmitFlowCancelled, EmitTaskCompleted, EmitTaskFailed, Settling
  <2>2. CASE work[e].todo \ {work[e].stage} = {}
    <3>1. pc'[e] \in {"handler", "loop"}
      BY <2>1, <2>2, <1>e DEF Settle, Go, TypeOK
    <3> QED
      BY <3>1, <1>o DEF Preparing, Settling
  <2>3. CASE work[e].todo \ {work[e].stage} # {}
    <3>1. /\ pc'[e] = "wait"
          /\ work'[e].batch = work[e].batch
          /\ work'[e].todo \subseteq work[e].todo
      BY <2>1, <2>3, <1>e DEF Settle, Go, TypeOK, Work
    <3> QED
      BY <2>1, <3>1, <1>s
  <2> QED
    BY <2>2, <2>3
<1>b. \/ EmitTaskStarted(e) \/ CreateArtifact(e) \/ EmitTaskCompleted(e)
      \/ EmitTaskCancelled(e) \/ EmitTaskFailed(e)
      => Referable(e) \/ Abandon(e)
  BY DEF EmitTaskStarted, CreateArtifact, EmitTaskCompleted, EmitTaskCancelled, EmitTaskFailed
<1>c. SaveTask(e) \/ CancelTask(e) \/ FailTask(e) => Present(RowInHand(e)) \/ Abandon(e)
  BY DEF SaveTask, CancelTask, FailTask
<1>7. CASE \/ EmitTaskStarted(e) \/ CreateArtifact(e) \/ EmitTaskCompleted(e)
           \/ EmitTaskCancelled(e) \/ EmitTaskFailed(e)
  BY <1>1, <1>3, <1>4, <1>6, <1>7, <1>b
<1>8. CASE SaveTask(e) \/ CancelTask(e) \/ FailTask(e)
  BY <1>1, <1>4, <1>5, <1>8, <1>c
<1> QED
  BY <1>1, <1>2, <1>4, <1>6, <1>7, <1>8 DEF Execute

LEMMA NextBatchOK ==
  ASSUME TypeOK, ControlOK, BatchOK, [Next]_vars PROVE BatchOK'
<1> SUFFICES ASSUME NEW d \in Execs PROVE AloneOK(d)'
  BY DEF BatchOK
<1>d. d \in Procs /\ WorkOK(d) /\ AloneOK(d)
  BY DEF Procs, ControlOK, BatchOK
<1>s. ASSUME pc'[d] = pc[d], work'[d] = work[d] PROVE AloneOK(d)'
  BY <1>d, <1>s DEF AloneOK, Alone
<1>o. ASSUME pc'[d] \in {"idle", "queued", "done", "lost"} PROVE AloneOK(d)'
  BY <1>o DEF AloneOK, Preparing, Settling
<1>1. ASSUME NEW r \in Requests, Arrive(r) \/ Serve(r) PROVE AloneOK(d)'
  <2>1. /\ r # d /\ work'[d] = work[d]
        /\ pc'[d] = pc[d] \/ pc'[d] = "queued"
    BY <1>1, <1>d, RequestFrame, ProcsAssumption DEF Procs
  <2> QED
    BY <2>1, <1>s, <1>o
<1>2. ASSUME NEW e \in Execs, Execute(e) PROVE AloneOK(d)'
  <2>1. CASE d = e
    BY <1>2, <1>d, <2>1, ExecuteAlone
  <2>2. CASE d # e
    BY <1>2, <1>d, <1>s, <2>2, ExecuteFrame DEF Frame
  <2> QED
    BY <2>1, <2>2
<1>3. ASSUME NEW e \in Execs, WorkerLost(e) PROVE AloneOK(d)'
  <2>1. PICK f \in Execs : pc' = [pc EXCEPT ![e] = "lost", ![f] = "queued"]
    BY <1>3 DEF WorkerLost
  <2>2. pc'[d] \in {"lost", "queued"} \/ (pc'[d] = pc[d] /\ d # e)
    BY <2>1, <1>d DEF TypeOK
  <2>3. d # e => work'[d] = work[d]
    BY <1>3 DEF WorkerLost, Close
  <2> QED
    BY <2>2, <2>3, <1>s, <1>o
<1>4. ASSUME NEW e \in Execs, HardKill(e) PROVE AloneOK(d)'
  BY <1>4, <1>d, <1>o, <1>s DEF HardKill, Close, Go, TypeOK
<1>5. CASE ServerStops
  <2>1. CASE d \notin Server
    BY <1>5, <2>1, <1>d, <1>s DEF ServerStops, TypeOK
  <2>2. CASE d \in Server
    BY <1>5, <2>2, <1>d, <1>o DEF ServerStops
  <2> QED
    BY <2>1, <2>2
<1>6. CASE UNCHANGED vars
  BY <1>6, <1>s DEF vars
<1> QED
  BY <1>1, <1>2, <1>3, <1>4, <1>5, <1>6 DEF Next

-----------------------------------------------------------------------------
(***************************************************************************)
(* The rights, step by step.                                               *)
(***************************************************************************)
LStep == [Lifecycle!LifecycleNext]_<<run.status, Right>>

LEMMA RightOf ==
  /\ \A e \in Execs : Right[e] = ExecRight(e)
  /\ \A r \in Requests : Right[r] = RequestRight(r)
BY ProcsAssumption DEF Right, Procs

LEMMA LifecycleProcs == Lifecycle!Procs = Procs /\ Lifecycle!Requests = Requests
BY DEF Lifecycle!Procs, Lifecycle!Requests, Procs, Requests

LEMMA SameExecRight ==
  ASSUME NEW d \in Execs, pc'[d] = pc[d], work'[d] = work[d]
  PROVE  ExecRight(d)' = ExecRight(d)
BY DEF ExecRight, FailedAlone, Alone

LEMMA SameRequestRight ==
  ASSUME NEW q \in Requests, pc'[q] = pc[q] PROVE RequestRight(q)' = RequestRight(q)
BY DEF RequestRight

\* A step that moves one process turns that process's right.
LEMMA ExecTurn ==
  ASSUME NEW e \in Execs, Frame(e) PROVE Right' = [Right EXCEPT ![e] = ExecRight(e)']
<1>1. \A d \in Execs \ {e} : ExecRight(d)' = ExecRight(d)
  BY SameExecRight DEF Frame, Procs
<1>2. \A q \in Requests : RequestRight(q)' = RequestRight(q)
  BY SameRequestRight, ProcsAssumption DEF Frame, Procs
<1> QED
  BY <1>1, <1>2, ProcsAssumption DEF Right, Procs

LEMMA RequestTurn ==
  ASSUME NEW r \in Requests, work' = work, \A q \in Procs \ {r} : pc'[q] = pc[q]
  PROVE  Right' = [Right EXCEPT ![r] = RequestRight(r)']
<1>1. \A d \in Execs : ExecRight(d)' = ExecRight(d)
  BY SameExecRight, ProcsAssumption DEF Procs
<1>2. \A q \in Requests \ {r} : RequestRight(q)' = RequestRight(q)
  BY SameRequestRight DEF Procs
<1> QED
  BY <1>1, <1>2, ProcsAssumption DEF Right, Procs

LEMMA SameTurn ==
  ASSUME NEW p \in Procs, Right' = [Right EXCEPT ![p] = Right[p]], run'.status = run.status
  PROVE  LStep
BY DEF LStep, Right

LEMMA EndTurn ==
  ASSUME NEW p \in Procs, Right' = [Right EXCEPT ![p] = "over"], run'.status = run.status
  PROVE  LStep
<1>1. Right' = [q \in Lifecycle!Procs |-> IF q \in {p} THEN "over" ELSE Right[q]]
  BY LifecycleProcs DEF Right
<1>2. {p} \in SUBSET Lifecycle!Procs
  BY LifecycleProcs
<1> QED
  BY <1>1, <1>2 DEF LStep, Lifecycle!LifecycleNext, Lifecycle!End

\* A step of an execution that does not write the status.
LEMMA QuietStep ==
  ASSUME NEW e \in Execs, Frame(e), run'.status = run.status,
         \/ ExecRight(e)' \in {ExecRight(e), "over"}
         \/ ExecRight(e) \in {"begin", "verdict"} /\ ExecRight(e)' = "fail"
  PROVE  LStep
<1>e. e \in Procs
  BY DEF Procs
<1>1. CASE ExecRight(e)' = ExecRight(e)
  BY <1>1, <1>e, ExecTurn, SameTurn, RightOf
<1>2. CASE ExecRight(e)' = "over"
  BY <1>2, <1>e, ExecTurn, EndTurn
<1>3. CASE ExecRight(e) \in {"begin", "verdict"} /\ ExecRight(e)' = "fail"
  BY <1>3, ExecTurn, RightOf DEF LStep, Lifecycle!LifecycleNext, Lifecycle!Raise, Lifecycle!Turn
<1> QED
  BY <1>1, <1>2, <1>3

\* The right of an execution, by where it is.
LEMMA ExecRightAt ==
  ASSUME NEW e \in Execs
  PROVE  /\ pc[e] = "idle" => ExecRight(e) = "none"
         /\ pc[e] \in {"queued", "start"} => ExecRight(e) = "begin"
         /\ pc[e] \in {"handler", "markFailed"} => ExecRight(e) = "fail"
         /\ pc[e] \in {"started", "loop", "prepare", "prepRun", "prepEvent", "wait"} \union
                       (Settling \ {"taskFailEvent"}) => ExecRight(e) = "verdict"
         /\ pc[e] = "taskFailEvent" => ExecRight(e) = (IF Alone(e) THEN "fail" ELSE "verdict")
         /\ pc[e] \in {"finalize", "finalizeCommit", "failEvent", "cancelEvent", "completeEvent",
                       "return", "done", "lost"} => ExecRight(e) = "over"
BY DEF ExecRight, FailedAlone, InFlow, Settling

LEMMA ExecRightNext ==
  ASSUME NEW e \in Execs
  PROVE  /\ pc'[e] \in {"queued", "start"} => ExecRight(e)' = "begin"
         /\ pc'[e] \in {"handler", "markFailed"} => ExecRight(e)' = "fail"
         /\ pc'[e] \in {"started", "loop", "prepare", "prepRun", "prepEvent", "wait"} \union
                       (Settling \ {"taskFailEvent"}) => ExecRight(e)' = "verdict"
         /\ pc'[e] = "taskFailEvent" => ExecRight(e)' = (IF Alone(e)' THEN "fail" ELSE "verdict")
         /\ pc'[e] \in {"finalize", "finalizeCommit", "failEvent", "cancelEvent", "completeEvent",
                       "return", "done", "lost"} => ExecRight(e)' = "over"
BY DEF ExecRight, FailedAlone, InFlow, Settling

LEMMA RequestRightAt ==
  ASSUME NEW r \in Requests
  PROVE  /\ pc[r] = "idle" => RequestRight(r) = "none"
         /\ pc[r] = "cancel" => RequestRight(r) = "cancel"
         /\ pc[r] \in {"clear", "reset"} => RequestRight(r) = "resume"
         /\ pc[r] = "dispatch" => RequestRight(r) = "dispatch"
         /\ pc[r] = "markFailed" => RequestRight(r) = "fail"
         /\ pc[r] \in {"finalize", "finalizeCommit", "failEvent", "cancelRequested", "done", "lost"}
               => RequestRight(r) = "over"
BY DEF RequestRight

LEMMA RequestRightNext ==
  ASSUME NEW r \in Requests
  PROVE  /\ pc'[r] = "cancel" => RequestRight(r)' = "cancel"
         /\ pc'[r] \in {"clear", "reset"} => RequestRight(r)' = "resume"
         /\ pc'[r] = "dispatch" => RequestRight(r)' = "dispatch"
         /\ pc'[r] = "markFailed" => RequestRight(r)' = "fail"
         /\ pc'[r] \in {"finalize", "finalizeCommit", "failEvent", "cancelRequested", "done", "lost"}
               => RequestRight(r)' = "over"
BY DEF RequestRight

-----------------------------------------------------------------------------
(***************************************************************************)
(* Every step of FlowRun is a step of RunLifecycle, or a stutter.          *)
(***************************************************************************)
LEMMA MarkFailedWrites ==
  ASSUME TypeOK, NEW p \in Procs, MarkFailed(p)
  PROVE  pc[p] = "markFailed" /\ pc'[p] = "finalize" /\ run'.status = StatusAfter(p, "FAILED")
BY DEF MarkFailed, Go, TypeOK, RunRow

LEMMA ExecuteStep ==
  ASSUME TypeOK, NEW e \in Execs, WorkOK(e), AloneOK(e), Execute(e) PROVE LStep
<1>e. e \in Procs /\ Frame(e)
  BY ExecuteFrame DEF Procs
<1>a. CASE Abandon(e)
  <2>1. run' = run /\ pc'[e] = "return"
    BY <1>a, <1>e DEF Abandon, Over, Go, TypeOK, db
  <2> QED
    BY <2>1, <1>e, QuietStep, ExecRightNext
<1>1. CASE MarkRunning(e)
  <2>1. pc[e] = "start" /\ pc'[e] = "started" /\ run'.status = StatusAfter(e, "RUNNING")
    BY <1>1, <1>e DEF MarkRunning, Go, TypeOK, RunRow
  <2>2. Lifecycle!MayWrite("RUNNING")
    BY <2>1 DEF Lifecycle!MayWrite, StatusAfter
  <2>3. Right[e] = "begin" /\ Right' = [Right EXCEPT ![e] = "verdict"]
    BY <2>1, <1>e, ExecTurn, RightOf, ExecRightAt, ExecRightNext
  <2> QED
    BY <2>2, <2>3 DEF LStep, Lifecycle!LifecycleNext, Lifecycle!Begin, Lifecycle!Turn
<1>2. CASE CompleteRun(e)
  <2>1. pc[e] = "loop" /\ pc'[e] = "completeEvent" /\ run'.status = StatusAfter(e, "COMPLETED")
    BY <1>2, <1>e DEF CompleteRun, Go, TypeOK
  <2>2. Lifecycle!MayWrite("COMPLETED")
    BY <2>1 DEF Lifecycle!MayWrite, StatusAfter
  <2>3. Right[e] = "verdict" /\ Right' = [Right EXCEPT ![e] = "over"]
    BY <2>1, <1>e, ExecTurn, RightOf, ExecRightAt, ExecRightNext
  <2> QED
    BY <2>2, <2>3 DEF LStep, Lifecycle!LifecycleNext, Lifecycle!Complete, Lifecycle!Turn
<1>3. CASE FailRun(e)
  <2>1. /\ pc[e] = "failRun" /\ pc'[e] = "taskFailEvent" /\ Alone(e)'
        /\ run'.status = StatusAfter(e, "FAILED")
    BY <1>3, <1>e DEF FailRun, Go, TypeOK, AloneOK, Alone
  <2>2. Lifecycle!MayWrite("FAILED")
    BY <2>1 DEF Lifecycle!MayWrite, StatusAfter
  <2>3. Right[e] = "verdict" /\ Right' = [Right EXCEPT ![e] = "fail"]
    BY <2>1, <1>e, ExecTurn, RightOf, ExecRightAt, ExecRightNext DEF Settling
  <2> QED
    BY <2>2, <2>3 DEF LStep, Lifecycle!LifecycleNext, Lifecycle!FailStage, Lifecycle!Turn
<1>4. CASE MarkFlowRunFailed(e)
  <2>1. CASE MarkFailed(e)
    <3>1. Lifecycle!MayWrite("FAILED")
      BY <2>1, <1>e, MarkFailedWrites DEF Lifecycle!MayWrite, StatusAfter
    <3>2. Right[e] = "fail" /\ Right' = [Right EXCEPT ![e] = "over"]
      BY <2>1, <1>e, MarkFailedWrites, ExecTurn, RightOf, ExecRightAt, ExecRightNext
    <3> QED
      BY <3>1, <3>2 DEF LStep, Lifecycle!LifecycleNext, Lifecycle!FailRun, Lifecycle!Turn
  <2>2. CASE SelectOpenTasks(e) \/ FinalizeOpenTasks(e) \/ FailEvent(e)
    <3>1. run' = run
      BY <2>2, FinalizeKeepsRun
    <3>2. pc'[e] \in {"finalizeCommit", "failEvent", "return"}
      BY <2>2, <1>e DEF SelectOpenTasks, FinalizeOpenTasks, FailEvent, Over, Go, TypeOK
    <3> QED
      BY <3>1, <3>2, <1>e, QuietStep, ExecRightNext
  <2> QED
    BY <1>4, <2>1, <2>2 DEF MarkFlowRunFailed
<1>5. CASE Load(e)
  <2>1. run' = run /\ pc[e] = "queued" /\ pc'[e] \in {"start", "handler"}
    BY <1>5, <1>e DEF Load, Go, TypeOK, db
  <2> QED
    BY <2>1, <1>e, QuietStep, ExecRightAt, ExecRightNext
<1>6. CASE Handler(e)
  <2>1. run' = run /\ pc[e] = "handler" /\ pc'[e] \in {"markFailed", "return"}
    BY <1>6, <1>e DEF Handler, Over, Go, TypeOK, db
  <2> QED
    BY <2>1, <1>e, QuietStep, ExecRightAt, ExecRightNext
<1>7. CASE Acknowledge(e) \/ EmitCancelled(e) \/ EmitFlowCompleted(e)
  <2>1. run' = run /\ pc'[e] \in {"done", "return"}
    BY <1>7, <1>e DEF Acknowledge, EmitCancelled, EmitFlowCompleted, Over, Go, TypeOK, db
  <2> QED
    BY <2>1, <1>e, QuietStep, ExecRightNext
<1>8. CASE EmitStarted(e) \/ NextBatch(e) \/ StageReturns(e) \/ SoftTimeLimit(e) \/ PrepareFails(e)
  <2>1. /\ run' = run /\ pc[e] \in {"started", "loop", "prepare", "wait"}
        /\ pc'[e] \in {"loop", "cancelEvent", "prepare", "saveTask", "stageFailed", "handler"}
    BY <1>8, <1>e DEF EmitStarted, NextBatch, StageReturns, SoftTimeLimit, PrepareFails, Go, TypeOK, db
  <2> QED
    BY <2>1, <1>e, QuietStep, ExecRightAt, ExecRightNext DEF Settling
<1>9. CASE CreateTask(e) \/ MarkStage(e) \/ (EmitTaskStarted(e) /\ Referable(e))
  <2>1. run'.status = run.status
    BY <1>9 DEF CreateTask, MarkStage, EmitTaskStarted, TypeOK, RunRow
  <2>2. /\ pc[e] \in {"prepare", "prepRun", "prepEvent"}
        /\ pc'[e] \in {"prepare", "prepRun", "prepEvent", "wait"}
    BY <1>9, <1>e DEF CreateTask, MarkStage, EmitTaskStarted, Go, TypeOK
  <2> QED
    BY <2>1, <2>2, <1>e, QuietStep, ExecRightAt, ExecRightNext
<1>10. CASE \/ SaveState(e) \/ RefreshAfterFailure(e)
            \/ (SaveTask(e) \/ CancelTask(e)) /\ Present(RowInHand(e))
            \/ (CreateArtifact(e) \/ EmitTaskCancelled(e)) /\ Referable(e)
  <2>1. run'.status = run.status
    BY <1>10 DEF SaveState, RefreshAfterFailure, SaveTask, CancelTask, CreateArtifact,
                 EmitTaskCancelled, TypeOK, RunRow, db
  <2>2. pc[e] \in Settling \ {"taskFailEvent"} /\ pc'[e] \in Settling \ {"taskFailEvent"}
    BY <1>10, <1>e DEF SaveState, RefreshAfterFailure, SaveTask, CancelTask, CreateArtifact,
                       EmitTaskCancelled, Go, TypeOK, Settling
  <2> QED
    BY <2>1, <2>2, <1>e, QuietStep, ExecRightAt, ExecRightNext
<1>11. CASE FailTask(e) /\ Present(RowInHand(e))
  <2>1. /\ run' = run /\ pc[e] = "failTask" /\ Alone(e)' = Alone(e)
        /\ pc'[e] = IF Alone(e) THEN "failRun" ELSE "taskFailEvent"
    BY <1>11, <1>e DEF FailTask, Go, TypeOK, Alone
  <2>2. ExecRight(e) = "verdict" /\ ExecRight(e)' = "verdict"
    BY <2>1, ExecRightAt, ExecRightNext DEF Settling
  <2> QED
    BY <2>1, <2>2, <1>e, QuietStep
<1>12. CASE \/ EmitFlowCancelled(e)
            \/ (EmitTaskCompleted(e) \/ EmitTaskFailed(e)) /\ Referable(e)
  <2>1. /\ run' = run /\ (Settle(e, TRUE) \/ Settle(e, FALSE))
        /\ pc[e] \in {"flowCancelEvent", "doneEvent", "taskFailEvent"}
        /\ pc[e] = "taskFailEvent" => Settle(e, TRUE)
    BY <1>12 DEF EmitFlowCancelled, EmitTaskCompleted, EmitTaskFailed
  <2>2. pc'[e] \in {"wait", "handler", "loop"}
    BY <2>1, <1>e DEF Settle, Go, TypeOK
  <2>3. CASE pc[e] = "taskFailEvent" /\ Alone(e)
    <3>1. work[e].todo \ {work[e].stage} = {}
      BY <2>3, AloneSettles DEF Settling
    <3>2. pc'[e] = "handler"
      BY <2>1, <2>3, <3>1, <1>e DEF Settle, Go, TypeOK
    <3> QED
      BY <2>1, <2>3, <3>2, <1>e, QuietStep, ExecRightAt, ExecRightNext
  <2>4. CASE ~(pc[e] = "taskFailEvent" /\ Alone(e))
    <3>1. ExecRight(e) = "verdict" /\ ExecRight(e)' \in {"verdict", "fail"}
      BY <2>1, <2>2, <2>4, ExecRightAt, ExecRightNext DEF Settling
    <3> QED
      BY <2>1, <3>1, <1>e, QuietStep
  <2> QED
    BY <2>3, <2>4
<1>b. \/ EmitTaskStarted(e) \/ CreateArtifact(e) \/ EmitTaskCompleted(e)
      \/ EmitTaskCancelled(e) \/ EmitTaskFailed(e)
      => Referable(e) \/ Abandon(e)
  BY DEF EmitTaskStarted, CreateArtifact, EmitTaskCompleted, EmitTaskCancelled, EmitTaskFailed
<1>c. SaveTask(e) \/ CancelTask(e) \/ FailTask(e) => Present(RowInHand(e)) \/ Abandon(e)
  BY DEF SaveTask, CancelTask, FailTask
<1>13. CASE \/ EmitTaskStarted(e) \/ CreateArtifact(e) \/ EmitTaskCompleted(e)
            \/ EmitTaskCancelled(e) \/ EmitTaskFailed(e)
  BY <1>a, <1>9, <1>10, <1>12, <1>13, <1>b
<1>14. CASE SaveTask(e) \/ CancelTask(e) \/ FailTask(e)
  BY <1>a, <1>10, <1>11, <1>14, <1>c
<1> QED
  BY <1>1, <1>2, <1>3, <1>4, <1>5, <1>6, <1>7, <1>8, <1>9, <1>10, <1>12, <1>13, <1>14 DEF Execute

\* What resume_run, cancel_run and a failed dispatch write is never left out.
LEMMA RequestStep ==
  ASSUME TypeOK, NEW r \in Requests, Knows(r), Arrive(r) \/ Serve(r) PROVE LStep
<1>r. r \in Procs /\ r \notin Execs /\ work' = work
  BY RequestFrame, ProcsAssumption DEF Procs
<1>t. ASSUME \A q \in Procs \ {r} : pc'[q] = pc[q]
      PROVE  Right' = [Right EXCEPT ![r] = RequestRight(r)']
  BY <1>t, <1>r, RequestTurn
<1>q. ASSUME \A q \in Procs \ {r} : pc'[q] = pc[q], run' = run,
             RequestRight(r)' \in {RequestRight(r), "over"}
      PROVE  LStep
  BY <1>q, <1>t, <1>r, SameTurn, EndTurn, RightOf
<1>1. CASE CreateRun(r)
  <2>1. /\ r = Creator /\ pc[r] = "idle" /\ pc'[r] = "dispatch" /\ run'.status = "QUEUED"
        /\ \A q \in Procs \ {r} : pc'[q] = pc[q]
    BY <1>1, <1>r DEF CreateRun, Go, TypeOK
  <2>2. Right[Creator] = "none" /\ Right' = [Right EXCEPT ![Creator] = "dispatch"]
    BY <2>1, <1>t, RightOf, RequestRightAt, RequestRightNext
  <2> QED
    BY <2>1, <2>2 DEF LStep, Lifecycle!LifecycleNext, Lifecycle!Create,
        Lifecycle!Turn, Lifecycle!Write
<1>2. CASE CancelRead(r)
  <2>1. /\ r \in Cancels /\ pc[r] = "idle" /\ run' = run
        /\ \A q \in Procs \ {r} : pc'[q] = pc[q]
        /\ \/ pc'[r] = "done"
           \/ pc'[r] = "cancel" /\ run.status \in {"QUEUED", "RUNNING"}
    BY <1>2, <1>r DEF CancelRead, Go, TypeOK, RunRow, RunStatus, Live, db
  <2>2. CASE pc'[r] = "done"
    BY <2>1, <2>2, <1>q, RequestRightNext
  <2>3. CASE pc'[r] = "cancel"
    <3>1. /\ Right[r] = "none" /\ Right' = [Right EXCEPT ![r] = "cancel"]
          /\ run.status \in {"QUEUED", "RUNNING"}
      BY <2>1, <2>3, <1>t, RightOf, RequestRightAt, RequestRightNext
    <3> QED
      BY <2>1, <3>1 DEF LStep, Lifecycle!LifecycleNext, Lifecycle!AcceptCancel, Lifecycle!Turn
  <2> QED
    BY <2>1, <2>2, <2>3
<1>3. CASE CancelWrite(r)
  <2>1. /\ r \in Cancels /\ pc[r] = "cancel" /\ pc'[r] = "cancelRequested"
        /\ \A q \in Procs \ {r} : pc'[q] = pc[q]
        /\ run'.status = StatusAfter(r, "CANCELLED")
    BY <1>3, <1>r DEF CancelWrite, Go, TypeOK, RunRow
  <2>2. run'.status = "CANCELLED"
    BY <2>1 DEF StatusAfter, Knows, Terminal
  <2>3. Right[r] = "cancel" /\ Right' = [Right EXCEPT ![r] = "over"]
    BY <2>1, <1>t, RightOf, RequestRightAt, RequestRightNext
  <2> QED
    BY <2>1, <2>2, <2>3 DEF LStep, Lifecycle!LifecycleNext, Lifecycle!Cancel,
        Lifecycle!Turn, Lifecycle!Write
<1>4. CASE CancelEvent(r) \/ ResumeClear(r)
  <2>1. /\ run' = run /\ \A q \in Procs \ {r} : pc'[q] = pc[q]
        /\ \/ pc'[r] = "done"
           \/ pc[r] = "clear" /\ pc'[r] = "reset"
    BY <1>4, <1>r DEF CancelEvent, ResumeClear, Go, TypeOK
  <2> QED
    BY <2>1, <1>q, RequestRightAt, RequestRightNext
<1>5. CASE ResumeRead(r)
  <2>1. /\ r \in Resumes /\ pc[r] = "idle" /\ run' = run
        /\ \A q \in Procs \ {r} : pc'[q] = pc[q]
        /\ \/ pc'[r] = "done"
           \/ pc'[r] = "clear" /\ run.status \in {"FAILED", "CANCELLED"}
    BY <1>5, <1>r DEF ResumeRead, Go, TypeOK, Resumable, db
  <2>2. CASE pc'[r] = "done"
    BY <2>1, <2>2, <1>q, RequestRightNext
  <2>3. CASE pc'[r] = "clear"
    <3>1. /\ Right[r] = "none" /\ Right' = [Right EXCEPT ![r] = "resume"]
          /\ run.status \in {"FAILED", "CANCELLED"}
      BY <2>1, <2>3, <1>t, RightOf, RequestRightAt, RequestRightNext
    <3> QED
      BY <2>1, <3>1 DEF LStep, Lifecycle!LifecycleNext, Lifecycle!AcceptResume, Lifecycle!Turn
  <2> QED
    BY <2>1, <2>2, <2>3
<1>6. CASE ResumeReset(r)
  <2>1. /\ r \in Resumes /\ pc[r] = "reset" /\ pc'[r] = "dispatch"
        /\ \A q \in Procs \ {r} : pc'[q] = pc[q]
    BY <1>6, <1>r DEF ResumeReset, Go, TypeOK
  <2>2. run'.status = "QUEUED"
    BY <1>6, ResetQueues
  <2>3. Right[r] = "resume" /\ Right' = [Right EXCEPT ![r] = "dispatch"]
    BY <2>1, <1>t, RightOf, RequestRightAt, RequestRightNext
  <2> QED
    BY <2>1, <2>2, <2>3 DEF LStep, Lifecycle!LifecycleNext, Lifecycle!Resume,
        Lifecycle!Turn, Lifecycle!Write
<1>7. CASE DispatchFails(r)
  <2>1. /\ pc[r] = "dispatch" /\ pc'[r] = "markFailed" /\ run' = run
        /\ \A q \in Procs \ {r} : pc'[q] = pc[q]
    BY <1>7, <1>r DEF DispatchFails, Go, TypeOK, db
  <2>2. Right[r] = "dispatch" /\ Right' = [Right EXCEPT ![r] = "fail"] /\ r \in Lifecycle!Requests
    BY <2>1, <1>t, RightOf, RequestRightAt, RequestRightNext, LifecycleProcs
  <2> QED
    BY <2>1, <2>2 DEF LStep, Lifecycle!LifecycleNext, Lifecycle!DispatchFails, Lifecycle!Turn
<1>8. CASE MarkFlowRunFailed(r)
  <2>f. \A q \in Procs \ {r} : pc'[q] = pc[q]
    BY <1>8, <1>r, MarkFlowRunFailedFrame DEF Frame
  <2>1. CASE MarkFailed(r)
    <3>1. pc[r] = "markFailed" /\ pc'[r] = "finalize" /\ run'.status = "FAILED"
      BY <2>1, <1>r, MarkFailedWrites DEF StatusAfter, Knows, Undecided
    <3>2. Right[r] = "fail" /\ Right' = [Right EXCEPT ![r] = "over"] /\ r \in Lifecycle!Requests
      BY <2>f, <3>1, <1>t, RightOf, RequestRightAt, RequestRightNext, LifecycleProcs
    <3> QED
      BY <3>1, <3>2 DEF LStep, Lifecycle!LifecycleNext, Lifecycle!FailDispatch,
        Lifecycle!Turn, Lifecycle!Write
  <2>2. CASE SelectOpenTasks(r) \/ FinalizeOpenTasks(r) \/ FailEvent(r)
    <3>1. run' = run
      BY <2>2, FinalizeKeepsRun
    <3>2. pc'[r] \in {"finalizeCommit", "failEvent", "done"}
      BY <2>2, <1>r DEF SelectOpenTasks, FinalizeOpenTasks, FailEvent, Over, Go, TypeOK
    <3> QED
      BY <2>f, <3>1, <3>2, <1>q, RequestRightNext
  <2> QED
    BY <1>8, <2>1, <2>2 DEF MarkFlowRunFailed
<1>9. CASE Dispatch(r)
  <2>1. PICK e \in Execs : pc[e] = "idle" /\ pc' = [pc EXCEPT ![r] = "done", ![e] = "queued"]
    BY <1>9 DEF Dispatch
  <2>2. run' = run /\ pc[r] = "dispatch"
    BY <1>9 DEF Dispatch, db
  <2>3. pc'[r] = "done" /\ pc'[e] = "queued" /\ \A q \in Procs \ {r, e} : pc'[q] = pc[q]
    BY <2>1, <1>r DEF TypeOK, Procs
  <2>4. /\ \A d \in Execs \ {e} : ExecRight(d)' = ExecRight(d)
        /\ \A q \in Requests \ {r} : RequestRight(q)' = RequestRight(q)
    BY <2>3, <1>r, SameExecRight, SameRequestRight, ProcsAssumption DEF Procs
  <2>5. ExecRight(e) = "none" /\ ExecRight(e)' = "begin"
        /\ RequestRight(r) = "dispatch" /\ RequestRight(r)' = "over"
    BY <2>1, <2>2, <2>3, ExecRightAt, ExecRightNext, RequestRightAt, RequestRightNext
  <2>6. Right' = [Right EXCEPT ![r] = "over", ![e] = "begin"]
    BY <2>4, <2>5, <1>r, ProcsAssumption DEF Right, Procs
  <2>7. Lifecycle!Dispatch(r) /\ r \in Lifecycle!Requests
    BY <2>2, <2>5, <2>6, RightOf, LifecycleProcs DEF Lifecycle!Dispatch, Lifecycle!Start
  <2> QED
    BY <2>7 DEF LStep, Lifecycle!LifecycleNext
<1> QED
  BY <1>1, <1>2, <1>3, <1>4, <1>5, <1>6, <1>7, <1>8, <1>9 DEF Arrive, Serve

LEMMA FaultStep ==
  ASSUME TypeOK, (\E e \in Execs : WorkerLost(e) \/ HardKill(e)) \/ ServerStops PROVE LStep
<1>1. ASSUME NEW e \in Execs, WorkerLost(e) PROVE LStep
  <2>1. PICK d \in Execs : pc[d] = "idle" /\ pc' = [pc EXCEPT ![e] = "lost", ![d] = "queued"]
    BY <1>1 DEF WorkerLost
  <2>2. run' = run /\ e # d /\ e \in Procs /\ d \in Procs
    BY <1>1, <2>1 DEF WorkerLost, db, ExecActive, InFlow, InFailure, Procs
  <2>3. pc'[e] = "lost" /\ pc'[d] = "queued" /\ \A q \in Procs \ {e, d} : pc'[q] = pc[q]
    BY <2>1, <2>2 DEF TypeOK
  <2>4. \A f \in Execs \ {e} : work'[f] = work[f]
    BY <1>1 DEF WorkerLost, Close
  <2>5. /\ \A f \in Execs \ {e, d} : ExecRight(f)' = ExecRight(f)
        /\ \A q \in Requests : RequestRight(q)' = RequestRight(q)
    BY <2>3, <2>4, SameExecRight, SameRequestRight, ProcsAssumption DEF Procs
  <2>6. ExecRight(d) = "none" /\ ExecRight(d)' = "begin" /\ ExecRight(e)' = "over"
    BY <2>1, <2>3, ExecRightAt, ExecRightNext
  <2>7. Right' = [Right EXCEPT ![e] = "over", ![d] = "begin"]
    BY <2>2, <2>5, <2>6, ProcsAssumption DEF Right, Procs
  <2>8. Lifecycle!Redeliver(e)
    BY <2>2, <2>6, <2>7, RightOf DEF Lifecycle!Redeliver, Lifecycle!Start
  <2> QED
    BY <2>8 DEF LStep, Lifecycle!LifecycleNext
<1>2. ASSUME NEW e \in Execs, HardKill(e) PROVE LStep
  <2>1. run' = run /\ pc'[e] = "lost"
    BY <1>2 DEF HardKill, Go, Close, TypeOK, Procs, db
  <2>2. e \in Procs /\ ExecRight(e)' = "over"
    BY <2>1, ExecRightNext DEF Procs
  <2>3. \A d \in Execs \ {e} : ExecRight(d)' = ExecRight(d)
    BY <1>2, SameExecRight DEF HardKill, Go, Close, TypeOK, Procs
  <2>4. \A q \in Requests : RequestRight(q)' = RequestRight(q)
    BY <1>2, SameRequestRight, ProcsAssumption DEF HardKill, Go, TypeOK, Procs
  <2>5. Right' = [Right EXCEPT ![e] = "over"]
    BY <2>2, <2>3, <2>4, ProcsAssumption DEF Right, Procs
  <2> QED
    BY <2>1, <2>2, <2>5, EndTurn
<1>3. ASSUME ServerStops PROVE LStep
  <2> DEFINE ended == {p \in Server : pc[p] \notin {"idle", "done"}}
  <2>1. run' = run /\ Server \subseteq Procs
    BY <1>3 DEF ServerStops, Server, Procs, db
  <2>2. \A p \in Procs : pc'[p] = IF p \in ended THEN "lost" ELSE pc[p]
    BY <1>3 DEF ServerStops
  <2>3. \A e \in Execs : e \in ended => ExecRight(e)' = "over"
    BY <2>2, ExecRightNext DEF Procs
  <2>4. \A e \in Execs : e \notin ended => ExecRight(e)' = ExecRight(e)
    <3> SUFFICES ASSUME NEW e \in Execs, e \notin ended PROVE ExecRight(e)' = ExecRight(e)
      OBVIOUS
    <3>1. pc'[e] = pc[e]
      BY <2>2 DEF Procs
    <3>2. CASE e \in Server
      BY <3>1, <3>2 DEF ExecRight, FailedAlone, InFlow
    <3>3. CASE e \notin Server
      <4>1. work'[e] = work[e]
        BY <1>3, <3>3 DEF ServerStops, TypeOK
      <4> QED
        BY <3>1, <4>1, SameExecRight
    <3> QED
      BY <3>2, <3>3
  <2>5. \A q \in Requests : RequestRight(q)' = IF q \in ended THEN "over" ELSE RequestRight(q)
    BY <2>2, RequestRightNext, SameRequestRight DEF Procs
  <2>6. Right' = [p \in Lifecycle!Procs |-> IF p \in ended THEN "over" ELSE Right[p]]
    <3> HIDE DEF ended
    <3> QED
      BY <2>3, <2>4, <2>5, LifecycleProcs, ProcsAssumption DEF Right, Procs
  <2>7. ended \in SUBSET Lifecycle!Procs
    BY <2>1, LifecycleProcs
  <2> HIDE DEF ended
  <2> QED
    BY <2>1, <2>6, <2>7 DEF LStep, Lifecycle!LifecycleNext, Lifecycle!End
<1> QED
  BY <1>1, <1>2, <1>3

LEMMA NextStep ==
  ASSUME TypeOK, ControlOK, RequestOK, BatchOK, [Next]_vars PROVE LStep
<1>1. CASE \E r \in Requests : Arrive(r) \/ Serve(r)
  BY <1>1, RequestStep DEF RequestOK
<1>2. CASE \E e \in Execs : Execute(e)
  BY <1>2, ExecuteStep DEF ControlOK, BatchOK
<1>3. CASE UNCHANGED vars
  <2>1. Right' = Right
    BY <1>3 DEF vars, Right, ExecRight, RequestRight, FailedAlone, Alone
  <2> QED
    BY <1>3, <2>1 DEF LStep, vars
<1> QED
  BY <1>1, <1>2, <1>3, FaultStep DEF Next

LEMMA InitLifecycle == Init => Lifecycle!LifecycleInit
<1> SUFFICES ASSUME Init PROVE Lifecycle!LifecycleInit
  OBVIOUS
<1>1. \A p \in Procs : pc[p] = "idle"
  BY DEF Init
<1>2. Right = [p \in Procs |-> "none"]
  BY <1>1, ExecRightAt, RequestRightAt DEF Right, Procs
<1> QED
  BY <1>2, LifecycleProcs DEF Init, Lifecycle!LifecycleInit

\* Every behaviour of the run is one of RunLifecycle: for any number of
\* overlapping executions, requests and faults, on SQLite and on MySQL, the
\* status changes only when a process uses a right it acquired, once.
THEOREM LifecycleCorrect == Spec => StatusLifecycle
<1>1. Init => BatchOK /\ RequestOK /\ Lifecycle!LifecycleInit
  BY InitBatchOK, InitRequestOK, InitLifecycle
<1>2. /\ TypeOK /\ ControlOK /\ RequestOK /\ BatchOK /\ [Next]_vars
      => RequestOK' /\ BatchOK' /\ [Lifecycle!LifecycleNext]_<<run.status, Right>>
  BY NextRequestOK, NextBatchOK, NextStep DEF LStep
<1> QED
  BY <1>1, <1>2, TypeCorrect, PTL DEF Spec, StatusLifecycle, Lifecycle!LifecycleSpec
=============================================================================
