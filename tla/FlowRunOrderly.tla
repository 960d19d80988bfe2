---------------------------- MODULE FlowRunOrderly ----------------------------
(***************************************************************************)
(* Orderly runs.  resume_run looks at the status only, not at whether an   *)
(* execution of the run is still alive: a resumption that overtakes one    *)
(* clears the history under it.  Here a resumption waits until nothing is  *)
(* at work, and then what an execution does on its own is what the         *)
(* database shows: proved for every instance, with cancellations at any    *)
(* time, workers lost, redeliveries and processes lost for good.           *)
(* At the end, for runs that nobody resumes: a cancellation is final.      *)
(***************************************************************************)
EXTENDS FlowRunOutcome

\* A process that writes the run, or that will be followed by one that does: a
\* message in the broker or unacknowledged, an execution, a pending dispatch.
AtWork(p) == pc[p] \in {"reset", "dispatch", "queued", "return"} \union ExecActive

\* A resumption clears the history of a failed or cancelled run, at which
\* nothing is at work.  The code checks the first half, earlier.
Orderly ==
  \A r \in Resumes : ResumeClear(r) => run.status \in Resumable /\ \A p \in Procs : ~AtWork(p)

OrderlySpec == Spec /\ [][Orderly]_vars

\* Without resumptions every behaviour is orderly.
LEMMA WithoutResumptions == ASSUME Resumes = {} PROVE Spec => OrderlySpec
<1>1. [Orderly]_vars
  BY DEF Orderly
<1> QED
  BY <1>1, PTL DEF OrderlySpec

-----------------------------------------------------------------------------
(***************************************************************************)
(* At most one process is at work.                                         *)
(***************************************************************************)
OneAtWork == \A p, q \in Procs : AtWork(p) /\ AtWork(q) => p = q
Untouched == pc[Creator] = "idle" => run.status = "none" /\ \A p \in Procs : pc[p] = "idle"

LEMMA InitAtWork == Init => OneAtWork /\ Untouched
BY DEF Init, OneAtWork, Untouched, AtWork, ExecActive, InFlow, InFailure, Procs, Requests

\* What a request does to the work in progress.
LEMMA RequestAtWork ==
  ASSUME TypeOK, NEW r \in Requests, Arrive(r) \/ Serve(r), ~Dispatch(r)
  PROVE  /\ \A q \in Procs \ {r} : pc'[q] = pc[q]
         /\ AtWork(r)' => AtWork(r) \/ CreateRun(r) \/ ResumeClear(r)
<1>r. r \in Procs /\ r \notin Execs
  BY ProcsAssumption DEF Procs
<1> USE DEF AtWork, ExecActive, InFlow, InFailure
<1>1. CASE MarkFlowRunFailed(r)
  <2>1. \A q \in Procs \ {r} : pc'[q] = pc[q]
    BY <1>1, <1>r, MarkFlowRunFailedFrame DEF Frame
  <2>2. pc[r] \in {"markFailed", "finalize", "finalizeCommit", "failEvent"}
    BY <1>1 DEF MarkFlowRunFailed, MarkFailed, SelectOpenTasks, FinalizeOpenTasks, FailEvent
  <2> QED
    BY <2>1, <2>2
<1>2. CASE CreateRun(r) \/ ResumeClear(r) \/ CancelRead(r) \/ ResumeRead(r)
  BY <1>2, <1>r DEF CreateRun, ResumeClear, CancelRead, ResumeRead, Go, TypeOK
<1>3. CASE DispatchFails(r) \/ CancelWrite(r) \/ CancelEvent(r) \/ ResumeReset(r)
  BY <1>3, <1>r DEF DispatchFails, CancelWrite, CancelEvent, ResumeReset, Go, TypeOK
<1> QED
  BY <1>1, <1>2, <1>3 DEF Arrive, Serve

\* What a fault does to it.
LEMMA FaultAtWork ==
  ASSUME TypeOK
  PROVE  /\ \A e \in Execs : WorkerLost(e) =>
              /\ AtWork(e) /\ ~AtWork(e)'
              /\ \E d \in Execs : /\ ~AtWork(d) /\ pc'[d] = "queued"
                                  /\ \A q \in Procs \ {d, e} : pc'[q] = pc[q]
         /\ \A e \in Execs : HardKill(e) =>
              AtWork(e) /\ ~AtWork(e)' /\ \A q \in Procs \ {e} : pc'[q] = pc[q]
         /\ ServerStops => \A p \in Procs : ~AtWork(p)' \/ pc'[p] = pc[p]
<1> USE DEF AtWork, ExecActive, InFlow, InFailure
<1>1. ASSUME NEW e \in Execs, WorkerLost(e)
      PROVE  /\ AtWork(e) /\ ~AtWork(e)'
             /\ \E d \in Execs : /\ ~AtWork(d) /\ pc'[d] = "queued"
                                 /\ \A q \in Procs \ {d, e} : pc'[q] = pc[q]
  <2>1. PICK d \in Execs : pc[d] = "idle" /\ pc' = [pc EXCEPT ![e] = "lost", ![d] = "queued"]
    BY <1>1 DEF WorkerLost
  <2>2. AtWork(e) /\ d # e /\ e \in Procs /\ d \in Procs
    BY <1>1, <2>1 DEF WorkerLost, Procs
  <2> QED
    BY <2>1, <2>2 DEF TypeOK
<1>2. ASSUME NEW e \in Execs, HardKill(e)
      PROVE  AtWork(e) /\ ~AtWork(e)' /\ \A q \in Procs \ {e} : pc'[q] = pc[q]
  BY <1>2 DEF HardKill, Go, TypeOK, Procs
<1>3. ServerStops => \A p \in Procs : ~AtWork(p)' \/ pc'[p] = pc[p]
  BY DEF ServerStops
<1> QED
  BY <1>1, <1>2, <1>3

LEMMA ExecuteAtWork ==
  ASSUME TypeOK, NEW e \in Execs, Execute(e)
  PROVE  AtWork(e) /\ \A q \in Procs \ {e} : pc'[q] = pc[q]
BY StepAt, ExecuteFrame DEF Frame, AtWork

LEMMA NextUntouched ==
  ASSUME TypeOK, Untouched, [Next]_vars PROVE Untouched'
<1> SUFFICES ASSUME pc'[Creator] = "idle"
             PROVE  run'.status = "none" /\ \A p \in Procs : pc'[p] = "idle"
  BY DEF Untouched
<1>c. Creator \in Requests /\ Creator \in Procs /\ Creator \notin Execs
  BY ProcsAssumption DEF Requests, Procs
<1>1. ASSUME NEW r \in Requests, Arrive(r) \/ Serve(r) PROVE FALSE
  <2>1. r # Creator
    BY <1>1, RequestFinalizes
  <2>2. pc[Creator] = "idle"
    BY <1>1, <1>c, <2>1, RequestFrame
  <2>3. run.status = "none" /\ pc[r] = "idle"
    BY <2>2 DEF Untouched, Procs
  <2> QED
    BY <1>1, <2>1, <2>3, RequestStepAt DEF CreateRun, CancelRead, ResumeRead
<1>2. ASSUME NEW e \in Execs, Execute(e) PROVE FALSE
  <2>1. pc[Creator] = "idle"
    BY <1>2, <1>c, ExecuteFrame DEF Frame
  <2> QED
    BY <1>2, <2>1, StepAt DEF Untouched, Procs, ExecActive, InFlow, InFailure
<1>3. CASE (\E e \in Execs : WorkerLost(e) \/ HardKill(e)) \/ ServerStops
  <2>1. pc[Creator] = "idle"
    BY <1>3, <1>c, FaultLeaves
  <2>2. \A p \in Procs : pc[p] = "idle"
    BY <2>1 DEF Untouched
  <2> QED
    BY <1>3, <2>2 DEF WorkerLost, HardKill, ServerStops, Server, Procs, ExecActive, InFlow, InFailure
<1>4. CASE UNCHANGED vars
  BY <1>4 DEF vars, Untouched
<1> QED
  BY <1>1, <1>2, <1>3, <1>4 DEF Next

LEMMA NextOneAtWork ==
  ASSUME TypeOK, OneAtWork, Untouched, [Next]_vars, Orderly PROVE OneAtWork'
<1> SUFFICES ASSUME NEW p \in Procs, NEW q \in Procs, AtWork(p)', AtWork(q)' PROVE p = q
  BY DEF OneAtWork
<1>a. \A s \in Procs : pc'[s] = pc[s] => (AtWork(s)' <=> AtWork(s))
  BY DEF AtWork
<1>i. ASSUME \A s \in Procs : pc[s] = "idle" PROVE \A s \in Procs : ~AtWork(s)
  BY <1>i DEF AtWork, ExecActive, InFlow, InFailure
<1>1. ASSUME NEW r \in Requests, Arrive(r) \/ Serve(r) PROVE p = q
  <2>r. r \in Procs
    BY DEF Procs
  <2>1. CASE Dispatch(r)
    <3>1. PICK e \in Execs : pc[e] = "idle" /\ pc' = [pc EXCEPT ![r] = "done", ![e] = "queued"]
      BY <2>1 DEF Dispatch
    <3>2. r # e /\ e \in Procs /\ AtWork(r)
      BY <2>1, ProcsAssumption DEF Procs, Dispatch, AtWork
    <3>3. \A s \in Procs \ {r, e} : ~AtWork(s)'
      BY <3>1, <3>2, <2>r, <1>a DEF OneAtWork, TypeOK
    <3>4. ~AtWork(r)'
      BY <3>1, <3>2, <2>r DEF TypeOK, AtWork, ExecActive, InFlow, InFailure
    <3> QED
      BY <3>3, <3>4
  <2>2. CASE ~Dispatch(r)
    <3>1. \A s \in Procs \ {r} : AtWork(s)' => AtWork(s)
      BY <1>1, <2>2, <1>a, RequestAtWork
    <3>2. CASE AtWork(r)' /\ ~AtWork(r)
      <4>1. CreateRun(r) \/ ResumeClear(r)
        BY <1>1, <2>2, <3>2, RequestAtWork
      <4>2. \A s \in Procs : ~AtWork(s)
        BY <4>1, <1>i DEF CreateRun, ResumeClear, Untouched, Orderly
      <4> QED
        BY <3>1, <4>2
    <3>3. CASE AtWork(r)' => AtWork(r)
      BY <3>1, <3>3 DEF OneAtWork
    <3> QED
      BY <3>2, <3>3
  <2> QED
    BY <2>1, <2>2
<1>2. ASSUME NEW e \in Execs, Execute(e) PROVE p = q
  BY <1>2, <1>a, ExecuteAtWork DEF OneAtWork, Procs
<1>3. ASSUME NEW e \in Execs, WorkerLost(e) PROVE p = q
  <2>e. e \in Procs
    BY DEF Procs
  <2>1. PICK d \in Execs : /\ ~AtWork(d) /\ pc'[d] = "queued"
                           /\ \A s \in Procs \ {d, e} : pc'[s] = pc[s]
    BY <1>3, FaultAtWork
  <2>2. AtWork(e) /\ ~AtWork(e)'
    BY <1>3, FaultAtWork
  <2>3. \A s \in Procs \ {d, e} : ~AtWork(s)'
    BY <2>1, <2>2, <2>e, <1>a DEF OneAtWork
  <2> QED
    BY <2>2, <2>3
<1>4. ASSUME NEW e \in Execs, HardKill(e) PROVE p = q
  BY <1>4, <1>a, FaultAtWork DEF OneAtWork, Procs
<1>5. CASE ServerStops
  BY <1>5, <1>a, FaultAtWork DEF OneAtWork
<1>6. CASE UNCHANGED vars
  BY <1>6, <1>a DEF OneAtWork, vars
<1> QED
  BY <1>1, <1>2, <1>3, <1>4, <1>5, <1>6 DEF Next

-----------------------------------------------------------------------------
(***************************************************************************)
(* What the process at work notices of the others: a cancellation that is  *)
(* written under it, and nothing else.                                     *)
(***************************************************************************)
Undisturbed(p) ==
  /\ pc'[p] = pc[p] /\ sess'[p] = sess[p] /\ (p \in Execs => work'[p] = work[p])
  /\ rows' = rows /\ lastRow' = lastRow /\ artifacts' = artifacts /\ engine' = engine
  /\ run'.outputs = run.outputs /\ run'.status \in {run.status, "CANCELLED"}

LEMMA WorksAlone ==
  ASSUME TypeOK, RequestOK, OneAtWork, Untouched, [Next]_vars, Orderly,
         NEW p \in Procs, AtWork(p)
  PROVE  \/ Undisturbed(p)
         \/ p \in Execs /\ Execute(p)
         \/ p \in Requests /\ Serve(p)
         \/ pc'[p] = "lost"
<1>i. pc[p] # "idle" /\ pc[Creator] # "idle"
  BY DEF AtWork, ExecActive, InFlow, InFailure, Untouched
<1>o. \A q \in Procs : AtWork(q) => q = p
  BY DEF OneAtWork
<1>1. ASSUME NEW r \in Requests, Arrive(r) \/ Serve(r), r # p PROVE Undisturbed(p)
  <2>r. r \in Procs /\ ~AtWork(r)
    BY <1>o, <1>1 DEF Procs
  <2>1. pc[r] \in {"idle", "cancel", "cancelRequested", "clear"}
    BY <1>1, <2>r, RequestStepAt DEF AtWork, RequestActive, ExecActive, InFlow, InFailure
  <2>2. ~CreateRun(r) /\ ~ResumeClear(r)
    BY <1>i DEF CreateRun, ResumeClear, Orderly
  <2>3. CancelRead(r) \/ ResumeRead(r) \/ CancelWrite(r) \/ CancelEvent(r)
    BY <1>1, <2>1, <2>2, RequestStepAt
  <2>4. pc'[p] = pc[p] /\ sess'[p] = sess[p] /\ work' = work /\ engine' = engine
    BY <1>1, <1>i, RequestFrame DEF faults
  <2>5. rows' = rows /\ lastRow' = lastRow /\ artifacts' = artifacts
    BY <2>3 DEF CancelRead, ResumeRead, CancelWrite, CancelEvent, db
  <2>6. CASE CancelWrite(r)
    <3>1. run'.outputs = run.outputs /\ run'.status = StatusAfter(r, "CANCELLED")
      BY <2>6 DEF CancelWrite, TypeOK, RunRow
    <3> QED
      BY <2>4, <2>5, <3>1 DEF Undisturbed, StatusAfter
  <2>7. CASE CancelRead(r) \/ ResumeRead(r) \/ CancelEvent(r)
    <3>1. run' = run
      BY <2>7 DEF CancelRead, ResumeRead, CancelEvent, db
    <3> QED
      BY <2>4, <2>5, <3>1 DEF Undisturbed
  <2> QED
    BY <2>3, <2>6, <2>7
<1>2. ASSUME NEW r \in Requests, Arrive(r), r = p PROVE FALSE
  BY <1>2, <1>i DEF Arrive, CreateRun, CancelRead, ResumeRead
<1>3. ASSUME NEW e \in Execs, Execute(e) PROVE e = p
  BY <1>3, <1>o, ExecuteAtWork DEF Procs
<1>4. ASSUME NEW e \in Execs, WorkerLost(e) \/ HardKill(e) PROVE pc'[p] = "lost"
  <2>1. e = p
    BY <1>4, <1>o, FaultAtWork DEF Procs
  <2>2. ASSUME WorkerLost(e) PROVE pc'[e] = "lost"
    <3>1. PICK d \in Execs : pc[d] = "idle" /\ pc' = [pc EXCEPT ![e] = "lost", ![d] = "queued"]
      BY <2>2 DEF WorkerLost
    <3> QED
      BY <2>1, <1>i, <3>1 DEF TypeOK
  <2>3. ASSUME HardKill(e) PROVE pc'[e] = "lost"
    BY <2>3, <2>1 DEF HardKill, Go, TypeOK
  <2> QED
    BY <1>4, <2>1, <2>2, <2>3
<1>5. CASE ServerStops
  <2>1. CASE p \in Server
    <3>1. pc[p] # "done"
      BY DEF AtWork, ExecActive, InFlow, InFailure
    <3> QED
      BY <1>5, <1>i, <2>1, <3>1 DEF ServerStops
  <2>2. CASE p \notin Server
    BY <1>5, <2>2 DEF ServerStops, Undisturbed, db
  <2> QED
    BY <2>1, <2>2
<1>6. CASE UNCHANGED vars
  BY <1>6 DEF vars, Undisturbed
<1> QED
  BY <1>1, <1>2, <1>3, <1>4, <1>5, <1>6 DEF Next

\* An execution that comes to work is a message that has just been queued.
LEMMA ComesToWork ==
  ASSUME TypeOK, ControlOK', [Next]_vars, NEW e \in Execs, AtWork(e)', ~AtWork(e)
  PROVE  pc'[e] = "queued" /\ work'[e] = NoWork
<1>e. e \in Procs /\ e \notin Requests
  BY ProcsAssumption DEF Procs
<1>a. pc'[e] # pc[e]
  BY DEF AtWork
<1>1. ASSUME NEW r \in Requests, Arrive(r) \/ Serve(r) PROVE pc'[e] = "queued"
  BY <1>1, <1>e, <1>a, RequestFrame
<1>2. ASSUME NEW d \in Execs, Execute(d) PROVE FALSE
  BY <1>2, <1>e, <1>a, ExecuteAtWork
<1>3. ASSUME (\E d \in Execs : WorkerLost(d) \/ HardKill(d)) \/ ServerStops
      PROVE  pc'[e] = "queued"
  <2>1. pc'[e] \in {"lost", "done", "queued"} \/ pc'[e] = "idle"
    BY <1>3, <1>e, <1>a, FaultLeaves
  <2> QED
    BY <2>1 DEF AtWork, ExecActive, InFlow, InFailure
<1>4. ~UNCHANGED vars
  BY <1>a DEF vars
<1>5. pc'[e] = "queued"
  BY <1>1, <1>2, <1>3, <1>4 DEF Next
<1> QED
  BY <1>5 DEF ControlOK, WorkOK

-----------------------------------------------------------------------------
(***************************************************************************)
(* Rows.  The execution at work finds its rows as it left them, and a row  *)
(* that has ended stays as it is.                                          *)
(***************************************************************************)
Held(e) == \A s \in Stages : work[e].row[s] # 0 =>
             /\ Present(work[e].row[s])
             /\ rows[work[e].row[s]].by = e /\ rows[work[e].row[s]].stage = s
HeldRows == \A e \in Execs : AtWork(e) => Held(e)

Open(i) == i \in RowIds /\ rows[i].status = "RUNNING"
OpenInHand == {"saveTask", "stageFailed", "cancelTask", "failTask"}
StillOpen(e) ==
  /\ pc[e] \in Preparing => \A s \in Batches[work[e].batch] \ work[e].todo : Open(work[e].row[s])
  /\ pc[e] \in {"prepRun", "prepEvent"} \union OpenInHand => Open(RowInHand(e))
  /\ pc[e] \in {"wait"} \union Settling =>
       \A s \in work[e].todo : pc[e] = "wait" \/ s # work[e].stage => Open(work[e].row[s])
OpenRowsHeld == \A e \in Execs : StillOpen(e)

\* The tasks that mark_flow_run_failed has selected are still unfinished.
SelectedOpen(p) ==
  (pc[p] = "finalize" /\ MySQL) \/ pc[p] = "finalizeCommit" => \A i \in sess[p].open : Open(i)
SelectionOK == \A p \in Procs : SelectedOpen(p)

\* A task that has ended keeps its row, and every task its stage.
RowsAdvance ==
  \A i \in RowIds : Present(i) =>
    /\ rows'[i].stage = rows[i].stage /\ rows'[i].by = rows[i].by /\ Present(i)'
    /\ ~Open(i) => rows'[i] = rows[i]

LEMMA SetRowAdvances ==
  ASSUME TypeOK, NEW e \in Execs, NEW t \in TaskStatus \ {"absent"}, Open(RowInHand(e)), SetRow(e, t)
  PROVE  /\ RowsAdvance
         /\ \A i \in RowIds : i # RowInHand(e) => rows'[i] = rows[i]
         /\ rows'[RowInHand(e)] = [rows[RowInHand(e)] EXCEPT !.status = t]
<1>1. RowInHand(e) \in RowIds /\ rows[RowInHand(e)] \in TaskRow
  BY DEF Open, TypeOK
<1>2. \A i \in RowIds : i # RowInHand(e) => rows'[i] = rows[i]
  BY DEF SetRow, TypeOK
<1>3. rows'[RowInHand(e)] = [rows[RowInHand(e)] EXCEPT !.status = t]
  BY <1>1 DEF SetRow, TypeOK
<1> QED
  BY <1>1, <1>2, <1>3 DEF RowsAdvance, Present, TaskRow, Open

LEMMA SameRowsAdvance == ASSUME rows' = rows PROVE RowsAdvance
BY DEF RowsAdvance, Present

LEMMA FinalizeAdvances ==
  ASSUME TypeOK, NEW p \in Procs, SelectedOpen(p), MarkFlowRunFailed(p) PROVE RowsAdvance
<1>1. CASE FinalizeOpenTasks(p)
  <2>1. CASE rows' = rows
    BY <2>1, SameRowsAdvance
  <2>2. CASE rows' # rows
    <3>1. rows' = [i \in RowIds |-> IF i \in sess[p].open THEN [rows[i] EXCEPT !.status = "FAILED"]
                                                         ELSE rows[i]]
      BY <1>1, <2>2 DEF FinalizeOpenTasks
    <3>2. \A i \in sess[p].open : Open(i)
      BY <1>1 DEF FinalizeOpenTasks, SelectedOpen
    <3>3. \A i \in RowIds : rows[i] \in TaskRow
      BY DEF TypeOK
    <3> QED
      BY <3>1, <3>2, <3>3 DEF RowsAdvance, Present, TaskRow
  <2> QED
    BY <2>1, <2>2
<1>2. CASE MarkFailed(p) \/ SelectOpenTasks(p) \/ FailEvent(p)
  BY <1>2, SameRowsAdvance DEF MarkFailed, SelectOpenTasks, FailEvent, db
<1> QED
  BY <1>1, <1>2 DEF MarkFlowRunFailed

\* The task that an execution creates, and what it does to its flow object.
Created(e, s, n) ==
  /\ s \in work[e].todo /\ s \in Stages /\ n \in RowIds /\ n = lastRow + 1 /\ pc'[e] = "prepRun"
  /\ rows'[n] = [by |-> e, stage |-> s, status |-> "RUNNING"]
  /\ \A i \in RowIds : i # n => rows'[i] = rows[i]
  /\ work'[e].stage = s /\ work'[e].todo = work[e].todo /\ work'[e].batch = work[e].batch
  /\ work'[e].done = work[e].done /\ work'[e].failed = work[e].failed
  /\ \A t \in Stages : work'[e].row[t] = IF t = s THEN n ELSE work[e].row[t]

LEMMA TaskCreated ==
  ASSUME TypeOK, NEW e \in Execs, CreateTask(e) PROVE \E s, n : Created(e, s, n)
<1>1. PICK s \in work[e].todo :
        /\ rows' = [rows EXCEPT ![lastRow + 1] = [by |-> e, stage |-> s, status |-> "RUNNING"]]
        /\ work' = [work EXCEPT ![e].stage = s, ![e].row[s] = lastRow + 1]
  BY DEF CreateTask
<1>2. lastRow + 1 \in RowIds
  <2>1. lastRow < MaxRows
    BY DEF CreateTask
  <2> QED
    BY <2>1, BoundsAssumption DEF TypeOK, RowIds
<1>3. s \in Stages
  BY DEF TypeOK, Work
<1>4. pc'[e] = "prepRun"
  BY DEF CreateTask, Go, TypeOK, Procs
<1>n. PICK n \in RowIds : n = lastRow + 1
  BY <1>2
<1>5. /\ rows'[n] = [by |-> e, stage |-> s, status |-> "RUNNING"]
      /\ \A i \in RowIds : i # n => rows'[i] = rows[i]
  BY <1>1, <1>n DEF TypeOK
<1>w. work \in [Execs -> Work] /\ work[e] \in Work
  BY DEF TypeOK
<1>6. /\ work'[e].stage = s /\ work'[e].todo = work[e].todo /\ work'[e].batch = work[e].batch
      /\ work'[e].done = work[e].done /\ work'[e].failed = work[e].failed
  BY <1>1, <1>w DEF Work
<1>7. \A t \in Stages : work'[e].row[t] = IF t = s THEN n ELSE work[e].row[t]
  BY <1>1, <1>w, <1>n DEF Work
<1>8. Created(e, s, n)
  BY <1>n, <1>3, <1>4, <1>5, <1>6, <1>7 DEF Created
<1> QED
  BY <1>8

\* Settling the stage in hand.
LEMMA SettleFacts ==
  ASSUME TypeOK, NEW e \in Execs, NEW f \in BOOLEAN, Settle(e, f)
  PROVE  /\ work'[e].todo = work[e].todo \ {work[e].stage} /\ work'[e].stage = None
         /\ work'[e].row = work[e].row /\ work'[e].done = work[e].done
         /\ work'[e].failed = (work[e].failed \/ f)
         /\ \/ work'[e].todo # {} /\ pc'[e] = "wait" /\ work'[e].batch = work[e].batch
            \/ /\ work'[e].todo = {} /\ (work[e].failed \/ f)
               /\ pc'[e] = "handler" /\ work'[e].batch = work[e].batch
            \/ /\ work'[e].todo = {} /\ ~(work[e].failed \/ f)
               /\ pc'[e] = "loop" /\ work'[e].batch = work[e].batch + 1
<1> DEFINE left   == work[e].todo \ {work[e].stage}
           failed == work[e].failed \/ f
<1>1. work' = [work EXCEPT ![e].todo = left, ![e].stage = None, ![e].failed = failed,
                           ![e].batch = IF left = {} /\ ~failed THEN @ + 1 ELSE @]
  BY DEF Settle
<1>2. pc'[e] = IF left # {} THEN "wait" ELSE IF failed THEN "handler" ELSE "loop"
  BY DEF Settle, Go, TypeOK, Procs
<1>w. work \in [Execs -> Work] /\ work[e] \in Work
  BY DEF TypeOK
<1> HIDE DEF left, failed
<1>3. /\ work'[e].todo = left /\ work'[e].stage = None /\ work'[e].row = work[e].row
      /\ work'[e].done = work[e].done /\ work'[e].failed = failed
      /\ work'[e].batch = IF left = {} /\ ~failed THEN work[e].batch + 1 ELSE work[e].batch
  BY <1>1, <1>w DEF Work
<1> QED
  BY <1>2, <1>3 DEF left, failed

LEMMA ExecuteAdvances ==
  ASSUME TypeOK, RowsOK, NEW e \in Execs, StillOpen(e), SelectedOpen(e), Execute(e)
  PROVE  RowsAdvance
<1>1. CASE MarkFlowRunFailed(e)
  BY <1>1, FinalizeAdvances DEF Procs
<1>2. CASE (SaveTask(e) \/ CancelTask(e) \/ FailTask(e)) /\ Present(RowInHand(e))
  <2>1. Open(RowInHand(e))
    BY <1>2 DEF SaveTask, CancelTask, FailTask, StillOpen, OpenInHand
  <2> QED
    BY <1>2, <2>1, SetRowAdvances DEF SaveTask, CancelTask, FailTask, TaskStatus
<1>3. CASE CreateTask(e)
  <2>1. PICK s, n : Created(e, s, n)
    BY <1>3, TaskCreated
  <2>2. n \in RowIds /\ n > lastRow /\ \A i \in RowIds : i # n => rows'[i] = rows[i]
    BY <2>1, BoundsAssumption DEF Created, TypeOK, RowIds
  <2>3. ~Present(n)
    BY <2>2 DEF RowsOK
  <2> QED
    BY <2>2, <2>3 DEF RowsAdvance, Present
<1>4. CASE Abandon(e)
  BY <1>4, SameRowsAdvance DEF Abandon, db
<1>5. CASE \/ Load(e) \/ Handler(e) \/ Acknowledge(e) \/ EmitStarted(e) \/ NextBatch(e)
           \/ EmitCancelled(e) \/ EmitFlowCompleted(e) \/ StageReturns(e)
           \/ SoftTimeLimit(e) \/ PrepareFails(e) \/ RefreshAfterFailure(e) \/ EmitFlowCancelled(e)
  BY <1>5, SameRowsAdvance
  DEF Load, Handler, Acknowledge, EmitStarted, NextBatch, EmitCancelled, EmitFlowCompleted,
      StageReturns, SoftTimeLimit, PrepareFails, RefreshAfterFailure, EmitFlowCancelled, db
<1>6. CASE MarkRunning(e) \/ MarkStage(e) \/ SaveState(e) \/ CompleteRun(e) \/ FailRun(e)
  BY <1>6, SameRowsAdvance DEF MarkRunning, MarkStage, SaveState, CompleteRun, FailRun
<1>7. CASE /\ Referable(e)
           /\ \/ EmitTaskStarted(e) \/ CreateArtifact(e) \/ EmitTaskCompleted(e)
              \/ EmitTaskCancelled(e) \/ EmitTaskFailed(e)
  BY <1>7, SameRowsAdvance
  DEF EmitTaskStarted, CreateArtifact, EmitTaskCompleted, EmitTaskCancelled, EmitTaskFailed
<1>8. \/ EmitTaskStarted(e) \/ CreateArtifact(e) \/ EmitTaskCompleted(e)
      \/ EmitTaskCancelled(e) \/ EmitTaskFailed(e)
      => Referable(e) \/ Abandon(e)
  BY DEF EmitTaskStarted, CreateArtifact, EmitTaskCompleted, EmitTaskCancelled, EmitTaskFailed
<1>9. SaveTask(e) \/ CancelTask(e) \/ FailTask(e) => Present(RowInHand(e)) \/ Abandon(e)
  BY DEF SaveTask, CancelTask, FailTask
<1> QED
  BY <1>1, <1>2, <1>3, <1>4, <1>5, <1>6, <1>7, <1>8, <1>9 DEF Execute

LEMMA ExecuteHeld ==
  ASSUME TypeOK, TypeOK', RowsOK, NEW e \in Execs, Held(e), RowsAdvance, Execute(e)
  PROVE  Held(e)'
<1>1. CASE work'[e] = NoWork
  BY <1>1 DEF Held, NoWork
<1>2. CASE work'[e].row = work[e].row
  <2> SUFFICES ASSUME NEW s \in Stages, (work[e].row[s] # 0)'
               PROVE  (/\ Present(work[e].row[s])
                       /\ rows[work[e].row[s]].by = e /\ rows[work[e].row[s]].stage = s)'
    BY DEF Held
  <2> QED
    BY <1>2 DEF Held, RowsAdvance, Present
<1>3. CASE CreateTask(e)
  <2>1. PICK s, n : Created(e, s, n)
    BY <1>3, TaskCreated
  <2> SUFFICES ASSUME NEW t \in Stages, (work[e].row[t] # 0)'
               PROVE  (/\ Present(work[e].row[t])
                       /\ rows[work[e].row[t]].by = e /\ rows[work[e].row[t]].stage = t)'
    BY DEF Held
  <2>2. CASE t = s
    BY <2>1, <2>2 DEF Created, Present
  <2>3. CASE t # s
    <3>1. work'[e].row[t] = work[e].row[t]
      BY <2>1, <2>3 DEF Created
    <3> QED
      BY <3>1 DEF Held, RowsAdvance, Present
  <2> QED
    BY <2>2, <2>3
<1> QED
  BY <1>1, <1>2, <1>3, ExecuteRowIds

\* The rows of two stages of one flow object are different rows.
LEMMA RowsDiffer ==
  ASSUME NEW e \in Execs, Held(e), NEW s \in Stages, NEW t \in Stages, s # t, work[e].row[s] # 0,
         work[e].row[t] # 0
  PROVE  work[e].row[s] # work[e].row[t]
BY DEF Held

LEMMA ExecuteStillOpen ==
  ASSUME TypeOK, RowsOK, NEW e \in Execs, WorkOK(e), AloneOK(e), Held(e), StillOpen(e), Execute(e)
  PROVE  StillOpen(e)'
<1> USE DEF Preparing, Settling, OpenInHand
<1>e. e \in Procs /\ pc \in [Procs -> PC] /\ work \in [Execs -> Work] /\ work[e] \in Work
  BY DEF Procs, TypeOK
<1>n. None \notin Stages
  BY ProcsAssumption
<1>o. ASSUME pc'[e] \notin Preparing \union {"wait"} \union Settling PROVE StillOpen(e)'
  BY <1>o DEF StillOpen
<1>s. ASSUME rows' = rows, work'[e] = work[e], pc[e] \in Settling, pc'[e] \in Settling,
             pc'[e] \in OpenInHand => pc[e] \in OpenInHand
      PROVE  StillOpen(e)'
  BY <1>s DEF StillOpen, Open, RowInHand
<1>1. CASE Abandon(e) \/ Over(e)
  BY <1>1, <1>o, <1>e DEF Abandon, Over, Go
<1>2. CASE \/ Load(e) \/ Acknowledge(e) \/ MarkRunning(e) \/ EmitStarted(e)
           \/ CompleteRun(e) \/ SoftTimeLimit(e) \/ PrepareFails(e) \/ MarkFailed(e) \/ SelectOpenTasks(e)
  BY <1>2, <1>o, <1>e DEF Load, Acknowledge, MarkRunning, EmitStarted, CompleteRun, SoftTimeLimit, PrepareFails,
                          MarkFailed, SelectOpenTasks, Go
<1>3. CASE \/ Handler(e) \/ EmitCancelled(e) \/ EmitFlowCompleted(e) \/ FinalizeOpenTasks(e)
           \/ FailEvent(e)
  <2>1. Over(e) \/ pc'[e] \in {"markFailed", "failEvent"}
    BY <1>3, <1>e DEF Handler, EmitCancelled, EmitFlowCompleted, FinalizeOpenTasks, FailEvent, Go
  <2> QED
    BY <2>1, <1>1, <1>o
<1>4. CASE NextBatch(e)
  <2>1. CASE pc'[e] = "cancelEvent"
    BY <2>1, <1>o
  <2>2. CASE pc'[e] # "cancelEvent"
    <3>1. pc'[e] = "prepare" /\ work'[e].todo = Batches[work[e].batch] /\ work'[e].batch = work[e].batch
      BY <1>4, <2>2, <1>e DEF NextBatch, Go, Work
    <3> QED
      BY <3>1 DEF StillOpen
  <2> QED
    BY <2>1, <2>2
<1>5. CASE CreateTask(e)
  <2>1. PICK s, n : Created(e, s, n)
    BY <1>5, TaskCreated
  <2>p. pc[e] = "prepare"
    BY <1>5 DEF CreateTask
  <2>2. ~Present(n) /\ n \in RowIds
    BY <2>1, BoundsAssumption DEF Created, RowsOK, RowIds, TypeOK
  <2>3. \A i : Open(i) => Open(i)'
    BY <2>1, <2>2 DEF Created, Open, Present
  <2>4. Open(RowInHand(e))'
    BY <2>1 DEF Created, Open, RowInHand
  <2>5. ASSUME NEW t \in Batches[work[e].batch] \ work[e].todo PROVE Open(work[e].row[t])'
    <3>1. t \in Stages /\ t # s /\ Open(work[e].row[t])
      BY <2>1, <2>p, <2>5, BatchIsStages DEF StillOpen, Created, WorkOK
    <3>2. work'[e].row[t] = work[e].row[t]
      BY <2>1, <3>1 DEF Created
    <3> QED
      BY <3>1, <3>2, <2>3 DEF Open
  <2>6. pc'[e] = "prepRun" /\ work'[e].batch = work[e].batch /\ work'[e].todo = work[e].todo
    BY <2>1 DEF Created
  <2> QED
    BY <2>4, <2>5, <2>6 DEF StillOpen, Open
<1>6. CASE MarkStage(e)
  <2>1. pc[e] = "prepRun" /\ pc'[e] = "prepEvent" /\ work' = work /\ rows' = rows
    BY <1>6, <1>e DEF MarkStage, Go
  <2> QED
    BY <2>1 DEF StillOpen, Open, RowInHand
<1>7. CASE EmitTaskStarted(e) /\ Referable(e)
  <2> DEFINE left == work[e].todo \ {work[e].stage}
             batch == Batches[work[e].batch]
  <2>1. /\ pc[e] = "prepEvent" /\ rows' = rows
        /\ pc'[e] = (IF left = {} THEN "wait" ELSE "prepare")
        /\ work'[e].todo = (IF left = {} THEN batch ELSE left) /\ work'[e].stage = None
        /\ work'[e].batch = work[e].batch /\ work'[e].row = work[e].row
    BY <1>7, <1>e DEF EmitTaskStarted, Go, Work
  <2>2. \A s \in batch \ left : Open(work[e].row[s])
    BY <2>1 DEF StillOpen, RowInHand
  <2>3. \A i : Open(i) => Open(i)'
    BY <2>1 DEF Open
  <2> QED
    BY <2>1, <2>2, <2>3 DEF StillOpen, Open
<1>8. CASE StageReturns(e)
  <2>1. /\ pc[e] = "wait" /\ pc'[e] \in {"saveTask", "stageFailed"} /\ rows' = rows
        /\ work'[e].stage \in work[e].todo /\ work'[e].todo = work[e].todo
        /\ work'[e].row = work[e].row
    BY <1>8, <1>e DEF StageReturns, Go, Work, db
  <2>2. \A s \in work[e].todo : Open(work[e].row[s])
    BY <2>1 DEF StillOpen
  <2> QED
    BY <2>1, <2>2 DEF StillOpen, Open, RowInHand
<1>9. CASE (SaveTask(e) \/ CancelTask(e) \/ FailTask(e)) /\ Present(RowInHand(e))
  <2>1. /\ pc[e] \in OpenInHand /\ pc[e] \in Settling
        /\ pc'[e] \in Settling \ OpenInHand
        /\ work'[e].stage = work[e].stage /\ work'[e].todo = work[e].todo
        /\ work'[e].row = work[e].row
    BY <1>9, <1>e DEF SaveTask, CancelTask, FailTask, Go, Work
  <2>2. \A i \in RowIds : i # RowInHand(e) => rows'[i] = rows[i]
    BY <1>9, <2>1, SetRowAdvances DEF StillOpen, SaveTask, CancelTask, FailTask, TaskStatus
  <2>3. ASSUME NEW s \in work[e].todo, s # work[e].stage PROVE Open(work[e].row[s])'
    <3>1. Open(work[e].row[s]) /\ work[e].row[s] # RowInHand(e)
      BY <2>1, <2>3, <1>e, RowsDiffer DEF StillOpen, WorkOK, RowInHand, Work
    <3> QED
      BY <3>1, <2>1, <2>2 DEF Open
  <2> QED
    BY <2>1, <2>3 DEF StillOpen, Open
<1>10. CASE \/ (CreateArtifact(e) \/ EmitTaskCancelled(e)) /\ Referable(e)
            \/ SaveState(e) \/ RefreshAfterFailure(e) \/ FailRun(e)
  <2>1. rows' = rows /\ work' = work
    BY <1>10 DEF CreateArtifact, SaveState, RefreshAfterFailure, EmitTaskCancelled, FailRun, db
  <2>2. pc[e] \in Settling /\ pc'[e] \in Settling /\ (pc'[e] \in OpenInHand => pc[e] \in OpenInHand)
    BY <1>10, <1>e DEF CreateArtifact, SaveState, RefreshAfterFailure, EmitTaskCancelled, FailRun, Go
  <2> QED
    BY <2>1, <2>2, <1>s
<1>11. CASE \/ EmitFlowCancelled(e)
            \/ (EmitTaskCompleted(e) \/ EmitTaskFailed(e)) /\ Referable(e)
  <2>1. (Settle(e, FALSE) \/ Settle(e, TRUE)) /\ rows' = rows /\ pc[e] \in Settling
    BY <1>11 DEF EmitFlowCancelled, EmitTaskCompleted, EmitTaskFailed
  <2>2. /\ work'[e].todo = work[e].todo \ {work[e].stage} /\ work'[e].row = work[e].row
        /\ pc'[e] \in {"wait", "handler", "loop"}
    BY <2>1, SettleFacts
  <2> QED
    BY <2>1, <2>2 DEF StillOpen, Open
<1>b. \/ EmitTaskStarted(e) \/ CreateArtifact(e) \/ EmitTaskCompleted(e)
      \/ EmitTaskCancelled(e) \/ EmitTaskFailed(e)
      => Referable(e) \/ Abandon(e)
  BY DEF EmitTaskStarted, CreateArtifact, EmitTaskCompleted, EmitTaskCancelled, EmitTaskFailed
<1>d. SaveTask(e) \/ CancelTask(e) \/ FailTask(e) => Present(RowInHand(e)) \/ Abandon(e)
  BY DEF SaveTask, CancelTask, FailTask
<1> QED
  BY <1>1, <1>2, <1>3, <1>4, <1>5, <1>6, <1>7, <1>8, <1>9, <1>10, <1>11, <1>b, <1>d
  DEF Execute, MarkFlowRunFailed

LEMMA FailureSelects ==
  ASSUME TypeOK, NEW p \in Procs, SelectedOpen(p), MarkFlowRunFailed(p), engine' = engine
  PROVE  SelectedOpen(p)'
<1>1. CASE MarkFailed(p)
  <2>1. /\ pc'[p] = "finalize" /\ rows' = rows
        /\ MySQL => sess'[p].open = OpenRows
    BY <1>1 DEF MarkFailed, Go, TypeOK
  <2> QED
    BY <1>1, <2>1 DEF SelectedOpen, Open, OpenRows, OpenTask, MySQL
<1>2. CASE SelectOpenTasks(p)
  <2> DEFINE open == IF MySQL THEN sess[p].open ELSE OpenRows
  <2>1. /\ sess' = [sess EXCEPT ![p].open = open] /\ rows' = rows /\ pc[p] = "finalize"
        /\ pc'[p] # "finalize"
    BY <1>2 DEF SelectOpenTasks, Go, TypeOK, db
  <2>2. sess'[p].open = open
    BY <2>1 DEF TypeOK, Session
  <2>3. \A i \in open : Open(i)
    BY <2>1 DEF SelectedOpen, Open, OpenRows, OpenTask
  <2> QED
    BY <2>1, <2>2, <2>3 DEF SelectedOpen, Open
<1>3. CASE FinalizeOpenTasks(p) \/ FailEvent(p)
  <2>1. pc'[p] \in {"failEvent", "return", "done"}
    BY <1>3 DEF FinalizeOpenTasks, FailEvent, Over, Go, TypeOK
  <2> QED
    BY <2>1 DEF SelectedOpen
<1> QED
  BY <1>1, <1>2, <1>3 DEF MarkFlowRunFailed

\* What the invariants of an orderly run rest on.
Base ==
  /\ TypeOK /\ ControlOK /\ BatchOK /\ RequestOK /\ RowsOK
  /\ OneAtWork /\ Untouched

LEMMA NextBase == ASSUME Base, [Next]_vars, Orderly PROVE Base'
BY NextTypeOK, NextControlOK, NextBatchOK, NextRequestOK, NextRowsOK, NextOneAtWork, NextUntouched
DEF Base

\* What a step is to an execution: it is not at work afterwards, or has just
\* been queued, or nobody disturbs it, or it takes the step itself.
LEMMA StepsOfRun ==
  ASSUME Base, Base', [Next]_vars, Orderly, NEW e \in Execs
  PROVE  \/ ~AtWork(e)'
         \/ pc'[e] = "queued" /\ work'[e] = NoWork
         \/ AtWork(e) /\ Undisturbed(e)
         \/ AtWork(e) /\ Execute(e)
<1>e. e \in Procs /\ e \notin Requests
  BY ProcsAssumption DEF Procs
<1>1. CASE ~AtWork(e)
  BY <1>1, ComesToWork DEF Base
<1>2. CASE AtWork(e)
  <2>1. pc'[e] = "lost" => ~AtWork(e)'
    BY DEF AtWork, ExecActive, InFlow, InFailure
  <2> QED
    BY <1>2, <1>e, <2>1, WorksAlone DEF Base
<1> QED
  BY <1>1, <1>2

RowsInv == HeldRows /\ OpenRowsHeld /\ SelectionOK

\* A process in mark_flow_run_failed was there already, or enters it on its own.
LEMMA FinalizesItself ==
  ASSUME Base, Base', [Next]_vars, Orderly, NEW p \in Procs, pc'[p] \in {"finalize", "finalizeCommit"}
  PROVE  Undisturbed(p) \/ MarkFlowRunFailed(p)
<1>a. AtWork(p)'
  BY DEF AtWork, ExecActive, InFailure
<1>1. CASE p \in Execs
  BY <1>1, StepsOfRun, ExecuteFinalizes, <1>a DEF Base
<1>2. CASE p \in Requests
  <2>1. CASE AtWork(p)
    BY <1>2, <2>1, WorksAlone, RequestFinalizes, ProcsAssumption DEF Base
  <2>2. CASE ~AtWork(p)
    <3>p. p \notin Execs /\ pc'[p] # pc[p] /\ pc'[p] \notin {"lost", "done", "queued", "idle"}
      BY <1>2, <1>a, <2>2, ProcsAssumption DEF AtWork
    <3>1. ASSUME NEW r \in Requests, Arrive(r) \/ Serve(r) PROVE MarkFlowRunFailed(p)
      <4>1. r = p
        BY <3>1, <3>p, RequestFrame DEF Base
      <4> QED
        BY <3>1, <4>1, RequestFinalizes DEF Base
    <3>2. ~\E d \in Execs : Execute(d)
      BY <3>p, ExecuteFrame DEF Base, Frame
    <3>3. ~((\E d \in Execs : WorkerLost(d) \/ HardKill(d)) \/ ServerStops)
      BY <3>p, FaultLeaves DEF Base
    <3>4. ~UNCHANGED vars
      BY <3>p DEF vars
    <3> QED
      BY <3>1, <3>2, <3>3, <3>4 DEF Next
  <2> QED
    BY <2>1, <2>2
<1> QED
  BY <1>1, <1>2 DEF Procs

LEMMA NextRowsInv ==
  ASSUME Base, Base', RowsInv, [Next]_vars, Orderly PROVE RowsInv'
<1>e. Execs \subseteq Procs
  BY DEF Procs
<1>1. ASSUME NEW p \in Procs PROVE SelectedOpen(p)'
  <2>1. CASE pc'[p] \notin {"finalize", "finalizeCommit"}
    BY <2>1 DEF SelectedOpen
  <2>2. CASE Undisturbed(p)
    BY <2>2 DEF RowsInv, SelectionOK, SelectedOpen, Undisturbed, Open, MySQL
  <2>3. CASE MarkFlowRunFailed(p)
    <3>1. engine' = engine
      BY <2>3, MarkFlowRunFailedFrame DEF Frame, faults, Base
    <3> QED
      BY <2>3, <3>1, FailureSelects DEF Base, RowsInv, SelectionOK
  <2> QED
    BY <2>1, <2>2, <2>3, FinalizesItself
<1>2. ASSUME NEW e \in Execs, AtWork(e)' PROVE Held(e)'
  <2>1. CASE work'[e] = NoWork
    BY <2>1 DEF Held, NoWork
  <2>2. CASE AtWork(e) /\ Undisturbed(e)
    BY <2>2 DEF RowsInv, HeldRows, Held, Undisturbed, Present
  <2>3. CASE AtWork(e) /\ Execute(e)
    <3>1. RowsAdvance
      BY <2>3, <1>e, ExecuteAdvances DEF Base, RowsInv, OpenRowsHeld, SelectionOK
    <3> QED
      BY <2>3, <3>1, ExecuteHeld DEF Base, RowsInv, HeldRows
  <2> QED
    BY <1>2, <2>1, <2>2, <2>3, StepsOfRun
<1>3. ASSUME NEW e \in Execs PROVE StillOpen(e)'
  <2>1. CASE pc'[e] = "queued" \/ ~AtWork(e)'
    BY <2>1 DEF StillOpen, Preparing, Settling, OpenInHand, AtWork, ExecActive, InFlow
  <2>2. CASE AtWork(e) /\ Undisturbed(e)
    BY <2>2 DEF RowsInv, OpenRowsHeld, StillOpen, Undisturbed, Open, RowInHand
  <2>3. CASE AtWork(e) /\ Execute(e)
    BY <2>3, ExecuteStillOpen DEF Base, RowsInv, OpenRowsHeld, HeldRows, ControlOK, BatchOK
  <2> QED
    BY <2>1, <2>2, <2>3, StepsOfRun
<1> QED
  BY <1>1, <1>2, <1>3 DEF RowsInv, HeldRows, OpenRowsHeld, SelectionOK

\* Only clear_run_history takes rows away or changes one that has ended.
LEMMA NextAdvances ==
  ASSUME Base, RowsInv, [Next]_vars
  PROVE  RowsAdvance \/ \E r \in Resumes : ResumeClear(r)
<1>1. ASSUME NEW r \in Requests, Arrive(r) \/ Serve(r) PROVE RowsAdvance \/ ResumeClear(r)
  <2>1. CASE MarkFlowRunFailed(r)
    BY <2>1, FinalizeAdvances DEF Base, RowsInv, SelectionOK, Procs
  <2>2. CASE ~MarkFlowRunFailed(r) /\ ~ResumeClear(r)
    <3>1. rows' = rows
      BY <1>1, <2>2 DEF Arrive, Serve, CreateRun, CancelRead, ResumeRead, Dispatch, DispatchFails,
                        CancelWrite, CancelEvent, ResumeReset, db
    <3> QED
      BY <3>1, SameRowsAdvance
  <2> QED
    BY <2>1, <2>2
<1>2. ASSUME NEW e \in Execs, Execute(e) PROVE RowsAdvance
  BY <1>2, ExecuteAdvances DEF Base, RowsInv, OpenRowsHeld, SelectionOK, Procs
<1>3. CASE (\E d \in Execs : WorkerLost(d) \/ HardKill(d)) \/ ServerStops
  BY <1>3, SameRowsAdvance DEF WorkerLost, HardKill, ServerStops, db
<1>4. CASE UNCHANGED vars
  BY <1>4, SameRowsAdvance DEF vars
<1> QED
  BY <1>1, <1>2, <1>3, <1>4 DEF Next, ResumeClear

-----------------------------------------------------------------------------
(***************************************************************************)
(* The status.  While an execution is in its batches the run is RUNNING,   *)
(* or CANCELLED under it, and what it reads as CANCELLED is CANCELLED.     *)
(***************************************************************************)
Honest(e) == Fresh(e).status = "CANCELLED" => run.status = "CANCELLED"
InBatches == InFlow \ {"start", "taskFailEvent", "handler"}
Running == run.status \in {"RUNNING", "CANCELLED"}
StatusOK(e) ==
  /\ pc[e] \in InFlow => Honest(e)
  /\ pc[e] = "start" => run.status \in {sess[e].seen.status, "CANCELLED"}
  /\ pc[e] \in InBatches => Running
  /\ pc[e] = "taskFailEvent" => Running \/ (run.status = "FAILED" /\ Alone(e))
RunningOK == \A e \in Execs : StatusOK(e)

LEMMA HonestAfter ==
  ASSUME TypeOK, NEW e \in Execs, engine' = engine,
         \/ Honest(e) /\ run' = run /\ sess'[e].snap = sess[e].snap
         \/ Committed(e) /\ run' = run
         \/ Saved(e)
  PROVE  Honest(e)'
<1>e. e \in Procs /\ sess \in [Procs -> Session] /\ run \in RunRow
  BY DEF Procs, TypeOK
<1>1. CASE Honest(e) /\ run' = run /\ sess'[e].snap = sess[e].snap
  BY <1>1 DEF Honest, Fresh, MySQL, View
<1>2. CASE Committed(e) /\ run' = run
  <2>1. MySQL => sess'[e].snap = View(run)
    BY <1>2, <1>e DEF Committed, Session
  <2> QED
    BY <1>2, <2>1 DEF Honest, Fresh, MySQL, View
<1>3. CASE Saved(e)
  <2>1. MySQL => sess'[e].snap = View(run')
    BY <1>3, <1>e DEF Saved, Session
  <2> QED
    BY <2>1 DEF Honest, Fresh, MySQL, View
<1> QED
  BY <1>1, <1>2, <1>3

LEMMA ExecuteStatus ==
  ASSUME TypeOK, NEW e \in Execs, WorkOK(e), AloneOK(e), StatusOK(e), Execute(e)
  PROVE  StatusOK(e)'
<1>e. e \in Procs /\ engine' = engine
  BY ExecuteFrame DEF Procs, Frame, faults
<1>t. /\ pc \in [Procs -> PC] /\ sess \in [Procs -> Session] /\ sess[e] \in Session /\ run \in RunRow
      /\ work \in [Execs -> Work] /\ work[e] \in Work
  BY <1>e DEF TypeOK
<1> USE DEF InFlow, InBatches
<1>o. ASSUME pc'[e] \notin InFlow PROVE StatusOK(e)'
  BY <1>o DEF StatusOK
<1>k. ASSUME pc[e] \in InBatches, run'.status = run.status, Honest(e)',
             pc'[e] \in InBatches \union {"handler", "taskFailEvent"}
      PROVE  StatusOK(e)'
  <2>1. Running
    BY <1>k DEF StatusOK
  <2>2. Running'
    BY <1>k, <2>1 DEF Running
  <2>3. pc'[e] # "start"
    BY <1>k
  <2> QED
    BY <1>k, <2>2, <2>3 DEF StatusOK
<1>r. Refreshed(e) => sess'[e].snap = sess[e].snap
  BY <1>e, <1>t DEF Refreshed, Session
<1>h. pc[e] \in InFlow => Honest(e)
  BY DEF StatusOK
<1>1. CASE Abandon(e) \/ Over(e) \/ MarkFlowRunFailed(e) \/ Acknowledge(e)
  <2>1. pc'[e] \in {"return", "done", "finalize", "finalizeCommit", "failEvent"}
    BY <1>1, <1>e, <1>t DEF Abandon, Over, MarkFlowRunFailed, MarkFailed, SelectOpenTasks,
                            FinalizeOpenTasks, FailEvent, Acknowledge, Go
  <2> QED
    BY <2>1, <1>o
<1>2. CASE Handler(e) \/ EmitCancelled(e) \/ EmitFlowCompleted(e) \/ CompleteRun(e)
  <2>1. Over(e) \/ pc'[e] \in {"markFailed", "completeEvent"}
    BY <1>2, <1>e, <1>t DEF Handler, EmitCancelled, EmitFlowCompleted, CompleteRun, Go
  <2> QED
    BY <2>1, <1>1, <1>o
<1>3. CASE Load(e)
  <2>1. /\ pc'[e] \in {"start", "handler"} /\ run' = run /\ sess'[e].seen = View(run)
        /\ MySQL => sess'[e].snap = View(run)
    BY <1>3, <1>e, <1>t DEF Load, Go, Session, db
  <2>2. Honest(e)'
    BY <2>1, <1>e DEF Honest, Fresh, MySQL, View
  <2> QED
    BY <2>1, <2>2 DEF StatusOK, View
<1>4. CASE MarkRunning(e)
  <2>1. pc[e] = "start" /\ pc'[e] = "started" /\ Saved(e) /\ run'.status = StatusAfter(e, "RUNNING")
    BY <1>4, <1>e, <1>t DEF MarkRunning, Go, RunRow
  <2>2. Running'
    BY <2>1 DEF StatusOK, StatusAfter, Running
  <2> QED
    BY <2>1, <2>2, <1>e, HonestAfter DEF StatusOK
<1>5. CASE EmitStarted(e) \/ CreateTask(e)
  <2>1. /\ pc[e] \in InBatches /\ pc'[e] \in InBatches /\ run' = run /\ Committed(e)
    BY <1>5, <1>e, <1>t DEF EmitStarted, CreateTask, Go
  <2> QED
    BY <2>1, <1>k, <1>e, HonestAfter
<1>6. CASE NextBatch(e) \/ RefreshAfterFailure(e)
  <2>1. /\ pc[e] \in InBatches /\ pc'[e] \in InBatches \union {"cancelEvent"}
        /\ run' = run /\ Refreshed(e)
    BY <1>6, <1>e, <1>t DEF NextBatch, RefreshAfterFailure, Go, db
  <2>2. Honest(e)'
    BY <2>1, <1>r, <1>h, <1>e, HonestAfter
  <2> QED
    BY <2>1, <2>2, <1>k, <1>o
<1>7. CASE MarkStage(e) \/ SaveState(e)
  <2>1. pc[e] \in InBatches /\ pc'[e] \in InBatches /\ run'.status = run.status /\ Saved(e)
    BY <1>7, <1>e, <1>t DEF MarkStage, SaveState, Go, RunRow
  <2> QED
    BY <2>1, <1>k, <1>e, HonestAfter
<1>8. CASE StageReturns(e) \/ SoftTimeLimit(e) \/ PrepareFails(e)
  <2>1. /\ pc[e] \in InBatches /\ pc'[e] \in InBatches \union {"handler"}
        /\ run' = run /\ sess' = sess
    BY <1>8, <1>e, <1>t DEF StageReturns, SoftTimeLimit, PrepareFails, Go, db
  <2>2. Honest(e)'
    BY <2>1, <1>h, <1>e, HonestAfter
  <2> QED
    BY <2>1, <2>2, <1>k
<1>9. CASE (SaveTask(e) \/ CancelTask(e) \/ FailTask(e)) /\ Present(RowInHand(e))
  <2>1. /\ pc[e] \in InBatches /\ pc'[e] \in InBatches \union {"taskFailEvent"}
        /\ run' = run /\ Committed(e)
    BY <1>9, <1>e, <1>t DEF SaveTask, CancelTask, FailTask, Go
  <2> QED
    BY <2>1, <1>k, <1>e, HonestAfter
<1>10. CASE (EmitTaskStarted(e) \/ CreateArtifact(e) \/ EmitTaskCancelled(e)) /\ Referable(e)
  <2>1. /\ pc[e] \in InBatches /\ pc'[e] \in InBatches /\ run' = run /\ Committed(e)
    BY <1>10, <1>e, <1>t DEF EmitTaskStarted, CreateArtifact, EmitTaskCancelled, Go
  <2> QED
    BY <2>1, <1>k, <1>e, HonestAfter
<1>11. CASE (EmitTaskCompleted(e) /\ Referable(e)) \/ EmitFlowCancelled(e)
  <2>1. /\ pc[e] \in InBatches /\ Settle(e, FALSE) /\ run' = run /\ Committed(e)
    BY <1>11 DEF EmitTaskCompleted, EmitFlowCancelled
  <2>2. pc'[e] \in InBatches \union {"handler"}
    BY <2>1, SettleFacts
  <2> QED
    BY <2>1, <2>2, <1>k, <1>e, HonestAfter
<1>12. CASE FailRun(e)
  <2>1. /\ pc[e] = "failRun" /\ pc'[e] = "taskFailEvent" /\ Saved(e) /\ work' = work
        /\ run'.status = StatusAfter(e, "FAILED")
    BY <1>12, <1>e, <1>t DEF FailRun, Go
  <2>2. Alone(e) /\ Alone(e)'
    BY <2>1 DEF AloneOK, Alone
  <2>3. run'.status \in {"RUNNING", "CANCELLED", "FAILED"}
    BY <2>1 DEF StatusAfter, StatusOK, Running
  <2> QED
    BY <2>1, <2>2, <2>3, <1>e, HonestAfter DEF StatusOK, Running
<1>13. CASE EmitTaskFailed(e) /\ Referable(e)
  <2>1. pc[e] = "taskFailEvent" /\ Settle(e, TRUE) /\ run' = run /\ Committed(e)
    BY <1>13 DEF EmitTaskFailed
  <2>2. \/ work'[e].todo # {} /\ pc'[e] = "wait"
        \/ pc'[e] = "handler"
    BY <2>1, SettleFacts
  <2>3. Honest(e)'
    BY <2>1, <1>e, HonestAfter
  <2>4. CASE pc'[e] = "wait"
    <3>1. ~Alone(e)
      BY <2>1, <2>2, <2>4, AloneSettles, SettleFacts DEF Settling
    <3>2. Running'
      BY <2>1, <3>1 DEF StatusOK, Running
    <3> QED
      BY <2>3, <2>4, <3>2 DEF StatusOK
  <2>5. CASE pc'[e] = "handler"
    BY <2>3, <2>5 DEF StatusOK
  <2> QED
    BY <2>2, <2>4, <2>5
<1>b. \/ EmitTaskStarted(e) \/ CreateArtifact(e) \/ EmitTaskCompleted(e)
      \/ EmitTaskCancelled(e) \/ EmitTaskFailed(e)
      => Referable(e) \/ Abandon(e)
  BY DEF EmitTaskStarted, CreateArtifact, EmitTaskCompleted, EmitTaskCancelled, EmitTaskFailed
<1>d. SaveTask(e) \/ CancelTask(e) \/ FailTask(e) => Present(RowInHand(e)) \/ Abandon(e)
  BY DEF SaveTask, CancelTask, FailTask
<1> QED
  BY <1>1, <1>2, <1>3, <1>4, <1>5, <1>6, <1>7, <1>8, <1>9, <1>10, <1>11, <1>12, <1>13, <1>b, <1>d
  DEF Execute

LEMMA NextRunningOK ==
  ASSUME Base, Base', RunningOK, [Next]_vars, Orderly PROVE RunningOK'
<1> SUFFICES ASSUME NEW e \in Execs PROVE StatusOK(e)'
  BY DEF RunningOK
<1>1. CASE pc'[e] = "queued" \/ ~AtWork(e)'
  BY <1>1 DEF StatusOK, AtWork, ExecActive, InFlow, InBatches
<1>2. CASE AtWork(e) /\ Undisturbed(e)
  <2>1. Honest(e) => Honest(e)'
    BY <1>2 DEF Undisturbed, Honest, Fresh, MySQL, View
  <2>2. Running => Running'
    BY <1>2 DEF Undisturbed, Running
  <2>3. run'.status \in {run.status, "CANCELLED"} /\ pc'[e] = pc[e] /\ sess'[e] = sess[e]
        /\ work'[e] = work[e]
    BY <1>2 DEF Undisturbed
  <2> QED
    BY <2>1, <2>2, <2>3 DEF RunningOK, StatusOK, Alone, Running
<1>3. CASE AtWork(e) /\ Execute(e)
  BY <1>3, ExecuteStatus DEF Base, RunningOK, ControlOK, BatchOK
<1> QED
  BY <1>1, <1>2, <1>3, StepsOfRun

-----------------------------------------------------------------------------
(***************************************************************************)
(* Progress.  Every earlier batch has succeeded; in the batch in progress  *)
(* a stage that is settled has succeeded, or ended as a cancelled task of  *)
(* a run that the execution sees as cancelled, or a failure is recorded.   *)
(***************************************************************************)
SeesCancelled(e) == run.status = "CANCELLED" /\ Fresh(e).status = "CANCELLED"
Passed(e, n) == \A j \in 1..n : \A t \in Batches[j] : Succeeded(e, t)
Ended(e, t) == Succeeded(e, t) \/ (Cancelled(e, t) /\ SeesCancelled(e))

Passing(e) ==
  pc[e] \in Preparing \union {"wait"} \union Settling => Passed(e, work[e].batch - 1)
Ending(e) ==
  pc[e] \in {"wait"} \union (Settling \ {"taskFailEvent"}) /\ ~work[e].failed =>
    \A t \in Batches[work[e].batch] \ work[e].todo : Ended(e, t)
EndsInHand(e) ==
  /\ pc[e] \in {"artifact", "saveState", "doneEvent"} => Succeeded(e, work[e].stage)
  /\ pc[e] \in {"cancelTask", "taskCancelEvent", "flowCancelEvent"} => SeesCancelled(e)
  /\ pc[e] \in {"taskCancelEvent", "flowCancelEvent"} => Cancelled(e, work[e].stage)
BetweenBatches(e) ==
  pc[e] = "loop" =>
    /\ work[e].batch \in 1..(Len(Batches) + 1)
    /\ Passed(e, work[e].batch - 2)
    /\ work[e].batch > 1 => \A t \in Batches[work[e].batch - 1] : Ended(e, t)
Progress(e) == Passing(e) /\ Ending(e) /\ EndsInHand(e) /\ BetweenBatches(e)
ProgressOK == \A e \in Execs : Progress(e)

\* What a task has come to, it stays.
LEMMA EndsStay ==
  ASSUME TypeOK, RowsAdvance, NEW e, NEW t
  PROVE  (Succeeded(e, t) => Succeeded(e, t)') /\ (Cancelled(e, t) => Cancelled(e, t)')
<1>1. ASSUME NEW s \in {"SUCCEEDED", "CANCELLED"}, NEW i \in RowIds,
             rows[i] = [by |-> e, stage |-> t, status |-> s]
      PROVE  rows'[i] = [by |-> e, stage |-> t, status |-> s]
  <2>1. rows[i].status = s
    BY <1>1
  <2>2. Present(i) /\ ~Open(i)
    BY <2>1 DEF Present, Open
  <2> QED
    BY <1>1, <2>2 DEF RowsAdvance
<1> QED
  BY <1>1 DEF Succeeded, Cancelled

LEMMA PassedStays ==
  ASSUME TypeOK, RowsAdvance, NEW e, NEW n \in Int, Passed(e, n)
  PROVE  \A j \in 1..n : \A t \in Batches[j] : Succeeded(e, t)'
BY EndsStay DEF Passed

\* A cancellation that an execution sees, it keeps seeing.
LEMMA SeesStays ==
  ASSUME TypeOK, NEW e \in Execs, SeesCancelled(e), engine' = engine, run'.status = run.status,
         \/ sess'[e].snap = sess[e].snap
         \/ Committed(e) /\ run' = run
         \/ Saved(e)
  PROVE  SeesCancelled(e)'
<1>e. e \in Procs /\ sess \in [Procs -> Session] /\ run \in RunRow
  BY DEF Procs, TypeOK
<1>1. CASE sess'[e].snap = sess[e].snap
  BY <1>1 DEF SeesCancelled, Fresh, MySQL, View
<1>2. CASE Committed(e) /\ run' = run
  <2>1. MySQL => sess'[e].snap = View(run)
    BY <1>2, <1>e DEF Committed, Session
  <2> QED
    BY <1>2, <2>1 DEF SeesCancelled, Fresh, MySQL, View
<1>3. CASE Saved(e)
  <2>1. MySQL => sess'[e].snap = View(run')
    BY <1>3, <1>e DEF Saved, Session
  <2> QED
    BY <2>1 DEF SeesCancelled, Fresh, MySQL, View
<1> QED
  BY <1>1, <1>2, <1>3

\* The task in hand ends as it is set.
LEMMA SetRowEnds ==
  ASSUME TypeOK, NEW e \in Execs, Held(e), WorkOK(e), pc[e] \in Settling, Open(RowInHand(e)),
         NEW t \in {"SUCCEEDED", "CANCELLED"}, SetRow(e, t)
  PROVE  \E i \in RowIds : rows'[i] = [by |-> e, stage |-> work[e].stage, status |-> t]
<1>1. RowInHand(e) \in RowIds /\ rows[RowInHand(e)] \in TaskRow
  BY DEF Open, TypeOK
<1>2. rows[RowInHand(e)].by = e /\ rows[RowInHand(e)].stage = work[e].stage
  BY DEF WorkOK, Held, RowInHand, TypeOK, Work
<1>3. rows'[RowInHand(e)] = [rows[RowInHand(e)] EXCEPT !.status = t]
  BY SetRowAdvances DEF TaskStatus
<1>4. rows'[RowInHand(e)] = [by |-> e, stage |-> work[e].stage, status |-> t]
  BY <1>1, <1>2, <1>3 DEF TaskRow
<1> QED
  BY <1>1, <1>4

LEMMA BatchNumbers ==
  /\ Len(Batches) \in Nat /\ DOMAIN Batches = 1..Len(Batches)
  /\ \A e \in Execs : TypeOK => work[e].batch \in Nat \ {0}
BY BatchesAssumption DEF TypeOK, Work

\* Settling the stage in hand, when it has ended or the settlement records a failure.
LEMMA SettleProgress ==
  ASSUME TypeOK, NEW e \in Execs, WorkOK(e), pc[e] \in Settling, NEW f \in BOOLEAN, Settle(e, f),
         engine' = engine, rows' = rows, run' = run, Committed(e), Progress(e),
         ~f => pc[e] # "taskFailEvent" /\ Ended(e, work[e].stage)
  PROVE  Progress(e)'
<1> DEFINE batch == Batches[work[e].batch]
<1>b. /\ work[e].batch \in DOMAIN Batches /\ work[e].batch \in Nat \ {0}
      /\ Len(Batches) \in Nat /\ DOMAIN Batches = 1..Len(Batches)
  BY BatchNumbers DEF WorkOK
<1>s. /\ work'[e].todo = work[e].todo \ {work[e].stage}
      /\ work'[e].failed = (work[e].failed \/ f)
      /\ \/ work'[e].todo # {} /\ pc'[e] = "wait" /\ work'[e].batch = work[e].batch
         \/ pc'[e] = "handler"
         \/ /\ work'[e].todo = {} /\ ~(work[e].failed \/ f)
            /\ pc'[e] = "loop" /\ work'[e].batch = work[e].batch + 1
  BY SettleFacts
<1>e. \A t : Ended(e, t) => Ended(e, t)'
  BY SameRowsAdvance, EndsStay, SeesStays DEF Ended
<1>p. Passed(e, work[e].batch - 1)
  BY DEF Progress, Passing
<1>q. \A j \in 1..(work[e].batch - 1) : \A t \in Batches[j] : Succeeded(e, t)'
  BY <1>p, SameRowsAdvance, EndsStay DEF Passed
<1>t. ASSUME ~(work[e].failed \/ f), NEW t \in batch \ (work[e].todo \ {work[e].stage})
      PROVE  Ended(e, t)'
  BY <1>t, <1>e DEF Progress, Ending
<1>1. CASE pc'[e] = "handler"
  BY <1>1 DEF Progress, Passing, Ending, EndsInHand, BetweenBatches, Preparing, Settling
<1>2. CASE pc'[e] = "wait" /\ work'[e].batch = work[e].batch
  <2>1. Passing(e)'
    BY <1>2, <1>q DEF Passing, Passed
  <2>2. Ending(e)'
    BY <1>2, <1>s, <1>t DEF Ending
  <2> QED
    BY <1>2, <2>1, <2>2 DEF Progress, EndsInHand, BetweenBatches
<1>3. CASE /\ work'[e].todo = {} /\ ~(work[e].failed \/ f)
           /\ pc'[e] = "loop" /\ work'[e].batch = work[e].batch + 1
  <2>1. \A t \in batch : Ended(e, t)'
    BY <1>3, <1>s, <1>t
  <2>2. /\ work'[e].batch - 1 = work[e].batch /\ work'[e].batch - 2 = work[e].batch - 1
        /\ work'[e].batch \in 1..(Len(Batches) + 1)
    BY <1>3, <1>b
  <2>3. BetweenBatches(e)'
    BY <2>1, <2>2, <1>q DEF BetweenBatches, Passed
  <2> QED
    BY <1>3, <2>3 DEF Progress, Passing, Ending, EndsInHand, Preparing, Settling
<1> QED
  BY <1>s, <1>1, <1>2, <1>3

LEMMA ExecuteProgress ==
  ASSUME TypeOK, NEW e \in Execs, WorkOK(e), AloneOK(e), Held(e), StillOpen(e), StatusOK(e),
         RowsAdvance, Progress(e), Execute(e)
  PROVE  Progress(e)'
<1>e. e \in Procs /\ engine' = engine
  BY ExecuteFrame DEF Procs, Frame, faults
<1>t. /\ pc \in [Procs -> PC] /\ sess \in [Procs -> Session] /\ sess[e] \in Session /\ run \in RunRow
      /\ work \in [Execs -> Work] /\ work[e] \in Work
  BY <1>e DEF TypeOK
<1>b. /\ work[e].batch \in Nat \ {0} /\ Len(Batches) \in Nat /\ DOMAIN Batches = 1..Len(Batches)
  BY BatchNumbers
<1> USE DEF Preparing, Settling
<1>o. ASSUME pc'[e] \notin Preparing \union {"wait", "loop"} \union Settling PROVE Progress(e)'
  BY <1>o DEF Progress, Passing, Ending, EndsInHand, BetweenBatches
\* Within a batch.
<1>p. ASSUME pc[e] \in Preparing \union {"wait"} \union Settling, work'[e].batch = work[e].batch
      PROVE  Passing(e)'
  <2>1. Passed(e, work[e].batch - 1)
    BY <1>p DEF Progress, Passing
  <2>2. \A j \in 1..(work[e].batch - 1) : \A t \in Batches[j] : Succeeded(e, t)'
    BY <2>1, EndsStay DEF Passed
  <2> QED
    BY <1>p, <2>2 DEF Passing, Passed
<1>q. ASSUME pc[e] \in {"wait"} \union (Settling \ {"taskFailEvent"}),
             work'[e].batch = work[e].batch, work'[e].todo = work[e].todo,
             work'[e].failed = work[e].failed, SeesCancelled(e) => SeesCancelled(e)'
      PROVE  Ending(e)'
  BY <1>q, EndsStay DEF Progress, Ending, Ended
<1>r. Refreshed(e) => sess'[e].snap = sess[e].snap
  BY <1>e, <1>t DEF Refreshed, Session
<1>1. CASE Abandon(e) \/ Over(e) \/ MarkFlowRunFailed(e) \/ Acknowledge(e)
  <2>1. pc'[e] \in {"return", "done", "finalize", "finalizeCommit", "failEvent"}
    BY <1>1, <1>e, <1>t DEF Abandon, Over, MarkFlowRunFailed, MarkFailed, SelectOpenTasks,
                            FinalizeOpenTasks, FailEvent, Acknowledge, Go
  <2> QED
    BY <2>1, <1>o
<1>2. CASE Handler(e) \/ EmitCancelled(e) \/ EmitFlowCompleted(e) \/ CompleteRun(e)
  <2>1. Over(e) \/ pc'[e] \in {"markFailed", "completeEvent"}
    BY <1>2, <1>e, <1>t DEF Handler, EmitCancelled, EmitFlowCompleted, CompleteRun, Go
  <2> QED
    BY <2>1, <1>1, <1>o
<1>3. CASE Load(e) \/ MarkRunning(e) \/ SoftTimeLimit(e) \/ PrepareFails(e)
  BY <1>3, <1>o, <1>e, <1>t DEF Load, MarkRunning, SoftTimeLimit, PrepareFails, Go
<1>4. CASE EmitStarted(e)
  <2>1. pc'[e] = "loop" /\ work'[e].batch = 1
    BY <1>4, <1>e, <1>t DEF EmitStarted, Go, WorkOK, NoWork
  <2>2. BetweenBatches(e)'
    BY <2>1, <1>b DEF BetweenBatches, Passed
  <2> QED
    BY <2>1, <2>2 DEF Progress, Passing, Ending, EndsInHand
<1>5. CASE NextBatch(e)
  <2>1. CASE pc'[e] = "cancelEvent"
    BY <2>1, <1>o
  <2>2. CASE pc'[e] # "cancelEvent"
    <3>1. /\ pc[e] = "loop" /\ pc'[e] = "prepare" /\ work'[e].batch = work[e].batch
          /\ Fresh(e).status # "CANCELLED" /\ rows' = rows
      BY <1>5, <2>2, <1>e, <1>t DEF NextBatch, Go, Work, db
    <3>2. ASSUME NEW j \in 1..(work[e].batch - 1), NEW t \in Batches[j] PROVE Succeeded(e, t)
      <4>1. CASE j = work[e].batch - 1
        BY <3>1, <3>2, <4>1, <1>b DEF Progress, BetweenBatches, Ended, SeesCancelled
      <4>2. CASE j # work[e].batch - 1
        <5>1. j \in 1..(work[e].batch - 2)
          BY <4>2, <1>b
        <5> QED
          BY <3>1, <5>1 DEF Progress, BetweenBatches, Passed
      <4> QED
        BY <4>1, <4>2
    <3>3. \A j \in 1..(work[e].batch - 1) : \A t \in Batches[j] : Succeeded(e, t)'
      BY <3>2, EndsStay
    <3>4. Passing(e)'
      BY <3>1, <3>3 DEF Passing, Passed
    <3> QED
      BY <3>1, <3>4 DEF Progress, Ending, EndsInHand, BetweenBatches
  <2> QED
    BY <2>1, <2>2
<1>6. CASE CreateTask(e) \/ MarkStage(e)
  <2>1. pc[e] \in Preparing /\ pc'[e] \in Preparing /\ work'[e].batch = work[e].batch
    <3>1. CASE CreateTask(e)
      BY <3>1, TaskCreated DEF CreateTask, Created
    <3>2. CASE MarkStage(e)
      BY <3>2, <1>e, <1>t DEF MarkStage, Go
    <3> QED
      BY <1>6, <3>1, <3>2
  <2> QED
    BY <2>1, <1>p DEF Progress, Ending, EndsInHand, BetweenBatches
<1>7. CASE EmitTaskStarted(e) /\ Referable(e)
  <2>1. /\ pc[e] = "prepEvent" /\ pc'[e] \in {"wait", "prepare"}
        /\ pc'[e] = "wait" => work'[e].todo = Batches[work[e].batch]
        /\ work'[e].batch = work[e].batch
    BY <1>7, <1>e, <1>t DEF EmitTaskStarted, Go, Work
  <2>2. Ending(e)'
    BY <2>1 DEF Ending
  <2> QED
    BY <2>1, <2>2, <1>p DEF Progress, EndsInHand, BetweenBatches
<1>8. CASE StageReturns(e)
  <2>1. /\ pc[e] = "wait" /\ pc'[e] \in {"saveTask", "stageFailed"}
        /\ work'[e].batch = work[e].batch /\ work'[e].todo = work[e].todo
        /\ work'[e].failed = work[e].failed /\ run' = run /\ sess' = sess
    BY <1>8, <1>e, <1>t DEF StageReturns, Go, Work, db
  <2>2. Ending(e)'
    BY <2>1, <1>q, <1>e, SeesStays
  <2> QED
    BY <2>1, <2>2, <1>p DEF Progress, EndsInHand, BetweenBatches
<1>9. CASE SaveTask(e) /\ Present(RowInHand(e))
  <2>1. /\ pc[e] = "saveTask" /\ pc'[e] = "artifact" /\ SetRow(e, "SUCCEEDED")
        /\ work'[e].batch = work[e].batch /\ work'[e].todo = work[e].todo
        /\ work'[e].failed = work[e].failed /\ work'[e].stage = work[e].stage
        /\ run' = run /\ Committed(e)
    BY <1>9, <1>e, <1>t DEF SaveTask, Go, Work
  <2>2. Succeeded(e, work[e].stage)'
    BY <2>1, SetRowEnds DEF StillOpen, OpenInHand, Succeeded
  <2>3. Ending(e)'
    BY <2>1, <1>q, <1>e, SeesStays
  <2> QED
    BY <2>1, <2>2, <2>3, <1>p DEF Progress, EndsInHand, BetweenBatches
<1>10. CASE (CreateArtifact(e) /\ Referable(e)) \/ SaveState(e)
  <2>1. /\ pc[e] \in {"artifact", "saveState"} /\ pc'[e] \in {"saveState", "doneEvent"}
        /\ work' = work /\ rows' = rows /\ run'.status = run.status
        /\ (Committed(e) /\ run' = run) \/ Saved(e)
    BY <1>10, <1>e, <1>t DEF CreateArtifact, SaveState, Go, RunRow
  <2>2. Succeeded(e, work[e].stage)'
    BY <2>1, EndsStay DEF Progress, EndsInHand
  <2>3. Ending(e)'
    BY <2>1, <1>q, <1>e, SeesStays
  <2> QED
    BY <2>1, <2>2, <2>3, <1>p DEF Progress, EndsInHand, BetweenBatches
<1>11. CASE EmitTaskCompleted(e) /\ Referable(e)
  <2>1. pc[e] = "doneEvent" /\ Settle(e, FALSE) /\ run' = run /\ rows' = rows /\ Committed(e)
    BY <1>11 DEF EmitTaskCompleted
  <2>2. Ended(e, work[e].stage)
    BY <2>1 DEF Progress, EndsInHand, Ended
  <2> QED
    BY <2>1, <2>2, <1>e, SettleProgress
<1>12. CASE RefreshAfterFailure(e)
  <2>1. /\ pc[e] = "stageFailed" /\ Refreshed(e) /\ work' = work /\ run' = run
        /\ pc'[e] = IF Fresh(e).status = "CANCELLED" THEN "cancelTask" ELSE "failTask"
    BY <1>12, <1>e, <1>t DEF RefreshAfterFailure, Go, db
  <2>2. SeesCancelled(e) => SeesCancelled(e)'
    BY <2>1, <1>r, <1>e, SeesStays
  <2>3. pc'[e] = "cancelTask" => SeesCancelled(e)'
    BY <2>1, <2>2 DEF SeesCancelled, StatusOK, Honest, InFlow
  <2>4. Ending(e)'
    BY <2>1, <2>2, <1>q
  <2> QED
    BY <2>1, <2>3, <2>4, <1>p DEF Progress, EndsInHand, BetweenBatches
<1>13. CASE CancelTask(e) /\ Present(RowInHand(e))
  <2>1. /\ pc[e] = "cancelTask" /\ pc'[e] = "taskCancelEvent" /\ SetRow(e, "CANCELLED")
        /\ work' = work /\ run' = run /\ Committed(e)
    BY <1>13, <1>e, <1>t DEF CancelTask, Go
  <2>2. Cancelled(e, work[e].stage)'
    BY <2>1, SetRowEnds DEF StillOpen, OpenInHand, Cancelled
  <2>3. SeesCancelled(e)'
    BY <2>1, <1>e, SeesStays DEF Progress, EndsInHand
  <2>4. Ending(e)'
    BY <2>1, <2>3, <1>q
  <2> QED
    BY <2>1, <2>2, <2>3, <2>4, <1>p DEF Progress, EndsInHand, BetweenBatches
<1>14. CASE EmitTaskCancelled(e) /\ Referable(e)
  <2>1. /\ pc[e] = "taskCancelEvent" /\ pc'[e] = "flowCancelEvent" /\ rows' = rows
        /\ work' = work /\ run' = run /\ Committed(e)
    BY <1>14, <1>e, <1>t DEF EmitTaskCancelled, Go
  <2>2. Cancelled(e, work[e].stage)'
    BY <2>1, EndsStay DEF Progress, EndsInHand
  <2>3. SeesCancelled(e)'
    BY <2>1, <1>e, SeesStays DEF Progress, EndsInHand
  <2>4. Ending(e)'
    BY <2>1, <2>3, <1>q
  <2> QED
    BY <2>1, <2>2, <2>3, <2>4, <1>p DEF Progress, EndsInHand, BetweenBatches
<1>15. CASE EmitFlowCancelled(e)
  <2>1. pc[e] = "flowCancelEvent" /\ Settle(e, FALSE) /\ run' = run /\ rows' = rows /\ Committed(e)
    BY <1>15 DEF EmitFlowCancelled
  <2>2. Ended(e, work[e].stage)
    BY <2>1 DEF Progress, EndsInHand, Ended
  <2> QED
    BY <2>1, <2>2, <1>e, SettleProgress
<1>16. CASE FailTask(e) /\ Present(RowInHand(e))
  <2>1. /\ pc[e] = "failTask" /\ pc'[e] \in {"failRun", "taskFailEvent"}
        /\ work' = work /\ run' = run /\ Committed(e)
    BY <1>16, <1>e, <1>t DEF FailTask, Go
  <2>2. Ending(e)'
    BY <2>1, <1>q, <1>e, SeesStays
  <2> QED
    BY <2>1, <2>2, <1>p DEF Progress, EndsInHand, BetweenBatches
<1>17. CASE FailRun(e)
  <2>1. pc[e] = "failRun" /\ pc'[e] = "taskFailEvent" /\ work' = work
    BY <1>17, <1>e, <1>t DEF FailRun, Go
  <2> QED
    BY <2>1, <1>p DEF Progress, Ending, EndsInHand, BetweenBatches
<1>18. CASE EmitTaskFailed(e) /\ Referable(e)
  <2>1. pc[e] = "taskFailEvent" /\ Settle(e, TRUE) /\ run' = run /\ rows' = rows /\ Committed(e)
    BY <1>18 DEF EmitTaskFailed
  <2> QED
    BY <2>1, <1>e, SettleProgress
<1>c. \/ EmitTaskStarted(e) \/ CreateArtifact(e) \/ EmitTaskCompleted(e)
      \/ EmitTaskCancelled(e) \/ EmitTaskFailed(e)
      => Referable(e) \/ Abandon(e)
  BY DEF EmitTaskStarted, CreateArtifact, EmitTaskCompleted, EmitTaskCancelled, EmitTaskFailed
<1>d. SaveTask(e) \/ CancelTask(e) \/ FailTask(e) => Present(RowInHand(e)) \/ Abandon(e)
  BY DEF SaveTask, CancelTask, FailTask
<1> QED
  BY <1>1, <1>2, <1>3, <1>4, <1>5, <1>6, <1>7, <1>8, <1>9, <1>10, <1>11, <1>12, <1>13, <1>14,
     <1>15, <1>16, <1>17, <1>18, <1>c, <1>d
  DEF Execute

LEMMA NextProgressOK ==
  ASSUME Base, Base', RowsInv, RunningOK, ProgressOK, [Next]_vars, Orderly PROVE ProgressOK'
<1> SUFFICES ASSUME NEW e \in Execs PROVE Progress(e)'
  BY DEF ProgressOK
<1>p. e \in Procs /\ Progress(e)
  BY DEF Procs, ProgressOK
<1>1. CASE pc'[e] = "queued" \/ ~AtWork(e)'
  BY <1>1 DEF Progress, Passing, Ending, EndsInHand, BetweenBatches, AtWork, ExecActive, InFlow,
              Preparing, Settling
<1>2. CASE AtWork(e) /\ Undisturbed(e)
  <2>1. /\ pc'[e] = pc[e] /\ work'[e] = work[e] /\ sess'[e] = sess[e] /\ rows' = rows
        /\ engine' = engine /\ run'.status \in {run.status, "CANCELLED"}
    BY <1>2 DEF Undisturbed
  <2>2. SeesCancelled(e) => SeesCancelled(e)'
    BY <2>1 DEF SeesCancelled, Fresh, MySQL, View
  <2>3. \A t : /\ Succeeded(e, t)' <=> Succeeded(e, t)
               /\ Cancelled(e, t)' <=> Cancelled(e, t)
               /\ Ended(e, t) => Ended(e, t)'
    BY <2>1, <2>2 DEF Succeeded, Cancelled, Ended
  <2>4. Passing(e)' /\ Ending(e)' /\ EndsInHand(e)'
    BY <1>p, <2>1, <2>2, <2>3 DEF Progress, Passing, Ending, EndsInHand, Passed
  <2>5. BetweenBatches(e)'
    BY <1>p, <2>1, <2>3 DEF Progress, BetweenBatches, Passed
  <2> QED
    BY <2>4, <2>5 DEF Progress
<1>3. CASE AtWork(e) /\ Execute(e)
  <2>1. RowsAdvance
    BY <1>3, <1>p, ExecuteAdvances DEF Base, RowsInv, OpenRowsHeld, SelectionOK
  <2> QED
    BY <1>3, <1>p, <2>1, ExecuteProgress
    DEF Base, RowsInv, HeldRows, OpenRowsHeld, RunningOK, ControlOK, BatchOK
<1> QED
  BY <1>1, <1>2, <1>3, StepsOfRun

-----------------------------------------------------------------------------
(***************************************************************************)
(* The barrier between batches.                                            *)
(***************************************************************************)
\* Only create_task adds a row.
LEMMA NewRow ==
  ASSUME TypeOK, [Next]_vars, NEW i \in RowIds, Present(i)', ~Present(i)
  PROVE  \E e \in Execs : CreateTask(e)
<1>r. rows' # rows
  BY DEF Present
<1>0. ASSUME NEW p \in Procs, MarkFlowRunFailed(p) PROVE FALSE
  <2>1. FinalizeOpenTasks(p)
    BY <1>0, <1>r DEF MarkFlowRunFailed, MarkFailed, SelectOpenTasks, FailEvent, db
  <2>2. /\ \A j \in sess[p].open : Present(j)
        /\ rows' = [j \in RowIds |-> IF j \in sess[p].open THEN [rows[j] EXCEPT !.status = "FAILED"]
                                                           ELSE rows[j]]
    BY <2>1, <1>r DEF FinalizeOpenTasks
  <2> QED
    BY <2>2 DEF Present
<1>1. ASSUME NEW r \in Requests, Arrive(r) \/ Serve(r) PROVE FALSE
  <2>1. MarkFlowRunFailed(r) \/ ResumeClear(r)
    BY <1>1, <1>r DEF Arrive, Serve, CreateRun, CancelRead, ResumeRead, Dispatch, DispatchFails,
                      CancelWrite, CancelEvent, ResumeReset, db
  <2>2. ~ResumeClear(r)
    BY DEF ResumeClear, Present, NoRow
  <2> QED
    BY <2>1, <2>2, <1>0 DEF Procs
<1>2. ASSUME NEW e \in Execs, Execute(e) PROVE CreateTask(e)
  <2>1. ~MarkFlowRunFailed(e)
    BY <1>0 DEF Procs
  <2>2. ~(SaveTask(e) \/ CancelTask(e) \/ FailTask(e))
    <3>1. Present(RowInHand(e)) /\ (\E t : SetRow(e, t)) => FALSE
      BY DEF SetRow, Present, TypeOK
    <3> QED
      BY <3>1, <1>r DEF SaveTask, CancelTask, FailTask, Abandon, db
  <2>3. ~(\/ Load(e) \/ Handler(e) \/ Acknowledge(e) \/ EmitStarted(e) \/ NextBatch(e)
          \/ EmitCancelled(e) \/ EmitFlowCompleted(e) \/ StageReturns(e)
          \/ SoftTimeLimit(e) \/ PrepareFails(e) \/ RefreshAfterFailure(e) \/ EmitFlowCancelled(e))
    BY <1>r DEF Load, Handler, Acknowledge, EmitStarted, NextBatch, EmitCancelled,
                EmitFlowCompleted, StageReturns, SoftTimeLimit, PrepareFails, RefreshAfterFailure,
                EmitFlowCancelled, db
  <2>4. ~(MarkRunning(e) \/ MarkStage(e) \/ SaveState(e) \/ CompleteRun(e) \/ FailRun(e))
    BY <1>r DEF MarkRunning, MarkStage, SaveState, CompleteRun, FailRun
  <2>5. ~(\/ EmitTaskStarted(e) \/ CreateArtifact(e) \/ EmitTaskCompleted(e)
          \/ EmitTaskCancelled(e) \/ EmitTaskFailed(e))
    BY <1>r DEF EmitTaskStarted, CreateArtifact, EmitTaskCompleted, EmitTaskCancelled,
                EmitTaskFailed, Abandon, db
  <2> QED
    BY <1>2, <2>1, <2>2, <2>3, <2>4, <2>5 DEF Execute
<1>3. ~((\E e \in Execs : WorkerLost(e) \/ HardKill(e)) \/ ServerStops)
  BY <1>r DEF WorkerLost, HardKill, ServerStops, db
<1>4. ~UNCHANGED vars
  BY <1>r DEF vars
<1> QED
  BY <1>1, <1>2, <1>3, <1>4 DEF Next

LEMMA NextBarrier ==
  ASSUME Base, RowsInv, ProgressOK, BatchBarrier, [Next]_vars PROVE BatchBarrier'
<1> SUFFICES ASSUME NEW i \in RowIds, Present(i)', NEW k \in DOMAIN Batches,
                    rows'[i].stage \in Batches[k],
                    NEW j \in 1..(k - 1), NEW t \in Batches[j]
             PROVE  Succeeded(rows[i].by, t)'
  BY DEF BatchBarrier
<1>a. RowsAdvance
  <2>1. ~\E r \in Resumes : ResumeClear(r)
    BY DEF ResumeClear, Present, NoRow
  <2> QED
    BY <2>1, NextAdvances
<1>1. CASE Present(i)
  <2>1. rows'[i].stage = rows[i].stage /\ rows'[i].by = rows[i].by
    BY <1>1, <1>a DEF RowsAdvance
  <2>2. Succeeded(rows[i].by, t)
    BY <1>1, <2>1 DEF BatchBarrier
  <2>3. Succeeded(rows[i].by, t) => \E n \in RowIds :
          rows'[n] = [by |-> rows[i].by, stage |-> t, status |-> "SUCCEEDED"]
    <3>1. ASSUME NEW n \in RowIds,
                 rows[n] = [by |-> rows[i].by, stage |-> t, status |-> "SUCCEEDED"]
          PROVE  rows'[n] = rows[n]
      BY <3>1, <1>a DEF RowsAdvance, Present, Open
    <3> QED
      BY <3>1 DEF Succeeded
  <2> QED
    BY <2>1, <2>2, <2>3 DEF Succeeded
<1>2. CASE ~Present(i)
  <2>1. PICK e \in Execs : CreateTask(e)
    BY <1>2, NewRow DEF Base
  <2>2. PICK s, n : Created(e, s, n)
    BY <2>1, TaskCreated DEF Base
  <2>3. n = i
    BY <1>2, <2>2 DEF Created, Present
  <2>4. rows'[i].stage = s /\ rows'[i].by = e
    BY <2>2, <2>3 DEF Created
  <2>5. /\ pc[e] = "prepare" /\ s \in Batches[work[e].batch] /\ work[e].batch \in DOMAIN Batches
    BY <2>1, <2>2 DEF CreateTask, Created, Base, BatchOK, AloneOK, ControlOK, WorkOK, Preparing
  <2>6. k = work[e].batch
    BY <2>4, <2>5, DisjointAssumption
  <2>7. Succeeded(e, t)
    BY <2>5, <2>6 DEF ProgressOK, Progress, Passing, Preparing, Passed
  <2>8. Succeeded(e, t)'
    BY <2>7, <1>a, EndsStay DEF Base
  <2> QED
    BY <2>4, <2>8 DEF Succeeded
<1> QED
  BY <1>1, <1>2

-----------------------------------------------------------------------------
(***************************************************************************)
(* The outputs.  The flow object, state_json and the artifacts agree, but  *)
(* for the stage whose completion is under way.                            *)
(***************************************************************************)
Arts(e) == {s \in Stages : <<e, s>> \in artifacts}

\* An execution that has not begun its first batch has left nothing behind.
Unstarted(e) ==
  pc[e] \in {"idle", "queued", "start", "started"} =>
    (\A i \in RowIds : Present(i) => rows[i].by # e) /\ Arts(e) = {}

OutputsOK(e) ==
  /\ pc[e] \in (InFlow \ {"start", "artifact", "saveState", "handler"}) \union {"completeEvent"}
       => run.outputs = work[e].done
  /\ pc[e] \in (InFlow \ {"start", "artifact", "handler"}) \union {"completeEvent"}
       => Arts(e) = work[e].done
  /\ pc[e] = "artifact" => Arts(e) \union {work[e].stage} = work[e].done
  /\ pc[e] \in InFlow \ {"start", "handler"} =>
       \A s \in Stages : Succeeded(e, s) => s \in work[e].done
OutputsInv == \A e \in Execs : Unstarted(e) /\ OutputsOK(e)

LEMMA ArtifactCreated ==
  ASSUME NEW e \in Execs, CreateArtifact(e), Referable(e)
  PROVE  artifacts' = artifacts \union {<<e, work[e].stage>>}
BY DEF CreateArtifact

\* Only _complete_stage_execution adds an artifact, and only clear_run_history
\* takes one away.
LEMMA NextArtifacts ==
  ASSUME [Next]_vars
  PROVE  \/ artifacts' = artifacts
         \/ \E e \in Execs : Execute(e) /\ CreateArtifact(e) /\ Referable(e)
         \/ artifacts' = {} /\ \E r \in Resumes : ResumeClear(r)
<1>0. ASSUME NEW p \in Procs, MarkFlowRunFailed(p) PROVE artifacts' = artifacts
  BY <1>0 DEF MarkFlowRunFailed, MarkFailed, SelectOpenTasks, FinalizeOpenTasks, FailEvent, db
<1>1. ASSUME NEW r \in Requests, Arrive(r) \/ Serve(r), ~ResumeClear(r) PROVE artifacts' = artifacts
  BY <1>0, <1>1 DEF Arrive, Serve, CreateRun, CancelRead, ResumeRead, Dispatch, DispatchFails,
                    CancelWrite, CancelEvent, ResumeReset, db, Procs
<1>2. ASSUME NEW r \in Requests, ResumeClear(r) PROVE r \in Resumes /\ artifacts' = {}
  BY <1>2 DEF ResumeClear
<1>3. ASSUME NEW e \in Execs, Execute(e), ~(CreateArtifact(e) /\ Referable(e))
      PROVE  artifacts' = artifacts
  <2>1. CASE MarkFlowRunFailed(e)
    BY <2>1, <1>0 DEF Procs
  <2>2. CASE \/ Load(e) \/ Handler(e) \/ Acknowledge(e) \/ EmitStarted(e) \/ NextBatch(e)
             \/ EmitCancelled(e) \/ EmitFlowCompleted(e) \/ StageReturns(e)
             \/ SoftTimeLimit(e) \/ PrepareFails(e) \/ RefreshAfterFailure(e) \/ EmitFlowCancelled(e) \/ Abandon(e)
    BY <2>2 DEF Load, Handler, Acknowledge, EmitStarted, NextBatch, EmitCancelled,
                EmitFlowCompleted, StageReturns, SoftTimeLimit, PrepareFails, RefreshAfterFailure,
                EmitFlowCancelled, Abandon, db
  <2>3. CASE \/ MarkRunning(e) \/ MarkStage(e) \/ SaveState(e) \/ CompleteRun(e) \/ FailRun(e)
             \/ CreateTask(e)
    BY <2>3 DEF MarkRunning, MarkStage, SaveState, CompleteRun, FailRun, CreateTask
  <2>4. CASE (SaveTask(e) \/ CancelTask(e) \/ FailTask(e)) /\ ~Abandon(e)
    BY <2>4 DEF SaveTask, CancelTask, FailTask
  <2>5. CASE /\ ~Abandon(e)
             /\ \/ EmitTaskStarted(e) \/ EmitTaskCompleted(e) \/ EmitTaskCancelled(e)
                \/ EmitTaskFailed(e)
    BY <2>5 DEF EmitTaskStarted, EmitTaskCompleted, EmitTaskCancelled, EmitTaskFailed
  <2>6. CASE CreateArtifact(e)
    BY <2>6, <1>3, <2>2 DEF CreateArtifact
  <2> QED
    BY <1>3, <2>1, <2>2, <2>3, <2>4, <2>5, <2>6 DEF Execute
<1>4. (\E e \in Execs : WorkerLost(e) \/ HardKill(e)) \/ ServerStops => artifacts' = artifacts
  BY DEF WorkerLost, HardKill, ServerStops, db
<1>5. UNCHANGED vars => artifacts' = artifacts
  BY DEF vars
<1> QED
  BY <1>1, <1>2, <1>3, <1>4, <1>5 DEF Next

\* Where an execution that has not begun comes from.
LEMMA BeginsOnce ==
  ASSUME TypeOK, [Next]_vars, NEW e \in Execs, pc'[e] \in {"idle", "queued", "start", "started"}
  PROVE  pc[e] \in {"idle", "queued", "start"} \/ pc'[e] = pc[e]
<1>e. e \in Procs /\ e \notin Requests
  BY ProcsAssumption DEF Procs
<1>1. ASSUME NEW r \in Requests, Arrive(r) \/ Serve(r) PROVE pc'[e] = pc[e] \/ pc[e] = "idle"
  BY <1>1, <1>e, RequestFrame
<1>2. ASSUME NEW d \in Execs, Execute(d), d # e PROVE pc'[e] = pc[e]
  BY <1>2, <1>e, ExecuteFrame DEF Frame
<1>3. ASSUME Execute(e) PROVE pc[e] \in {"queued", "start"}
  <2>1. ~(Abandon(e) \/ Over(e))
    BY <1>e DEF Abandon, Over, Go, TypeOK
  <2>2. ~(Handler(e) \/ EmitCancelled(e) \/ EmitFlowCompleted(e) \/ MarkFlowRunFailed(e))
    BY <2>1, <1>e DEF Handler, EmitCancelled, EmitFlowCompleted, MarkFlowRunFailed, MarkFailed,
                      SelectOpenTasks, FinalizeOpenTasks, FailEvent, Go, TypeOK
  <2>3. ~(\/ Acknowledge(e) \/ EmitStarted(e) \/ NextBatch(e) \/ CompleteRun(e) \/ CreateTask(e)
          \/ MarkStage(e) \/ StageReturns(e) \/ SoftTimeLimit(e) \/ PrepareFails(e) \/ SaveState(e)
          \/ RefreshAfterFailure(e) \/ FailRun(e))
    BY <1>e DEF Acknowledge, EmitStarted, NextBatch, CompleteRun, CreateTask, MarkStage,
                StageReturns, SoftTimeLimit, PrepareFails, SaveState, RefreshAfterFailure, FailRun, Go, TypeOK
  <2>4. ~(\E f \in BOOLEAN : Settle(e, f))
    BY SettleFacts
  <2>5. ~(\/ EmitTaskStarted(e) \/ SaveTask(e) \/ CreateArtifact(e) \/ CancelTask(e)
          \/ EmitTaskCancelled(e) \/ FailTask(e))
    BY <2>1, <1>e DEF EmitTaskStarted, SaveTask, CreateArtifact, CancelTask, EmitTaskCancelled,
                      FailTask, Go, TypeOK
  <2>6. ~(EmitTaskCompleted(e) \/ EmitFlowCancelled(e) \/ EmitTaskFailed(e))
    BY <2>1, <2>4 DEF EmitTaskCompleted, EmitFlowCancelled, EmitTaskFailed
  <2> QED
    BY <1>3, <2>2, <2>3, <2>5, <2>6 DEF Execute, Load, MarkRunning
<1>4. ASSUME NEW d \in Execs, WorkerLost(d) PROVE pc'[e] = pc[e] \/ pc[e] = "idle"
  BY <1>4, <1>e DEF WorkerLost, TypeOK, Procs
<1>5. ASSUME NEW d \in Execs, HardKill(d) PROVE pc'[e] = pc[e]
  BY <1>5, <1>e DEF HardKill, Go, TypeOK, Procs
<1>6. ServerStops => pc'[e] = pc[e]
  BY <1>e DEF ServerStops
<1>7. UNCHANGED vars => pc'[e] = pc[e]
  BY DEF vars
<1> QED
  BY <1>1, <1>2, <1>3, <1>4, <1>5, <1>6, <1>7 DEF Next

LEMMA NextUnstarted ==
  ASSUME Base, RowsInv, OutputsInv, [Next]_vars, NEW e \in Execs PROVE Unstarted(e)'
<1> SUFFICES ASSUME pc'[e] \in {"idle", "queued", "start", "started"}
             PROVE  (\A i \in RowIds : Present(i)' => rows'[i].by # e) /\ Arts(e)' = {}
  BY DEF Unstarted
<1>1. pc[e] \in {"idle", "queued", "start", "started"}
  BY BeginsOnce DEF Base
<1>2. (\A i \in RowIds : Present(i) => rows[i].by # e) /\ Arts(e) = {}
  BY <1>1 DEF OutputsInv, Unstarted
<1>3. ASSUME NEW i \in RowIds, Present(i)' PROVE rows'[i].by # e
  <2>1. RowsAdvance
    BY <1>3, NextAdvances DEF ResumeClear, Present, NoRow
  <2>2. CASE Present(i)
    BY <2>1, <2>2, <1>2 DEF RowsAdvance
  <2>3. CASE ~Present(i)
    <3>1. PICK d \in Execs : CreateTask(d)
      BY <1>3, <2>3, NewRow DEF Base
    <3>2. PICK s, n : Created(d, s, n)
      BY <3>1, TaskCreated DEF Base
    <3>3. n = i /\ rows'[i].by = d /\ pc'[d] = "prepRun"
      BY <1>3, <2>3, <3>2 DEF Created, Present
    <3> QED
      BY <3>3
  <2> QED
    BY <2>2, <2>3
<1>4. Arts(e)' = {}
  <2>1. ASSUME NEW d \in Execs, CreateArtifact(d), Referable(d) PROVE d # e
    BY <2>1, <1>1 DEF CreateArtifact
  <2>2. ASSUME NEW d \in Execs, CreateArtifact(d), Referable(d) PROVE Arts(e)' = Arts(e)
    BY <2>1, <2>2, ArtifactCreated DEF Arts
  <2> QED
    BY <2>2, <1>2, NextArtifacts DEF Arts
<1> QED
  BY <1>3, <1>4

\* Only _complete_stage_execution marks a task SUCCEEDED: the one in hand.
LEMMA NewSuccess ==
  ASSUME TypeOK, NEW e \in Execs, WorkOK(e), Held(e), Execute(e),
         NEW s \in Stages, Succeeded(e, s)', ~Succeeded(e, s)
  PROVE  SaveTask(e) /\ Present(RowInHand(e)) /\ s = work[e].stage
<1>1. PICK i \in RowIds : rows'[i] = [by |-> e, stage |-> s, status |-> "SUCCEEDED"]
  BY DEF Succeeded
<1>2. rows'[i] # rows[i] /\ rows'[i].status = "SUCCEEDED" /\ rows'[i].stage = s
  BY <1>1 DEF Succeeded
<1>t. rows \in [RowIds -> TaskRow]
  BY DEF TypeOK
<1>3. ~(CancelTask(e) \/ FailTask(e) \/ (SaveTask(e) /\ ~Present(RowInHand(e))))
  <2>1. \A t : SetRow(e, t) => rows'[i].status = t \/ rows'[i] = rows[i]
    BY <1>t DEF SetRow, TaskRow
  <2> QED
    BY <1>2, <2>1 DEF CancelTask, FailTask, SaveTask, Abandon, db
<1>4. ~CreateTask(e)
  <2>1. ASSUME NEW r, NEW n, Created(e, r, n) PROVE FALSE
    BY <1>2, <2>1 DEF Created
  <2> QED
    BY <2>1, TaskCreated
<1>5. ~MarkFlowRunFailed(e)
  <2>1. ~FinalizeOpenTasks(e)
    BY <1>2, <1>t DEF FinalizeOpenTasks, TaskRow
  <2> QED
    BY <2>1, <1>2 DEF MarkFlowRunFailed, MarkFailed, SelectOpenTasks, FailEvent, db
<1>6. ~(\/ Load(e) \/ Handler(e) \/ Acknowledge(e) \/ EmitStarted(e) \/ NextBatch(e)
        \/ EmitCancelled(e) \/ EmitFlowCompleted(e) \/ StageReturns(e)
        \/ SoftTimeLimit(e) \/ PrepareFails(e) \/ RefreshAfterFailure(e) \/ EmitFlowCancelled(e))
  BY <1>2 DEF Load, Handler, Acknowledge, EmitStarted, NextBatch, EmitCancelled,
              EmitFlowCompleted, StageReturns, SoftTimeLimit, PrepareFails, RefreshAfterFailure,
              EmitFlowCancelled, db
<1>7. ~(MarkRunning(e) \/ MarkStage(e) \/ SaveState(e) \/ CompleteRun(e) \/ FailRun(e))
  BY <1>2 DEF MarkRunning, MarkStage, SaveState, CompleteRun, FailRun
<1>8. ~(\/ EmitTaskStarted(e) \/ CreateArtifact(e) \/ EmitTaskCompleted(e)
        \/ EmitTaskCancelled(e) \/ EmitTaskFailed(e))
  BY <1>2 DEF EmitTaskStarted, CreateArtifact, EmitTaskCompleted, EmitTaskCancelled,
              EmitTaskFailed, Abandon, db
<1>9. SaveTask(e) /\ Present(RowInHand(e))
  BY <1>3, <1>4, <1>5, <1>6, <1>7, <1>8 DEF Execute
<1>10. i = RowInHand(e)
  BY <1>2, <1>9, <1>t DEF SaveTask, SetRow
<1>11. rows[i].stage = work[e].stage /\ rows'[i].stage = rows[i].stage
  <2>1. work[e].row[work[e].stage] # 0 /\ work[e].stage \in Stages
    BY <1>9 DEF SaveTask, WorkOK, Settling, TypeOK, Work
  <2>2. rows[i].stage = work[e].stage
    BY <1>10, <2>1 DEF Held, RowInHand
  <2>3. rows'[i] = [rows[i] EXCEPT !.status = "SUCCEEDED"]
    BY <1>9, <1>10, <1>t DEF SaveTask, SetRow
  <2> QED
    BY <2>2, <2>3, <1>t DEF TaskRow
<1> QED
  BY <1>2, <1>9, <1>11

LEMMA ExecuteOutputs ==
  ASSUME TypeOK, NEW e \in Execs, WorkOK(e), Held(e), Unstarted(e), OutputsOK(e), Execute(e)
  PROVE  OutputsOK(e)'
<1>t. /\ e \in Procs /\ pc \in [Procs -> PC] /\ run \in RunRow
      /\ work \in [Execs -> Work] /\ work[e] \in Work
  BY DEF TypeOK, Procs
<1> DEFINE Outside == pc'[e] \notin (InFlow \ {"start", "handler"}) \union {"completeEvent"}
           NoSuccess == \A s \in Stages : Succeeded(e, s)' => Succeeded(e, s)
<1> USE DEF InFlow
<1>o. ASSUME Outside PROVE OutputsOK(e)'
  BY <1>o DEF OutputsOK
<1>s. ~SaveTask(e) => NoSuccess
  BY NewSuccess
\* Steps that leave the outputs alone.
<1>k. ASSUME NoSuccess, artifacts' = artifacts, run'.outputs = run.outputs,
             work'[e].done = work[e].done, pc[e] \in InFlow \ {"start", "artifact", "saveState", "handler"},
             pc'[e] # "artifact"
      PROVE  OutputsOK(e)'
  BY <1>k DEF OutputsOK, Arts
\* Steps that write state_json from the flow object.
<1>w. ASSUME NoSuccess, artifacts' = artifacts, run'.outputs = work[e].done,
             work'[e].done = work[e].done, pc[e] \in InFlow \ {"start", "artifact", "handler"},
             pc'[e] # "artifact"
      PROVE  OutputsOK(e)'
  BY <1>w DEF OutputsOK, Arts
<1>1. CASE Abandon(e) \/ Over(e) \/ MarkFlowRunFailed(e) \/ Acknowledge(e)
  <2>1. pc'[e] \in {"return", "done", "finalize", "finalizeCommit", "failEvent"}
    BY <1>1, <1>t DEF Abandon, Over, MarkFlowRunFailed, MarkFailed, SelectOpenTasks,
                      FinalizeOpenTasks, FailEvent, Acknowledge, Go
  <2> QED
    BY <2>1, <1>o
<1>2. CASE Handler(e) \/ EmitCancelled(e) \/ EmitFlowCompleted(e)
  <2>1. Over(e) \/ pc'[e] = "markFailed"
    BY <1>2, <1>t DEF Handler, EmitCancelled, EmitFlowCompleted, Go
  <2> QED
    BY <2>1, <1>1, <1>o
<1>3. CASE Load(e) \/ SoftTimeLimit(e) \/ PrepareFails(e)
  BY <1>3, <1>o, <1>t DEF Load, SoftTimeLimit, PrepareFails, Go
<1>4. CASE MarkRunning(e)
  <2>1. /\ pc[e] = "start" /\ pc'[e] = "started" /\ run'.outputs = {} /\ work' = work
        /\ artifacts' = artifacts /\ rows' = rows
    BY <1>4, <1>t DEF MarkRunning, Go, RunRow
  <2>2. work[e].done = {}
    BY <2>1 DEF WorkOK, NoWork
  <2>3. Arts(e) = {} /\ \A s \in Stages : ~Succeeded(e, s)
    BY <2>1 DEF Unstarted, Succeeded, Present
  <2> QED
    BY <2>1, <2>2, <2>3 DEF OutputsOK, Arts, Succeeded
<1>5. CASE EmitStarted(e) \/ NextBatch(e) \/ StageReturns(e) \/ RefreshAfterFailure(e)
  <2>1. /\ artifacts' = artifacts /\ run' = run /\ work'[e].done = work[e].done
    BY <1>5, <1>t DEF EmitStarted, NextBatch, StageReturns, RefreshAfterFailure, db, Work
  <2>2. pc[e] \in {"started", "loop", "wait", "stageFailed"} /\ pc'[e] # "artifact"
    BY <1>5, <1>t DEF EmitStarted, NextBatch, StageReturns, RefreshAfterFailure, Go
  <2>3. NoSuccess
    BY <2>2, <1>s DEF SaveTask
  <2> QED
    BY <2>1, <2>2, <2>3, <1>k
<1>6. CASE CreateTask(e)
  <2>1. work'[e].done = work[e].done /\ pc'[e] = "prepRun"
    BY <1>6, TaskCreated DEF Created
  <2>2. pc[e] = "prepare" /\ artifacts' = artifacts /\ run' = run
    BY <1>6 DEF CreateTask
  <2>3. NoSuccess
    BY <2>2, <1>s DEF SaveTask
  <2> QED
    BY <2>1, <2>2, <2>3, <1>k
<1>7. CASE MarkStage(e) \/ SaveState(e) \/ FailRun(e) \/ CompleteRun(e)
  <2>1. /\ artifacts' = artifacts /\ work' = work /\ run'.outputs = work[e].done
        /\ pc[e] \in {"prepRun", "saveState", "failRun", "loop"}
        /\ pc'[e] # "artifact"
    BY <1>7, <1>t DEF MarkStage, SaveState, FailRun, CompleteRun, Go, RunRow
  <2>2. NoSuccess
    BY <2>1, <1>s DEF SaveTask
  <2> QED
    BY <2>1, <2>2, <1>w
<1>8. CASE EmitTaskStarted(e) /\ Referable(e)
  <2>1. /\ artifacts' = artifacts /\ run' = run /\ work'[e].done = work[e].done
        /\ pc[e] = "prepEvent" /\ pc'[e] # "artifact"
    BY <1>8, <1>t DEF EmitTaskStarted, Go, Work
  <2>2. NoSuccess
    BY <2>1, <1>s DEF SaveTask
  <2> QED
    BY <2>1, <2>2, <1>k
<1>9. CASE SaveTask(e) /\ Present(RowInHand(e))
  <2>1. /\ pc[e] = "saveTask" /\ pc'[e] = "artifact" /\ artifacts' = artifacts /\ run' = run
        /\ work'[e].done = Merged(e) /\ work'[e].stage = work[e].stage
    BY <1>9, <1>t DEF SaveTask, Go, Work
  <2>2. Arts(e) = work[e].done /\ Merged(e) = work[e].done \union {work[e].stage}
    BY <2>1 DEF OutputsOK, Merged
  <2>3. ASSUME NEW s \in Stages, Succeeded(e, s)' PROVE s \in Merged(e)
    BY <2>1, <2>2, <2>3, NewSuccess DEF OutputsOK
  <2> QED
    BY <2>1, <2>2, <2>3 DEF OutputsOK, Arts
<1>10. CASE CreateArtifact(e) /\ Referable(e)
  <2>1. /\ pc[e] = "artifact" /\ pc'[e] = "saveState" /\ work' = work /\ run' = run
        /\ artifacts' = artifacts \union {<<e, work[e].stage>>} /\ work[e].stage \in Stages
    BY <1>10, <1>t DEF CreateArtifact, Go, WorkOK, Settling, Work
  <2>2. Arts(e)' = Arts(e) \union {work[e].stage}
    BY <2>1 DEF Arts
  <2>3. NoSuccess
    BY <2>1, <1>s DEF SaveTask
  <2> QED
    BY <2>1, <2>2, <2>3 DEF OutputsOK
<1>11. CASE (CancelTask(e) \/ FailTask(e)) /\ Present(RowInHand(e))
  <2>1. /\ artifacts' = artifacts /\ run' = run /\ work' = work
        /\ pc[e] \in {"cancelTask", "failTask"} /\ pc'[e] # "artifact"
    BY <1>11, <1>t DEF CancelTask, FailTask, Go
  <2>2. NoSuccess
    BY <2>1, <1>s DEF SaveTask
  <2> QED
    BY <2>1, <2>2, <1>k
<1>12. CASE EmitTaskCancelled(e) /\ Referable(e)
  <2>1. /\ artifacts' = artifacts /\ run' = run /\ work' = work
        /\ pc[e] = "taskCancelEvent" /\ pc'[e] # "artifact"
    BY <1>12, <1>t DEF EmitTaskCancelled, Go
  <2>2. NoSuccess
    BY <2>1, <1>s DEF SaveTask
  <2> QED
    BY <2>1, <2>2, <1>k
<1>13. CASE \/ EmitFlowCancelled(e)
            \/ (EmitTaskCompleted(e) \/ EmitTaskFailed(e)) /\ Referable(e)
  <2>1. /\ artifacts' = artifacts /\ run' = run /\ \E f \in BOOLEAN : Settle(e, f)
        /\ pc[e] \in {"doneEvent", "flowCancelEvent", "taskFailEvent"}
    BY <1>13 DEF EmitFlowCancelled, EmitTaskCompleted, EmitTaskFailed
  <2>2. work'[e].done = work[e].done /\ pc'[e] # "artifact"
    BY <2>1, SettleFacts
  <2>3. NoSuccess
    BY <2>1, <1>s DEF SaveTask
  <2> QED
    BY <2>1, <2>2, <2>3, <1>k
<1>b. \/ EmitTaskStarted(e) \/ CreateArtifact(e) \/ EmitTaskCompleted(e)
      \/ EmitTaskCancelled(e) \/ EmitTaskFailed(e)
      => Referable(e) \/ Abandon(e)
  BY DEF EmitTaskStarted, CreateArtifact, EmitTaskCompleted, EmitTaskCancelled, EmitTaskFailed
<1>d. SaveTask(e) \/ CancelTask(e) \/ FailTask(e) => Present(RowInHand(e)) \/ Abandon(e)
  BY DEF SaveTask, CancelTask, FailTask
<1> QED
  BY <1>1, <1>2, <1>3, <1>4, <1>5, <1>6, <1>7, <1>8, <1>9, <1>10, <1>11, <1>12, <1>13, <1>b, <1>d
  DEF Execute

LEMMA NextOutputs ==
  ASSUME Base, Base', RowsInv, OutputsInv, [Next]_vars, Orderly PROVE OutputsInv'
<1>1. ASSUME NEW e \in Execs PROVE OutputsOK(e)'
  <2>1. CASE pc'[e] = "queued" \/ ~AtWork(e)'
    BY <2>1 DEF OutputsOK, AtWork, ExecActive, InFlow
  <2>2. CASE AtWork(e) /\ Undisturbed(e)
    BY <2>2 DEF OutputsInv, OutputsOK, Undisturbed, Arts, Succeeded
  <2>3. CASE AtWork(e) /\ Execute(e)
    BY <2>3, ExecuteOutputs DEF Base, RowsInv, HeldRows, ControlOK, OutputsInv
  <2> QED
    BY <2>1, <2>2, <2>3, StepsOfRun
<1> QED
  BY <1>1, NextUnstarted DEF OutputsInv

\* A run that is COMPLETED keeps the outputs it was completed with.
LEMMA OutputsStay ==
  ASSUME Base, Base', RunningOK, [Next]_vars, run.status = "COMPLETED", run'.status = "COMPLETED"
  PROVE  run'.outputs = run.outputs
<1>0. ASSUME NEW p \in Procs, MarkFlowRunFailed(p) PROVE run'.outputs = run.outputs
  BY <1>0 DEF MarkFlowRunFailed, MarkFailed, SelectOpenTasks, FinalizeOpenTasks, FailEvent, db,
              Base, TypeOK, RunRow
<1>1. ASSUME NEW r \in Requests, Arrive(r) \/ Serve(r) PROVE run'.outputs = run.outputs
  <2>1. ~CreateRun(r)
    BY DEF CreateRun
  <2>2. ~ResumeReset(r)
    BY ResetQueues DEF Base, RequestOK
  <2>3. CASE MarkFlowRunFailed(r)
    BY <2>3, <1>0 DEF Procs
  <2>4. CASE CancelWrite(r)
    BY <2>4 DEF CancelWrite, Base, TypeOK, RunRow
  <2>5. CASE \/ CancelRead(r) \/ ResumeRead(r) \/ Dispatch(r) \/ DispatchFails(r)
             \/ CancelEvent(r) \/ ResumeClear(r)
    BY <2>5 DEF CancelRead, ResumeRead, Dispatch, DispatchFails, CancelEvent, ResumeClear, db
  <2> QED
    BY <1>1, <2>1, <2>2, <2>3, <2>4, <2>5 DEF Arrive, Serve
<1>2. ASSUME NEW e \in Execs, Execute(e) PROVE run'.outputs = run.outputs
  <2>1. ~MarkRunning(e)
    <3>1. ASSUME MarkRunning(e) PROVE FALSE
      <4>1. sess[e].seen.status = "COMPLETED"
        BY <3>1 DEF MarkRunning, RunningOK, StatusOK
      <4>2. run'.status = "RUNNING"
        BY <3>1, <4>1 DEF MarkRunning, StatusAfter, Base, TypeOK, RunRow
      <4> QED
        BY <4>2
    <3> QED
      BY <3>1
  <2>2. ~(MarkStage(e) \/ SaveState(e) \/ FailRun(e) \/ CompleteRun(e))
    BY DEF MarkStage, SaveState, FailRun, CompleteRun, RunningOK, StatusOK, InBatches, InFlow, Running
  <2>3. CASE MarkFlowRunFailed(e)
    BY <2>3, <1>0 DEF Procs
  <2>4. CASE \/ Load(e) \/ Handler(e) \/ Acknowledge(e) \/ EmitStarted(e) \/ NextBatch(e)
             \/ EmitCancelled(e) \/ EmitFlowCompleted(e) \/ StageReturns(e) \/ CreateTask(e)
             \/ SoftTimeLimit(e) \/ PrepareFails(e) \/ RefreshAfterFailure(e) \/ EmitFlowCancelled(e)
    BY <2>4 DEF Load, Handler, Acknowledge, EmitStarted, NextBatch, EmitCancelled, CreateTask,
                EmitFlowCompleted, StageReturns, SoftTimeLimit, PrepareFails, RefreshAfterFailure,
                EmitFlowCancelled, db
  <2>5. CASE \/ EmitTaskStarted(e) \/ CreateArtifact(e) \/ EmitTaskCompleted(e)
             \/ EmitTaskCancelled(e) \/ EmitTaskFailed(e)
    BY <2>5 DEF EmitTaskStarted, CreateArtifact, EmitTaskCompleted, EmitTaskCancelled,
                EmitTaskFailed, Abandon, db
  <2>6. CASE SaveTask(e) \/ CancelTask(e) \/ FailTask(e)
    BY <2>6 DEF SaveTask, CancelTask, FailTask, Abandon, db
  <2> QED
    BY <1>2, <2>1, <2>2, <2>3, <2>4, <2>5, <2>6 DEF Execute
<1>3. (\E e \in Execs : WorkerLost(e) \/ HardKill(e)) \/ ServerStops => run' = run
  BY DEF WorkerLost, HardKill, ServerStops, db
<1>4. UNCHANGED vars => run' = run
  BY DEF vars
<1> QED
  BY <1>1, <1>2, <1>3, <1>4 DEF Next

LEMMA NextCompleted ==
  ASSUME Base, Base', RowsInv, RunningOK, ProgressOK, OutputsInv, CompletedHasOutputs,
         [Next]_vars, Orderly
  PROVE  CompletedHasOutputs'
<1> SUFFICES ASSUME run'.status = "COMPLETED"
             PROVE  \E e \in Execs : \A k \in DOMAIN Batches : \A s \in Batches[k] :
                      \/ Succeeded(e, s)' /\ <<e, s>> \in artifacts' /\ s \in run'.outputs
                      \/ Cancelled(e, s)' /\ k = Len(Batches)
  BY DEF CompletedHasOutputs
<1>1. CASE run.status = "COMPLETED"
  <2>1. PICK e \in Execs : \A k \in DOMAIN Batches : \A s \in Batches[k] :
          \/ Succeeded(e, s) /\ <<e, s>> \in artifacts /\ s \in run.outputs
          \/ Cancelled(e, s) /\ k = Len(Batches)
    BY <1>1 DEF CompletedHasOutputs
  <2>2. ~\E r \in Resumes : ResumeClear(r)
    BY <1>1 DEF Orderly, Resumable
  <2>3. RowsAdvance
    BY <2>2, NextAdvances
  <2>4. artifacts \subseteq artifacts'
    <3>1. ASSUME NEW d \in Execs, CreateArtifact(d), Referable(d) PROVE artifacts \subseteq artifacts'
      BY <3>1, ArtifactCreated
    <3> QED
      BY <3>1, <2>2, NextArtifacts
  <2>5. run'.outputs = run.outputs
    BY <1>1, OutputsStay
  <2>6. \A s : (Succeeded(e, s) => Succeeded(e, s)') /\ (Cancelled(e, s) => Cancelled(e, s)')
    BY <2>3, EndsStay DEF Base
  <2> QED
    BY <2>1, <2>4, <2>5, <2>6
<1>2. CASE run.status # "COMPLETED"
  <2>1. PICK e \in Execs : CompleteRun(e)
    BY <1>2, NewStatus DEF Base
  <2>2. /\ pc[e] = "loop" /\ work[e].batch > Len(Batches) /\ rows' = rows
        /\ artifacts' = artifacts /\ run'.outputs = work[e].done
    BY <2>1 DEF CompleteRun
  <2>b. /\ work[e].batch \in Nat /\ Len(Batches) \in Nat /\ DOMAIN Batches = 1..Len(Batches)
    BY BatchNumbers DEF Base
  <2>3. BetweenBatches(e)
    BY DEF ProgressOK, Progress
  <2>4. work[e].batch = Len(Batches) + 1
    BY <2>2, <2>3, <2>b DEF BetweenBatches
  <2>5. \A t : Ended(e, t) => Succeeded(e, t) \/ Cancelled(e, t)
    BY DEF Ended
  <2>6. ASSUME NEW s \in Stages, Succeeded(e, s)
        PROVE  Succeeded(e, s)' /\ <<e, s>> \in artifacts' /\ s \in run'.outputs
    <3>1. s \in work[e].done /\ Arts(e) = work[e].done
      BY <2>2, <2>6 DEF OutputsInv, OutputsOK, InFlow
    <3>2. <<e, s>> \in artifacts
      BY <3>1 DEF Arts
    <3> QED
      BY <2>2, <2>6, <3>1, <3>2 DEF Succeeded
  <2>7. ASSUME NEW k \in DOMAIN Batches, NEW s \in Batches[k]
        PROVE  Succeeded(e, s) \/ (Cancelled(e, s) /\ k = Len(Batches))
    <3>1. CASE k = Len(Batches)
      <4>1. work[e].batch - 1 = k /\ work[e].batch > 1
        BY <2>4, <2>7, <2>b, <3>1
      <4>2. Ended(e, s)
        BY <2>2, <2>3, <4>1 DEF BetweenBatches
      <4> QED
        BY <2>5, <3>1, <4>2
    <3>2. CASE k # Len(Batches)
      <4>1. k \in 1..(work[e].batch - 2)
        BY <2>4, <2>7, <2>b, <3>2
      <4> QED
        BY <2>2, <2>3, <4>1 DEF BetweenBatches, Passed
    <3> QED
      BY <3>1, <3>2
  <2>8. \A s : Cancelled(e, s) => Cancelled(e, s)'
    BY <2>2 DEF Cancelled
  <2>9. ASSUME NEW k \in DOMAIN Batches, NEW s \in Batches[k]
        PROVE  \/ Succeeded(e, s)' /\ <<e, s>> \in artifacts' /\ s \in run'.outputs
               \/ Cancelled(e, s)' /\ k = Len(Batches)
    BY <2>6, <2>7, <2>8, <2>9, BatchIsStages
  <2> QED
    BY <2>9
<1> QED
  BY <1>1, <1>2

-----------------------------------------------------------------------------
(***************************************************************************)
(* Unfinished tasks.  Whenever the run is FAILED, either no task is left   *)
(* RUNNING or a process is on its way to finalize_open_tasks, which has    *)
(* not selected yet or has selected every one of them.                     *)
(***************************************************************************)
Tidies(p) ==
  \/ pc[p] \in {"queued", "start", "taskFailEvent", "handler", "markFailed"}
  \/ pc[p] = "finalize" /\ (MySQL => OpenRows \subseteq sess[p].open)
  \/ pc[p] = "finalizeCommit" /\ OpenRows \subseteq sess[p].open
Tidy == run.status = "FAILED" /\ kills = 0 => OpenRows = {} \/ \E p \in Procs : Tidies(p)

LEMMA OpenMeansRunning == OpenRows = {i \in RowIds : Open(i)}
BY DEF OpenRows, Open, OpenTask

\* A failed run gets no further task, and an ended one is not reopened.
LEMMA OpenRowsShrink ==
  ASSUME Base, RowsInv, RunningOK, [Next]_vars, run.status = "FAILED"
  PROVE  OpenRows' \subseteq OpenRows
<1> SUFFICES ASSUME NEW i \in RowIds, Open(i)', ~Open(i) PROVE FALSE
  BY OpenMeansRunning DEF Open, OpenRows, OpenTask
<1>1. Present(i)'
  BY DEF Open, Present
<1>2. RowsAdvance
  BY <1>1, NextAdvances DEF ResumeClear, Present, NoRow
<1>3. ~Present(i)
  BY <1>2 DEF RowsAdvance, Open
<1>4. PICK e \in Execs : CreateTask(e)
  BY <1>1, <1>3, NewRow DEF Base
<1>5. pc[e] = "prepare"
  BY <1>4 DEF CreateTask
<1> QED
  BY <1>5 DEF RunningOK, StatusOK, InBatches, InFlow, Running

\* mark_flow_run_failed, from its save to its commit.
LEMMA FailureTidies ==
  ASSUME TypeOK, NEW p \in Procs, SelectedOpen(p), Tidies(p), MarkFlowRunFailed(p),
         engine' = engine, OpenRows' \subseteq OpenRows
  PROVE  OpenRows' = {} \/ Tidies(p)'
<1>1. CASE MarkFailed(p)
  <2>1. /\ pc'[p] = "finalize" /\ rows' = rows
        /\ MySQL => sess'[p].open = OpenRows
    BY <1>1 DEF MarkFailed, Go, TypeOK
  <2> QED
    BY <2>1 DEF Tidies, MySQL
<1>2. CASE SelectOpenTasks(p)
  <2> DEFINE open == IF MySQL THEN sess[p].open ELSE OpenRows
  <2>1. /\ pc[p] = "finalize" /\ sess' = [sess EXCEPT ![p].open = open]
        /\ pc'[p] = IF open = {} THEN "failEvent" ELSE "finalizeCommit"
    BY <1>2 DEF SelectOpenTasks, Go, TypeOK
  <2>2. sess'[p].open = open
    BY <2>1 DEF TypeOK, Session
  <2>3. OpenRows \subseteq open
    BY <2>1 DEF Tidies
  <2> QED
    BY <2>1, <2>2, <2>3 DEF Tidies
<1>3. CASE FinalizeOpenTasks(p)
  <2>1. /\ pc[p] = "finalizeCommit" /\ OpenRows \subseteq sess[p].open
        /\ \A i \in sess[p].open : Open(i)
    BY <1>3 DEF FinalizeOpenTasks, Tidies, SelectedOpen
  <2>2. \A i \in sess[p].open : Present(i)
    BY <2>1 DEF Open, Present
  <2>3. rows' = [i \in RowIds |-> IF i \in sess[p].open THEN [rows[i] EXCEPT !.status = "FAILED"]
                                                        ELSE rows[i]]
    BY <1>3, <2>2 DEF FinalizeOpenTasks
  <2>4. \A i \in RowIds : rows[i] \in TaskRow
    BY DEF TypeOK
  <2>5. \A i \in RowIds : ~Open(i)'
    BY <2>1, <2>3, <2>4, OpenMeansRunning DEF Open, TaskRow
  <2>6. OpenRows' = {}
    BY <2>5 DEF OpenRows, Open, OpenTask
  <2> QED
    BY <2>6
<1>4. ~FailEvent(p)
  BY DEF FailEvent, Tidies
<1> QED
  BY <1>1, <1>2, <1>3, <1>4 DEF MarkFlowRunFailed

\* An execution that will come to mark_flow_run_failed.
LEMMA ExecuteTidies ==
  ASSUME TypeOK, NEW e \in Execs, WorkOK(e), AloneOK(e), Held(e), SelectedOpen(e), StatusOK(e),
         Tidies(e), Execute(e), run.status = "FAILED", run'.status = "FAILED",
         OpenRows' \subseteq OpenRows
  PROVE  OpenRows' = {} \/ Tidies(e)'
<1>e. e \in Procs /\ engine' = engine
  BY ExecuteFrame DEF Procs, Frame, faults
<1>t. pc \in [Procs -> PC] /\ run \in RunRow
  BY DEF TypeOK
<1>1. CASE pc[e] = "queued"
  BY <1>1, <1>e, <1>t, StepAt DEF Load, Go, Tidies
<1>2. pc[e] # "start"
  <2>1. ASSUME pc[e] = "start" PROVE FALSE
    <3>1. run'.status = StatusAfter(e, "RUNNING")
      BY <2>1, <1>t, StepAt DEF MarkRunning, RunRow
    <3>2. sess[e].seen.status = "FAILED"
      BY <2>1 DEF StatusOK
    <3> QED
      BY <3>1, <3>2 DEF StatusAfter
  <2> QED
    BY <2>1
<1>3. CASE pc[e] = "taskFailEvent"
  <2>1. EmitTaskFailed(e) /\ Alone(e)
    BY <1>3, StepAt DEF StatusOK, Running
  <2>2. Present(RowInHand(e))
    BY <1>3 DEF WorkOK, Settling, Held, RowInHand, TypeOK, Work
  <2>3. Settle(e, TRUE)
    BY <2>1, <2>2 DEF EmitTaskFailed, Referable
  <2>4. work[e].todo \ {work[e].stage} = {}
    BY <1>3, <2>1, AloneSettles DEF Settling
  <2>5. pc'[e] = "handler"
    BY <2>3, <2>4, SettleFacts
  <2> QED
    BY <2>5 DEF Tidies
<1>4. CASE pc[e] = "handler"
  <2>1. Fresh(e).status # "CANCELLED"
    BY <1>4 DEF StatusOK, InFlow, Honest
  <2>2. pc'[e] = "markFailed"
    BY <1>4, <2>1, <1>e, <1>t, StepAt DEF Handler, Go
  <2> QED
    BY <2>2 DEF Tidies
<1>5. CASE pc[e] \in {"markFailed", "finalize", "finalizeCommit"}
  <2>1. MarkFlowRunFailed(e)
    BY <1>5, StepAt DEF MarkFlowRunFailed
  <2> QED
    BY <2>1, <1>e, FailureTidies
<1> QED
  BY <1>1, <1>2, <1>3, <1>4, <1>5 DEF Tidies

\* Only a fault loses a process.
LEMMA RequestNotLost ==
  ASSUME TypeOK, NEW r \in Requests, Arrive(r) \/ Serve(r) PROVE pc'[r] # "lost"
<1>r. r \in Procs /\ r \notin Execs /\ pc \in [Procs -> PC]
  BY ProcsAssumption DEF Procs, TypeOK
<1>1. CASE MarkFlowRunFailed(r)
  BY <1>1, <1>r DEF MarkFlowRunFailed, MarkFailed, SelectOpenTasks, FinalizeOpenTasks, FailEvent,
                    Over, Go
<1>2. CASE Dispatch(r)
  BY <1>2, <1>r DEF Dispatch, Procs
<1>3. CASE \/ CreateRun(r) \/ CancelRead(r) \/ ResumeRead(r) \/ DispatchFails(r)
           \/ CancelWrite(r) \/ CancelEvent(r) \/ ResumeReset(r) \/ ResumeClear(r)
  BY <1>3, <1>r DEF CreateRun, CancelRead, ResumeRead, DispatchFails, CancelWrite, CancelEvent,
                    ResumeReset, ResumeClear, Go
<1> QED
  BY <1>1, <1>2, <1>3 DEF Arrive, Serve

LEMMA ExecuteNotLost ==
  ASSUME TypeOK, NEW e \in Execs, Execute(e) PROVE pc'[e] # "lost"
<1>e. e \in Procs /\ pc \in [Procs -> PC]
  BY DEF Procs, TypeOK
<1>1. CASE Over(e) \/ Abandon(e) \/ MarkFlowRunFailed(e)
  BY <1>1, <1>e DEF Abandon, Over, MarkFlowRunFailed, MarkFailed, SelectOpenTasks,
                    FinalizeOpenTasks, FailEvent, Go
<1>2. CASE Handler(e) \/ EmitCancelled(e) \/ EmitFlowCompleted(e)
  BY <1>2, <1>1, <1>e DEF Handler, EmitCancelled, EmitFlowCompleted, Go
<1>3. CASE \/ Load(e) \/ Acknowledge(e) \/ MarkRunning(e) \/ EmitStarted(e) \/ NextBatch(e)
           \/ CompleteRun(e) \/ CreateTask(e) \/ MarkStage(e) \/ StageReturns(e)
           \/ SoftTimeLimit(e) \/ PrepareFails(e) \/ SaveState(e) \/ RefreshAfterFailure(e) \/ FailRun(e)
  BY <1>3, <1>e DEF Load, Acknowledge, MarkRunning, EmitStarted, NextBatch, CompleteRun, CreateTask,
                    MarkStage, StageReturns, SoftTimeLimit, PrepareFails, SaveState, RefreshAfterFailure, FailRun, Go
<1>4. CASE \/ EmitTaskStarted(e) \/ SaveTask(e) \/ CreateArtifact(e) \/ CancelTask(e)
           \/ EmitTaskCancelled(e) \/ FailTask(e)
  BY <1>4, <1>1, <1>e DEF EmitTaskStarted, SaveTask, CreateArtifact, CancelTask, EmitTaskCancelled,
                          FailTask, Go
<1>5. CASE EmitTaskCompleted(e) \/ EmitFlowCancelled(e) \/ EmitTaskFailed(e)
  <2>1. Abandon(e) \/ \E f \in BOOLEAN : Settle(e, f)
    BY <1>5 DEF EmitTaskCompleted, EmitFlowCancelled, EmitTaskFailed
  <2> QED
    BY <2>1, <1>1, SettleFacts
<1> QED
  BY <1>1, <1>2, <1>3, <1>4, <1>5 DEF Execute

LEMMA NextTidy ==
  ASSUME Base, Base', RowsInv, RunningOK, Tidy, [Next]_vars, Orderly PROVE Tidy'
<1> SUFFICES ASSUME run'.status = "FAILED", kills' = 0
             PROVE  OpenRows' = {} \/ \E p \in Procs : Tidies(p)'
  BY DEF Tidy
<1>k. /\ kills = 0 /\ engine' = engine
      /\ \/ \E r \in Requests : Arrive(r) \/ Serve(r)
         \/ \E e \in Execs : Execute(e) \/ WorkerLost(e)
         \/ UNCHANGED vars
  BY StepsWithoutKill DEF Base
<1>1. CASE run.status # "FAILED"
  <2>1. CASE \E p \in Procs : MarkFailed(p)
    <3>1. PICK p \in Procs : MarkFailed(p)
      BY <2>1
    <3>2. pc'[p] = "finalize" /\ rows' = rows /\ (MySQL => sess'[p].open = OpenRows)
      BY <3>1 DEF MarkFailed, Go, Base, TypeOK
    <3>3. Tidies(p)'
      BY <3>2, <1>k DEF Tidies, MySQL, OpenRows
    <3> QED
      BY <3>3
  <2>2. CASE \E e \in Execs : FailRun(e)
    BY <2>2 DEF FailRun, Go, Base, TypeOK, Tidies, Procs
  <2> QED
    BY <1>1, <2>1, <2>2, NewStatus DEF Base
<1>2. CASE run.status = "FAILED"
  <2>1. OpenRows' \subseteq OpenRows
    BY <1>2, OpenRowsShrink
  <2>2. ASSUME NEW p \in Procs, Tidies(p) PROVE OpenRows' = {} \/ \E q \in Procs : Tidies(q)'
    <3>a. AtWork(p)
      BY <2>2 DEF Tidies, AtWork, ExecActive, InFlow, InFailure
    <3>1. CASE Undisturbed(p)
      <4>1. /\ pc'[p] = pc[p] /\ sess'[p] = sess[p] /\ rows' = rows
        BY <3>1 DEF Undisturbed
      <4>2. Tidies(p)'
        BY <4>1, <1>k, <2>2 DEF Tidies, MySQL, OpenRows
      <4> QED
        BY <4>2
    <3>2. CASE p \in Execs /\ Execute(p)
      BY <3>2, <3>a, <2>1, <2>2, <1>2, ExecuteTidies
      DEF Base, ControlOK, BatchOK, RowsInv, HeldRows, SelectionOK, RunningOK
    <3>3. CASE p \in Requests /\ Serve(p)
      <4>1. p \notin Execs /\ pc[p] \in {"markFailed", "finalize", "finalizeCommit"}
        BY <3>3, <2>2, RequestStepAt, ProcsAssumption DEF Tidies, RequestActive, InFailure
      <4>2. MarkFlowRunFailed(p)
        BY <3>3, <4>1, RequestStepAt DEF MarkFlowRunFailed
      <4> QED
        BY <4>2, <1>k, <2>1, <2>2, FailureTidies DEF Base, RowsInv, SelectionOK
    <3>4. CASE pc'[p] = "lost"
      <4>1. PICK e \in Execs : WorkerLost(e)
        <5>1. ASSUME NEW r \in Requests, Arrive(r) \/ Serve(r) PROVE FALSE
          <6>1. r = p
            BY <3>4, <3>a, <5>1, RequestFrame DEF Base, AtWork, ExecActive, InFlow, InFailure
          <6> QED
            BY <3>4, <5>1, <6>1, RequestNotLost DEF Base
        <5>2. ASSUME NEW e \in Execs, Execute(e) PROVE FALSE
          <6>1. e = p
            BY <3>4, <3>a, <5>2, ExecuteFrame DEF Base, Frame, AtWork, ExecActive, InFlow, InFailure
          <6> QED
            BY <3>4, <5>2, <6>1, ExecuteNotLost DEF Base
        <5>3. ~UNCHANGED vars
          BY <3>4, <3>a DEF vars, AtWork, ExecActive, InFlow, InFailure
        <5> QED
          BY <1>k, <5>1, <5>2, <5>3
      <4>2. PICK d \in Execs : pc'[d] = "queued"
        BY <4>1, FaultAtWork DEF Base
      <4> QED
        BY <4>2 DEF Tidies, Procs
    <3> QED
      BY <3>a, <3>1, <3>2, <3>3, <3>4, WorksAlone DEF Base
  <2> QED
    BY <1>2, <1>k, <2>1, <2>2 DEF Tidy
<1> QED
  BY <1>1, <1>2

-----------------------------------------------------------------------------
(***************************************************************************)
(* The theorems.                                                           *)
(***************************************************************************)
\* What is inductive in an orderly run.
OrderlyInv == Base /\ RowsInv /\ RunningOK /\ ProgressOK /\ OutputsInv /\ Tidy
Promises == BatchBarrier /\ CompletedHasOutputs

LEMMA InitOrderly == ASSUME Init PROVE OrderlyInv /\ Promises
<1>1. Base
  BY InitTypeOK, InitControlOK, InitBatchOK, InitRequestOK, InitAtWork
  DEF Base, Init, RowsOK, Present, NoRow
<1>2. RowsInv
  BY DEF Init, RowsInv, HeldRows, Held, NoWork, OpenRowsHeld, StillOpen, SelectionOK, SelectedOpen,
         Preparing, Settling, OpenInHand, Procs
<1>3. RunningOK /\ ProgressOK
  BY DEF Init, RunningOK, StatusOK, InFlow, InBatches, ProgressOK, Progress, Passing, Ending,
         EndsInHand, BetweenBatches, Preparing, Settling, Procs
<1>4. OutputsInv
  BY DEF Init, OutputsInv, Unstarted, OutputsOK, InFlow, Arts, Present, NoRow, Procs
<1>5. Tidy /\ CompletedHasOutputs
  BY DEF Init, Tidy, CompletedHasOutputs
<1>6. BatchBarrier
  BY DEF Init, BatchBarrier, Present, NoRow
<1> QED
  BY <1>1, <1>2, <1>3, <1>4, <1>5, <1>6 DEF OrderlyInv, Promises

LEMMA NextOrderlyInv ==
  ASSUME OrderlyInv, Promises, [Next]_vars, Orderly PROVE OrderlyInv' /\ Promises'
<1>1. Base'
  BY NextBase DEF OrderlyInv
<1>2. RowsInv' /\ RunningOK' /\ ProgressOK' /\ OutputsInv' /\ Tidy'
  BY <1>1, NextRowsInv, NextRunningOK, NextProgressOK, NextOutputs, NextTidy DEF OrderlyInv
<1>3. BatchBarrier' /\ CompletedHasOutputs'
  BY <1>1, NextBarrier, NextCompleted DEF OrderlyInv, Promises
<1> QED
  BY <1>1, <1>2, <1>3 DEF OrderlyInv, Promises

LEMMA OrderlyCorrect == OrderlySpec => [](OrderlyInv /\ Promises)
<1>1. Init => OrderlyInv /\ Promises
  BY InitOrderly
<1>2. OrderlyInv /\ Promises /\ [Next]_vars /\ [Orderly]_vars => OrderlyInv' /\ Promises'
  <2>1. ASSUME OrderlyInv, Promises, UNCHANGED vars PROVE Orderly
    <3>1. ~\E r \in Resumes : ResumeClear(r)
      BY <2>1 DEF vars, ResumeClear, Go, OrderlyInv, Base, TypeOK, Procs, Requests
    <3> QED
      BY <3>1 DEF Orderly
  <2> QED
    BY <2>1, NextOrderlyInv
<1> QED
  BY <1>1, <1>2, PTL DEF OrderlySpec, Spec

\* In an orderly run, whatever cancellations, crashes and redeliveries come in
\* between, an execution gives a stage a task only when every stage of every
\* earlier batch has succeeded in that same execution.
THEOREM BarrierCorrect == OrderlySpec => []BatchBarrier
BY OrderlyCorrect, PTL DEF Promises

\* In an orderly run, state_json holds between two stages the output of exactly
\* the stages whose artifact exists, also in a redelivered execution.
THEOREM OutputsCorrect == OrderlySpec => []OutputsMatchArtifacts
<1>1. OrderlyInv => OutputsMatchArtifacts
  BY DEF OrderlyInv, OutputsInv, OutputsOK, Arts, InFlow, OutputsMatchArtifacts
<1> QED
  BY OrderlyCorrect, <1>1, PTL

\* In an orderly run, a run that is COMPLETED has every stage's task, artifact
\* and output from one execution, but for cancelled tasks of the last batch.
THEOREM CompletionCorrect == OrderlySpec => []CompletedHasOutputs
BY OrderlyCorrect, PTL DEF Promises

\* In an orderly run, a run that has come to rest as FAILED has no task left
\* RUNNING, unless a process was lost for good.
THEOREM FailureCorrect == OrderlySpec => []FailedLeavesNoOpenTask
<1>1. OrderlyInv => FailedLeavesNoOpenTask
  <2>1. ASSUME Quiescent, NEW p \in Procs PROVE ~Tidies(p)
    BY <2>1 DEF Quiescent, Tidies
  <2> QED
    BY <2>1 DEF OrderlyInv, Tidy, FailedLeavesNoOpenTask, OpenRows, OpenTask
<1> QED
  BY OrderlyCorrect, <1>1, PTL

\* All four hold of every behaviour in which the run is never resumed.
THEOREM WithoutResumptionsCorrect ==
  ASSUME Resumes = {}
  PROVE  Spec => []( /\ BatchBarrier /\ OutputsMatchArtifacts
                     /\ CompletedHasOutputs /\ FailedLeavesNoOpenTask )
BY WithoutResumptions, BarrierCorrect, OutputsCorrect, CompletionCorrect, FailureCorrect, PTL

-----------------------------------------------------------------------------
(***************************************************************************)
(* A cancellation before the last batch is final.                          *)
(***************************************************************************)
\* An execution that will read the status again before it writes it: it has
\* another batch to begin, or its handler to go through, or is on its way out.
Stopping(p) ==
  /\ p \in Execs
  /\ \/ pc[p] \in {"handler", "cancelEvent", "return"}
     \/ pc[p] = "loop" /\ work[p].batch <= Len(Batches)
     \/ /\ pc[p] \in {"wait", "saveTask", "artifact", "saveState", "doneEvent", "stageFailed",
                      "cancelTask", "taskCancelEvent", "flowCancelEvent"}
        /\ work[p].batch < Len(Batches)

\* Nothing that is at work will overwrite the cancellation.
Sticks ==
  \/ crashes > 0
  \/ /\ run.status = "CANCELLED" /\ pc[Creator] # "idle"
     /\ \A p \in Procs : AtWork(p) => Stopping(p)

LEMMA SettleStopping ==
  ASSUME TypeOK, NEW e \in Execs, NEW f \in BOOLEAN, Settle(e, f), work[e].batch < Len(Batches)
  PROVE  Stopping(e)'
<1>e. e \in Procs
  BY DEF Procs
<1>b. work[e].batch \in Nat /\ Len(Batches) \in Nat
  BY BatchesAssumption DEF TypeOK, Work
<1> DEFINE left == work[e].todo \ {work[e].stage}
           failed == work[e].failed \/ f
<1>1. pc'[e] = IF left # {} THEN "wait" ELSE IF failed THEN "handler" ELSE "loop"
  BY <1>e DEF Settle, Go, TypeOK
<1>2. work'[e].batch = IF left = {} /\ ~failed THEN work[e].batch + 1 ELSE work[e].batch
  BY DEF Settle, TypeOK, Work
<1> HIDE DEF left, failed
<1>3. CASE left = {} /\ ~failed
  BY <1>1, <1>2, <1>3, <1>b DEF Stopping
<1>4. CASE left # {}
  BY <1>1, <1>2, <1>4 DEF Stopping
<1>5. CASE left = {} /\ failed
  BY <1>1, <1>5 DEF Stopping
<1> QED
  BY <1>3, <1>4, <1>5

\* Such an execution leaves a cancelled run cancelled, where reads see the
\* latest commit.
LEMMA StoppingStep ==
  ASSUME TypeOK, NEW e \in Execs, Execute(e), Stopping(e), run.status = "CANCELLED", ~MySQL
  PROVE  run'.status = "CANCELLED" /\ (AtWork(e)' => Stopping(e)')
<1>e. e \in Procs
  BY DEF Procs
<1>s. Fresh(e).status = "CANCELLED"
  BY DEF Fresh, View
<1>o. Over(e) => pc'[e] = "return"
  BY <1>e DEF Over, Go, TypeOK
<1>a. Abandon(e) => run' = run /\ pc'[e] = "return"
  BY <1>o DEF Abandon, db
<1>r. pc'[e] \in {"return", "handler", "cancelEvent"} => Stopping(e)'
  BY DEF Stopping
<1>1. CASE pc[e] = "handler"
  <2>1. Handler(e)
    BY <1>1, StepAt
  <2> QED
    BY <2>1, <1>s, <1>o, <1>r DEF Handler, db
<1>2. CASE pc[e] = "cancelEvent"
  <2>1. EmitCancelled(e)
    BY <1>2, StepAt
  <2> QED
    BY <2>1, <1>o, <1>r DEF EmitCancelled
<1>3. CASE pc[e] = "return"
  <2>1. Acknowledge(e)
    BY <1>3, StepAt
  <2>2. run' = run /\ pc'[e] = "done"
    BY <2>1, <1>e DEF Acknowledge, Go, TypeOK, db
  <2> QED
    BY <2>2 DEF AtWork, ExecActive, InFlow, InFailure
<1>4. CASE pc[e] = "loop"
  <2>1. work[e].batch \in Nat /\ Len(Batches) \in Nat /\ work[e].batch <= Len(Batches)
    BY <1>4, BatchesAssumption DEF TypeOK, Work, Stopping
  <2>2. NextBatch(e)
    BY <1>4, <2>1, StepAt DEF CompleteRun
  <2> QED
    BY <2>2, <1>s, <1>e, <1>r DEF NextBatch, Go, TypeOK, db
<1>5. CASE /\ pc[e] \in {"wait", "saveTask", "artifact", "saveState", "doneEvent", "stageFailed",
                         "cancelTask", "taskCancelEvent", "flowCancelEvent"}
           /\ work[e].batch < Len(Batches)
  <2> DEFINE Within == {"wait", "saveTask", "artifact", "saveState", "doneEvent", "stageFailed",
                        "cancelTask", "taskCancelEvent", "flowCancelEvent"}
  <2>w. pc'[e] \in Within /\ work'[e].batch = work[e].batch => Stopping(e)'
    BY <1>5 DEF Stopping
  <2>1. CASE pc[e] = "wait"
    <3>1. StageReturns(e) \/ SoftTimeLimit(e)
      BY <2>1, StepAt
    <3>2. run' = run /\ work'[e].batch = work[e].batch
      BY <3>1 DEF StageReturns, SoftTimeLimit, db, TypeOK, Work
    <3>3. pc'[e] \in {"saveTask", "stageFailed", "handler"}
      BY <3>1, <1>e DEF StageReturns, SoftTimeLimit, Go, TypeOK
    <3> QED
      BY <3>2, <3>3, <1>r, <2>w
  <2>2. CASE pc[e] = "saveTask"
    <3>1. SaveTask(e)
      BY <2>2, StepAt
    <3>2. CASE Present(RowInHand(e))
      BY <3>1, <3>2, <1>e, <2>w DEF SaveTask, Go, TypeOK, Work
    <3> QED
      BY <3>1, <3>2, <1>a, <1>r DEF SaveTask
  <2>3. CASE pc[e] = "artifact"
    <3>1. CreateArtifact(e)
      BY <2>3, StepAt
    <3>2. CASE Referable(e)
      BY <3>1, <3>2, <1>e, <2>w DEF CreateArtifact, Go, TypeOK
    <3> QED
      BY <3>1, <3>2, <1>a, <1>r DEF CreateArtifact
  <2>4. CASE pc[e] = "saveState"
    <3>1. SaveState(e)
      BY <2>4, StepAt
    <3> QED
      BY <3>1, <1>e, <2>w DEF SaveState, Go, TypeOK, RunRow
  <2>5. CASE pc[e] = "doneEvent"
    <3>1. EmitTaskCompleted(e)
      BY <2>5, StepAt
    <3>2. CASE Referable(e)
      BY <3>1, <3>2, <1>5, SettleStopping DEF EmitTaskCompleted
    <3> QED
      BY <3>1, <3>2, <1>a, <1>r DEF EmitTaskCompleted
  <2>6. CASE pc[e] = "stageFailed"
    <3>1. RefreshAfterFailure(e)
      BY <2>6, StepAt
    <3> QED
      BY <3>1, <1>s, <1>e, <2>w DEF RefreshAfterFailure, Go, TypeOK, db
  <2>7. CASE pc[e] = "cancelTask"
    <3>1. CancelTask(e)
      BY <2>7, StepAt
    <3>2. CASE Present(RowInHand(e))
      BY <3>1, <3>2, <1>e, <2>w DEF CancelTask, Go, TypeOK
    <3> QED
      BY <3>1, <3>2, <1>a, <1>r DEF CancelTask
  <2>8. CASE pc[e] = "taskCancelEvent"
    <3>1. EmitTaskCancelled(e)
      BY <2>8, StepAt
    <3>2. CASE Referable(e)
      BY <3>1, <3>2, <1>e, <2>w DEF EmitTaskCancelled, Go, TypeOK
    <3> QED
      BY <3>1, <3>2, <1>a, <1>r DEF EmitTaskCancelled
  <2>9. CASE pc[e] = "flowCancelEvent"
    <3>1. EmitFlowCancelled(e)
      BY <2>9, StepAt
    <3> QED
      BY <3>1, <1>5, SettleStopping DEF EmitFlowCancelled
  <2> QED
    BY <1>5, <2>1, <2>2, <2>3, <2>4, <2>5, <2>6, <2>7, <2>8, <2>9
<1> QED
  BY <1>1, <1>2, <1>3, <1>4, <1>5 DEF Stopping

LEMMA NextSticks ==
  ASSUME Resumes = {}, Engines \subseteq {"sqlite"}, TypeOK, Sticks, [Next]_vars
  PROVE  Sticks'
<1>m. ~MySQL
  BY DEF TypeOK, MySQL
<1>n. crashes \in Nat
  BY BoundsAssumption DEF TypeOK
<1>a. ASSUME NEW q \in Procs, pc'[q] = pc[q], q \in Execs => work'[q] = work[q],
             AtWork(q) => Stopping(q), AtWork(q)'
      PROVE  Stopping(q)'
  BY <1>a DEF AtWork, Stopping
<1>0. CASE crashes > 0
  <2>1. crashes' = crashes \/ crashes' = crashes + 1
    <3>1. ASSUME NEW r \in Requests, Arrive(r) \/ Serve(r) PROVE crashes' = crashes
      BY <3>1, RequestFrame DEF faults
    <3>2. ASSUME NEW e \in Execs, Execute(e) PROVE crashes' = crashes
      BY <3>2, ExecuteFrame DEF Frame, faults
    <3>3. ASSUME (\E e \in Execs : WorkerLost(e) \/ HardKill(e)) \/ ServerStops \/ UNCHANGED vars
          PROVE  crashes' = crashes \/ crashes' = crashes + 1
      BY <3>3 DEF WorkerLost, HardKill, ServerStops, vars
    <3> QED
      BY <3>1, <3>2, <3>3 DEF Next
  <2> QED
    BY <1>0, <1>n, <2>1 DEF Sticks
<1>1. CASE ~(crashes > 0)
  <2>s. run.status = "CANCELLED" /\ pc[Creator] # "idle" /\ \A p \in Procs : AtWork(p) => Stopping(p)
    BY <1>1 DEF Sticks
  <2>c. Creator \in Procs /\ Creator \in Requests /\ Creator \notin Execs
    BY ProcsAssumption DEF Procs, Requests
  <2> DEFINE Goal == /\ run'.status = "CANCELLED" /\ pc'[Creator] # "idle"
                     /\ \A p \in Procs : AtWork(p)' => Stopping(p)'
  <2>1. ASSUME NEW r \in Requests, Arrive(r) \/ Serve(r) PROVE Goal
    <3>r. r \in Procs /\ r \notin Execs
      BY ProcsAssumption DEF Procs
    <3>1. ~AtWork(r)
      BY <3>r, <2>s DEF Stopping
    <3>2. pc[r] \in {"idle", "cancel", "cancelRequested", "clear"}
      BY <2>1, <3>1, RequestStepAt DEF AtWork, RequestActive, ExecActive, InFlow, InFailure
    <3>3. CancelRead(r) \/ CancelWrite(r) \/ CancelEvent(r)
      BY <2>1, <3>2, <2>s, RequestStepAt DEF CreateRun, ResumeRead, ResumeClear
    <3>4. work' = work
      BY <2>1, RequestFrame
    <3>5. pc'[r] \in {"cancel", "cancelRequested", "done"} /\ \A q \in Procs \ {r} : pc'[q] = pc[q]
      BY <3>3, <3>r DEF CancelRead, CancelWrite, CancelEvent, Go, TypeOK
    <3>6. ~AtWork(r)' /\ pc'[Creator] # "idle"
      BY <3>5, <2>s, <2>c DEF AtWork, ExecActive, InFlow, InFailure
    <3>7. run'.status = "CANCELLED"
      BY <3>3, <2>s DEF CancelRead, CancelWrite, CancelEvent, StatusAfter, TypeOK, RunRow, db
    <3> QED
      BY <3>4, <3>5, <3>6, <3>7, <2>s, <1>a
  <2>2. ASSUME NEW e \in Execs, Execute(e) PROVE Goal
    <3>1. AtWork(e) /\ e \in Procs
      BY <2>2, ExecuteAtWork DEF Procs
    <3>2. run'.status = "CANCELLED" /\ (AtWork(e)' => Stopping(e)')
      BY <2>2, <3>1, <2>s, <1>m, StoppingStep
    <3>3. \A q \in Procs \ {e} : pc'[q] = pc[q] /\ (q \in Execs => work'[q] = work[q])
      BY <2>2, ExecuteFrame DEF Frame
    <3>4. \A q \in Procs \ {e} : AtWork(q)' => Stopping(q)'
      BY <3>3, <2>s, <1>a
    <3> QED
      BY <3>2, <3>3, <3>4, <2>c, <2>s
  <2>3. ASSUME NEW e \in Execs, WorkerLost(e) PROVE Sticks'
    BY <2>3, <1>n DEF WorkerLost, Sticks
  <2>4. ASSUME NEW e \in Execs, HardKill(e) PROVE Goal
    <3>1. ~AtWork(e)' /\ \A q \in Procs \ {e} : pc'[q] = pc[q]
      BY <2>4, FaultAtWork
    <3>2. run' = run /\ \A q \in Execs \ {e} : work'[q] = work[q]
      BY <2>4 DEF HardKill, Close, db
    <3> QED
      BY <3>1, <3>2, <2>s, <2>c, <1>a
  <2>5. ASSUME ServerStops PROVE Goal
    <3>1. \A p \in Procs : ~AtWork(p)' \/ pc'[p] = pc[p]
      BY <2>5, FaultAtWork
    <3>2. \A p \in Procs : AtWork(p)' => p \notin Server
      BY <2>5 DEF ServerStops, AtWork, ExecActive, InFlow, InFailure
    <3>3. \A p \in Execs : p \notin Server => work'[p] = work[p]
      BY <2>5 DEF ServerStops
    <3>4. run' = run /\ pc'[Creator] # "idle"
      BY <2>5, <2>s, <2>c DEF ServerStops, db
    <3> QED
      BY <3>1, <3>2, <3>3, <3>4, <2>s, <1>a
  <2>6. ASSUME UNCHANGED vars PROVE Goal
    BY <2>6, <2>s, <1>a DEF vars
  <2>7. Goal => Sticks'
    BY DEF Sticks
  <2> QED
    BY <2>1, <2>2, <2>3, <2>4, <2>5, <2>6, <2>7 DEF Next
<1> QED
  BY <1>0, <1>1, <1>n

\* Where reads see the latest commit and nobody resumes, a cancellation that is
\* written while an execution waits in a batch that is not the last is final,
\* until a worker is lost: the flow reads the status again before each batch
\* and in its handler, and whatever it commits on the way there leaves the
\* status as it is.
THEOREM CancelCorrect ==
  ASSUME Resumes = {}, Engines \subseteq {"sqlite"}
  PROVE  Spec => CancelBeforeLastBatchSticks
<1>1. OrderlyInv /\ CancelledEarly => Sticks
  <2> SUFFICES ASSUME OrderlyInv, CancelledEarly PROVE Sticks
    OBVIOUS
  <2>1. PICK e \in Execs : pc[e] = "wait" /\ work[e].batch < Len(Batches)
    BY DEF CancelledEarly
  <2>2. e \in Procs /\ AtWork(e) /\ Stopping(e)
    BY <2>1 DEF AtWork, ExecActive, InFlow, Stopping, Procs
  <2>3. \A p \in Procs : AtWork(p) => p = e
    BY <2>2 DEF OrderlyInv, Base, OneAtWork
  <2>4. pc[Creator] # "idle"
    BY <2>1, <2>2 DEF OrderlyInv, Base, Untouched
  <2> QED
    BY <2>2, <2>3, <2>4 DEF CancelledEarly, Sticks
<1>2. OrderlyInv /\ Sticks /\ [Next]_vars => Sticks'
  BY NextSticks DEF OrderlyInv, Base
<1>3. Sticks => (crashes = 0 => run.status = "CANCELLED")
  BY DEF Sticks
<1>4. Spec => []OrderlyInv
  BY WithoutResumptions, OrderlyCorrect, PTL
<1> QED
  BY <1>1, <1>2, <1>3, <1>4, PTL DEF Spec, CancelBeforeLastBatchSticks
=============================================================================
