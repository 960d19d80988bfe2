------------------------------ MODULE Delivery ------------------------------
(***************************************************************************)
(* The delivery_v1 workflow (DeliveryFlow) and the one thing its runs      *)
(* share outside of the database: the workspace directory of the run.  A   *)
(* backend and a frontend bundle are generated, by the model, by a         *)
(* template, or by the template because the model's answer was cut off;    *)
(* the integration stage writes them to the workspace, verifies them, has  *)
(* the model repair what failed and writes and verifies them again; the    *)
(* handoff stage reports the verification; and the user downloads the      *)
(* workspace as a package.                                                 *)
(*                                                                         *)
(* FlowRun models the run's database commit by commit.  Here the grain is  *)
(* the file operation, the model call and the verification command, and    *)
(* what an execution commits between two of these is one action.           *)
(***************************************************************************)
EXTENDS Integers

CONSTANTS
  Execs,             \* executions of the run, one per delivery of its message
  First,             \* the one its creation sends
  Modes,             \* subset of {"template", "crewai"}: what may be configured
  MaxRepairAttempts, \* DeliveryFlow.max_repair_attempts
  MaxResumes,        \* bound: resumptions of the run
  Faulty,            \* bound: the modes of executions that are overtaken by a
                     \* resumption, that follow one that was, or lose their worker
  MaxCrashes         \* bound: workers lost (their message is delivered again)

ASSUME DeliveryAssumption ==
  /\ First \in Execs
  /\ Modes \subseteq {"template", "crewai"}
  /\ Faulty \subseteq Modes
  /\ MaxRepairAttempts \in Nat
  /\ MaxResumes \in Nat
  /\ MaxCrashes \in Nat

VARIABLES
  run,       \* the flow_runs row: its status and its state_json
  events,    \* the delivery events of the run_events table
  disk,      \* the workspace directory of the run
  pc,        \* where each execution is in its code
  job,       \* the flow object of each execution
  package,   \* the GET /projects/{uid}/package request
  overtaken, \* executions that were alive when the run was resumed
  resumes,   \* resumptions so far
  crashes    \* workers lost so far

bounds == <<overtaken, resumes, crashes>>
vars == <<run, events, disk, pc, job, package, overtaken, resumes, crashes>>

-----------------------------------------------------------------------------
(***************************************************************************)
(* The values.                                                             *)
(***************************************************************************)
\* The parts of the deliverable: backend_delivery and frontend_delivery.
Parts == {1, 2}
Last == 2

Terminal == {"COMPLETED", "FAILED", "CANCELLED"}
Live == {"QUEUED", "RUNNING"}

\* A bundle of files, by where it comes from: the execution, the template or
\* the model, the repair attempt (0: its own stage), and whether the files lie
\* in the directory that the check of the part runs in.
Bundle == [by : Execs, kind : {"template", "fallback", "ai"},
           round : 0..MaxRepairAttempts, placed : BOOLEAN]
NoBundle == [kind |-> "none"]
Bundles == [Parts -> Bundle \union {NoBundle}]
NoBundles == [p \in Parts |-> NoBundle]

\* A VerificationResult, and the files that the command found on disk.
Result == [ok : BOOLEAN, on : Bundle \union {NoBundle}]
Results == [Parts -> Result]
NoResults == [p \in Parts |-> [ok |-> FALSE, on |-> NoBundle]]
Failing(results) == {p \in Parts : ~results[p].ok}

\* The IntegrationBundle: its files and its verification_results.
Integration == [files : Bundles, results : Results]
NoIntegration == [files |-> NoBundles, results |-> NoResults]

\* ProjectFlowState, and the run with its copy of it.
State == [code : Bundles, integration : Integration, handoff : Results]
NewState == [code |-> NoBundles, integration |-> NoIntegration, handoff |-> NoResults]
Run == [status : Live \union Terminal, state : State]

Event == [type : {"fallback", "verification", "repair.started", "repair.completed"},
          by : Execs, attempt : 0..MaxRepairAttempts, parts : SUBSET Parts]

\* The flow object.  state is self.state; code, files, results and attempt are
\* the locals of the integration stage, whose code is the stage's snapshot.
Job == [mode : {"none", "template", "crewai"}, batch : 1..4, todo : SUBSET Parts,
        failed : BOOLEAN, state : State, code : Bundles, files : Bundles,
        results : Results, part : Parts, attempt : 0..MaxRepairAttempts]
NewJob(mode) == [mode |-> mode, batch |-> 1, todo |-> {}, failed |-> FALSE,
                 state |-> NewState, code |-> NoBundles, files |-> NoBundles,
                 results |-> NoResults, part |-> 1, attempt |-> 0]
NoJob == NewJob("none")

\* In the order of the code: the head of the loop over the batches, the steps of
\* the four stages, and the execution that has returned but is not acknowledged.
FirstStep == <<"plan", "generate", "clear", "handoff">>
Integrating == {"clear", "write", "check", "report", "decide", "repair", "record"}
Working == {"loop", "plan", "generate", "announce", "handoff"} \union Integrating
Alive == {"queued", "return"} \union Working
PC == {"idle", "done", "lost"} \union Alive

\* todo are the listed files not yet in the archive, of is what the run recorded
\* when the package was asked for (nothing in the code reads it).
Package == [at : {"none", "list", "zip", "failed"}, todo : SUBSET Parts, files : Bundles,
            of : Bundles]
NoPackage == [at |-> "none", todo |-> {}, files |-> NoBundles, of |-> NoBundles]

TypeOK ==
  /\ run \in Run
  /\ events \subseteq Event
  /\ disk \in Bundles
  /\ pc \in [Execs -> PC]
  /\ job \in [Execs -> Job]
  /\ package \in Package
  /\ overtaken \subseteq Execs
  /\ resumes \in 0..MaxResumes
  /\ crashes \in 0..MaxCrashes

\* The run has been created and its message sent.
Init ==
  /\ run = [status |-> "QUEUED", state |-> NewState]
  /\ events = {}
  /\ disk = NoBundles
  /\ pc = [e \in Execs |-> IF e = First THEN "queued" ELSE "idle"]
  /\ job = [e \in Execs |-> NoJob]
  /\ package = NoPackage
  /\ overtaken = {}
  /\ resumes = 0
  /\ crashes = 0

Go(e, next) == pc' = [pc EXCEPT ![e] = next]
Emit(e, type, parts) ==
  events' = events \union {[type |-> type, by |-> e, attempt |-> job[e].attempt, parts |-> parts]}

-----------------------------------------------------------------------------
(***************************************************************************)
(* The batches of the flow.                                                *)
(***************************************************************************)
\* The function returns: its flow object is gone.
Return(e) == Go(e, "return") /\ job' = [job EXCEPT ![e] = NewJob(job[e].mode)]

\* The next batch, with the given flow state and the given row of the run.  After
\* the last one the status is not read again: the run is COMPLETED.
Proceed(e, state, row) ==
  IF job[e].batch = 4
  THEN /\ run' = [status |-> "COMPLETED", state |-> state]
       /\ Return(e)
  ELSE /\ run' = row
       /\ job' = [job EXCEPT ![e] = [NewJob(job[e].mode) EXCEPT !.batch = job[e].batch + 1,
                                                              !.state = state]]
       /\ Go(e, "loop")

\* A stage that runs alone raises: the run fails, unless it is CANCELLED; then
\* the stage ends as a cancelled task and the flow proceeds.
Raise(e) ==
  /\ IF run.status = "CANCELLED"
     THEN Proceed(e, job[e].state, run)
     ELSE Return(e) /\ run' = [status |-> "FAILED", state |-> job[e].state]
  /\ UNCHANGED <<events, disk, package, bounds>>

\* A resumption deletes the task of the stage in hand: saving it raises, unless
\* its id was given out again, and the session cannot be used any more.
Abandon(e) ==
  /\ e \in overtaken /\ pc[e] \in {"plan", "generate", "record", "handoff"}
  /\ Return(e)
  /\ UNCHANGED <<run, events, disk, package, bounds>>

\* execute_run_in_session: the runner may refuse to be created, which fails the
\* run unless it is CANCELLED; the flow starts whatever the status of the run.
Begin(e) ==
  /\ pc[e] = "queued"
  /\ \/ /\ Go(e, "loop")
        /\ \E m \in IF overtaken = {} THEN Modes ELSE Faulty : job' = [job EXCEPT ![e] = NewJob(m)]
        /\ run' = [status |-> "RUNNING", state |-> NewState]
     \/ /\ Return(e)
        /\ run' = IF run.status = "CANCELLED" THEN run ELSE [run EXCEPT !.status = "FAILED"]
  /\ UNCHANGED <<events, disk, package, bounds>>

\* The head of the loop; preparing a stage saves self.state with the run, and
\* takes the copy of it that the stage works on.
NextBatch(e) ==
  /\ pc[e] = "loop"
  /\ IF run.status = "CANCELLED"
     THEN Return(e) /\ UNCHANGED run
     ELSE /\ Go(e, FirstStep[job[e].batch])
          /\ job' = [job EXCEPT ![e].todo = IF job[e].batch = 2 THEN Parts ELSE {},
                                ![e].code = job[e].state.code]
          /\ run' = [run EXCEPT !.state = job[e].state]
  /\ UNCHANGED <<events, disk, package, bounds>>

\* delivery_requirements and solution_design, which leave nothing in the
\* workspace, stand here as one batch.
Plan(e) ==
  /\ pc[e] = "plan"
  /\ \/ /\ Proceed(e, job[e].state, [run EXCEPT !.state = job[e].state])
        /\ UNCHANGED <<events, disk, package, bounds>>
     \/ Raise(e)

\* What _execute_stage returns for a bundle: the template's files in template
\* mode; else the model's, wherever it has put them, or the template's when the
\* model's answer does not parse.
Made(e) ==
  IF job[e].mode = "template"
  THEN [by : {e}, kind : {"template"}, round : {0}, placed : {TRUE}]
  ELSE [by : {e}, kind : {"ai"}, round : {0}, placed : BOOLEAN]
       \union [by : {e}, kind : {"fallback"}, round : {0}, placed : {TRUE}]

FallbackSilent(e) == \* mutated: _complete_stage_execution is not extended
  /\ pc[e] = "generate"
  /\ \E p \in job[e].todo, b \in Made(e) :
       /\ job' = [job EXCEPT ![e].state.code[p] = b, ![e].todo = @ \ {p}, ![e].part = p]
       /\ run' = [run EXCEPT !.state = job'[e].state]
  /\ UNCHANGED <<events, disk, pc, package, bounds>>

\* _complete_stage_execution for a stage of the parallel group.
CompleteBundle(e) ==
  /\ pc[e] = "generate"
  /\ \E p \in job[e].todo, b \in Made(e) :
       /\ job' = [job EXCEPT ![e].state.code[p] = b, ![e].todo = @ \ {p}, ![e].part = p]
       /\ run' = [run EXCEPT !.state = job'[e].state]
       /\ Go(e, IF b.kind = "fallback" THEN "announce" ELSE "generate")
  /\ UNCHANGED <<events, disk, package, bounds>>

\* delivery.stage_fallback
AnnounceFallback(e) ==
  /\ pc[e] = "announce"
  /\ Emit(e, "fallback", {job[e].part})
  /\ Go(e, "generate")
  /\ UNCHANGED <<run, disk, job, package, bounds>>

\* A stage of the group raises, or its output is refused by the quality gate.
FailBundle(e) ==
  /\ pc[e] = "generate"
  /\ \E p \in job[e].todo :
       job' = [job EXCEPT ![e].todo = @ \ {p},
                          ![e].failed = @ \/ run.status # "CANCELLED"]
  /\ UNCHANGED <<run, events, disk, pc, package, bounds>>

\* The group is dealt with: its first failure is raised, or the flow goes on.
EndGroup(e) ==
  /\ pc[e] = "generate" /\ job[e].todo = {}
  /\ IF job[e].failed
     THEN /\ run' = IF run.status = "CANCELLED" THEN run ELSE [run EXCEPT !.status = "FAILED"]
          /\ Return(e)
     ELSE Proceed(e, job[e].state, run)
  /\ UNCHANGED <<events, disk, package, bounds>>

-----------------------------------------------------------------------------
(***************************************************************************)
(* The integration stage: _build_integration and _run_delivery_repair_loop.*)
(***************************************************************************)
\* _materialize_workspace: remove the directory, then write file by file.  The
\* paths of the generated files are not validated by the code; the model takes
\* the files of the two bundles, and those of the workspace itself, as disjoint.
ClearWorkspace(e) ==
  /\ pc[e] = "clear"
  /\ \/ /\ disk' = NoBundles
        /\ job' = [job EXCEPT ![e].files = job[e].code, ![e].part = 1]
        /\ Go(e, "write")
        /\ UNCHANGED <<run, events, package, bounds>>
     \/ Raise(e)

WriteFiles(e) ==
  /\ pc[e] = "write"
  /\ \/ LET p == job[e].part
        IN  /\ disk' = [disk EXCEPT ![p] = job[e].files[p]]
            /\ job' = [job EXCEPT ![e].part = IF p = Last THEN 1 ELSE p + 1]
            /\ Go(e, IF p = Last THEN "check" ELSE "write")
            /\ UNCHANGED <<run, events, package, bounds>>
     \/ Raise(e)

\* _verify_generated_workspace: a command that fails is a failed check, and so is
\* one that takes more than 45 s, unless it has written something by then, which
\* is bytes and makes the result raise; one whose directory does not exist raises,
\* as subprocess.run does, and so does any other error of starting it.  What the
\* commands themselves leave in the workspace (caches, files that the generated
\* tests write) is not modelled.
Runnable(p) == disk[p] # NoBundle /\ disk[p].placed

CheckFiles(e) ==
  /\ pc[e] = "check"
  /\ \/ LET p == job[e].part
        IN  /\ Runnable(p)
            /\ \E ok \in BOOLEAN :
                 job' = [job EXCEPT ![e].results[p] = [ok |-> ok, on |-> disk[p]],
                                    ![e].part = IF p = Last THEN 1 ELSE p + 1]
            /\ Go(e, IF p = Last THEN "report" ELSE "check")
            /\ UNCHANGED <<run, events, disk, package, bounds>>
     \/ Raise(e)

\* delivery.verification.completed and, after a repair, delivery.repair.completed
ReportChecks(e) ==
  /\ pc[e] = "report"
  /\ events' = events \union
       [type : {"verification"} \union (IF job[e].attempt > 0 THEN {"repair.completed"} ELSE {}),
        by : {e}, attempt : {job[e].attempt}, parts : {Failing(job[e].results)}]
  /\ Go(e, "decide")
  /\ UNCHANGED <<run, disk, job, package, bounds>>

RepairAgain(e) == \* mutated: the attempts are not counted
  /\ pc[e] = "decide"
  /\ IF job[e].mode = "crewai" /\ Failing(job[e].results) # {}
     THEN /\ job' = [job EXCEPT ![e].todo = Failing(job[e].results)]
          /\ Go(e, "repair")
     ELSE Go(e, "record") /\ UNCHANGED job
  /\ UNCHANGED <<run, events, disk, package, bounds>>

RepairTooOften(e) == \* mutated: range(1, max_repair_attempts + 2)
  /\ pc[e] = "decide"
  /\ IF /\ job[e].mode = "crewai" /\ Failing(job[e].results) # {}
        /\ job[e].attempt <= MaxRepairAttempts
     THEN /\ job' = [job EXCEPT ![e].attempt = @ + 1, ![e].todo = Failing(job[e].results)]
          /\ Go(e, "repair")
     ELSE Go(e, "record") /\ UNCHANGED job
  /\ UNCHANGED <<run, events, disk, package, bounds>>

RepairOnce(e) == \* mutated: range(1, max_repair_attempts)
  /\ pc[e] = "decide"
  /\ IF /\ job[e].mode = "crewai" /\ Failing(job[e].results) # {}
        /\ job[e].attempt + 1 < MaxRepairAttempts
     THEN /\ job' = [job EXCEPT ![e].attempt = @ + 1, ![e].todo = Failing(job[e].results)]
          /\ events' = events \union [type : {"repair.started"}, by : {e},
               attempt : {job[e].attempt + 1}, parts : {Failing(job[e].results)}]
          /\ Go(e, "repair")
     ELSE Go(e, "record") /\ UNCHANGED <<events, job>>
  /\ UNCHANGED <<run, disk, package, bounds>>

\* The head of the repair loop: delivery.repair.started, or the loop is left.
DecideRepair(e) ==
  /\ pc[e] = "decide"
  /\ IF /\ job[e].mode = "crewai" /\ Failing(job[e].results) # {}
        /\ job[e].attempt < MaxRepairAttempts
     THEN /\ job' = [job EXCEPT ![e].attempt = @ + 1, ![e].todo = Failing(job[e].results)]
          /\ events' = events \union [type : {"repair.started"}, by : {e},
               attempt : {job[e].attempt + 1}, parts : {Failing(job[e].results)}]
          /\ Go(e, "repair")
     ELSE Go(e, "record") /\ UNCHANGED <<events, job>>
  /\ UNCHANGED <<run, disk, package, bounds>>

RepairedBundle(e) ==
  [by : {e}, kind : {"ai"}, round : {job[e].attempt}, placed : BOOLEAN]

RepairEverything(e) == \* mutated: both bundles are generated anew
  /\ pc[e] = "repair"
  /\ \/ /\ \E b \in RepairedBundle(e) :
             job' = [job EXCEPT ![e].code = [p \in Parts |-> b], ![e].todo = {}]
        /\ Go(e, "clear")
        /\ UNCHANGED <<run, events, disk, package, bounds>>
     \/ Raise(e)

\* _repair_code_bundle_with_ai for the next target.  The repaired bundle goes
\* into the copy of the stage; a call that raises fails the stage.
RepairBundle(e) ==
  /\ pc[e] = "repair"
  /\ \/ LET p == CHOOSE q \in job[e].todo : \A r \in job[e].todo : q <= r
        IN  /\ \E b \in RepairedBundle(e) :
                 job' = [job EXCEPT ![e].code[p] = b, ![e].todo = @ \ {p}]
            /\ Go(e, IF job[e].todo = {p} THEN "clear" ELSE "repair")
            /\ UNCHANGED <<run, events, disk, package, bounds>>
     \/ Raise(e)

RecordGenerated(e) == \* mutated: files from self.state, not those written last
  /\ pc[e] = "record"
  /\ \/ /\ LET state == [job[e].state EXCEPT !.integration =
                       [files |-> job[e].state.code, results |-> job[e].results]]
           IN  Proceed(e, state, [run EXCEPT !.state = state])
        /\ UNCHANGED <<events, disk, package, bounds>>
     \/ Raise(e)

\* The IntegrationBundle passes the quality gate and is saved with the run; the
\* bundles of the parallel group stay in the state as they were generated.
RecordIntegration(e) ==
  /\ pc[e] = "record"
  /\ \/ /\ LET state == [job[e].state EXCEPT !.integration =
                       [files |-> job[e].files, results |-> job[e].results]]
           IN  Proceed(e, state, [run EXCEPT !.state = state])
        /\ UNCHANGED <<events, disk, package, bounds>>
     \/ Raise(e)

\* _build_handoff copies the results; its quality gate wants at least two.
HandOff(e) ==
  /\ pc[e] = "handoff"
  /\ \/ /\ job[e].state.integration # NoIntegration
        /\ LET state == [job[e].state EXCEPT !.handoff = job[e].state.integration.results]
           IN  Proceed(e, state, run)
        /\ UNCHANGED <<events, disk, package, bounds>>
     \/ Raise(e)

Acknowledge(e) ==
  /\ pc[e] = "return"
  /\ Go(e, "done")
  /\ job' = [job EXCEPT ![e] = NoJob]
  /\ UNCHANGED <<run, events, disk, package, bounds>>

-----------------------------------------------------------------------------
(***************************************************************************)
(* The rest of the world.                                                  *)
(***************************************************************************)
\* cancel_run
Cancel ==
  /\ run.status \in Live
  /\ run' = [run EXCEPT !.status = "CANCELLED"]
  /\ UNCHANGED <<events, disk, pc, job, package, bounds>>

\* resume_run: history and state are cleared, the workspace is not.
Resume ==
  /\ resumes < MaxResumes
  /\ run.status \in {"FAILED", "CANCELLED"}
  /\ \A e \in Execs : pc[e] \in Alive => job[e].mode \in Faulty
  /\ \E d \in Execs : pc[d] = "idle" /\ Go(d, "queued")
  /\ run' = [status |-> "QUEUED", state |-> NewState]
  /\ events' = {}
  /\ overtaken' = overtaken \union {e \in Execs : pc[e] \in Alive}
  /\ resumes' = resumes + 1
  /\ UNCHANGED <<disk, job, package, crashes>>

\* The worker is lost; the broker delivers the message again.
WorkerLost(e) ==
  /\ crashes < MaxCrashes
  /\ pc[e] \in Working \union {"return"} /\ job[e].mode \in Faulty
  /\ \E d \in Execs : pc[d] = "idle" /\ pc' = [pc EXCEPT ![e] = "lost", ![d] = "queued"]
  /\ job' = [job EXCEPT ![e] = NoJob]
  /\ crashes' = crashes + 1
  /\ UNCHANGED <<run, events, disk, package, overtaken, resumes>>

Recorded == run.state.integration.files

AskAnyPackage == \* mutated: the status of the run is not looked at
  /\ package.at = "none"
  /\ Recorded # NoBundles
  /\ package' = [package EXCEPT !.at = "list", !.of = Recorded]
  /\ UNCHANGED <<run, events, disk, pc, job, bounds>>

\* build_delivery_package: the run is COMPLETED and names its workspace.
AskPackage ==
  /\ package.at = "none"
  /\ run.status = "COMPLETED" /\ Recorded # NoBundles
  /\ package' = [package EXCEPT !.at = "list", !.of = Recorded]
  /\ UNCHANGED <<run, events, disk, pc, job, bounds>>

\* The files are listed at once and then added to the archive one by one; one
\* that is gone by then is skipped, or raises when it goes between the two looks
\* at it.  When none is left the archive is handed out.
ListFiles ==
  /\ package.at = "list"
  /\ package' = [package EXCEPT !.at = "zip", !.todo = {p \in Parts : disk[p] # NoBundle}]
  /\ UNCHANGED <<run, events, disk, pc, job, bounds>>

ZipFile ==
  /\ package.at = "zip" /\ package.todo # {}
  /\ LET p == CHOOSE q \in package.todo : \A r \in package.todo : q <= r
     IN  \/ package' = [package EXCEPT !.files[p] = disk[p], !.todo = @ \ {p}]
         \/ disk[p] = NoBundle /\ package' = [NoPackage EXCEPT !.at = "failed"]
  /\ UNCHANGED <<run, events, disk, pc, job, bounds>>

HandedOut == package.at = "zip" /\ package.todo = {}

-----------------------------------------------------------------------------
Execute(e) ==
  \/ Begin(e) \/ NextBatch(e) \/ Abandon(e) \/ Acknowledge(e)
  \/ Plan(e)
  \/ CompleteBundle(e) \/ AnnounceFallback(e) \/ FailBundle(e) \/ EndGroup(e)
  \/ ClearWorkspace(e) \/ WriteFiles(e) \/ CheckFiles(e) \/ ReportChecks(e)
  \/ DecideRepair(e) \/ RepairBundle(e) \/ RecordIntegration(e)
  \/ HandOff(e)

Next ==
  \/ \E e \in Execs : Execute(e) \/ WorkerLost(e)
  \/ Cancel \/ Resume
  \/ AskPackage \/ ListFiles \/ ZipFile

Spec == Init /\ [][Next]_vars

\* A queued message is delivered, and model calls, file operations and commands
\* return: the commands have a timeout, the calls the client's.
FairSpec == Spec /\ \A e \in Execs : WF_vars(Execute(e))

-----------------------------------------------------------------------------
(***************************************************************************)
(* Properties.                                                             *)
(***************************************************************************)
\* As long as nobody resumes the run under a live execution, a completed run
\* delivers what it says: the workspace holds exactly the files recorded in the
\* integration bundle, the verification results are those of these files and
\* not of an earlier repair attempt, and the handoff reports the same results
\* (a handoff stage that raised in a cancelled run reports none).  A worker lost
\* in the middle of writing the workspace makes no difference.
DeliveredAsRecorded ==
  run.status = "COMPLETED" /\ overtaken = {} =>
    LET bundle == run.state.integration
    IN  /\ disk = bundle.files
        /\ \A p \in Parts : bundle.results[p].on = bundle.files[p]
        /\ run.state.handoff \in {bundle.results, NoResults}

\* What the events say was found by verification k of execution e.
Reported(e, k) == [type : {"verification"}, by : {e}, attempt : {k}, parts : SUBSET Parts] \intersect events
FoundFailing(e, k, p) == \E v \in Reported(e, k) : p \in v.parts
Attempts(e) == {v.attempt : v \in {w \in events : w.by = e /\ w.type = "verification"}}

\* The recorded files are explained by the event log: each part comes from the
\* repair that followed the last verification that found it failing, and a part
\* that passed is left alone from then on, however often the other is repaired.
RepairsFollowFailures ==
  run.status = "COMPLETED" /\ overtaken = {} =>
    \A p \in Parts :
      LET b == Recorded[p]
          repairs == {k \in Attempts(b.by) : k > 0 /\ FoundFailing(b.by, k - 1, p)}
      IN  /\ b.round \in {0} \union repairs
          /\ \A k \in repairs : k <= b.round

\* Failing code is delivered only by a run without a model, or after every
\* repair attempt was used; and what is recorded is what was reported last.
FailuresDeliveredLast ==
  run.status = "COMPLETED" /\ overtaken = {} =>
    LET failing == Failing(run.state.integration.results)
        e == Recorded[1].by
        final == CHOOSE k \in Attempts(e) : \A j \in Attempts(e) : j <= k
    IN  /\ \A v \in Reported(e, final) : v.parts = failing
        /\ failing # {} => final = (IF Recorded[1].kind = "template" THEN 0 ELSE MaxRepairAttempts)

\* A bundle that silently came from the template in place of the model has its
\* event by the time the run is COMPLETED.
FallbackIsAnnounced ==
  run.status = "COMPLETED" /\ overtaken = {} =>
    \A p \in Parts : run.state.code[p] # NoBundle /\ run.state.code[p].kind = "fallback" =>
      \E v \in events : v.type = "fallback" /\ v.by = run.state.code[p].by /\ v.parts = {p}

\* A package that is handed out is the deliverable of the run as it was when it
\* was asked for, although it is read file by file from a directory that belongs
\* to whatever execution the run has next, and whatever workers were lost on the
\* way to the COMPLETED run: only the loss of the worker that completed it, before
\* its message is acknowledged, brings an execution that runs it once more.
PackageIsWhole ==
  HandedOut /\ overtaken = {} /\ pc[package.of[1].by] # "lost" =>
    package.files = package.of

\* However often verification fails, a run comes to rest.
Settles == (run.status \in Live) ~> (run.status \in Terminal /\ \A e \in Execs : pc[e] \notin Alive)
=============================================================================
