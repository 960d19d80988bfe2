--------------------------- MODULE DeliveryProofs ---------------------------
(***************************************************************************)
(* Proofs about the delivery workflow: its types; that a run which is      *)
(* COMPLETED delivers the files and the verification results it records;   *)
(* that its package is what it recorded; and that its event log accounts   *)
(* for every repair, every failure it delivers and every fallback.         *)
(***************************************************************************)
EXTENDS Delivery, TLAPS

-----------------------------------------------------------------------------
(***************************************************************************)
(* Types.                                                                  *)
(***************************************************************************)
LEMMA EmptyValues ==
  /\ NoBundles \in Bundles
  /\ NoResults \in Results
  /\ NewState \in State
  /\ \A m \in {"none", "template", "crewai"} : NewJob(m) \in Job
<1>1. NoBundles \in Bundles
  BY DEF NoBundles, Bundles
<1>2. NoResults \in Results
  BY DEF NoResults, Results, Result
<1>3. NewState \in State
  BY <1>1, <1>2 DEF NewState, State, NoIntegration, Integration
<1>4. ASSUME NEW m \in {"none", "template", "crewai"} PROVE NewJob(m) \in Job
  BY <1>1, <1>2, <1>3, DeliveryAssumption DEF NewJob, Job, Parts
<1> QED
  BY <1>1, <1>2, <1>3, <1>4

LEMMA TypeInit == Init => TypeOK
<1> SUFFICES ASSUME Init PROVE TypeOK
  OBVIOUS
<1>1. NoPackage \in Package
  BY EmptyValues DEF NoPackage, Package, Parts
<1>2. job \in [Execs -> Job]
  BY EmptyValues DEF Init, NoJob
<1>3. run \in Run
  BY EmptyValues DEF Init, Run, Live
<1> QED
  BY <1>1, <1>2, <1>3, EmptyValues, DeliveryAssumption DEF Init, TypeOK, PC, Alive

LEMMA ReturnType ==
  ASSUME TypeOK, NEW e \in Execs, Return(e)
  PROVE  pc' \in [Execs -> PC] /\ job' \in [Execs -> Job]
<1>1. job[e].mode \in {"none", "template", "crewai"}
  BY DEF TypeOK, Job
<1> QED
  BY <1>1, EmptyValues DEF TypeOK, Return, Go, PC, Alive

LEMMA ProceedType ==
  ASSUME TypeOK, NEW e \in Execs, NEW state \in State, NEW row \in Run,
         Proceed(e, state, row)
  PROVE  pc' \in [Execs -> PC] /\ job' \in [Execs -> Job] /\ run' \in Run
<1>1. job[e] \in Job
  BY DEF TypeOK
<1>2. CASE job[e].batch = 4
  BY <1>2, ReturnType DEF Proceed, Run, Terminal
<1>3. CASE job[e].batch # 4
  <2>1. job[e].mode \in {"none", "template", "crewai"} /\ job[e].batch + 1 \in 1..4
    BY <1>1, <1>3 DEF Job
  <2>2. [NewJob(job[e].mode) EXCEPT !.batch = job[e].batch + 1, !.state = state] \in Job
    BY <2>1, EmptyValues DEF Job
  <2> QED
    BY <1>3, <2>2 DEF Proceed, TypeOK, Go, PC, Alive, Working
<1> QED
  BY <1>2, <1>3

LEMMA RaiseType ==
  ASSUME TypeOK, NEW e \in Execs, Raise(e)
  PROVE  TypeOK'
<1>1. job[e].state \in State /\ run \in Run
  BY DEF TypeOK, Job
<1>2. pc' \in [Execs -> PC] /\ job' \in [Execs -> Job] /\ run' \in Run
  <2>1. CASE run.status = "CANCELLED"
    BY <1>1, <2>1, ProceedType DEF Raise
  <2>2. CASE run.status # "CANCELLED"
    BY <1>1, <2>2, ReturnType DEF Raise, Run, Terminal
  <2> QED
    BY <2>1, <2>2
<1> QED
  BY <1>2 DEF Raise, TypeOK, bounds

LEMMA TypeStep == TypeOK /\ [Next]_vars => TypeOK'
<1> SUFFICES ASSUME TypeOK, [Next]_vars PROVE TypeOK'
  OBVIOUS
<1>1. ASSUME NEW e \in Execs, Begin(e) PROVE TypeOK'
  <2>1. CASE /\ Return(e)
             /\ run' = IF run.status = "CANCELLED" THEN run ELSE [run EXCEPT !.status = "FAILED"]
    <3>1. run' \in Run
      BY <2>1 DEF TypeOK, Run, Terminal
    <3> QED
      BY <1>1, <2>1, <3>1, ReturnType DEF Begin, TypeOK, bounds
  <2>2. ASSUME Go(e, "loop"), NEW m \in IF overtaken = {} THEN Modes ELSE Faulty,
               job' = [job EXCEPT ![e] = NewJob(m)],
               run' = [status |-> "RUNNING", state |-> NewState]
        PROVE  TypeOK'
    <3>1. run' \in Run
      BY <2>2, EmptyValues DEF Run, Live
    <3>2. m \in {"none", "template", "crewai"}
      BY DeliveryAssumption
    <3>3. job' \in [Execs -> Job]
      BY <2>2, <3>2, EmptyValues DEF TypeOK
    <3>4. pc' \in [Execs -> PC]
      BY <2>2 DEF Go, TypeOK, PC, Alive, Working
    <3> QED
      BY <1>1, <3>1, <3>3, <3>4 DEF Begin, TypeOK, bounds
  <2> QED
    BY <1>1, <2>1, <2>2 DEF Begin
<1>2. ASSUME NEW e \in Execs, NextBatch(e) PROVE TypeOK'
  <2>1. CASE run.status = "CANCELLED"
    BY <1>2, <2>1, ReturnType DEF NextBatch, TypeOK, bounds
  <2>2. CASE run.status # "CANCELLED"
    <3>1. job[e] \in Job
      BY DEF TypeOK
    <3>2. job' \in [Execs -> Job]
      BY <1>2, <2>2, <3>1 DEF NextBatch, TypeOK, Job, State, Parts
    <3>3. run' \in Run
      BY <1>2, <2>2, <3>1 DEF NextBatch, TypeOK, Job, Run
    <3>4. FirstStep[job[e].batch] \in PC
      BY <3>1 DEF FirstStep, Job, PC, Alive, Working, Integrating
    <3> QED
      BY <1>2, <2>2, <3>2, <3>3, <3>4 DEF NextBatch, TypeOK, Go, bounds
  <2> QED
    BY <2>1, <2>2
<1>3. ASSUME NEW e \in Execs, Abandon(e) PROVE TypeOK'
  BY <1>3, ReturnType DEF Abandon, TypeOK, bounds
<1>4. ASSUME NEW e \in Execs, Acknowledge(e) PROVE TypeOK'
  BY <1>4, EmptyValues DEF Acknowledge, Go, NoJob, TypeOK, PC, bounds
<1>5. ASSUME NEW e \in Execs, Plan(e) PROVE TypeOK'
  <2>1. job[e].state \in State /\ [run EXCEPT !.state = job[e].state] \in Run
    BY DEF TypeOK, Job, Run
  <2> QED
    BY <1>5, <2>1, RaiseType, ProceedType DEF Plan, TypeOK, bounds
<1>6. ASSUME NEW e \in Execs, CompleteBundle(e) PROVE TypeOK'
  <2>1. PICK p \in job[e].todo, b \in Made(e) :
          /\ job' = [job EXCEPT ![e].state.code[p] = b, ![e].todo = @ \ {p}, ![e].part = p]
          /\ Go(e, IF b.kind = "fallback" THEN "announce" ELSE "generate")
    BY <1>6 DEF CompleteBundle
  <2>2. b \in Bundle
    <3>1. 0 \in 0..MaxRepairAttempts
      BY DeliveryAssumption
    <3>2. CASE job[e].mode = "template"
      BY <3>1, <3>2 DEF Made, Bundle
    <3>3. CASE job[e].mode # "template"
      BY <3>1, <3>3 DEF Made, Bundle
    <3> QED
      BY <3>2, <3>3
  <2>3. job[e] \in Job /\ p \in Parts
    BY DEF TypeOK, Job
  <2>4. [job[e].state EXCEPT !.code[p] = b] \in State
    BY <2>2, <2>3 DEF Job, State, Bundles
  <2>5. job' \in [Execs -> Job]
    BY <2>1, <2>3, <2>4 DEF TypeOK, Job
  <2>6. run' \in Run
    BY <1>6, <2>5 DEF CompleteBundle, TypeOK, Run, Job
  <2>7. pc' \in [Execs -> PC]
    BY <2>1 DEF Go, TypeOK, PC, Alive, Working
  <2> QED
    BY <1>6, <2>5, <2>6, <2>7 DEF CompleteBundle, TypeOK, bounds
<1>7. ASSUME NEW e \in Execs, AnnounceFallback(e) PROVE TypeOK'
  <2>1. job[e].part \in Parts /\ job[e].attempt \in 0..MaxRepairAttempts
    BY DEF TypeOK, Job
  <2>2. events' \subseteq Event
    BY <1>7, <2>1 DEF AnnounceFallback, Emit, TypeOK, Event
  <2> QED
    BY <1>7, <2>2 DEF AnnounceFallback, Go, TypeOK, PC, Alive, Working, bounds
<1>8. ASSUME NEW e \in Execs, FailBundle(e) PROVE TypeOK'
  <2>1. job[e] \in Job
    BY DEF TypeOK
  <2>2. PICK p \in job[e].todo :
          job' = [job EXCEPT ![e].todo = @ \ {p},
                             ![e].failed = @ \/ run.status # "CANCELLED"]
    BY <1>8 DEF FailBundle
  <2>3. (job[e].failed \/ run.status # "CANCELLED") \in BOOLEAN
    BY <2>1 DEF Job
  <2>4. job' \in [Execs -> Job]
    BY <2>1, <2>2, <2>3 DEF TypeOK, Job
  <2> QED
    BY <1>8, <2>4 DEF FailBundle, TypeOK, bounds
<1>9. ASSUME NEW e \in Execs, EndGroup(e) PROVE TypeOK'
  <2>1. job[e].state \in State /\ run \in Run
    BY DEF TypeOK, Job
  <2>2. pc' \in [Execs -> PC] /\ job' \in [Execs -> Job] /\ run' \in Run
    <3>1. CASE job[e].failed
      BY <1>9, <2>1, <3>1, ReturnType DEF EndGroup, Run, Terminal
    <3>2. CASE ~job[e].failed
      BY <1>9, <2>1, <3>2, ProceedType DEF EndGroup
    <3> QED
      BY <3>1, <3>2
  <2> QED
    BY <1>9, <2>2 DEF EndGroup, TypeOK, bounds
<1>10. ASSUME NEW e \in Execs, ClearWorkspace(e), ~Raise(e) PROVE TypeOK'
  <2>1. job[e] \in Job
    BY DEF TypeOK
  <2>2. job' \in [Execs -> Job]
    BY <1>10, <2>1 DEF ClearWorkspace, TypeOK, Job, Parts
  <2> QED
    BY <1>10, <2>2, EmptyValues DEF ClearWorkspace, Go, TypeOK, PC, Alive, Working, Integrating, bounds
<1>11. ASSUME NEW e \in Execs, WriteFiles(e), ~Raise(e) PROVE TypeOK'
  <2>1. job[e] \in Job /\ job[e].part \in Parts /\ job[e].files \in Bundles
    BY DEF TypeOK, Job
  <2>2. job' \in [Execs -> Job]
    BY <1>11, <2>1 DEF WriteFiles, TypeOK, Job, Parts, Last
  <2>3. disk' \in Bundles
    BY <1>11, <2>1 DEF WriteFiles, TypeOK, Bundles
  <2> QED
    BY <1>11, <2>2, <2>3 DEF WriteFiles, Go, TypeOK, PC, Alive, Working, Integrating, bounds
<1>12. ASSUME NEW e \in Execs, CheckFiles(e), ~Raise(e) PROVE TypeOK'
  <2>1. job[e] \in Job /\ job[e].part \in Parts /\ job[e].results \in Results
    BY DEF TypeOK, Job
  <2>2. PICK ok \in BOOLEAN :
          job' = [job EXCEPT ![e].results[job[e].part] = [ok |-> ok, on |-> disk[job[e].part]],
                             ![e].part = IF job[e].part = Last THEN 1 ELSE job[e].part + 1]
    BY <1>12 DEF CheckFiles
  <2>3. [job[e].results EXCEPT ![job[e].part] = [ok |-> ok, on |-> disk[job[e].part]]] \in Results
    BY <2>1 DEF TypeOK, Results, Result, Bundles
  <2>4. job' \in [Execs -> Job]
    BY <2>1, <2>2, <2>3 DEF TypeOK, Job, Parts, Last
  <2> QED
    BY <1>12, <2>4 DEF CheckFiles, Go, TypeOK, PC, Alive, Working, Integrating, bounds
<1>13. ASSUME NEW e \in Execs, ReportChecks(e) PROVE TypeOK'
  <2>1. job[e].attempt \in 0..MaxRepairAttempts /\ Failing(job[e].results) \subseteq Parts
    BY DEF TypeOK, Job, Failing
  <2>2. events' \subseteq Event
    BY <1>13, <2>1 DEF ReportChecks, TypeOK, Event
  <2> QED
    BY <1>13, <2>2 DEF ReportChecks, Go, TypeOK, PC, Alive, Working, Integrating, bounds
<1>14. ASSUME NEW e \in Execs, DecideRepair(e) PROVE TypeOK'
  <2>1. job[e] \in Job /\ Failing(job[e].results) \subseteq Parts
    BY DEF TypeOK, Job, Failing
  <2>2. CASE UNCHANGED <<events, job>>
    BY <1>14, <2>2 DEF DecideRepair, Go, TypeOK, PC, Alive, Working, Integrating, bounds
  <2>3. CASE ~UNCHANGED <<events, job>>
    <3>1. job[e].attempt + 1 \in 0..MaxRepairAttempts
      BY <1>14, <2>1, <2>3, DeliveryAssumption DEF DecideRepair, Job
    <3>2. job' \in [Execs -> Job]
      BY <1>14, <2>1, <2>3, <3>1 DEF DecideRepair, TypeOK, Job
    <3>3. events' \subseteq Event
      BY <1>14, <2>1, <2>3, <3>1 DEF DecideRepair, TypeOK, Event
    <3> QED
      BY <1>14, <2>3, <3>2, <3>3
      DEF DecideRepair, Go, TypeOK, PC, Alive, Working, Integrating, bounds
  <2> QED
    BY <2>2, <2>3
<1>15. ASSUME NEW e \in Execs, RepairBundle(e), ~Raise(e) PROVE TypeOK'
  <2> DEFINE p == CHOOSE q \in job[e].todo : \A r \in job[e].todo : q <= r
  <2>1. job[e] \in Job
    BY DEF TypeOK
  <2>2. PICK b \in RepairedBundle(e) :
          job' = [job EXCEPT ![e].code[p] = b, ![e].todo = @ \ {p}]
    BY <1>15 DEF RepairBundle
  <2>3. b \in Bundle
    BY <2>1 DEF RepairedBundle, Bundle, Job
  <2> HIDE DEF p
  <2>4. [job[e].code EXCEPT ![p] = b] \in Bundles
    BY <2>1, <2>3 DEF Job, Bundles
  <2>5. job' \in [Execs -> Job]
    BY <2>1, <2>2, <2>4 DEF TypeOK, Job
  <2>6. pc' \in [Execs -> PC]
    BY <1>15 DEF RepairBundle, Go, TypeOK, PC, Alive, Working, Integrating
  <2> QED
    BY <1>15, <2>5, <2>6 DEF RepairBundle, TypeOK, bounds
<1>16. ASSUME NEW e \in Execs, RecordIntegration(e) PROVE TypeOK'
  <2> DEFINE state == [job[e].state EXCEPT !.integration =
                         [files |-> job[e].files, results |-> job[e].results]]
  <2>1. job[e] \in Job
    BY DEF TypeOK
  <2>2. state \in State
    BY <2>1 DEF Job, State, Integration
  <2>3. [run EXCEPT !.state = state] \in Run
    BY <2>2 DEF TypeOK, Run
  <2>4. CASE Raise(e)
    BY <2>4, RaiseType
  <2>5. CASE ~Raise(e)
    <3>1. Proceed(e, state, [run EXCEPT !.state = state])
      BY <1>16, <2>5 DEF RecordIntegration
    <3> HIDE DEF state
    <3> QED
      BY <1>16, <2>2, <2>3, <2>5, <3>1, ProceedType DEF RecordIntegration, TypeOK, bounds
  <2> QED
    BY <2>4, <2>5
<1>17. ASSUME NEW e \in Execs, HandOff(e) PROVE TypeOK'
  <2> DEFINE state == [job[e].state EXCEPT !.handoff = job[e].state.integration.results]
  <2>1. state \in State /\ run \in Run
    BY DEF TypeOK, Job, State, Integration
  <2>2. CASE Raise(e)
    BY <2>2, RaiseType
  <2>3. CASE ~Raise(e)
    <3>1. Proceed(e, state, run)
      BY <1>17, <2>3 DEF HandOff
    <3> HIDE DEF state
    <3> QED
      BY <1>17, <2>1, <2>3, <3>1, ProceedType DEF HandOff, TypeOK, bounds
  <2> QED
    BY <2>2, <2>3
<1>18. ASSUME NEW e \in Execs, WorkerLost(e) PROVE TypeOK'
  BY <1>18, EmptyValues, DeliveryAssumption DEF WorkerLost, NoJob, TypeOK, PC, Alive
<1>19. CASE Cancel
  BY <1>19 DEF Cancel, TypeOK, Run, Terminal, bounds
<1>20. CASE Resume
  <2>1. run' \in Run
    BY <1>20, EmptyValues DEF Resume, Run, Live
  <2>2. pc' \in [Execs -> PC]
    BY <1>20 DEF Resume, Go, TypeOK, PC, Alive
  <2> QED
    BY <1>20, <2>1, <2>2, DeliveryAssumption DEF Resume, TypeOK
<1>21. CASE AskPackage
  BY <1>21 DEF AskPackage, Recorded, TypeOK, Package, Run, State, Integration, bounds
<1>22. CASE ListFiles
  <2>1. {p \in Parts : disk[p] # NoBundle} \in SUBSET Parts
    OBVIOUS
  <2> QED
    BY <1>22, <2>1 DEF ListFiles, TypeOK, Package, bounds
<1>24. CASE ZipFile
  <2> DEFINE p == CHOOSE q \in package.todo : \A r \in package.todo : q <= r
  <2>1. package.files \in Bundles /\ package.todo \in SUBSET Parts /\ package.todo # {}
    BY <1>24 DEF ZipFile, TypeOK, Package
  <2> HIDE DEF p
  <2>3. [package.files EXCEPT ![p] = disk[p]] \in Bundles /\ package.todo \ {p} \in SUBSET Parts
    BY <2>1 DEF TypeOK, Bundles
  <2> USE DEF p
  <2>4. \/ package' = [package EXCEPT !.files[p] = disk[p], !.todo = @ \ {p}]
        \/ package' = [NoPackage EXCEPT !.at = "failed"]
    BY <1>24 DEF ZipFile
  <2> HIDE DEF p
  <2>5. package' \in Package
    BY <2>3, <2>4, EmptyValues DEF TypeOK, Package, NoPackage, Parts
  <2> QED
    BY <1>24, <2>5 DEF ZipFile, TypeOK, bounds
<1>23. CASE UNCHANGED vars
  BY <1>23 DEF vars, TypeOK
<1> QED
  BY <1>1, <1>2, <1>3, <1>4, <1>5, <1>6, <1>7, <1>8, <1>9, <1>10, <1>11, <1>12, <1>13,
     <1>14, <1>15, <1>16, <1>17, <1>18, <1>19, <1>20, <1>21, <1>22, <1>23, <1>24, RaiseType
  DEF Next, Execute, ClearWorkspace, WriteFiles, CheckFiles, RepairBundle

\* The types of the delivery workflow, for any executions, any number of repair
\* attempts and any bounds on resumptions and lost workers.
THEOREM TypeCorrect == Spec => []TypeOK
<1> QED
  BY TypeInit, TypeStep, PTL DEF Spec

-----------------------------------------------------------------------------
(***************************************************************************)
(* The inductive invariant.  As long as no live execution was overtaken,   *)
(* at most one execution is alive, so the workspace is its own: Good says  *)
(* how far it has come in writing and checking its files, and that the     *)
(* bundle it has recorded is what is on disk.  A COMPLETED run has no      *)
(* execution at work, only one that has returned or one to come.           *)
(***************************************************************************)
Matches(bundle) ==
  /\ disk = bundle.files
  /\ \A p \in Parts : bundle.results[p].on = bundle.files[p]

AtMostOneAlive == \A d, e \in Execs : pc[d] \in Alive /\ pc[e] \in Alive => d = e

NobodyWorksOnCompleted ==
  run.status = "COMPLETED" => \A e \in Execs : pc[e] \notin Working

\* The batch that a step belongs to.
InBatch(e) ==
  /\ pc[e] \in Integrating => job[e].batch = 3
  /\ pc[e] \in {"plan", "generate", "announce"} => job[e].batch < 3
  /\ pc[e] = "handoff" => job[e].batch = 4

\* The files are written up to the part in hand, or all of them.
WrittenSoFar(e) ==
  /\ pc[e] = "write" => \A q \in Parts : q < job[e].part => disk[q] = job[e].files[q]
  /\ pc[e] \in {"check", "report", "decide", "repair", "record"} => disk = job[e].files

\* The results are those of the files, up to the part in hand, or all of them.
CheckedSoFar(e) ==
  /\ pc[e] = "check" =>
       \A q \in Parts : q < job[e].part => job[e].results[q].on = job[e].files[q]
  /\ pc[e] \in {"report", "decide", "record"} =>
       \A q \in Parts : job[e].results[q].on = job[e].files[q]

\* What was recorded is what is there, unless the integration was cancelled.
RecordedSoFar(e) ==
  /\ pc[e] \in Working => job[e].state.handoff = NoResults
  /\ pc[e] = "handoff" => Matches(job[e].state.integration)
  /\ pc[e] = "loop" /\ job[e].batch = 4 =>
       Matches(job[e].state.integration) \/ run.status = "CANCELLED"

Good(e) == InBatch(e) /\ WrittenSoFar(e) /\ CheckedSoFar(e) /\ RecordedSoFar(e)

Delivered ==
  run.status = "COMPLETED" =>
    /\ Matches(run.state.integration)
    /\ run.state.handoff \in {run.state.integration.results, NoResults}

Undisturbed ==
  overtaken = {} =>
    AtMostOneAlive /\ NobodyWorksOnCompleted /\ Delivered /\ \A e \in Execs : Good(e)

LEMMA UndisturbedInit == Init => Undisturbed
<1> SUFFICES ASSUME Init PROVE Undisturbed
  OBVIOUS
<1>1. \A e \in Execs : Good(e)
  BY DEF Init, Good, InBatch, WrittenSoFar, CheckedSoFar, RecordedSoFar, Working, Integrating
<1> QED
  BY <1>1 DEF Init, Undisturbed, AtMostOneAlive, NobodyWorksOnCompleted, Delivered, Alive,
              Working, Integrating

LEMMA GoTo ==
  ASSUME TypeOK, NEW e \in Execs, NEW next, Go(e, next) PROVE pc'[e] = next
BY DEF TypeOK, Go

\* The one live execution takes a step: the others are not concerned.
LEMMA OneMoves ==
  ASSUME TypeOK, Undisturbed, overtaken = {},
         NEW e \in Execs, pc[e] \in Alive,
         NEW next, pc' = [pc EXCEPT ![e] = next],
         run'.status = "COMPLETED" => next \notin Working,
         Delivered', Good(e)'
  PROVE  Undisturbed'
<1>1. \A d \in Execs \ {e} : pc'[d] \notin Alive
  BY DEF TypeOK, Undisturbed, AtMostOneAlive
<1>2. AtMostOneAlive'
  BY <1>1 DEF AtMostOneAlive
<1>3. NobodyWorksOnCompleted'
  BY <1>1 DEF NobodyWorksOnCompleted, TypeOK, Alive
<1>4. \A d \in Execs \ {e} : Good(d)'
  BY <1>1 DEF Good, InBatch, WrittenSoFar, CheckedSoFar, RecordedSoFar, Alive, Working, Integrating
<1> QED
  BY <1>2, <1>3, <1>4 DEF Undisturbed

\* A step that leaves the run as it is, or its status one that is not COMPLETED,
\* keeps Delivered.
LEMMA NotCompleted ==
  ASSUME run'.status # "COMPLETED" PROVE Delivered'
BY DEF Delivered

LEMMA ReturnKeeps ==
  ASSUME TypeOK, Undisturbed, overtaken = {},
         NEW e \in Execs, pc[e] \in Alive, Return(e), Delivered'
  PROVE  Undisturbed'
<1>1. pc' = [pc EXCEPT ![e] = "return"] /\ pc'[e] = "return"
  BY DEF Return, Go, TypeOK
<1>2. Good(e)'
  BY <1>1 DEF Good, InBatch, WrittenSoFar, CheckedSoFar, RecordedSoFar, Working, Integrating
<1> QED
  BY <1>1, <1>2, OneMoves DEF Working, Integrating

\* To the next batch, in a run that is not COMPLETED and whose integration, when
\* that was the batch, is recorded as it is on disk or was cancelled.
LEMMA ProceedKeeps ==
  ASSUME TypeOK, Undisturbed, overtaken = {}, NEW e \in Execs, pc[e] \in Working,
         NEW state \in State, NEW row \in Run, Proceed(e, state, row), UNCHANGED disk,
         job[e].batch # 4, row.status # "COMPLETED",
         state.handoff = NoResults,
         job[e].batch = 3 => Matches(state.integration) \/ row.status = "CANCELLED"
  PROVE  Undisturbed'
<1>1. /\ pc' = [pc EXCEPT ![e] = "loop"] /\ pc'[e] = "loop"
      /\ job'[e].batch = job[e].batch + 1 /\ job'[e].state = state
      /\ run' = row
  <2>1. /\ Go(e, "loop") /\ run' = row
        /\ job' = [job EXCEPT ![e] = [NewJob(job[e].mode) EXCEPT !.batch = job[e].batch + 1,
                                                               !.state = state]]
    BY DEF Proceed
  <2>2. /\ job'[e].batch = job[e].batch + 1
        /\ job'[e].state = state
    BY <2>1 DEF TypeOK, NewJob
  <2> QED
    BY <2>1, <2>2, GoTo DEF Go
<1>2. job[e].batch \in 1..4
  BY DEF TypeOK, Job
<1>3. Good(e)'
  BY <1>1, <1>2 DEF Good, InBatch, WrittenSoFar, CheckedSoFar, RecordedSoFar, Integrating, Matches
<1> QED
  BY <1>1, <1>3, OneMoves, NotCompleted DEF Alive

LEMMA RaiseKeeps ==
  ASSUME TypeOK, Undisturbed, overtaken = {}, NEW e \in Execs,
         pc[e] \in {"plan", "handoff"} \union Integrating, Raise(e)
  PROVE  Undisturbed'
<1>1. /\ pc[e] \in Working /\ run.status # "COMPLETED" /\ Good(e)
      /\ job[e].state \in State /\ run \in Run
  BY DEF Undisturbed, NobodyWorksOnCompleted, Working, TypeOK, Job
<1>2. job[e].state.handoff = NoResults /\ UNCHANGED disk
  BY <1>1 DEF Good, RecordedSoFar, Raise
<1>3. CASE run.status # "CANCELLED"
  BY <1>1, <1>3, ReturnKeeps, NotCompleted DEF Raise, Alive
<1>4. CASE run.status = "CANCELLED" /\ job[e].batch # 4
  BY <1>1, <1>2, <1>4, ProceedKeeps DEF Raise
<1>5. CASE run.status = "CANCELLED" /\ job[e].batch = 4
  <2>1. Return(e) /\ run' = [status |-> "COMPLETED", state |-> job[e].state]
    BY <1>5 DEF Raise, Proceed
  <2>2. Matches(job[e].state.integration)
    BY <1>1, <1>5 DEF Good, InBatch, RecordedSoFar
  <2>3. Delivered'
    BY <1>2, <2>1, <2>2 DEF Delivered, Matches
  <2> QED
    BY <1>1, <2>1, <2>3, ReturnKeeps DEF Alive
<1> QED
  BY <1>3, <1>4, <1>5

\* A step inside of a stage: the run is not COMPLETED before or after it.
LEMMA StageStep ==
  ASSUME TypeOK, Undisturbed, overtaken = {}, NEW e \in Execs, pc[e] \in Working,
         NEW next, Go(e, next), run'.status = run.status, Good(e)'
  PROVE  Undisturbed'
<1>1. pc[e] \in Alive /\ run.status # "COMPLETED"
  BY DEF Undisturbed, NobodyWorksOnCompleted, Alive
<1> QED
  BY <1>1, OneMoves, NotCompleted DEF Go

LEMMA UndisturbedStep == TypeOK /\ Undisturbed /\ [Next]_vars => Undisturbed'
<1> SUFFICES ASSUME TypeOK, Undisturbed, [Next]_vars, overtaken' = {} PROVE Undisturbed'
  BY DEF Undisturbed
<1>1. overtaken = {}
  BY DEF Next, Execute, Begin, NextBatch, Abandon, Acknowledge, Plan, CompleteBundle,
         AnnounceFallback, FailBundle, EndGroup, ClearWorkspace, WriteFiles, CheckFiles,
         ReportChecks, DecideRepair, RepairBundle, RecordIntegration, HandOff, Raise,
         WorkerLost, Cancel, Resume, AskPackage, ListFiles, ZipFile, bounds, vars
<1>2. TypeOK'
  BY TypeStep
<1>3. ASSUME NEW e \in Execs, pc[e] \in Working
      PROVE  /\ pc[e] \in Alive /\ run.status # "COMPLETED" /\ Good(e)
             /\ job[e].state.handoff = NoResults /\ job[e] \in Job
             /\ job[e].state \in State /\ run \in Run
  BY <1>1, <1>3 DEF Undisturbed, NobodyWorksOnCompleted, Alive, Good, RecordedSoFar, TypeOK, Job
<1>4. ASSUME NEW e \in Execs, Begin(e) PROVE Undisturbed'
  <2>1. pc[e] \in Alive /\ Delivered
    BY <1>1, <1>4 DEF Begin, Alive, Undisturbed
  <2>2. CASE /\ Return(e)
             /\ run' = IF run.status = "CANCELLED" THEN run ELSE [run EXCEPT !.status = "FAILED"]
    <3>1. run'.status # "COMPLETED"
      BY <2>2 DEF TypeOK, Run
    <3> QED
      BY <1>1, <2>1, <2>2, <3>1, ReturnKeeps, NotCompleted
  <2>3. ASSUME Go(e, "loop"), NEW m, job' = [job EXCEPT ![e] = NewJob(m)],
               run' = [status |-> "RUNNING", state |-> NewState]
        PROVE  Undisturbed'
    <3>1. job'[e] = NewJob(m) /\ pc'[e] = "loop"
      BY <2>3 DEF TypeOK, Go
    <3>2. Good(e)'
      BY <3>1 DEF Good, InBatch, WrittenSoFar, CheckedSoFar, RecordedSoFar, Integrating, NewJob,
                  NewState
    <3> QED
      BY <1>1, <2>1, <2>3, <3>2, OneMoves, NotCompleted DEF Go
  <2> QED
    BY <1>4, <2>2, <2>3 DEF Begin
<1>5. ASSUME NEW e \in Execs, NextBatch(e) PROVE Undisturbed'
  <2>1. pc[e] \in Working
    BY <1>5 DEF NextBatch, Working
  <2>2. CASE run.status = "CANCELLED"
    BY <1>1, <1>3, <1>5, <2>1, <2>2, ReturnKeeps, NotCompleted DEF NextBatch
  <2>3. CASE run.status # "CANCELLED"
    <3>1. /\ Go(e, FirstStep[job[e].batch]) /\ pc'[e] = FirstStep[job[e].batch]
          /\ job'[e].batch = job[e].batch /\ job'[e].state = job[e].state
          /\ run'.status = run.status /\ UNCHANGED disk
      <4>1. /\ Go(e, FirstStep[job[e].batch])
            /\ job' = [job EXCEPT ![e].todo = IF job[e].batch = 2 THEN Parts ELSE {},
                                  ![e].code = job[e].state.code]
            /\ run' = [run EXCEPT !.state = job[e].state] /\ UNCHANGED disk
        BY <1>5, <2>3 DEF NextBatch
      <4>2. job'[e].batch = job[e].batch /\ job'[e].state = job[e].state
        BY <4>1 DEF TypeOK
      <4>3. run'.status = run.status
        BY <4>1 DEF TypeOK, Run
      <4> QED
        BY <4>1, <4>2, <4>3, GoTo
    <3>2. job[e].batch = 4 => Matches(job[e].state.integration)
      BY <1>3, <1>5, <2>1, <2>3 DEF NextBatch, Good, RecordedSoFar
    <3>3. job[e].batch \in 1..4
      BY DEF TypeOK, Job
    <3>4. Good(e)'
      BY <1>3, <2>1, <3>1, <3>2, <3>3
      DEF Good, InBatch, WrittenSoFar, CheckedSoFar, RecordedSoFar, Integrating, FirstStep, Matches
    <3> QED
      BY <1>1, <2>1, <3>1, <3>4, StageStep
  <2> QED
    BY <2>2, <2>3
<1>6. ASSUME NEW e \in Execs, Abandon(e) PROVE Undisturbed'
  BY <1>1, <1>6 DEF Abandon
<1>7. ASSUME NEW e \in Execs, Acknowledge(e) PROVE Undisturbed'
  <2>1. pc[e] \in Alive /\ pc' = [pc EXCEPT ![e] = "done"] /\ pc'[e] = "done"
    BY <1>7 DEF Acknowledge, Alive, Go, TypeOK
  <2>2. Good(e)' /\ Delivered'
    BY <1>1, <1>7, <2>1
    DEF Acknowledge, Undisturbed, Delivered, Matches, Good, InBatch, WrittenSoFar, CheckedSoFar,
        RecordedSoFar, Working, Integrating
  <2> QED
    BY <1>1, <2>1, <2>2, OneMoves DEF Working, Integrating
<1>8. ASSUME NEW e \in Execs, Plan(e) PROVE Undisturbed'
  <2>1. pc[e] \in Working /\ job[e].batch < 3
    BY <1>1, <1>8 DEF Plan, Working, Undisturbed, Good, InBatch
  <2>2. [run EXCEPT !.state = job[e].state] \in Run
    BY <1>3, <2>1 DEF Run
  <2>3. CASE Raise(e)
    BY <1>1, <1>8, <2>3, RaiseKeeps DEF Plan
  <2>4. CASE ~Raise(e)
    BY <1>1, <1>3, <1>8, <2>1, <2>2, <2>4, ProceedKeeps DEF Plan, Run, Job
  <2> QED
    BY <2>3, <2>4
<1>9. ASSUME NEW e \in Execs, CompleteBundle(e) PROVE Undisturbed'
  <2>1. pc[e] \in Working /\ job[e].batch < 3
    BY <1>1, <1>9 DEF CompleteBundle, Working, Undisturbed, Good, InBatch
  <2>2. PICK p \in job[e].todo, b \in Made(e) :
          /\ job' = [job EXCEPT ![e].state.code[p] = b, ![e].todo = @ \ {p}, ![e].part = p]
          /\ Go(e, IF b.kind = "fallback" THEN "announce" ELSE "generate")
    BY <1>9 DEF CompleteBundle
  <2>3. job'[e].batch = job[e].batch /\ job'[e].state.handoff = job[e].state.handoff
    BY <1>3, <2>1, <2>2 DEF TypeOK, Job, State
  <2>4. pc'[e] \in {"announce", "generate"} /\ run'.status = run.status
    BY <1>9, <2>2 DEF CompleteBundle, Go, TypeOK, Run
  <2>5. Good(e)'
    BY <1>3, <2>1, <2>3, <2>4 DEF Good, InBatch, WrittenSoFar, CheckedSoFar, RecordedSoFar, Integrating
  <2> QED
    BY <1>1, <2>1, <2>2, <2>4, <2>5, StageStep
<1>10. ASSUME NEW e \in Execs, AnnounceFallback(e) PROVE Undisturbed'
  <2>1. pc[e] \in Working /\ job[e].batch < 3
    BY <1>1, <1>10 DEF AnnounceFallback, Working, Undisturbed, Good, InBatch
  <2>2. pc'[e] = "generate" /\ Go(e, "generate") /\ UNCHANGED <<run, job>>
    BY <1>10 DEF AnnounceFallback, Go, TypeOK
  <2>3. Good(e)'
    BY <1>3, <2>1, <2>2 DEF Good, InBatch, WrittenSoFar, CheckedSoFar, RecordedSoFar, Integrating
  <2> QED
    BY <1>1, <2>1, <2>2, <2>3, StageStep
<1>11. ASSUME NEW e \in Execs, FailBundle(e) PROVE Undisturbed'
  <2>1. pc[e] \in Working /\ job[e].batch < 3
    BY <1>1, <1>11 DEF FailBundle, Working, Undisturbed, Good, InBatch
  <2>2. /\ pc'[e] = "generate" /\ Go(e, "generate") /\ UNCHANGED run
        /\ job'[e].batch = job[e].batch /\ job'[e].state = job[e].state
    BY <1>11 DEF FailBundle, Go, TypeOK
  <2>3. Good(e)'
    BY <1>3, <2>1, <2>2 DEF Good, InBatch, WrittenSoFar, CheckedSoFar, RecordedSoFar, Integrating
  <2> QED
    BY <1>1, <2>1, <2>2, <2>3, StageStep
<1>12. ASSUME NEW e \in Execs, EndGroup(e) PROVE Undisturbed'
  <2>1. pc[e] \in Working /\ job[e].batch < 3
    BY <1>1, <1>12 DEF EndGroup, Working, Undisturbed, Good, InBatch
  <2>2. CASE job[e].failed
    <3>1. run'.status # "COMPLETED"
      BY <1>12, <2>2 DEF EndGroup, TypeOK, Run
    <3> QED
      BY <1>1, <1>3, <1>12, <2>1, <2>2, <3>1, ReturnKeeps, NotCompleted DEF EndGroup
  <2>3. CASE ~job[e].failed
    BY <1>1, <1>3, <1>12, <2>1, <2>3, ProceedKeeps DEF EndGroup, Job
  <2> QED
    BY <2>2, <2>3
<1>13. ASSUME NEW e \in Execs, pc[e] \in Integrating
       PROVE  /\ pc[e] \in Working /\ job[e].batch = 3 /\ pc[e] \in Alive
              /\ WrittenSoFar(e) /\ CheckedSoFar(e)
              /\ job[e].part \in {1, 2}
  BY <1>1, <1>13 DEF Undisturbed, Good, InBatch, Working, Alive, TypeOK, Job, Parts
<1>14. ASSUME NEW e \in Execs, ClearWorkspace(e), ~Raise(e) PROVE Undisturbed'
  <2>1. pc[e] \in Integrating
    BY <1>14 DEF ClearWorkspace, Integrating
  <2>2. /\ pc'[e] = "write" /\ Go(e, "write") /\ UNCHANGED run /\ job'[e].part = 1
        /\ job'[e].batch = job[e].batch /\ job'[e].state = job[e].state
    <3>1. /\ Go(e, "write") /\ UNCHANGED run
          /\ job' = [job EXCEPT ![e].files = job[e].code, ![e].part = 1]
      BY <1>14 DEF ClearWorkspace
    <3>2. /\ job'[e].part = 1
          /\ job'[e].batch = job[e].batch /\ job'[e].state = job[e].state
      BY <3>1 DEF TypeOK
    <3> QED
      BY <3>1, <3>2, GoTo
  <2>3. Good(e)'
    BY <1>3, <1>13, <2>1, <2>2
    DEF Good, InBatch, WrittenSoFar, CheckedSoFar, RecordedSoFar, Parts
  <2> QED
    BY <1>1, <1>13, <2>1, <2>2, <2>3, StageStep
<1>15. ASSUME NEW e \in Execs, WriteFiles(e), ~Raise(e) PROVE Undisturbed'
  <2>1. pc[e] \in Integrating
    BY <1>15 DEF WriteFiles, Integrating
  <2>2. /\ Go(e, IF job[e].part = Last THEN "check" ELSE "write") /\ UNCHANGED run
        /\ pc'[e] = (IF job[e].part = Last THEN "check" ELSE "write")
        /\ job'[e].part = (IF job[e].part = Last THEN 1 ELSE job[e].part + 1)
        /\ job'[e].batch = job[e].batch /\ job'[e].state = job[e].state
        /\ job'[e].files = job[e].files
        /\ disk' = [disk EXCEPT ![job[e].part] = job[e].files[job[e].part]]
    <3>1. /\ Go(e, IF job[e].part = Last THEN "check" ELSE "write") /\ UNCHANGED run
          /\ job' = [job EXCEPT ![e].part = IF job[e].part = Last THEN 1 ELSE job[e].part + 1]
          /\ disk' = [disk EXCEPT ![job[e].part] = job[e].files[job[e].part]]
      BY <1>15 DEF WriteFiles
    <3>2. /\ job'[e].part = (IF job[e].part = Last THEN 1 ELSE job[e].part + 1)
          /\ job'[e].batch = job[e].batch /\ job'[e].state = job[e].state
          /\ job'[e].files = job[e].files
      BY <3>1 DEF TypeOK
    <3> QED
      BY <3>1, <3>2, GoTo
  <2>3. disk \in Bundles /\ disk' \in Bundles /\ job[e].files \in Bundles
    BY <1>2, <1>3, <1>13, <2>1 DEF TypeOK, Job
  <2>4. WrittenSoFar(e)'
    <3>1. \A q \in Parts : q < job[e].part => disk[q] = job[e].files[q]
      BY <1>13, <1>15, <2>1 DEF WriteFiles, WrittenSoFar
    <3>2. CASE job[e].part = 1
      BY <2>2, <2>3, <3>1, <3>2 DEF WrittenSoFar, Parts, Last, Bundles
    <3>3. CASE job[e].part = 2
      <4>1. disk' = job[e].files
        <5>1. disk'[1] = job[e].files[1]
          BY <2>2, <2>3, <3>1, <3>3 DEF Parts, Bundles
        <5>2. disk'[2] = job[e].files[2]
          BY <2>2, <2>3, <3>3 DEF Parts, Bundles
        <5> QED
          BY <2>3, <5>1, <5>2 DEF Parts, Bundles
      <4> QED
        BY <2>2, <3>3, <4>1 DEF WrittenSoFar, Last
    <3> QED
      BY <1>13, <2>1, <3>2, <3>3
  <2>5. CheckedSoFar(e)'
    BY <1>13, <2>1, <2>2 DEF CheckedSoFar, Parts, Last
  <2>6. Good(e)'
    BY <1>3, <1>13, <2>1, <2>2, <2>4, <2>5 DEF Good, InBatch, RecordedSoFar
  <2> QED
    BY <1>1, <1>13, <2>1, <2>2, <2>6, StageStep
<1>16. ASSUME NEW e \in Execs, CheckFiles(e), ~Raise(e) PROVE Undisturbed'
  <2>1. pc[e] \in Integrating
    BY <1>16 DEF CheckFiles, Integrating
  <2>2. PICK ok \in BOOLEAN :
          job' = [job EXCEPT ![e].results[job[e].part] = [ok |-> ok, on |-> disk[job[e].part]],
                             ![e].part = IF job[e].part = Last THEN 1 ELSE job[e].part + 1]
    BY <1>16 DEF CheckFiles
  <2>3. /\ Go(e, IF job[e].part = Last THEN "report" ELSE "check") /\ UNCHANGED <<run, disk>>
        /\ pc'[e] = (IF job[e].part = Last THEN "report" ELSE "check")
    BY <1>16 DEF CheckFiles, Go, TypeOK
  <2>4. /\ job'[e].part = (IF job[e].part = Last THEN 1 ELSE job[e].part + 1)
        /\ job'[e].batch = job[e].batch /\ job'[e].state = job[e].state
        /\ job'[e].files = job[e].files
        /\ job'[e].results =
             [job[e].results EXCEPT ![job[e].part] = [ok |-> ok, on |-> disk[job[e].part]]]
    BY <2>2 DEF TypeOK
  <2>5. disk = job[e].files /\ job[e].results \in Results
    BY <1>3, <1>13, <1>16, <2>1 DEF CheckFiles, WrittenSoFar, Job
  <2>6. CheckedSoFar(e)'
    <3>1. \A q \in Parts : q < job[e].part => job[e].results[q].on = job[e].files[q]
      BY <1>13, <1>16, <2>1 DEF CheckFiles, CheckedSoFar
    <3>2. \A q \in Parts : job'[e].results[q] =
            IF q = job[e].part THEN [ok |-> ok, on |-> disk[job[e].part]] ELSE job[e].results[q]
      BY <2>4, <2>5 DEF Results
    <3>3. \A q \in Parts : q <= job[e].part => job'[e].results[q].on = job'[e].files[q]
      BY <1>13, <2>1, <2>4, <2>5, <3>1, <3>2 DEF Parts
    <3> QED
      BY <1>13, <2>1, <2>3, <2>4, <3>3 DEF CheckedSoFar, Parts, Last
  <2>7. WrittenSoFar(e)'
    BY <2>3, <2>4, <2>5 DEF WrittenSoFar
  <2>8. Good(e)'
    BY <1>3, <1>13, <2>1, <2>3, <2>4, <2>6, <2>7 DEF Good, InBatch, RecordedSoFar
  <2> QED
    BY <1>1, <1>13, <2>1, <2>3, <2>8, StageStep
<1>17. ASSUME NEW e \in Execs, ReportChecks(e) PROVE Undisturbed'
  <2>1. pc[e] \in Integrating
    BY <1>17 DEF ReportChecks, Integrating
  <2>2. Go(e, "decide") /\ pc'[e] = "decide" /\ UNCHANGED <<run, disk, job>>
    BY <1>17 DEF ReportChecks, Go, TypeOK
  <2>3. Good(e)'
    BY <1>3, <1>13, <1>17, <2>1, <2>2
    DEF ReportChecks, Good, InBatch, WrittenSoFar, CheckedSoFar, RecordedSoFar
  <2> QED
    BY <1>1, <1>13, <2>1, <2>2, <2>3, StageStep
<1>18. ASSUME NEW e \in Execs, DecideRepair(e) PROVE Undisturbed'
  <2>1. pc[e] \in Integrating
    BY <1>18 DEF DecideRepair, Integrating
  <2>2. PICK next \in {"repair", "record"} : Go(e, next)
    BY <1>18 DEF DecideRepair
  <2>3. /\ pc'[e] \in {"repair", "record"} /\ UNCHANGED <<run, disk>>
        /\ job'[e].batch = job[e].batch /\ job'[e].state = job[e].state
        /\ job'[e].files = job[e].files /\ job'[e].results = job[e].results
    <3>1. \/ UNCHANGED job
          \/ job' = [job EXCEPT ![e].attempt = @ + 1, ![e].todo = Failing(job[e].results)]
      BY <1>18 DEF DecideRepair
    <3>2. /\ job'[e].batch = job[e].batch /\ job'[e].state = job[e].state
          /\ job'[e].files = job[e].files /\ job'[e].results = job[e].results
      <4>1. CASE job' = job
        BY <4>1
      <4>2. CASE job' = [job EXCEPT ![e].attempt = @ + 1, ![e].todo = Failing(job[e].results)]
        <5>1. job'[e] = [job[e] EXCEPT !.attempt = @ + 1, !.todo = Failing(job[e].results)]
          BY <4>2 DEF TypeOK
        <5>2. job[e] \in Job
          BY DEF TypeOK
        <5> QED
          BY <5>1, <5>2 DEF Job
      <4> QED
        BY <3>1, <4>1, <4>2
    <3> QED
      BY <1>18, <2>2, <3>2, GoTo DEF DecideRepair
  <2>4. Good(e)'
    BY <1>3, <1>13, <1>18, <2>1, <2>3
    DEF DecideRepair, Good, InBatch, WrittenSoFar, CheckedSoFar, RecordedSoFar
  <2> QED
    BY <1>1, <1>13, <2>1, <2>2, <2>3, <2>4, StageStep
<1>19. ASSUME NEW e \in Execs, RepairBundle(e), ~Raise(e) PROVE Undisturbed'
  <2> DEFINE p == CHOOSE q \in job[e].todo : \A r \in job[e].todo : q <= r
  <2>1. pc[e] \in Integrating
    BY <1>19 DEF RepairBundle, Integrating
  <2>2. PICK b : job' = [job EXCEPT ![e].code[p] = b, ![e].todo = @ \ {p}]
    BY <1>19 DEF RepairBundle
  <2>3. PICK next \in {"clear", "repair"} : Go(e, next)
    BY <1>19 DEF RepairBundle
  <2> HIDE DEF p
  <2>4. /\ pc'[e] \in {"clear", "repair"} /\ UNCHANGED <<run, disk>>
        /\ job'[e].batch = job[e].batch /\ job'[e].state = job[e].state
        /\ job'[e].files = job[e].files /\ job'[e].results = job[e].results
    <3>1. /\ job'[e].batch = job[e].batch /\ job'[e].state = job[e].state
          /\ job'[e].files = job[e].files /\ job'[e].results = job[e].results
      <4>1. job'[e] = [job[e] EXCEPT !.code[p] = b, !.todo = @ \ {p}]
        BY <2>2 DEF TypeOK
      <4>2. job[e] \in Job
        BY DEF TypeOK
      <4> QED
        BY <4>1, <4>2 DEF Job
    <3> QED
      BY <1>19, <2>3, <3>1, GoTo DEF RepairBundle
  <2>5. Good(e)'
    BY <1>3, <1>13, <1>19, <2>1, <2>4
    DEF RepairBundle, Good, InBatch, WrittenSoFar, CheckedSoFar, RecordedSoFar
  <2> QED
    BY <1>1, <1>13, <2>1, <2>3, <2>4, <2>5, StageStep
<1>20. ASSUME NEW e \in Execs, RecordIntegration(e), ~Raise(e) PROVE Undisturbed'
  <2> DEFINE state == [job[e].state EXCEPT !.integration =
                         [files |-> job[e].files, results |-> job[e].results]]
             row == [run EXCEPT !.state = state]
  <2>1. pc[e] \in Integrating
    BY <1>20 DEF RecordIntegration, Integrating
  <2>2. state \in State /\ row \in Run
    BY <1>3, <1>13, <2>1 DEF Job, State, Integration, Run
  <2>3. /\ state.handoff = NoResults
        /\ state.integration = [files |-> job[e].files, results |-> job[e].results]
        /\ row.status # "COMPLETED"
    BY <1>3, <1>13, <2>1 DEF State, Run
  <2>4. Matches(state.integration)
    BY <1>13, <1>20, <2>1, <2>3 DEF RecordIntegration, Matches, WrittenSoFar, CheckedSoFar
  <2>5. Proceed(e, state, row) /\ UNCHANGED disk
    BY <1>20 DEF RecordIntegration
  <2> HIDE DEF state, row
  <2> QED
    BY <1>1, <1>3, <1>13, <2>1, <2>2, <2>3, <2>4, <2>5, ProceedKeeps
<1>21. ASSUME NEW e \in Execs, HandOff(e), ~Raise(e) PROVE Undisturbed'
  <2> DEFINE state == [job[e].state EXCEPT !.handoff = job[e].state.integration.results]
  <2>1. pc[e] \in Working /\ pc[e] \in Alive /\ job[e].batch = 4 /\ Matches(job[e].state.integration)
    BY <1>1, <1>21 DEF HandOff, Working, Alive, Undisturbed, Good, InBatch, RecordedSoFar
  <2>2. /\ state.integration = job[e].state.integration
        /\ state.handoff = job[e].state.integration.results
    BY <1>3, <2>1 DEF State
  <2>3. Return(e) /\ run' = [status |-> "COMPLETED", state |-> state] /\ UNCHANGED disk
    BY <1>21, <2>1 DEF HandOff, Proceed
  <2> HIDE DEF state
  <2>4. Delivered'
    BY <2>1, <2>2, <2>3 DEF Delivered, Matches
  <2> QED
    BY <1>1, <2>1, <2>3, <2>4, ReturnKeeps
<1>22. ASSUME NEW e \in Execs, WorkerLost(e) PROVE Undisturbed'
  <2>1. PICK d \in Execs : pc[d] = "idle" /\ pc' = [pc EXCEPT ![e] = "lost", ![d] = "queued"]
    BY <1>22 DEF WorkerLost
  <2>2. pc[e] \in Alive /\ d # e
    BY <1>22, <2>1 DEF WorkerLost, Alive, Working, Integrating
  <2>3. \A x \in Execs : pc'[x] \in Alive => x = d
    BY <1>1, <2>1, <2>2 DEF TypeOK, Undisturbed, AtMostOneAlive, Alive, Working, Integrating
  <2>4. pc'[d] = "queued"
    BY <2>1, <2>2 DEF TypeOK
  <2>5. \A x \in Execs : pc'[x] \notin Working
    BY <2>3, <2>4 DEF Alive, Working, Integrating
  <2>6. \A x \in Execs : Good(x)'
    BY <2>5 DEF Good, InBatch, WrittenSoFar, CheckedSoFar, RecordedSoFar, Working, Integrating
  <2>7. Delivered'
    BY <1>1, <1>22 DEF WorkerLost, Undisturbed, Delivered, Matches
  <2> QED
    BY <2>3, <2>5, <2>6, <2>7 DEF Undisturbed, AtMostOneAlive, NobodyWorksOnCompleted
<1>23. CASE Cancel
  <2>1. run'.status = "CANCELLED" /\ UNCHANGED <<disk, pc, job>>
    BY <1>23 DEF Cancel, TypeOK, Run
  <2>2. \A e \in Execs : Good(e)'
    BY <1>1, <2>1
    DEF Undisturbed, Good, InBatch, WrittenSoFar, CheckedSoFar, RecordedSoFar, Matches
  <2> QED
    BY <1>1, <2>1, <2>2
    DEF Undisturbed, AtMostOneAlive, NobodyWorksOnCompleted, Delivered
<1>24. CASE Resume
  <2>1. \A e \in Execs : pc[e] \notin Alive
    BY <1>24 DEF Resume
  <2>2. PICK d \in Execs : pc' = [pc EXCEPT ![d] = "queued"]
    BY <1>24 DEF Resume, Go
  <2>3. \A x \in Execs : x # d => pc'[x] \notin Alive
    BY <2>1, <2>2 DEF TypeOK
  <2>4. pc'[d] = "queued" /\ run'.status = "QUEUED"
    BY <1>24, <2>2 DEF Resume, TypeOK
  <2>5. \A x \in Execs : pc'[x] \notin Working
    BY <2>3, <2>4 DEF Alive, Working, Integrating
  <2>6. \A x \in Execs : Good(x)'
    BY <2>5 DEF Good, InBatch, WrittenSoFar, CheckedSoFar, RecordedSoFar, Working, Integrating
  <2> QED
    BY <2>3, <2>4, <2>5, <2>6
    DEF Undisturbed, AtMostOneAlive, NobodyWorksOnCompleted, Delivered
<1>25. ASSUME UNCHANGED <<run, disk, pc, job>> PROVE Undisturbed'
  BY <1>1, <1>25
  DEF Undisturbed, AtMostOneAlive, NobodyWorksOnCompleted, Delivered, Matches, Good, InBatch,
      WrittenSoFar, CheckedSoFar, RecordedSoFar
<1>26. CASE AskPackage \/ ListFiles \/ ZipFile \/ UNCHANGED vars
  BY <1>25, <1>26 DEF AskPackage, ListFiles, ZipFile, vars
<1>27. ASSUME NEW e \in Execs, Raise(e), pc[e] \in {"plan", "handoff"} \union Integrating
       PROVE  Undisturbed'
  BY <1>1, <1>27, RaiseKeeps
<1>28. ASSUME NEW e \in Execs, Execute(e) PROVE Undisturbed'
  BY <1>4, <1>5, <1>6, <1>7, <1>8, <1>9, <1>10, <1>11, <1>12, <1>14, <1>15, <1>16, <1>17,
     <1>18, <1>19, <1>20, <1>21, <1>27, <1>28
  DEF Execute, ClearWorkspace, WriteFiles, CheckFiles, RepairBundle, RecordIntegration, HandOff,
      Integrating
<1> QED
  BY <1>22, <1>23, <1>24, <1>26, <1>28 DEF Next

\* A COMPLETED run delivers what it records, whatever the number of executions
\* and repair attempts, wherever workers are lost, stages fail or the run is
\* cancelled, as long as no execution is overtaken by a resumption.
THEOREM DeliveryCorrect == Spec => []DeliveredAsRecorded
<1>1. Init => TypeOK /\ Undisturbed
  BY TypeInit, UndisturbedInit
<1>2. TypeOK /\ Undisturbed /\ [Next]_vars => (TypeOK /\ Undisturbed)'
  BY TypeStep, UndisturbedStep
<1>3. Undisturbed => DeliveredAsRecorded
  BY DEF Undisturbed, Delivered, Matches, DeliveredAsRecorded
<1> QED
  BY <1>1, <1>2, <1>3, PTL DEF Spec


-----------------------------------------------------------------------------
(***************************************************************************)
(* Where an execution goes from where it is.                               *)
(***************************************************************************)
LEMMA ReturnGoes ==
  ASSUME TypeOK, NEW e \in Execs, Return(e) PROVE pc'[e] = "return"
BY GoTo DEF Return

LEMMA ProceedGoes ==
  ASSUME TypeOK, NEW e \in Execs, NEW state, NEW row, Proceed(e, state, row)
  PROVE  pc'[e] \in {"return", "loop"}
BY GoTo, ReturnGoes DEF Proceed

LEMMA RaiseGoes ==
  ASSUME TypeOK, NEW e \in Execs, Raise(e) PROVE pc'[e] \in {"return", "loop"}
BY ReturnGoes, ProceedGoes DEF Raise

\* What an execution leaves alone.
LEMMA OthersUnmoved ==
  ASSUME NEW e \in Execs, Execute(e), TypeOK
  PROVE  /\ UNCHANGED <<package, overtaken, crashes>>
         /\ pc[e] \in Alive
         /\ \A d \in Execs \ {e} : pc'[d] = pc[d]
<1>1. UNCHANGED <<package, overtaken, crashes>>
  BY DEF Execute, Begin, NextBatch, Abandon, Acknowledge, Plan, CompleteBundle,
         AnnounceFallback, FailBundle, EndGroup, ClearWorkspace, WriteFiles, CheckFiles,
         ReportChecks, DecideRepair, RepairBundle, RecordIntegration, HandOff, Raise, bounds
<1>2. pc[e] \in Alive
  BY DEF Execute, Begin, NextBatch, Abandon, Acknowledge, Plan, CompleteBundle,
         AnnounceFallback, FailBundle, EndGroup, ClearWorkspace, WriteFiles, CheckFiles,
         ReportChecks, DecideRepair, RepairBundle, RecordIntegration, HandOff,
         Alive, Working, Integrating
<1>3. pc' = pc \/ \E next : pc' = [pc EXCEPT ![e] = next]
  BY DEF Execute, Begin, NextBatch, Abandon, Acknowledge, Plan, CompleteBundle,
         AnnounceFallback, FailBundle, EndGroup, ClearWorkspace, WriteFiles, CheckFiles,
         ReportChecks, DecideRepair, RepairBundle, RecordIntegration, HandOff, Raise,
         Proceed, Return, Go
<1> QED
  BY <1>1, <1>2, <1>3 DEF TypeOK

-----------------------------------------------------------------------------
(***************************************************************************)
(* The event log.  While no live execution was overtaken, what an          *)
(* execution has in hand is explained by the events it has emitted: Logged *)
(* says which verifications it has reported, and that the round of each    *)
(* bundle is the last repair these call for.  What it records keeps the    *)
(* explanation (Explained) when the run is COMPLETED.                      *)
(***************************************************************************)
Checks(e) == {v \in events : v.type = "verification" /\ v.by = e}

\* Of a set of reported verifications: their attempts are 0 to n; the k-th found
\* the part failing; the repairs of the part that they call for, up to the n-th.
Counted(C, n) == {v.attempt : v \in C} = 0..n
FailedCheck(C, k, p) == \E v \in C : v.attempt = k /\ p \in v.parts
Due(C, p, n) == {k \in 1..n : FailedCheck(C, k - 1, p)}
RoundOK(C, p, b, n) ==
  b.round \in {0} \union Due(C, p, n) /\ \A k \in Due(C, p, n) : k <= b.round
SaysLast(C, n, results) == \A v \in C : v.attempt = n => v.parts = Failing(results)

Announced(e, p) == \E v \in events : v.type = "fallback" /\ v.by = e /\ v.parts = {p}

Own(e, b) ==
  b # NoBundle => b.by = e /\ (b.kind = "template" <=> job[e].mode = "template")

\* What the parallel group has generated.
GeneratedOK(e) ==
  pc[e] \in Working =>
    /\ job[e].mode \in {"template", "crewai"}
    /\ \A p \in Parts :
         /\ Own(e, job[e].state.code[p])
         /\ job[e].state.code[p] # NoBundle => job[e].state.code[p].round = 0
         /\ job[e].state.code[p].kind = "fallback" =>
              Announced(e, p) \/ (pc[e] = "announce" /\ job[e].part = p)

\* The bundles of the integration stage: at a repair, those still to be repaired
\* failed in the last verification, the others are repaired or passed.
BundlesOK(e) ==
  pc[e] \in Integrating =>
    /\ \A p \in Parts : Own(e, job[e].code[p])
    /\ pc[e] \notin {"clear", "repair"} => job[e].files = job[e].code
    /\ pc[e] \in {"report", "decide", "repair", "record"} =>
         \A p \in Parts : job[e].code[p] # NoBundle
    /\ pc[e] = "check" => \A p \in Parts : p < job[e].part => job[e].code[p] # NoBundle

RoundsOK(e) ==
  /\ pc[e] \in Integrating \ {"repair"} =>
       \A p \in Parts : job[e].code[p] # NoBundle =>
                          RoundOK(Checks(e), p, job[e].code[p], job[e].attempt)
  /\ pc[e] = "repair" =>
       \A p \in Parts :
         IF p \in job[e].todo
         THEN /\ RoundOK(Checks(e), p, job[e].code[p], job[e].attempt - 1)
              /\ FailedCheck(Checks(e), job[e].attempt - 1, p)
         ELSE RoundOK(Checks(e), p, job[e].code[p], job[e].attempt)

\* The verifications reported so far.
CountOK(e) ==
  /\ pc[e] \in {"idle", "queued"} => Checks(e) = {}
  /\ pc[e] \in Working \ Integrating /\ job[e].batch # 4 =>
       Checks(e) = {} /\ job[e].attempt = 0
  /\ pc[e] \in {"clear", "write", "check", "report", "repair"} =>
       Counted(Checks(e), job[e].attempt - 1)
  /\ pc[e] \in {"decide", "record"} =>
       /\ Counted(Checks(e), job[e].attempt)
       /\ SaysLast(Checks(e), job[e].attempt, job[e].results)
  /\ pc[e] = "repair" => job[e].mode = "crewai" /\ job[e].attempt > 0 /\ job[e].todo # {}
  /\ pc[e] \in Integrating /\ job[e].mode = "template" => job[e].attempt = 0
  /\ pc[e] = "record" /\ Failing(job[e].results) # {} =>
       job[e].attempt = IF job[e].mode = "template" THEN 0 ELSE MaxRepairAttempts

\* What e has recorded is explained by what it has reported.
Explained(C, e, bundle) ==
  \E n \in 0..MaxRepairAttempts :
    /\ Counted(C, n)
    /\ \A p \in Parts : /\ bundle.files[p] # NoBundle /\ bundle.files[p].by = e
                        /\ RoundOK(C, p, bundle.files[p], n)
    /\ SaysLast(C, n, bundle.results)
    /\ Failing(bundle.results) # {} =>
         n = IF bundle.files[1].kind = "template" THEN 0 ELSE MaxRepairAttempts

ExplainedSoFar(e) ==
  /\ pc[e] = "handoff" => Explained(Checks(e), e, job[e].state.integration)
  /\ pc[e] = "loop" /\ job[e].batch = 4 =>
       Explained(Checks(e), e, job[e].state.integration) \/ run.status = "CANCELLED"

Logged(e) ==
  GeneratedOK(e) /\ BundlesOK(e) /\ RoundsOK(e) /\ CountOK(e) /\ ExplainedSoFar(e)

LogDelivered ==
  run.status = "COMPLETED" =>
    /\ \E e \in Execs : Explained(Checks(e), e, run.state.integration)
    /\ \A p \in Parts : run.state.code[p].kind = "fallback" =>
                          Announced(run.state.code[p].by, p)

LogInv == overtaken = {} => LogDelivered /\ \A e \in Execs : Logged(e)

LEMMA LogInit == Init => LogInv
<1> SUFFICES ASSUME Init PROVE LogInv
  OBVIOUS
<1>1. \A e \in Execs : pc[e] \in {"idle", "queued"} /\ Checks(e) = {}
  BY DEF Init, Checks
<1>2. \A e \in Execs : Logged(e)
  BY <1>1 DEF Logged, GeneratedOK, BundlesOK, RoundsOK, CountOK, ExplainedSoFar, Working, Integrating
<1> QED
  BY <1>2 DEF Init, LogInv, LogDelivered

\* An execution that has nothing in hand.
LEMMA RestLogged ==
  ASSUME NEW e \in Execs, pc'[e] \notin Working, pc'[e] \in {"idle", "queued"} => Checks(e)' = {}
  PROVE  Logged(e)'
BY DEF Logged, GeneratedOK, BundlesOK, RoundsOK, CountOK, ExplainedSoFar, Working, Integrating

\* The one live execution takes a step: the others are not concerned.
LEMMA LogMoves ==
  ASSUME TypeOK, Undisturbed, LogInv, overtaken = {},
         NEW e \in Execs, pc[e] \in Alive,
         NEW next, pc' = [pc EXCEPT ![e] = next],
         \A d \in Execs \ {e} : Checks(d)' = Checks(d),
         LogDelivered', Logged(e)'
  PROVE  LogInv'
<1>1. ASSUME NEW d \in Execs \ {e} PROVE Logged(d)'
  <2>1. pc'[d] = pc[d] /\ pc[d] \notin Alive
    BY DEF TypeOK, Undisturbed, AtMostOneAlive
  <2>2. pc'[d] \notin Working
    BY <2>1 DEF Alive
  <2>3. pc'[d] \in {"idle", "queued"} => Checks(d)' = {}
    BY <2>1 DEF LogInv, Logged, CountOK
  <2> QED
    BY <2>2, <2>3, RestLogged
<1> QED
  BY <1>1 DEF LogInv

LEMMA LogNotCompleted ==
  ASSUME run'.status # "COMPLETED" PROVE LogDelivered'
BY DEF LogDelivered

LEMMA LogReturn ==
  ASSUME TypeOK, Undisturbed, LogInv, overtaken = {},
         NEW e \in Execs, pc[e] \in Alive, Return(e), UNCHANGED events, LogDelivered'
  PROVE  LogInv'
<1>1. pc' = [pc EXCEPT ![e] = "return"] /\ pc'[e] = "return"
  BY DEF Return, Go, TypeOK
<1>2. \A d \in Execs : Checks(d)' = Checks(d)
  BY DEF Checks
<1>3. Logged(e)'
  BY <1>1, RestLogged DEF Working, Integrating
<1> QED
  BY <1>1, <1>2, <1>3, LogMoves

\* To the next batch, with everything announced that was to be.
LEMMA LogProceed ==
  ASSUME TypeOK, Undisturbed, LogInv, overtaken = {}, NEW e \in Execs,
         pc[e] \in Working \ {"announce"},
         NEW state \in State, NEW row \in Run, Proceed(e, state, row), UNCHANGED events,
         job[e].batch # 4, row.status # "COMPLETED", state.code = job[e].state.code,
         job[e].batch = 3 =>
           Explained(Checks(e), e, state.integration) \/ row.status = "CANCELLED",
         job[e].batch < 3 => pc[e] \notin Integrating
  PROVE  LogInv'
<1>1. /\ pc' = [pc EXCEPT ![e] = "loop"] /\ pc'[e] = "loop" /\ run' = row
      /\ job'[e].batch = job[e].batch + 1 /\ job'[e].state = state
      /\ job'[e].mode = job[e].mode /\ job'[e].attempt = 0
  <2>1. /\ Go(e, "loop") /\ run' = row
        /\ job' = [job EXCEPT ![e] = [NewJob(job[e].mode) EXCEPT !.batch = job[e].batch + 1,
                                                               !.state = state]]
    BY DEF Proceed
  <2>2. /\ job'[e].batch = job[e].batch + 1 /\ job'[e].state = state
        /\ job'[e].mode = job[e].mode /\ job'[e].attempt = 0
    BY <2>1 DEF TypeOK, NewJob
  <2> QED
    BY <2>1, <2>2, GoTo DEF Go
<1>2. job[e].batch \in 1..4 /\ Logged(e) /\ pc[e] \in Alive
  BY DEF TypeOK, Job, LogInv, Alive
<1>3. \A d \in Execs : Checks(d)' = Checks(d)
  BY DEF Checks
<1>4. GeneratedOK(e)'
  BY <1>1, <1>2 DEF Logged, GeneratedOK, Own, Announced
<1>5. BundlesOK(e)' /\ RoundsOK(e)'
  BY <1>1 DEF BundlesOK, RoundsOK, Integrating
<1>6. CountOK(e)'
  BY <1>1, <1>2, <1>3 DEF Logged, CountOK, Integrating
<1>7. ExplainedSoFar(e)'
  BY <1>1, <1>2, <1>3 DEF ExplainedSoFar
<1>8. Logged(e)'
  BY <1>4, <1>5, <1>6, <1>7 DEF Logged
<1> QED
  BY <1>1, <1>2, <1>3, <1>8, LogMoves, LogNotCompleted

\* A run becomes COMPLETED with what the handoff stage has before it.
LEMMA LogComplete ==
  ASSUME TypeOK, Undisturbed, LogInv, overtaken = {}, NEW e \in Execs, pc[e] = "handoff",
         NEW state, state.code = job[e].state.code,
         state.integration = job[e].state.integration,
         Return(e), run' = [status |-> "COMPLETED", state |-> state], UNCHANGED events
  PROVE  LogInv'
<1>1. Logged(e) /\ pc[e] \in Alive /\ pc[e] \in Working /\ job[e].state \in State
  BY DEF LogInv, Alive, Working, TypeOK, Job
<1>2. Explained(Checks(e), e, state.integration) /\ Checks(e)' = Checks(e)
  BY <1>1 DEF Logged, ExplainedSoFar, Checks
<1>3. ASSUME NEW p \in Parts, state.code[p].kind = "fallback"
      PROVE  \E v \in events' : v.type = "fallback" /\ v.by = state.code[p].by /\ v.parts = {p}
  <2>1. state.code[p] # NoBundle
    BY <1>3 DEF NoBundle
  <2> QED
    BY <1>1, <1>3, <2>1 DEF Logged, GeneratedOK, Own, Announced
<1>4. run'.state = state
  OBVIOUS
<1>5. LogDelivered'
  BY <1>2, <1>3, <1>4 DEF LogDelivered, Announced
<1> QED
  BY <1>1, <1>5, LogReturn

LEMMA LogRaise ==
  ASSUME TypeOK, Undisturbed, LogInv, overtaken = {}, NEW e \in Execs,
         pc[e] \in {"plan", "handoff"} \union Integrating, Raise(e)
  PROVE  LogInv'
<1>1. /\ pc[e] \in Working \ {"announce"} /\ pc[e] \in Alive /\ run.status # "COMPLETED"
      /\ job[e].state \in State /\ run \in Run /\ Good(e) /\ UNCHANGED events
  BY DEF Undisturbed, NobodyWorksOnCompleted, Working, Integrating, Alive, TypeOK, Job, Raise
<1>2. CASE run.status # "CANCELLED"
  BY <1>1, <1>2, LogReturn, LogNotCompleted DEF Raise
<1>3. CASE run.status = "CANCELLED" /\ job[e].batch # 4
  <2>1. job[e].batch < 3 => pc[e] \notin Integrating
    BY <1>1 DEF Good, InBatch
  <2> QED
    BY <1>1, <1>3, <2>1, LogProceed DEF Raise
<1>4. CASE run.status = "CANCELLED" /\ job[e].batch = 4
  <2>1. pc[e] = "handoff"
    BY <1>1, <1>4 DEF Good, InBatch
  <2>2. Return(e) /\ run' = [status |-> "COMPLETED", state |-> job[e].state]
    BY <1>4 DEF Raise, Proceed
  <2> QED
    BY <1>1, <2>1, <2>2, LogComplete
<1> QED
  BY <1>2, <1>3, <1>4

\* A step inside of a stage: the run is not COMPLETED before or after it.
LEMMA LogStage ==
  ASSUME TypeOK, Undisturbed, LogInv, overtaken = {}, NEW e \in Execs, pc[e] \in Working,
         NEW next, Go(e, next), run'.status = run.status,
         \A d \in Execs \ {e} : Checks(d)' = Checks(d), Logged(e)'
  PROVE  LogInv'
<1>1. pc[e] \in Alive /\ run.status # "COMPLETED"
  BY DEF Undisturbed, NobodyWorksOnCompleted, Alive
<1> QED
  BY <1>1, LogMoves, LogNotCompleted DEF Go

\* Outside of the parallel group what it generated stays.
LEMMA GeneratedKept ==
  ASSUME NEW e \in Execs, Logged(e), pc[e] \in Working \ {"announce"},
         job'[e].mode = job[e].mode, job'[e].state = job[e].state, events \subseteq events'
  PROVE  GeneratedOK(e)'
BY DEF Logged, GeneratedOK, Own, Announced

LEMMA LogBegin ==
  ASSUME TypeOK, Undisturbed, LogInv, overtaken = {}, NEW e \in Execs, Begin(e)
  PROVE  LogInv'
<1>1. pc[e] \in Alive /\ pc[e] = "queued" /\ Logged(e) /\ UNCHANGED events
  BY DEF Begin, Alive, LogInv
<1>2. CASE /\ Return(e)
           /\ run' = IF run.status = "CANCELLED" THEN run ELSE [run EXCEPT !.status = "FAILED"]
  <2>1. run'.status # "COMPLETED"
    BY <1>2 DEF TypeOK, Run
  <2> QED
    BY <1>1, <1>2, <2>1, LogReturn, LogNotCompleted
<1>3. ASSUME Go(e, "loop"), NEW m \in Modes \union Faulty, job' = [job EXCEPT ![e] = NewJob(m)],
             run' = [status |-> "RUNNING", state |-> NewState]
      PROVE  LogInv'
  <2>1. job'[e] = NewJob(m) /\ pc'[e] = "loop" /\ \A d \in Execs : Checks(d)' = Checks(d)
    BY <1>1, <1>3 DEF TypeOK, Go, Checks
  <2>2. /\ m \in {"template", "crewai"} /\ job'[e].mode = m /\ job'[e].batch = 1
        /\ job'[e].attempt = 0 /\ job'[e].state.code = NoBundles
    <3>1. m \in {"template", "crewai"}
      BY DeliveryAssumption
    <3>2. /\ NewJob(m).mode = m /\ NewJob(m).batch = 1 /\ NewJob(m).attempt = 0
          /\ NewJob(m).state = NewState
      BY DEF NewJob
    <3>3. NewState.code = NoBundles
      BY DEF NewState
    <3> QED
      BY <2>1, <3>1, <3>2, <3>3
  <2>3. Checks(e)' = {}
    BY <1>1, <2>1 DEF Logged, CountOK
  <2>4. \A p \in Parts : NoBundles[p] = NoBundle /\ NoBundle.kind = "none"
    BY DEF NoBundles, NoBundle
  <2>5. GeneratedOK(e)'
    BY <2>2, <2>4 DEF GeneratedOK, Own
  <2>6. BundlesOK(e)' /\ RoundsOK(e)'
    BY <2>1 DEF BundlesOK, RoundsOK, Integrating
  <2>7. CountOK(e)' /\ ExplainedSoFar(e)'
    BY <2>1, <2>2, <2>3 DEF CountOK, ExplainedSoFar, Integrating
  <2>8. Logged(e)'
    BY <2>5, <2>6, <2>7 DEF Logged
  <2> QED
    BY <1>1, <1>3, <2>1, <2>8, LogMoves, LogNotCompleted DEF Go
<1> QED
  BY <1>2, <1>3 DEF Begin

LEMMA LogNextBatch ==
  ASSUME TypeOK, Undisturbed, LogInv, overtaken = {}, NEW e \in Execs, NextBatch(e)
  PROVE  LogInv'
<1>1. /\ pc[e] \in Working \ {"announce"} /\ pc[e] \in Alive /\ pc[e] = "loop"
      /\ Logged(e) /\ UNCHANGED events /\ run.status # "COMPLETED" /\ job[e] \in Job
  BY DEF NextBatch, Working, Alive, LogInv, Undisturbed, NobodyWorksOnCompleted, TypeOK
<1>2. CASE run.status = "CANCELLED"
  BY <1>1, <1>2, LogReturn, LogNotCompleted DEF NextBatch
<1>3. CASE run.status # "CANCELLED"
  <2>1. /\ Go(e, FirstStep[job[e].batch])
        /\ job' = [job EXCEPT ![e].todo = IF job[e].batch = 2 THEN Parts ELSE {},
                              ![e].code = job[e].state.code]
        /\ run' = [run EXCEPT !.state = job[e].state]
    BY <1>3 DEF NextBatch
  <2>2. /\ job'[e].mode = job[e].mode /\ job'[e].state = job[e].state
        /\ job'[e].batch = job[e].batch /\ job'[e].attempt = job[e].attempt
        /\ job'[e].code = job[e].state.code /\ run'.status = run.status
    BY <1>1, <2>1 DEF TypeOK, Job, Run
  <2>3. /\ pc'[e] = FirstStep[job[e].batch] /\ job[e].batch \in 1..4
        /\ \A d \in Execs : Checks(d)' = Checks(d)
    BY <1>1, <2>1, GoTo DEF Job, Checks
  <2>4. GeneratedOK(e)'
    BY <1>1, <2>2, GeneratedKept
  <2>5. CASE job[e].batch \in {1, 2}
    <3>1. pc'[e] \in {"plan", "generate"}
      BY <2>3, <2>5 DEF FirstStep
    <3>2. BundlesOK(e)' /\ RoundsOK(e)' /\ CountOK(e)' /\ ExplainedSoFar(e)'
      BY <1>1, <2>2, <2>3, <2>5, <3>1
      DEF Logged, BundlesOK, RoundsOK, CountOK, ExplainedSoFar, Integrating
    <3> QED
      BY <1>1, <2>1, <2>2, <2>3, <2>4, <3>2, LogStage DEF Logged
  <2>6. CASE job[e].batch = 3
    <3>1. pc'[e] = "clear"
      BY <2>3, <2>6 DEF FirstStep
    <3>2. Checks(e) = {} /\ job[e].attempt = 0
      BY <1>1, <2>6 DEF Logged, CountOK, Integrating
    <3>3. BundlesOK(e)'
      BY <1>1, <2>2, <3>1 DEF Logged, GeneratedOK, BundlesOK, Own
    <3>4. ASSUME NEW b, b.round = 0, NEW p PROVE RoundOK({}, p, b, 0)
      BY <3>4 DEF RoundOK, Due
    <3>5. RoundsOK(e)'
      BY <1>1, <2>2, <2>3, <3>1, <3>2, <3>4 DEF Logged, GeneratedOK, RoundsOK
    <3>6. Counted({}, -1)
      BY DEF Counted
    <3>7. CountOK(e)' /\ ExplainedSoFar(e)'
      <4>1. job[e].attempt - 1 = -1
        BY <3>2
      <4> QED
        BY <2>2, <2>3, <3>1, <3>2, <3>6, <4>1 DEF CountOK, ExplainedSoFar, Integrating
    <3> QED
      BY <1>1, <2>1, <2>2, <2>3, <2>4, <3>3, <3>5, <3>7, LogStage DEF Logged
  <2>7. CASE job[e].batch = 4
    <3>1. pc'[e] = "handoff"
      BY <2>3, <2>7 DEF FirstStep
    <3>2. Explained(Checks(e), e, job[e].state.integration)
      BY <1>1, <1>3, <2>7 DEF Logged, ExplainedSoFar
    <3>3. BundlesOK(e)' /\ RoundsOK(e)' /\ CountOK(e)' /\ ExplainedSoFar(e)'
      BY <2>2, <2>3, <2>7, <3>1, <3>2
      DEF BundlesOK, RoundsOK, CountOK, ExplainedSoFar, Integrating
    <3> QED
      BY <1>1, <2>1, <2>2, <2>3, <2>4, <3>3, LogStage DEF Logged
  <2> QED
    BY <2>3, <2>5, <2>6, <2>7
<1> QED
  BY <1>2, <1>3

\* Lemmas about a set of reported verifications.
LEMMA OneMoreCheck ==
  ASSUME NEW C, NEW a \in Nat, Counted(C, a - 1), NEW new, new.attempt = a,
         NEW results, new.parts = Failing(results)
  PROVE  /\ Counted(C \union {new}, a) /\ SaysLast(C \union {new}, a, results)
         /\ \A p, b : RoundOK(C, p, b, a) => RoundOK(C \union {new}, p, b, a)
<1>1. \A v \in C : v.attempt \in 0 .. a - 1
  BY DEF Counted
<1>2. {v.attempt : v \in C \union {new}} = {v.attempt : v \in C} \union {a}
  OBVIOUS
<1>3. Counted(C \union {new}, a)
  BY <1>2 DEF Counted
<1>4. SaysLast(C \union {new}, a, results)
  BY <1>1 DEF SaysLast
<1>5. ASSUME NEW p, NEW k \in 1 .. a
      PROVE  FailedCheck(C \union {new}, k - 1, p) <=> FailedCheck(C, k - 1, p)
  BY <1>1 DEF FailedCheck
<1>6. \A p : Due(C \union {new}, p, a) = Due(C, p, a)
  BY <1>5 DEF Due
<1>7. \A p, b : RoundOK(C, p, b, a) => RoundOK(C \union {new}, p, b, a)
  BY <1>6 DEF RoundOK
<1> QED
  BY <1>3, <1>4, <1>7

LEMMA Passed ==
  ASSUME NEW C, NEW p, NEW b, NEW a \in Nat, RoundOK(C, p, b, a), ~FailedCheck(C, a, p)
  PROVE  RoundOK(C, p, b, a + 1)
<1>1. Due(C, p, a + 1) = Due(C, p, a)
  <2>1. ASSUME NEW k \in 1 .. a + 1, FailedCheck(C, k - 1, p) PROVE k \in 1 .. a
    <3>1. k = a + 1 => k - 1 = a
      OBVIOUS
    <3>2. k # a + 1
      BY <2>1, <3>1
    <3> QED
      BY <3>2
  <2> QED
    BY <2>1 DEF Due
<1> QED
  BY <1>1 DEF RoundOK

LEMMA Repaired ==
  ASSUME NEW C, NEW p, NEW b, NEW a \in Nat \ {0}, b.round = a, FailedCheck(C, a - 1, p)
  PROVE  RoundOK(C, p, b, a)
<1>1. a \in Due(C, p, a)
  BY DEF Due
<1>2. \A k \in Due(C, p, a) : k <= a
  BY DEF Due
<1> QED
  BY <1>1, <1>2 DEF RoundOK

LEMMA LogPlan ==
  ASSUME TypeOK, Undisturbed, LogInv, overtaken = {}, NEW e \in Execs, Plan(e)
  PROVE  LogInv'
<1>1. /\ pc[e] = "plan" /\ pc[e] \in Working \ {"announce"} /\ job[e].batch < 3
      /\ run.status # "COMPLETED" /\ run \in Run /\ job[e].state \in State
  BY DEF Plan, Working, Undisturbed, Good, InBatch, NobodyWorksOnCompleted, TypeOK, Job
<1>2. CASE Raise(e)
  BY <1>1, <1>2, LogRaise
<1>3. CASE ~Raise(e)
  <2>1. /\ Proceed(e, job[e].state, [run EXCEPT !.state = job[e].state]) /\ UNCHANGED events
        /\ [run EXCEPT !.state = job[e].state] \in Run
        /\ [run EXCEPT !.state = job[e].state].status # "COMPLETED"
    BY <1>1, <1>3 DEF Plan, Run
  <2>2. job[e].batch # 4 /\ job[e].batch # 3 /\ pc[e] \notin Integrating
    BY <1>1 DEF Integrating, TypeOK, Job
  <2> QED
    BY <1>1, <2>1, <2>2, LogProceed
<1> QED
  BY <1>2, <1>3

\* The steps of the parallel group have no part in the verifications.
LEMMA LogGenerating ==
  ASSUME TypeOK, Undisturbed, LogInv, overtaken = {}, NEW e \in Execs,
         pc[e] \in {"generate", "announce"},
         NEW next \in {"generate", "announce"}, Go(e, next), run'.status = run.status,
         \A d \in Execs : Checks(d)' = Checks(d), GeneratedOK(e)',
         job'[e].batch = job[e].batch, job'[e].attempt = job[e].attempt
  PROVE  LogInv'
<1>1. pc[e] \in Working \ Integrating /\ job[e].batch < 3 /\ Logged(e) /\ pc'[e] = next
  BY GoTo DEF Working, Integrating, Undisturbed, Good, InBatch, LogInv
<1>2. Checks(e) = {} /\ job[e].attempt = 0
  BY <1>1 DEF Logged, CountOK, TypeOK, Job
<1>3. BundlesOK(e)' /\ RoundsOK(e)' /\ CountOK(e)' /\ ExplainedSoFar(e)'
  BY <1>1, <1>2 DEF BundlesOK, RoundsOK, CountOK, ExplainedSoFar, Integrating
<1> QED
  BY <1>1, <1>3, LogStage DEF Logged

LEMMA LogCompleteBundle ==
  ASSUME TypeOK, Undisturbed, LogInv, overtaken = {}, NEW e \in Execs, CompleteBundle(e)
  PROVE  LogInv'
<1>1. PICK p \in job[e].todo, b \in Made(e) :
        /\ job' = [job EXCEPT ![e].state.code[p] = b, ![e].todo = @ \ {p}, ![e].part = p]
        /\ Go(e, IF b.kind = "fallback" THEN "announce" ELSE "generate")
  BY DEF CompleteBundle
<1>2. /\ pc[e] = "generate" /\ pc[e] \in Working /\ Logged(e) /\ UNCHANGED events
      /\ job[e] \in Job /\ p \in Parts /\ job[e].state.code \in Bundles /\ run \in Run
  BY DEF CompleteBundle, Working, LogInv, TypeOK, Job, State
<1>3. /\ job'[e].mode = job[e].mode /\ job'[e].batch = job[e].batch
      /\ job'[e].attempt = job[e].attempt /\ job'[e].part = p
      /\ job'[e].state.code = [job[e].state.code EXCEPT ![p] = b]
  BY <1>1, <1>2 DEF TypeOK, Job, State
<1>4. run'.status = run.status /\ \A d \in Execs : Checks(d)' = Checks(d)
  BY <1>2 DEF CompleteBundle, Run, Checks
<1>5. job[e].mode \in {"template", "crewai"}
  BY <1>2 DEF Logged, GeneratedOK
<1>6. b.by = e /\ b.round = 0 /\ (b.kind = "template" <=> job[e].mode = "template")
  <2>1. CASE job[e].mode = "template"
    BY <2>1 DEF Made
  <2>2. CASE job[e].mode # "template"
    BY <2>2 DEF Made
  <2> QED
    BY <2>1, <2>2
<1> DEFINE next == IF b.kind = "fallback" THEN "announce" ELSE "generate"
<1>7. pc'[e] = next
  BY <1>1, GoTo
<1>8. ASSUME NEW q \in Parts
      PROVE  /\ Own(e, job[e].state.code[q])'
             /\ job'[e].state.code[q] # NoBundle => job'[e].state.code[q].round = 0
             /\ job'[e].state.code[q].kind = "fallback" =>
                  Announced(e, q)' \/ (pc'[e] = "announce" /\ job'[e].part = q)
  <2>1. CASE q = p
    <3>1. job'[e].state.code[q] = b
      BY <1>2, <1>3, <2>1 DEF Bundles
    <3> QED
      BY <1>3, <1>6, <1>7, <2>1, <3>1 DEF Own
  <2>2. CASE q # p
    <3>1. job'[e].state.code[q] = job[e].state.code[q]
      BY <1>2, <1>3, <2>2 DEF Bundles
    <3> QED
      BY <1>2, <1>3, <3>1 DEF Own, Announced, Logged, GeneratedOK
  <2> QED
    BY <2>1, <2>2
<1>9. GeneratedOK(e)'
  BY <1>3, <1>5, <1>8 DEF GeneratedOK
<1>10. next \in {"generate", "announce"}
  OBVIOUS
<1> HIDE DEF next
<1> QED
  BY <1>1, <1>2, <1>3, <1>4, <1>9, <1>10, LogGenerating DEF next

LEMMA LogAnnounceFallback ==
  ASSUME TypeOK, Undisturbed, LogInv, overtaken = {}, NEW e \in Execs, AnnounceFallback(e)
  PROVE  LogInv'
<1> DEFINE new == [type |-> "fallback", by |-> e, attempt |-> job[e].attempt,
                   parts |-> {job[e].part}]
<1>1. /\ pc[e] = "announce" /\ pc[e] \in Working /\ Logged(e) /\ UNCHANGED <<run, job>>
      /\ Go(e, "generate") /\ events' = events \union {new}
  BY DEF AnnounceFallback, Emit, Working, LogInv
<1>2. \A d \in Execs : Checks(d)' = Checks(d)
  BY <1>1 DEF Checks
<1>3. new.type = "fallback" /\ new.by = e /\ new.parts = {job[e].part}
  OBVIOUS
<1> HIDE DEF new
<1>4. GeneratedOK(e)'
  BY <1>1, <1>3 DEF Logged, GeneratedOK, Own, Announced
<1> QED
  BY <1>1, <1>2, <1>4, LogGenerating

LEMMA LogFailBundle ==
  ASSUME TypeOK, Undisturbed, LogInv, overtaken = {}, NEW e \in Execs, FailBundle(e)
  PROVE  LogInv'
<1>1. PICK p \in job[e].todo :
        job' = [job EXCEPT ![e].todo = @ \ {p}, ![e].failed = @ \/ run.status # "CANCELLED"]
  BY DEF FailBundle
<1>2. /\ pc[e] = "generate" /\ pc[e] \in Working /\ Logged(e) /\ UNCHANGED <<run, events>>
      /\ Go(e, "generate")
  BY DEF FailBundle, Working, LogInv, Go, TypeOK
<1>3. /\ job'[e].mode = job[e].mode /\ job'[e].batch = job[e].batch
      /\ job'[e].attempt = job[e].attempt /\ job'[e].state = job[e].state
  BY <1>1 DEF TypeOK, Job
<1>4. \A d \in Execs : Checks(d)' = Checks(d)
  BY <1>2 DEF Checks
<1>5. GeneratedOK(e)'
  BY <1>2, <1>3, GeneratedKept
<1> QED
  BY <1>2, <1>3, <1>4, <1>5, LogGenerating

LEMMA LogEndGroup ==
  ASSUME TypeOK, Undisturbed, LogInv, overtaken = {}, NEW e \in Execs, EndGroup(e)
  PROVE  LogInv'
<1>1. /\ pc[e] = "generate" /\ pc[e] \in Working \ {"announce"} /\ pc[e] \in Alive
      /\ job[e].batch < 3 /\ run.status # "COMPLETED" /\ run \in Run
      /\ job[e].state \in State /\ UNCHANGED events
  BY DEF EndGroup, Working, Alive, Undisturbed, Good, InBatch, NobodyWorksOnCompleted, TypeOK, Job
<1>2. CASE job[e].failed
  <2>1. run'.status # "COMPLETED"
    BY <1>1, <1>2 DEF EndGroup, Run
  <2> QED
    BY <1>1, <1>2, <2>1, LogReturn, LogNotCompleted DEF EndGroup
<1>3. CASE ~job[e].failed
  <2>1. job[e].batch # 4 /\ job[e].batch # 3 /\ pc[e] \notin Integrating
    BY <1>1 DEF Integrating, TypeOK, Job
  <2>2. Proceed(e, job[e].state, run)
    BY <1>3 DEF EndGroup
  <2> QED
    BY <1>1, <2>1, <2>2, LogProceed
<1> QED
  BY <1>2, <1>3

-----------------------------------------------------------------------------
(***************************************************************************)
(* The integration stage.                                                  *)
(***************************************************************************)
LEMMA IntegratingFacts ==
  ASSUME TypeOK, Undisturbed, LogInv, overtaken = {}, NEW e \in Execs, pc[e] \in Integrating
  PROVE  /\ pc[e] \in Working \ {"announce"} /\ job[e].batch = 3 /\ Logged(e) /\ Good(e)
         /\ job[e] \in Job /\ run \in Run /\ run.status # "COMPLETED"
         /\ job[e].attempt \in 0..MaxRepairAttempts /\ job[e].attempt \in Nat
BY DeliveryAssumption
DEF Working, Integrating, LogInv, Undisturbed, Good, InBatch, NobodyWorksOnCompleted, TypeOK, Job

\* A step inside of the stage that reports no verification.
LEMMA LogIntegrating ==
  ASSUME TypeOK, Undisturbed, LogInv, overtaken = {}, NEW e \in Execs, pc[e] \in Integrating,
         NEW next \in Integrating, Go(e, next), UNCHANGED run,
         \A d \in Execs \ {e} : Checks(d)' = Checks(d), events \subseteq events',
         job'[e].mode = job[e].mode, job'[e].state = job[e].state,
         BundlesOK(e)', RoundsOK(e)', CountOK(e)'
  PROVE  LogInv'
<1>1. pc[e] \in Working \ {"announce"} /\ Logged(e) /\ pc'[e] = next
  BY IntegratingFacts, GoTo
<1>2. GeneratedOK(e)'
  BY <1>1, GeneratedKept
<1>3. ExplainedSoFar(e)'
  BY <1>1 DEF ExplainedSoFar, Integrating
<1> QED
  BY <1>1, <1>2, <1>3, LogStage DEF Logged

LEMMA LogClearWorkspace ==
  ASSUME TypeOK, Undisturbed, LogInv, overtaken = {}, NEW e \in Execs,
         ClearWorkspace(e), ~Raise(e)
  PROVE  LogInv'
<1>1. /\ job' = [job EXCEPT ![e].files = job[e].code, ![e].part = 1] /\ pc[e] = "clear"
      /\ Go(e, "write") /\ UNCHANGED <<run, events>> /\ pc[e] \in Integrating
  BY DEF ClearWorkspace, Integrating
<1>2. Logged(e) /\ job[e] \in Job /\ "write" \in Integrating /\ pc'[e] = "write"
  BY <1>1, IntegratingFacts, GoTo DEF Integrating
<1>3. /\ job'[e].mode = job[e].mode /\ job'[e].state = job[e].state
      /\ job'[e].code = job[e].code /\ job'[e].files = job[e].code
      /\ job'[e].attempt = job[e].attempt
  BY <1>1, <1>2 DEF TypeOK, Job
<1>4. \A d \in Execs : Checks(d)' = Checks(d)
  BY <1>1 DEF Checks
<1>5. BundlesOK(e)' /\ RoundsOK(e)' /\ CountOK(e)'
  BY <1>1, <1>2, <1>3, <1>4 DEF Logged, BundlesOK, RoundsOK, CountOK, Own, Integrating
<1> QED
  BY <1>1, <1>2, <1>3, <1>4, <1>5, LogIntegrating

LEMMA LogWriteFiles ==
  ASSUME TypeOK, Undisturbed, LogInv, overtaken = {}, NEW e \in Execs,
         WriteFiles(e), ~Raise(e)
  PROVE  LogInv'
<1> DEFINE next == IF job[e].part = Last THEN "check" ELSE "write"
<1>1. /\ job' = [job EXCEPT ![e].part = IF job[e].part = Last THEN 1 ELSE job[e].part + 1]
      /\ pc[e] = "write" /\ Go(e, next) /\ UNCHANGED <<run, events>> /\ pc[e] \in Integrating
  BY DEF WriteFiles, Integrating
<1>2. Logged(e) /\ job[e] \in Job /\ next \in Integrating /\ pc'[e] = next
  BY <1>1, IntegratingFacts, GoTo DEF Integrating
<1>3. /\ job'[e].mode = job[e].mode /\ job'[e].state = job[e].state
      /\ job'[e].code = job[e].code /\ job'[e].files = job[e].files
      /\ job'[e].attempt = job[e].attempt
      /\ pc'[e] = "check" => job'[e].part = 1
  BY <1>1, <1>2 DEF TypeOK, Job
<1>4. \A d \in Execs : Checks(d)' = Checks(d)
  BY <1>1 DEF Checks
<1>5. pc'[e] \in {"write", "check"}
  BY <1>2
<1> HIDE DEF next
<1>6. BundlesOK(e)'
  BY <1>1, <1>3, <1>5 DEF Logged, BundlesOK, Own, Parts, Integrating, LogInv
<1>7. RoundsOK(e)' /\ CountOK(e)'
  BY <1>1, <1>2, <1>3, <1>4, <1>5 DEF Logged, RoundsOK, CountOK, Integrating
<1> QED
  BY <1>1, <1>2, <1>3, <1>4, <1>6, <1>7, LogIntegrating

\* Only a part that is there can be checked.
LEMMA LogCheckFiles ==
  ASSUME TypeOK, Undisturbed, LogInv, overtaken = {}, NEW e \in Execs,
         CheckFiles(e), ~Raise(e)
  PROVE  LogInv'
<1> DEFINE next == IF job[e].part = Last THEN "report" ELSE "check"
<1>1. PICK ok \in BOOLEAN :
        job' = [job EXCEPT ![e].results[job[e].part] = [ok |-> ok, on |-> disk[job[e].part]],
                           ![e].part = IF job[e].part = Last THEN 1 ELSE job[e].part + 1]
  BY DEF CheckFiles
<1>2. /\ pc[e] = "check" /\ Go(e, next) /\ UNCHANGED <<run, events>> /\ pc[e] \in Integrating
      /\ disk[job[e].part] # NoBundle
  BY DEF CheckFiles, Runnable, Integrating
<1>3. /\ Logged(e) /\ Good(e) /\ job[e] \in Job /\ next \in Integrating /\ pc'[e] = next
      /\ job[e].part \in {1, 2}
  BY <1>2, IntegratingFacts, GoTo DEF Integrating, Job, Parts
<1>4. job[e].code[job[e].part] # NoBundle
  BY <1>2, <1>3 DEF Good, WrittenSoFar, Logged, BundlesOK
<1>5. /\ job'[e].mode = job[e].mode /\ job'[e].state = job[e].state
      /\ job'[e].code = job[e].code /\ job'[e].files = job[e].files
      /\ job'[e].attempt = job[e].attempt
      /\ job'[e].part = IF job[e].part = 2 THEN 1 ELSE job[e].part + 1
  BY <1>1, <1>3 DEF TypeOK, Job, Last
<1>6. \A d \in Execs : Checks(d)' = Checks(d)
  BY <1>2 DEF Checks
<1>7. pc'[e] = IF job[e].part = 2 THEN "report" ELSE "check"
  BY <1>3 DEF Last
<1> HIDE DEF next
<1>8. \A p \in Parts : p < job[e].part => job[e].code[p] # NoBundle
  BY <1>2, <1>3 DEF Logged, BundlesOK
<1>9. BundlesOK(e)'
  <2>1. CASE job[e].part = 1
    BY <1>2, <1>3, <1>4, <1>5, <1>7, <2>1 DEF Logged, BundlesOK, Own, Parts
  <2>2. CASE job[e].part = 2
    <3>1. \A p \in Parts : job[e].code[p] # NoBundle
      BY <1>4, <1>8, <2>2 DEF Parts
    <3> QED
      BY <1>2, <1>3, <1>5, <1>7, <2>2, <3>1 DEF Logged, BundlesOK, Own
  <2> QED
    BY <1>3, <2>1, <2>2
<1>10. RoundsOK(e)' /\ CountOK(e)'
  BY <1>2, <1>3, <1>5, <1>6, <1>7 DEF Logged, RoundsOK, CountOK, Integrating
<1> QED
  BY <1>2, <1>3, <1>5, <1>6, <1>9, <1>10, LogIntegrating

LEMMA LogReportChecks ==
  ASSUME TypeOK, Undisturbed, LogInv, overtaken = {}, NEW e \in Execs, ReportChecks(e)
  PROVE  LogInv'
<1> DEFINE a == job[e].attempt
           F == Failing(job[e].results)
           new == [type |-> "verification", by |-> e, attempt |-> a, parts |-> F]
           types == {"verification"} \union (IF a > 0 THEN {"repair.completed"} ELSE {})
<1>1. /\ events' = events \union [type : types, by : {e}, attempt : {a}, parts : {F}]
      /\ pc[e] = "report" /\ Go(e, "decide") /\ UNCHANGED <<run, job>> /\ pc[e] \in Integrating
  BY DEF ReportChecks, Integrating
<1>2. /\ Logged(e) /\ "decide" \in Integrating /\ pc'[e] = "decide" /\ a \in Nat
  BY <1>1, IntegratingFacts, GoTo DEF Integrating
<1>3. \A v \in [type : types, by : {e}, attempt : {a}, parts : {F}] :
        v.by = e /\ (v.type = "verification" => v = new)
  OBVIOUS
<1>4. new \in [type : types, by : {e}, attempt : {a}, parts : {F}]
      /\ new.type = "verification" /\ new.by = e /\ new.attempt = a /\ new.parts = F
  OBVIOUS
<1> HIDE DEF new, types
<1>5. Checks(e)' = Checks(e) \union {new} /\ \A d \in Execs \ {e} : Checks(d)' = Checks(d)
  BY <1>1, <1>3, <1>4 DEF Checks
<1>6. Counted(Checks(e), a - 1)
  BY <1>1, <1>2 DEF Logged, CountOK
<1> HIDE DEF a
<1>7. /\ Counted(Checks(e) \union {new}, a) /\ SaysLast(Checks(e) \union {new}, a, job[e].results)
      /\ \A p, b : RoundOK(Checks(e), p, b, a) => RoundOK(Checks(e) \union {new}, p, b, a)
  BY <1>2, <1>4, <1>6, OneMoreCheck
<1> USE DEF a
<1>8. BundlesOK(e)'
  BY <1>1, <1>2 DEF Logged, BundlesOK, Own
<1>9. RoundsOK(e)'
  BY <1>1, <1>2, <1>5, <1>7 DEF Logged, RoundsOK
<1>10. CountOK(e)'
  BY <1>1, <1>2, <1>5, <1>7 DEF Logged, CountOK, Integrating
<1> QED
  BY <1>1, <1>2, <1>5, <1>8, <1>9, <1>10, LogIntegrating

LEMMA LogDecideRepair ==
  ASSUME TypeOK, Undisturbed, LogInv, overtaken = {}, NEW e \in Execs, DecideRepair(e)
  PROVE  LogInv'
<1> DEFINE a == job[e].attempt
           F == Failing(job[e].results)
<1>1. pc[e] = "decide" /\ pc[e] \in Integrating /\ UNCHANGED run
  BY DEF DecideRepair, Integrating
<1>2. /\ Logged(e) /\ job[e] \in Job /\ a \in 0..MaxRepairAttempts /\ a \in Nat
      /\ job[e].mode \in {"template", "crewai"}
  BY <1>1, IntegratingFacts DEF Logged, GeneratedOK
<1>3. /\ Counted(Checks(e), a) /\ SaysLast(Checks(e), a, job[e].results)
      /\ \A p \in Parts : job[e].code[p] # NoBundle /\ RoundOK(Checks(e), p, job[e].code[p], a)
  BY <1>1, <1>2 DEF Logged, CountOK, BundlesOK, RoundsOK
<1>4. CASE job[e].mode = "crewai" /\ F # {} /\ a < MaxRepairAttempts
  <2>1. /\ job' = [job EXCEPT ![e].attempt = @ + 1, ![e].todo = F]
        /\ events' = events \union [type : {"repair.started"}, by : {e},
             attempt : {a + 1}, parts : {F}]
        /\ Go(e, "repair")
    BY <1>4 DEF DecideRepair
  <2>2. /\ job'[e].mode = job[e].mode /\ job'[e].state = job[e].state
        /\ job'[e].code = job[e].code /\ job'[e].todo = F /\ job'[e].attempt = a + 1
        /\ pc'[e] = "repair" /\ "repair" \in Integrating
    BY <1>2, <2>1, GoTo DEF TypeOK, Job, Integrating
  <2>3. \A d \in Execs : Checks(d)' = Checks(d)
    BY <2>1 DEF Checks
  <2>4. ASSUME NEW p \in Parts
        PROVE  IF p \in F THEN FailedCheck(Checks(e), a, p)
                          ELSE RoundOK(Checks(e), p, job[e].code[p], a + 1)
    <3>1. CASE p \in F
      <4>1. \E v \in Checks(e) : v.attempt = a
        <5>1. a \in {v.attempt : v \in Checks(e)}
          BY <1>2, <1>3 DEF Counted
        <5> QED
          BY <5>1
      <4>2. FailedCheck(Checks(e), a, p)
        BY <1>3, <3>1, <4>1 DEF FailedCheck, SaysLast
      <4> QED
        BY <3>1, <4>2
    <3>2. CASE p \notin F
      <4>1. ~FailedCheck(Checks(e), a, p)
        BY <1>3, <3>2 DEF FailedCheck, SaysLast
      <4> QED
        BY <1>2, <1>3, <3>2, <4>1, Passed
    <3> QED
      BY <3>1, <3>2
  <2>5. job'[e].attempt - 1 = a /\ job'[e].attempt > 0
    BY <1>2, <2>2
  <2> HIDE DEF a, F
  <2>6. BundlesOK(e)'
    BY <1>1, <1>2, <1>3, <2>2 DEF Logged, BundlesOK, Own
  <2>7. RoundsOK(e)'
    BY <1>3, <2>2, <2>3, <2>4, <2>5 DEF RoundsOK
  <2>8. CountOK(e)'
    BY <1>3, <1>4, <2>2, <2>3, <2>5 DEF CountOK, Integrating
  <2> QED
    BY <1>1, <2>1, <2>2, <2>3, <2>6, <2>7, <2>8, LogIntegrating
<1>5. CASE ~(job[e].mode = "crewai" /\ F # {} /\ a < MaxRepairAttempts)
  <2>1. Go(e, "record") /\ UNCHANGED <<events, job>>
    BY <1>5 DEF DecideRepair
  <2>2. pc'[e] = "record" /\ "record" \in Integrating /\ \A d \in Execs : Checks(d)' = Checks(d)
    BY <2>1, GoTo DEF Integrating, Checks
  <2>3. job[e].mode = "template" => a = 0
    BY <1>1, <1>2 DEF Logged, CountOK
  <2>4. F # {} => a = IF job[e].mode = "template" THEN 0 ELSE MaxRepairAttempts
    BY <1>2, <1>5, <2>3, DeliveryAssumption
  <2> HIDE DEF a, F
  <2>5. BundlesOK(e)'
    BY <1>1, <1>2, <2>1, <2>2 DEF Logged, BundlesOK, Own
  <2>6. RoundsOK(e)'
    BY <1>1, <1>2, <2>1, <2>2 DEF Logged, RoundsOK
  <2>7. CountOK(e)'
    BY <1>3, <2>1, <2>2, <2>3, <2>4 DEF CountOK, Integrating, a, F
  <2> QED
    BY <1>1, <2>1, <2>2, <2>5, <2>6, <2>7, LogIntegrating
<1> QED
  BY <1>4, <1>5

LEMMA LogRepairBundle ==
  ASSUME TypeOK, Undisturbed, LogInv, overtaken = {}, NEW e \in Execs,
         RepairBundle(e), ~Raise(e)
  PROVE  LogInv'
<1> DEFINE a == job[e].attempt
           p == CHOOSE q \in job[e].todo : \A r \in job[e].todo : q <= r
           next == IF job[e].todo = {p} THEN "clear" ELSE "repair"
<1>1. /\ pc[e] = "repair" /\ pc[e] \in Integrating /\ UNCHANGED <<run, events>> /\ Go(e, next)
  BY DEF RepairBundle, Integrating
<1>2. PICK b \in RepairedBundle(e) : job' = [job EXCEPT ![e].code[p] = b, ![e].todo = @ \ {p}]
  BY DEF RepairBundle
<1>3. /\ Logged(e) /\ job[e] \in Job /\ a \in Nat /\ pc'[e] = next
      /\ job[e].mode = "crewai" /\ a > 0 /\ job[e].todo # {} /\ job[e].todo \subseteq Parts
      /\ job[e].code \in Bundles
  BY <1>1, IntegratingFacts, GoTo DEF Logged, CountOK, Job
<1>4. p \in job[e].todo
  <2>1. \E q \in job[e].todo : \A r \in job[e].todo : q <= r
    BY <1>3 DEF Parts
  <2> QED
    BY <2>1
<1> HIDE DEF p
<1>5. b.by = e /\ b.round = a /\ b.kind = "ai" /\ b \in Bundle
  BY <1>3 DEF RepairedBundle, Bundle, Job
<1>6. /\ job'[e].mode = job[e].mode /\ job'[e].state = job[e].state
      /\ job'[e].code = [job[e].code EXCEPT ![p] = b] /\ job'[e].todo = job[e].todo \ {p}
      /\ job'[e].attempt = a
  BY <1>2, <1>3 DEF TypeOK, Job
<1>7. \A q \in Parts : job'[e].code[q] = IF q = p THEN b ELSE job[e].code[q]
  BY <1>3, <1>6 DEF Bundles
<1>8. \A d \in Execs : Checks(d)' = Checks(d)
  BY <1>1 DEF Checks
<1>9. next \in {"clear", "repair"} /\ next \in Integrating
  BY DEF Integrating
<1>10. next = "clear" <=> job[e].todo = {p}
  OBVIOUS
<1> HIDE DEF next
<1>11. b # NoBundle
  BY <1>5 DEF Bundle, NoBundle
<1>12. BundlesOK(e)'
  <2>2. \A q \in Parts : Own(e, job[e].code[q])'
    <3>1. \A q \in Parts : LET c == job'[e].code[q]
                           IN  c # NoBundle => c.by = e /\ (c.kind = "template" <=> job'[e].mode = "template")
      BY <1>1, <1>3, <1>5, <1>6, <1>7 DEF Logged, BundlesOK, Own
    <3> QED
      BY <3>1 DEF Own
  <2>3. \A q \in Parts : job'[e].code[q] # NoBundle
    BY <1>1, <1>3, <1>7, <1>11 DEF Logged, BundlesOK
  <2> QED
    BY <1>3, <1>9, <2>2, <2>3 DEF BundlesOK
<1>13. \A q \in Parts :
         IF q \in job[e].todo
         THEN RoundOK(Checks(e), q, job[e].code[q], a - 1) /\ FailedCheck(Checks(e), a - 1, q)
         ELSE RoundOK(Checks(e), q, job[e].code[q], a)
  BY <1>1, <1>3 DEF Logged, RoundsOK
<1>14. RoundOK(Checks(e), p, b, a)
  <2>1. p \in Parts /\ FailedCheck(Checks(e), a - 1, p) /\ a \in Nat \ {0}
    BY <1>3, <1>4, <1>13
  <2> QED
    BY <1>5, <2>1, Repaired
<1> HIDE DEF a
<1>15. ASSUME NEW q \in Parts
       PROVE  IF q \in job'[e].todo
              THEN RoundOK(Checks(e), q, job'[e].code[q], a - 1) /\ FailedCheck(Checks(e), a - 1, q)
              ELSE RoundOK(Checks(e), q, job'[e].code[q], a)
  BY <1>6, <1>7, <1>13, <1>14
<1>16. RoundsOK(e)'
  <2>1. CASE next = "repair"
    BY <1>3, <1>6, <1>8, <1>15, <2>1 DEF RoundsOK
  <2>2. CASE next = "clear"
    <3>1. job'[e].todo = {}
      BY <1>6, <1>10, <2>2
    <3> QED
      BY <1>3, <1>6, <1>8, <1>15, <2>2, <3>1 DEF RoundsOK
  <2> QED
    BY <1>9, <2>1, <2>2
<1>17. CountOK(e)'
  <2>1. Counted(Checks(e), a - 1)
    BY <1>1, <1>3 DEF Logged, CountOK, a
  <2>2. next = "repair" => job'[e].todo # {}
    BY <1>4, <1>6, <1>9, <1>10
  <2> QED
    BY <1>3, <1>6, <1>8, <1>9, <2>1, <2>2 DEF CountOK, Integrating, a
<1> QED
  BY <1>1, <1>6, <1>8, <1>9, <1>12, <1>16, <1>17, LogIntegrating

\* What is recorded is what was written, checked and reported last.
LEMMA LogRecordIntegration ==
  ASSUME TypeOK, Undisturbed, LogInv, overtaken = {}, NEW e \in Execs,
         RecordIntegration(e), ~Raise(e)
  PROVE  LogInv'
<1> DEFINE bundle == [files |-> job[e].files, results |-> job[e].results]
           state == [job[e].state EXCEPT !.integration = bundle]
           row == [run EXCEPT !.state = state]
<1>1. /\ pc[e] = "record" /\ pc[e] \in Integrating /\ UNCHANGED events
      /\ Proceed(e, state, row)
  BY DEF RecordIntegration, Integrating
<1>2. /\ pc[e] \in Working \ {"announce"} /\ job[e].batch = 3 /\ Logged(e) /\ job[e] \in Job
      /\ run \in Run /\ run.status # "COMPLETED" /\ job[e].attempt \in 0..MaxRepairAttempts
  BY <1>1, IntegratingFacts
<1>3. /\ state \in State /\ row \in Run /\ row.status # "COMPLETED"
      /\ state.code = job[e].state.code /\ state.integration = bundle
  BY <1>2 DEF Job, State, Integration, Run
<1>4. bundle.files = job[e].code /\ bundle.results = job[e].results
  BY <1>1, <1>2 DEF Logged, BundlesOK
<1> HIDE DEF bundle, state, row
<1>5. Explained(Checks(e), e, bundle)
  <2> DEFINE n == job[e].attempt
  <2>1. Counted(Checks(e), n) /\ SaysLast(Checks(e), n, bundle.results)
    BY <1>1, <1>2, <1>4 DEF Logged, CountOK
  <2>2. \A p \in Parts : /\ bundle.files[p] # NoBundle /\ bundle.files[p].by = e
                         /\ bundle.files[p].kind = "template" <=> job[e].mode = "template"
                         /\ RoundOK(Checks(e), p, bundle.files[p], n)
    BY <1>1, <1>2, <1>4 DEF Logged, BundlesOK, RoundsOK, Own
  <2>3. Failing(bundle.results) # {} =>
          n = IF bundle.files[1].kind = "template" THEN 0 ELSE MaxRepairAttempts
    BY <1>1, <1>2, <1>4, <2>2 DEF Logged, CountOK, Parts
  <2> HIDE DEF n
  <2> QED
    BY <1>2, <2>1, <2>2, <2>3 DEF Explained, n
<1> QED
  BY <1>1, <1>2, <1>3, <1>5, LogProceed

LEMMA LogHandOff ==
  ASSUME TypeOK, Undisturbed, LogInv, overtaken = {}, NEW e \in Execs, HandOff(e), ~Raise(e)
  PROVE  LogInv'
<1> DEFINE state == [job[e].state EXCEPT !.handoff = job[e].state.integration.results]
<1>1. pc[e] = "handoff" /\ job[e].batch = 4 /\ job[e].state \in State /\ UNCHANGED events
  BY DEF HandOff, Undisturbed, Good, InBatch, TypeOK, Job
<1>2. state.code = job[e].state.code /\ state.integration = job[e].state.integration
  BY <1>1 DEF State
<1>3. Return(e) /\ run' = [status |-> "COMPLETED", state |-> state]
  BY <1>1 DEF HandOff, Proceed
<1> HIDE DEF state
<1> QED
  BY <1>1, <1>2, <1>3, LogComplete

LEMMA LogAcknowledge ==
  ASSUME TypeOK, Undisturbed, LogInv, overtaken = {}, NEW e \in Execs, Acknowledge(e)
  PROVE  LogInv'
<1>1. /\ pc[e] \in Alive /\ pc' = [pc EXCEPT ![e] = "done"] /\ pc'[e] = "done"
      /\ UNCHANGED <<run, events>>
  BY DEF Acknowledge, Alive, Go, TypeOK
<1>2. \A d \in Execs : Checks(d)' = Checks(d)
  BY <1>1 DEF Checks
<1>3. LogDelivered'
  BY <1>1, <1>2 DEF LogInv, LogDelivered, Announced
<1>4. Logged(e)'
  BY <1>1, RestLogged DEF Working, Integrating
<1> QED
  BY <1>1, <1>2, <1>3, <1>4, LogMoves

LEMMA LogStep == TypeOK /\ Undisturbed /\ LogInv /\ [Next]_vars => LogInv'
<1> SUFFICES ASSUME TypeOK, Undisturbed, LogInv, [Next]_vars, overtaken' = {} PROVE LogInv'
  BY DEF LogInv
<1>1. ASSUME NEW e \in Execs, Execute(e) PROVE LogInv'
  <2>1. overtaken = {}
    BY <1>1, OthersUnmoved
  <2>2. CASE Begin(e) \/ NextBatch(e) \/ Acknowledge(e) \/ Plan(e)
    BY <2>1, <2>2, LogBegin, LogNextBatch, LogAcknowledge, LogPlan
  <2>3. CASE Abandon(e)
    BY <2>1, <2>3 DEF Abandon
  <2>4. CASE CompleteBundle(e) \/ AnnounceFallback(e) \/ FailBundle(e) \/ EndGroup(e)
    BY <2>1, <2>4, LogCompleteBundle, LogAnnounceFallback, LogFailBundle, LogEndGroup
  <2>5. CASE ReportChecks(e) \/ DecideRepair(e)
    BY <2>1, <2>5, LogReportChecks, LogDecideRepair
  <2>6. CASE /\ ClearWorkspace(e) \/ WriteFiles(e) \/ CheckFiles(e) \/ RepairBundle(e)
                \/ RecordIntegration(e) \/ HandOff(e)
             /\ Raise(e)
    <3>1. pc[e] \in {"plan", "handoff"} \union Integrating
      BY <2>6 DEF ClearWorkspace, WriteFiles, CheckFiles, RepairBundle, RecordIntegration, HandOff,
                  Integrating
    <3> QED
      BY <2>1, <2>6, <3>1, LogRaise
  <2>7. CASE /\ ClearWorkspace(e) \/ WriteFiles(e) \/ CheckFiles(e) \/ RepairBundle(e)
                \/ RecordIntegration(e) \/ HandOff(e)
             /\ ~Raise(e)
    BY <2>1, <2>7, LogClearWorkspace, LogWriteFiles, LogCheckFiles, LogRepairBundle,
       LogRecordIntegration, LogHandOff
  <2> QED
    BY <1>1, <2>2, <2>3, <2>4, <2>5, <2>6, <2>7 DEF Execute
<1>2. ASSUME NEW e \in Execs, WorkerLost(e) PROVE LogInv'
  <2>1. PICK d \in Execs : pc[d] = "idle" /\ pc' = [pc EXCEPT ![e] = "lost", ![d] = "queued"]
    BY <1>2 DEF WorkerLost
  <2>2. pc[e] \in Alive /\ d # e /\ UNCHANGED <<run, events, overtaken>>
    BY <1>2, <2>1 DEF WorkerLost, Alive, Working, Integrating
  <2>3. LogDelivered /\ AtMostOneAlive /\ \A x \in Execs : Logged(x)
    BY <2>2 DEF LogInv, Undisturbed
  <2>4. \A x \in Execs : Checks(x)' = Checks(x)
    BY <2>2 DEF Checks
  <2>5. LogDelivered'
    BY <2>2, <2>3, <2>4 DEF LogDelivered, Announced
  <2>6. ASSUME NEW x \in Execs PROVE Logged(x)'
    <3>1. pc'[x] = IF x = d THEN "queued" ELSE IF x = e THEN "lost" ELSE pc[x]
      BY <2>1, <2>2 DEF TypeOK
    <3>2. pc'[x] \notin Working
      BY <2>2, <2>3, <3>1 DEF AtMostOneAlive, Alive, Working, Integrating
    <3>3. pc'[x] \in {"idle", "queued"} => pc[x] \in {"idle", "queued"}
      BY <2>1, <3>1
    <3>4. pc'[x] \in {"idle", "queued"} => Checks(x)' = {}
      BY <2>3, <2>4, <3>3 DEF Logged, CountOK
    <3> QED
      BY <3>2, <3>4, RestLogged
  <2> QED
    BY <2>5, <2>6 DEF LogInv
<1>3. CASE Cancel
  <2>1. run'.status = "CANCELLED" /\ UNCHANGED <<pc, job, events, overtaken>>
    BY <1>3 DEF Cancel, TypeOK, Run, bounds
  <2>2. \A e \in Execs : Checks(e)' = Checks(e)
    BY <2>1 DEF Checks
  <2>3. \A e \in Execs : Logged(e)'
    BY <2>1, <2>2
    DEF LogInv, Logged, GeneratedOK, BundlesOK, RoundsOK, CountOK, ExplainedSoFar, Own, Announced
  <2> QED
    BY <2>1, <2>3 DEF LogInv, LogDelivered
<1>4. CASE Resume
  <2>1. run'.status = "QUEUED" /\ events' = {} /\ \A e \in Execs : pc[e] \notin Alive
    BY <1>4 DEF Resume
  <2>2. PICK d \in Execs : pc' = [pc EXCEPT ![d] = "queued"]
    BY <1>4 DEF Resume, Go
  <2>3. \A x \in Execs : pc'[x] \notin Working
    BY <2>1, <2>2 DEF TypeOK, Alive, Working, Integrating
  <2>4. \A x \in Execs : Checks(x)' = {}
    BY <2>1 DEF Checks
  <2>5. \A x \in Execs : Logged(x)'
    BY <2>3, <2>4, RestLogged
  <2> QED
    BY <2>1, <2>5 DEF LogInv, LogDelivered
<1>5. CASE AskPackage \/ ListFiles \/ ZipFile \/ UNCHANGED vars
  <2>1. UNCHANGED <<run, pc, job, events, overtaken>>
    BY <1>5 DEF AskPackage, ListFiles, ZipFile, bounds, vars
  <2>2. \A e \in Execs : Checks(e)' = Checks(e)
    BY <2>1 DEF Checks
  <2>3. \A e \in Execs : Logged(e)'
    BY <2>1, <2>2
    DEF LogInv, Logged, GeneratedOK, BundlesOK, RoundsOK, CountOK, ExplainedSoFar, Own, Announced
  <2>4. LogDelivered'
    BY <2>1, <2>2 DEF LogInv, LogDelivered, Announced
  <2> QED
    BY <2>3, <2>4 DEF LogInv
<1> QED
  BY <1>1, <1>2, <1>3, <1>4, <1>5 DEF Next

LogDeliveryInv == TypeOK /\ Undisturbed /\ LogInv

LEMMA LogDeliveryInvariant == Spec => []LogDeliveryInv
<1>1. Init => LogDeliveryInv
  BY TypeInit, UndisturbedInit, LogInit DEF LogDeliveryInv
<1>2. LogDeliveryInv /\ [Next]_vars => LogDeliveryInv'
  BY TypeStep, UndisturbedStep, LogStep DEF LogDeliveryInv
<1> QED
  BY <1>1, <1>2, PTL DEF Spec

LEMMA ChecksFacts ==
  ASSUME TypeOK, NEW e \in Execs
  PROVE  /\ \A k : Reported(e, k) = {v \in Checks(e) : v.attempt = k}
         /\ Attempts(e) = {v.attempt : v \in Checks(e)}
         /\ \A k, p : FoundFailing(e, k, p) <=> FailedCheck(Checks(e), k, p)
<1>1. events \subseteq Event
  BY DEF TypeOK
<1>2. ASSUME NEW k PROVE Reported(e, k) = {v \in Checks(e) : v.attempt = k}
  <2>1. ASSUME NEW v \in Reported(e, k) PROVE v \in Checks(e) /\ v.attempt = k
    BY DEF Reported, Checks
  <2>2. ASSUME NEW v \in Checks(e), v.attempt = k PROVE v \in Reported(e, k)
    <3>1. v \in events /\ v \in Event /\ v.type = "verification" /\ v.by = e
      BY <1>1 DEF Checks
    <3>2. v.parts \in SUBSET Parts
      BY <3>1 DEF Event
    <3>3. v \in [type : {"verification"}, by : {e}, attempt : {k}, parts : SUBSET Parts]
      BY <2>2, <3>1, <3>2 DEF Event
    <3> QED
      BY <3>1, <3>3 DEF Reported
  <2> QED
    BY <2>1, <2>2
<1>3. Attempts(e) = {v.attempt : v \in Checks(e)}
  BY DEF Attempts, Checks
<1>4. ASSUME NEW k, NEW p PROVE FoundFailing(e, k, p) <=> FailedCheck(Checks(e), k, p)
  BY <1>2 DEF FoundFailing, FailedCheck
<1> QED
  BY <1>2, <1>3, <1>4

\* The files that a COMPLETED run records are explained by its event log: each
\* part comes from the repair that followed the last verification that found it
\* failing, for any number of repair attempts, executions and lost workers.
THEOREM RepairsCorrect == Spec => []RepairsFollowFailures
<1>1. LogDeliveryInv => RepairsFollowFailures
  <2> SUFFICES ASSUME LogDeliveryInv, run.status = "COMPLETED", overtaken = {},
                      NEW p \in Parts
               PROVE  LET b == Recorded[p]
                          repairs == {k \in Attempts(b.by) : k > 0 /\ FoundFailing(b.by, k - 1, p)}
                      IN  /\ b.round \in {0} \union repairs
                          /\ \A k \in repairs : k <= b.round
    BY DEF RepairsFollowFailures
  <2>1. PICK e \in Execs : Explained(Checks(e), e, run.state.integration)
    BY DEF LogDeliveryInv, LogInv, LogDelivered
  <2>2. PICK n \in 0..MaxRepairAttempts :
          Counted(Checks(e), n) /\ Recorded[p].by = e /\ RoundOK(Checks(e), p, Recorded[p], n)
    BY <2>1 DEF Explained, Recorded
  <2> DEFINE repairs == {k \in Attempts(e) : k > 0 /\ FoundFailing(e, k - 1, p)}
  <2>3. /\ Attempts(e) = 0..n
        /\ \A k : FoundFailing(e, k, p) <=> FailedCheck(Checks(e), k, p)
    BY <2>2, ChecksFacts DEF LogDeliveryInv, Counted
  <2>4. \A k : k \in 1..n <=> k \in 0..n /\ k > 0
    BY DeliveryAssumption
  <2>5. repairs = Due(Checks(e), p, n)
    BY <2>3, <2>4 DEF Due
  <2> HIDE DEF repairs
  <2>6. Recorded[p].round \in {0} \union repairs /\ \A k \in repairs : k <= Recorded[p].round
    BY <2>2, <2>5 DEF RoundOK
  <2> QED
    BY <2>2, <2>6 DEF repairs
<1> QED
  BY <1>1, LogDeliveryInvariant, PTL

\* Failing code is delivered only without a model or after the last repair, and
\* what is recorded is what was reported last.
THEOREM FailuresCorrect == Spec => []FailuresDeliveredLast
<1>1. LogDeliveryInv => FailuresDeliveredLast
  <2> SUFFICES ASSUME LogDeliveryInv, run.status = "COMPLETED", overtaken = {}
               PROVE  LET failing == Failing(run.state.integration.results)
                          e == Recorded[1].by
                          final == CHOOSE k \in Attempts(e) : \A j \in Attempts(e) : j <= k
                      IN  /\ \A v \in Reported(e, final) : v.parts = failing
                          /\ failing # {} =>
                               final = (IF Recorded[1].kind = "template"
                                        THEN 0 ELSE MaxRepairAttempts)
    BY DEF FailuresDeliveredLast
  <2>1. PICK e \in Execs : Explained(Checks(e), e, run.state.integration)
    BY DEF LogDeliveryInv, LogInv, LogDelivered
  <2> DEFINE failing == Failing(run.state.integration.results)
             final == CHOOSE k \in Attempts(e) : \A j \in Attempts(e) : j <= k
  <2>2. PICK n \in 0..MaxRepairAttempts :
          /\ Counted(Checks(e), n) /\ Recorded[1].by = e
          /\ SaysLast(Checks(e), n, run.state.integration.results)
          /\ failing # {} => n = IF Recorded[1].kind = "template" THEN 0 ELSE MaxRepairAttempts
    BY <2>1 DEF Explained, Recorded, Parts
  <2>3. /\ Attempts(e) = 0..n /\ n \in Nat
        /\ \A k : Reported(e, k) = {v \in Checks(e) : v.attempt = k}
    <3>1. n \in Nat
      BY DeliveryAssumption
    <3>2. \A k : Reported(e, k) = {v \in Checks(e) : v.attempt = k}
      BY ChecksFacts DEF LogDeliveryInv
    <3>3. Attempts(e) = 0..n
      BY <2>2, ChecksFacts DEF LogDeliveryInv, Counted
    <3> QED
      BY <3>1, <3>2, <3>3
  <2>4. final = n
    <3>1. n \in 0..n /\ \A j \in 0..n : j <= n
      BY <2>3
    <3>2. final \in 0..n /\ \A j \in 0..n : j <= final
      BY <2>3, <3>1
    <3> HIDE DEF final
    <3> QED
      BY <2>3, <3>1, <3>2
  <2> HIDE DEF final
  <2>5. \A v \in Reported(e, final) : v.parts = failing
    BY <2>2, <2>3, <2>4 DEF SaysLast
  <2>6. failing # {} => final = IF Recorded[1].kind = "template" THEN 0 ELSE MaxRepairAttempts
    BY <2>2, <2>4
  <2> HIDE DEF failing
  <2> QED
    BY <2>2, <2>5, <2>6 DEF failing, final
<1> QED
  BY <1>1, LogDeliveryInvariant, PTL

\* A bundle that came from the template in place of the model has its event by
\* the time the run is COMPLETED.
THEOREM FallbackCorrect == Spec => []FallbackIsAnnounced
<1>1. LogDeliveryInv => FallbackIsAnnounced
  BY DEF LogDeliveryInv, LogInv, LogDelivered, Announced, FallbackIsAnnounced
<1> QED
  BY <1>1, LogDeliveryInvariant, PTL

-----------------------------------------------------------------------------
(***************************************************************************)
(* The package.  The execution that completes the run is the author of     *)
(* what it records, and the only one alive.  Unless it is lost before its  *)
(* message is acknowledged, no other is to come: the run stays COMPLETED,  *)
(* and the workspace the recorded one, while the package is put together.  *)
(***************************************************************************)
Author == Recorded[1].by

LastAtWork ==
  run.status = "COMPLETED" =>
    pc[Author] = "lost" \/ \A d \in Execs : pc[d] \in Alive => d = Author /\ pc[d] = "return"

Asked == package.at \in {"list", "zip"}

ZippedSoFar ==
  Asked /\ pc[package.of[1].by] # "lost" =>
    /\ run.status = "COMPLETED" /\ package.of = Recorded /\ package.of = disk
    /\ package.at = "zip" =>
         \A p \in Parts : package.files[p] = IF p \in package.todo THEN NoBundle ELSE disk[p]

PackageKept ==
  /\ package.at \in {"none", "list"} => package.files = NoBundles
  /\ overtaken = {} => LastAtWork /\ ZippedSoFar /\ (Asked => package.of[1].by \in Execs)

LEMMA AuthorExists ==
  ASSUME LogDeliveryInv, overtaken = {}, run.status = "COMPLETED"
  PROVE  Author \in Execs
<1>1. PICK e \in Execs : Explained(Checks(e), e, run.state.integration)
  BY DEF LogDeliveryInv, LogInv, LogDelivered
<1>2. Recorded[1].by = e
  BY <1>1 DEF Explained, Recorded, Parts
<1> QED
  BY <1>2 DEF Author

LEMMA LostForGood ==
  ASSUME TypeOK, [Next]_vars, NEW x \in Execs, pc[x] = "lost" PROVE pc'[x] = "lost"
<1>1. ASSUME NEW e \in Execs, Execute(e) PROVE pc'[x] = "lost"
  BY <1>1, OthersUnmoved DEF Alive, Working, Integrating
<1>2. ASSUME NEW e \in Execs, WorkerLost(e) PROVE pc'[x] = "lost"
  BY <1>2 DEF WorkerLost, TypeOK, Working, Integrating
<1>3. CASE Resume
  BY <1>3 DEF Resume, Go, TypeOK
<1>4. CASE Cancel \/ AskPackage \/ ListFiles \/ ZipFile \/ UNCHANGED vars
  BY <1>4 DEF Cancel, AskPackage, ListFiles, ZipFile, vars
<1> QED
  BY <1>1, <1>2, <1>3, <1>4 DEF Next

\* The run is completed by its last stage.
LEMMA CompletedByHandOff ==
  ASSUME TypeOK, NEW e \in Execs, Execute(e), InBatch(e),
         run.status # "COMPLETED", run'.status = "COMPLETED"
  PROVE  HandOff(e) /\ job[e].batch = 4
<1>1. ASSUME NEW state, NEW row, Proceed(e, state, row), row.status # "COMPLETED"
      PROVE  job[e].batch = 4
  BY <1>1 DEF Proceed
<1>2. \A state : [run EXCEPT !.state = state].status # "COMPLETED"
  BY DEF TypeOK, Run
<1>4. ~Begin(e)
  BY DEF Begin, TypeOK, Run
<1>5. ~NextBatch(e)
  BY <1>2 DEF NextBatch
<1>6. ~Abandon(e) /\ ~Acknowledge(e)
  BY DEF Abandon, Acknowledge
<1>7. ~CompleteBundle(e)
  BY DEF CompleteBundle, TypeOK, Run
<1>8. ~AnnounceFallback(e) /\ ~FailBundle(e) /\ ~ReportChecks(e) /\ ~DecideRepair(e)
  BY DEF AnnounceFallback, FailBundle, ReportChecks, DecideRepair
<1>9. ~EndGroup(e)
  <2> SUFFICES ASSUME EndGroup(e) PROVE FALSE
    OBVIOUS
  <2>1. CASE job[e].failed
    BY <2>1 DEF EndGroup, TypeOK, Run
  <2>2. CASE ~job[e].failed
    <3>1. job[e].batch = 4
      BY <1>1, <2>2 DEF EndGroup
    <3> QED
      BY <3>1 DEF EndGroup, InBatch
  <2> QED
    BY <2>1, <2>2
<1>10. ASSUME Raise(e), pc[e] \in {"plan"} \union Integrating PROVE FALSE
  BY <1>1, <1>10 DEF Raise, InBatch
<1>11. ~Plan(e)
  <2> SUFFICES ASSUME Plan(e) PROVE FALSE
    OBVIOUS
  <2>1. pc[e] = "plan" /\ job[e].batch # 4
    BY DEF Plan, InBatch
  <2>2. PICK row : row.status # "COMPLETED" /\ Proceed(e, job[e].state, row)
    BY <1>2, <1>10, <2>1 DEF Plan
  <2> QED
    BY <1>1, <2>1, <2>2
<1>12. ~ClearWorkspace(e) /\ ~WriteFiles(e) /\ ~CheckFiles(e) /\ ~RepairBundle(e)
  BY <1>10 DEF ClearWorkspace, WriteFiles, CheckFiles, RepairBundle, Integrating
<1>13. ~RecordIntegration(e)
  <2> SUFFICES ASSUME RecordIntegration(e) PROVE FALSE
    OBVIOUS
  <2>1. pc[e] = "record" /\ job[e].batch = 3
    BY DEF RecordIntegration, InBatch, Integrating
  <2>2. PICK state, row : row.status # "COMPLETED" /\ Proceed(e, state, row)
    BY <1>2, <1>10, <2>1 DEF RecordIntegration, Integrating
  <2> QED
    BY <1>1, <2>1, <2>2
<1>14. HandOff(e)
  BY <1>4, <1>5, <1>6, <1>7, <1>8, <1>9, <1>11, <1>12, <1>13 DEF Execute
<1> QED
  BY <1>14 DEF HandOff, InBatch

\* It is completed by the author of what is recorded.
LEMMA CompletesOwn ==
  ASSUME LogDeliveryInv, overtaken = {}, NEW e \in Execs, Execute(e),
         run.status # "COMPLETED", run'.status = "COMPLETED"
  PROVE  Author' = e /\ pc'[e] = "return"
<1>1. Good(e) /\ Logged(e) /\ TypeOK
  BY DEF LogDeliveryInv, Undisturbed, LogInv
<1>2. HandOff(e) /\ job[e].batch = 4
  BY <1>1, CompletedByHandOff DEF Good
<1>3. job[e].state \in State
  BY <1>1 DEF TypeOK, Job
<1>4. PICK state, row : /\ Proceed(e, state, row)
                        /\ state.integration = job[e].state.integration
  <2>1. CASE Raise(e)
    BY <2>1 DEF Raise
  <2>2. CASE ~Raise(e)
    BY <1>2, <1>3, <2>2 DEF HandOff, State
  <2> QED
    BY <2>1, <2>2
<1>5. run'.state.integration = job[e].state.integration /\ pc'[e] = "return"
  BY <1>1, <1>2, <1>4, ReturnGoes DEF Proceed
<1>6. job[e].state.integration.files[1].by = e
  BY <1>1, <1>2 DEF HandOff, Logged, ExplainedSoFar, Explained, Parts
<1> QED
  BY <1>5, <1>6 DEF Author, Recorded

\* While the run is COMPLETED, an execution acknowledges its message, or begins.
LEMMA AfterCompleted ==
  ASSUME LogDeliveryInv, overtaken = {}, NEW e \in Execs, Execute(e), run.status = "COMPLETED"
  PROVE  \/ run'.status # "COMPLETED" /\ pc[e] = "queued"
         \/ UNCHANGED <<run, disk>> /\ pc[e] = "return" /\ pc'[e] = "done"
<1>1. pc[e] \in {"queued", "return"} /\ TypeOK
  BY OthersUnmoved DEF LogDeliveryInv, Undisturbed, NobodyWorksOnCompleted, Alive
<1>2. /\ ~NextBatch(e) /\ ~Abandon(e) /\ ~Plan(e) /\ ~CompleteBundle(e)
      /\ ~AnnounceFallback(e) /\ ~FailBundle(e) /\ ~EndGroup(e) /\ ~ClearWorkspace(e)
      /\ ~WriteFiles(e) /\ ~CheckFiles(e) /\ ~ReportChecks(e) /\ ~DecideRepair(e)
      /\ ~RepairBundle(e) /\ ~RecordIntegration(e) /\ ~HandOff(e)
  BY <1>1
  DEF NextBatch, Abandon, Plan, CompleteBundle, AnnounceFallback, FailBundle, EndGroup,
      ClearWorkspace, WriteFiles, CheckFiles, ReportChecks, DecideRepair, RepairBundle,
      RecordIntegration, HandOff
<1>3. Begin(e) \/ Acknowledge(e)
  BY <1>2 DEF Execute
<1>4. CASE Begin(e)
  <2>1. pc[e] = "queued" /\ run'.status \in {"RUNNING", "FAILED"}
    BY <1>1, <1>4 DEF Begin, TypeOK, Run
  <2> QED
    BY <2>1
<1>5. CASE Acknowledge(e)
  BY <1>1, <1>5, GoTo DEF Acknowledge
<1> QED
  BY <1>3, <1>4, <1>5

LEMMA LastAtWorkStep ==
  ASSUME LogDeliveryInv, PackageKept, [Next]_vars, overtaken = {}, overtaken' = {}
  PROVE  LastAtWork'
<1> SUFFICES ASSUME run'.status = "COMPLETED" PROVE LastAtWork'
  BY DEF LastAtWork
<1>1. TypeOK /\ AtMostOneAlive /\ LastAtWork
  BY DEF LogDeliveryInv, Undisturbed, PackageKept
<1>2. ASSUME NEW e \in Execs, Execute(e) PROVE LastAtWork'
  <2>1. pc[e] \in Alive /\ \A d \in Execs \ {e} : pc'[d] = pc[d]
    BY <1>1, <1>2, OthersUnmoved
  <2>2. CASE run.status # "COMPLETED"
    <3>1. Author' = e /\ pc'[e] = "return"
      BY <1>2, <2>2, CompletesOwn
    <3> QED
      BY <1>1, <2>1, <3>1 DEF LastAtWork, AtMostOneAlive
  <2>3. CASE run.status = "COMPLETED"
    <3>1. UNCHANGED <<run, disk>> /\ pc'[e] = "done"
      BY <1>2, <2>3, AfterCompleted
    <3>2. Author' = Author /\ Author \in Execs
      BY <2>3, <3>1, AuthorExists DEF Author, Recorded
    <3> QED
      BY <1>1, <2>1, <2>3, <3>1, <3>2 DEF LastAtWork, Alive, Working, Integrating
  <2> QED
    BY <2>2, <2>3
<1>3. ASSUME UNCHANGED run PROVE run.status = "COMPLETED" /\ Author' = Author /\ Author \in Execs
  BY <1>3, AuthorExists DEF Author, Recorded
<1>4. ASSUME NEW e \in Execs, WorkerLost(e) PROVE LastAtWork'
  <2>1. PICK d \in Execs : pc[d] = "idle" /\ pc' = [pc EXCEPT ![e] = "lost", ![d] = "queued"]
    BY <1>4 DEF WorkerLost
  <2>2. pc[e] \in Alive /\ UNCHANGED run /\ e # d
    BY <1>4, <2>1 DEF WorkerLost, Alive, Working, Integrating
  <2>3. pc'[e] = "lost" /\ \A x \in Execs \ {d, e} : pc'[x] = pc[x]
    BY <1>1, <2>1, <2>2 DEF TypeOK
  <2>4. pc[Author] = "lost" \/ e = Author
    BY <1>1, <1>3, <2>2 DEF LastAtWork
  <2>5. pc'[Author] = "lost"
    BY <1>3, <2>1, <2>2, <2>3, <2>4
  <2> QED
    BY <1>3, <2>2, <2>5 DEF LastAtWork
<1>5. ASSUME UNCHANGED <<run, pc>> PROVE LastAtWork'
  BY <1>1, <1>5 DEF LastAtWork, Author, Recorded
<1>6. CASE Cancel \/ Resume
  BY <1>1, <1>6 DEF Cancel, Resume, TypeOK, Run
<1>7. CASE AskPackage \/ ListFiles \/ ZipFile \/ UNCHANGED vars
  BY <1>5, <1>7 DEF AskPackage, ListFiles, ZipFile, vars
<1> QED
  BY <1>2, <1>4, <1>6, <1>7 DEF Next

\* The steps of the download itself.
LEMMA ZipStep ==
  ASSUME LogDeliveryInv, PackageKept, ListFiles \/ ZipFile, overtaken = {}
  PROVE  PackageKept'
<1>1. /\ UNCHANGED <<run, disk, pc, overtaken>> /\ package \in Package /\ Asked
      /\ LastAtWork /\ ZippedSoFar /\ package.of[1].by \in Execs
  BY DEF ListFiles, ZipFile, bounds, TypeOK, LogDeliveryInv, PackageKept, Asked
<1>2. LastAtWork'
  BY <1>1 DEF LastAtWork, Author, Recorded
<1>3. package.files \in Bundles /\ disk \in Bundles /\ package.todo \in SUBSET Parts
  BY <1>1 DEF Package, TypeOK, LogDeliveryInv
<1>4. CASE ListFiles
  <2> DEFINE listed == {p \in Parts : disk[p] # NoBundle}
  <2>1. package' = [package EXCEPT !.at = "zip", !.todo = listed] /\ package.files = NoBundles
    BY <1>4 DEF ListFiles, PackageKept
  <2>2. \A p \in Parts : NoBundles[p] = IF p \in listed THEN NoBundle ELSE disk[p]
    BY DEF NoBundles
  <2> HIDE DEF listed
  <2>3. /\ package'.at = "zip" /\ package'.todo = listed /\ package'.of = package.of
        /\ package'.files = NoBundles
    BY <1>1, <2>1 DEF Package
  <2> QED
    BY <1>1, <1>2, <2>2, <2>3 DEF PackageKept, ZippedSoFar, Recorded, Asked
<1>5. CASE ZipFile
  <2> DEFINE p == CHOOSE q \in package.todo : \A r \in package.todo : q <= r
  <2>1. /\ \/ package' = [package EXCEPT !.files[p] = disk[p], !.todo = @ \ {p}]
           \/ package' = [NoPackage EXCEPT !.at = "failed"]
        /\ package.at = "zip"
    BY <1>5 DEF ZipFile
  <2> HIDE DEF p
  <2>2. CASE package' = [package EXCEPT !.files[p] = disk[p], !.todo = @ \ {p}]
    <3>1. /\ package'.at = "zip" /\ package'.of = package.of
          /\ package'.todo = package.todo \ {p}
          /\ package'.files = [package.files EXCEPT ![p] = disk[p]]
      BY <1>1, <2>1, <2>2 DEF Package
    <3>2. ASSUME \A q \in Parts : package.files[q] = IF q \in package.todo THEN NoBundle ELSE disk[q]
          PROVE  \A q \in Parts : package'.files[q] = IF q \in package'.todo THEN NoBundle ELSE disk[q]
      BY <1>3, <3>1, <3>2 DEF Bundles
    <3>3. ZippedSoFar'
      BY <1>1, <2>1, <3>1, <3>2 DEF ZippedSoFar, Recorded, Asked
    <3> QED
      BY <1>1, <1>2, <3>1, <3>3 DEF PackageKept
  <2>3. CASE package' = [NoPackage EXCEPT !.at = "failed"]
    <3>1. package'.at = "failed"
      BY <2>3 DEF NoPackage
    <3> QED
      BY <1>1, <1>2, <3>1 DEF PackageKept, ZippedSoFar, Asked
  <2> QED
    BY <2>1, <2>2, <2>3
<1> QED
  BY <1>4, <1>5

\* The other steps leave the package alone; one that disturbs the workspace or
\* the run is not taken before the author is lost.
LEMMA ZippedKept ==
  ASSUME LogDeliveryInv, PackageKept, [Next]_vars, overtaken = {}, overtaken' = {},
         UNCHANGED package
  PROVE  ZippedSoFar'
<1> SUFFICES ASSUME Asked, pc'[package.of[1].by] # "lost" PROVE ZippedSoFar'
  BY DEF ZippedSoFar, Asked
<1>1. package.of[1].by \in Execs /\ LastAtWork /\ ZippedSoFar /\ TypeOK
  BY DEF PackageKept, LogDeliveryInv
<1>2. pc[package.of[1].by] # "lost"
  BY <1>1, LostForGood
<1>3. run.status = "COMPLETED" /\ package.of = Recorded /\ package.of = disk
  BY <1>1, <1>2 DEF ZippedSoFar
<1>4. pc[Author] # "lost" /\ pc'[Author] # "lost"
  BY <1>2, <1>3 DEF Author
<1>5. \A d \in Execs : pc[d] \in Alive => d = Author /\ pc[d] = "return"
  BY <1>1, <1>3, <1>4 DEF LastAtWork
<1>6. UNCHANGED <<run, disk>>
  <2>1. ASSUME NEW e \in Execs, Execute(e) PROVE UNCHANGED <<run, disk>>
    <3>1. pc[e] = "return"
      BY <1>1, <1>5, <2>1, OthersUnmoved
    <3> QED
      BY <1>3, <2>1, <3>1, AfterCompleted
  <2>2. ASSUME NEW e \in Execs, WorkerLost(e) PROVE FALSE
    <3>1. e = Author /\ pc[e] = "return"
      BY <1>5, <2>2 DEF WorkerLost, Alive
    <3>2. pc'[e] = "lost"
      BY <1>1, <2>2, <3>1 DEF WorkerLost, TypeOK
    <3> QED
      BY <1>4, <3>1, <3>2
  <2>3. CASE Cancel \/ Resume
    BY <1>3, <2>3 DEF Cancel, Resume, Live
  <2>4. CASE AskPackage \/ ListFiles \/ ZipFile \/ UNCHANGED vars
    BY <2>4 DEF AskPackage, ListFiles, ZipFile, vars
  <2> QED
    BY <2>1, <2>2, <2>3, <2>4 DEF Next
<1> QED
  BY <1>1, <1>2, <1>6 DEF ZippedSoFar, Recorded, Asked

LEMMA PackageStep == LogDeliveryInv /\ PackageKept /\ [Next]_vars => PackageKept'
<1> SUFFICES ASSUME LogDeliveryInv, PackageKept, [Next]_vars PROVE PackageKept'
  OBVIOUS
<1>1. package \in Package /\ TypeOK
  BY DEF LogDeliveryInv, TypeOK
<1>2. overtaken' = {} => overtaken = {}
  BY <1>1, OthersUnmoved
  DEF Next, WorkerLost, Cancel, Resume, AskPackage, ListFiles, ZipFile, vars, bounds
<1>3. CASE ListFiles \/ ZipFile
  <2>1. CASE overtaken = {}
    BY <1>3, <2>1, ZipStep
  <2>2. CASE overtaken # {}
    <3>1. package'.at \in {"zip", "failed"}
      BY <1>1, <1>3 DEF ListFiles, ZipFile, Package, NoPackage
    <3> QED
      BY <1>2, <2>2, <3>1 DEF PackageKept
  <2> QED
    BY <2>1, <2>2
<1>4. CASE AskPackage
  <2>1. /\ UNCHANGED <<run, disk, pc, overtaken>> /\ run.status = "COMPLETED"
        /\ package.at = "none"
        /\ package' = [package EXCEPT !.at = "list", !.of = Recorded]
    BY <1>4 DEF AskPackage, bounds
  <2>2. /\ package'.at = "list" /\ package'.of = Recorded /\ package'.files = NoBundles
    BY <1>1, <2>1 DEF Package, PackageKept
  <2>3. ASSUME overtaken = {}
        PROVE  Recorded = disk /\ Author \in Execs /\ LastAtWork'
    BY <2>1, <2>3, AuthorExists, LastAtWorkStep
    DEF LogDeliveryInv, Undisturbed, Delivered, Matches, Recorded
  <2> QED
    BY <2>1, <2>2, <2>3 DEF PackageKept, ZippedSoFar, Asked, Author, Recorded
<1>5. CASE UNCHANGED package
  BY <1>2, <1>5, LastAtWorkStep, ZippedKept DEF PackageKept, Asked
<1> QED
  BY <1>1, <1>3, <1>4, <1>5, OthersUnmoved
  DEF Next, WorkerLost, Cancel, Resume, bounds, vars

\* A package that is handed out is the deliverable the run had recorded when it
\* was asked for, however the download interleaves with everything else and
\* whatever workers are lost, as long as no execution was overtaken and the one
\* that completed the run was not itself lost before its message was acknowledged.
THEOREM PackageCorrect == Spec => []PackageIsWhole
<1>1. Init => PackageKept
  BY DEF Init, PackageKept, LastAtWork, ZippedSoFar, Asked, NoPackage
<1>2. LogDeliveryInv /\ PackageKept => PackageIsWhole
  <2> SUFFICES ASSUME LogDeliveryInv, PackageKept, HandedOut, overtaken = {},
                      pc[package.of[1].by] # "lost"
               PROVE  package.files = package.of
    BY DEF PackageIsWhole
  <2>1. /\ package.files \in Bundles /\ disk \in Bundles /\ package.of = disk
        /\ \A p \in Parts : package.files[p] = disk[p]
    BY DEF PackageKept, ZippedSoFar, Asked, HandedOut, TypeOK, Package, LogDeliveryInv
  <2> QED
    BY <2>1 DEF Bundles
<1> QED
  BY <1>1, <1>2, PackageStep, LogDeliveryInvariant, PTL DEF Spec
=============================================================================
