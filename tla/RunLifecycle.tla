----------------------------- MODULE RunLifecycle -----------------------------
(***************************************************************************)
(* What a run's status promises, without rows, sessions or code: it moves  *)
(* only when somebody uses up a right to move it.  A request acquires its  *)
(* right by finding the run in a status that allows it, an execution by    *)
(* being dispatched, and each right is good for one write, or is lost with *)
(* its process.  The write may come much later than the right.             *)
(***************************************************************************)
CONSTANTS Execs, Creator, Cancels, Resumes

VARIABLES
  status, \* of the run
  right   \* what each process may still do to it

Requests == {Creator} \union Cancels \union Resumes
Procs == Execs \union Requests

LifecycleInit ==
  /\ status = "none"
  /\ right = [p \in Procs |-> "none"]

Turn(p, to) == right' = [right EXCEPT ![p] = to]

\* An execution's copy of the run may be out of date, and a write of what it
\* already shows is none: only executions may pass their write over.
Write(s) == status' = s
MayWrite(s) == status' \in {s, status}

Create ==
  /\ right[Creator] = "none"
  /\ Write("QUEUED") /\ Turn(Creator, "dispatch")

AcceptCancel(r) ==
  /\ right[r] = "none" /\ status \in {"QUEUED", "RUNNING"}
  /\ Turn(r, "cancel") /\ UNCHANGED status

Cancel(r) ==
  /\ right[r] = "cancel"
  /\ Write("CANCELLED") /\ Turn(r, "over")

AcceptResume(r) ==
  /\ right[r] = "none" /\ status \in {"FAILED", "CANCELLED"}
  /\ Turn(r, "resume") /\ UNCHANGED status

Resume(r) ==
  /\ right[r] = "resume"
  /\ Write("QUEUED") /\ Turn(r, "dispatch")

\* An execution is started: by a request, or in place of one that was lost.
Start(p, e) ==
  /\ right[e] = "none"
  /\ right' = [right EXCEPT ![p] = "over", ![e] = "begin"]
  /\ UNCHANGED status

Dispatch(r) == right[r] = "dispatch" /\ \E e \in Execs : Start(r, e)
Redeliver(e) == \E d \in Execs : Start(e, d)

DispatchFails(r) ==
  /\ right[r] = "dispatch"
  /\ Turn(r, "fail") /\ UNCHANGED status

FailDispatch(r) ==
  /\ right[r] = "fail"
  /\ Write("FAILED") /\ Turn(r, "over")

Begin(e) ==
  /\ right[e] = "begin"
  /\ MayWrite("RUNNING") /\ Turn(e, "verdict")

Complete(e) ==
  /\ right[e] = "verdict"
  /\ MayWrite("COMPLETED") /\ Turn(e, "over")

Raise(e) ==
  /\ right[e] \in {"begin", "verdict"}
  /\ Turn(e, "fail") /\ UNCHANGED status

\* An execution may write FAILED twice, for its stage and then for the flow;
\* after the first it can no longer complete the run.
FailStage(e) ==
  /\ right[e] = "verdict"
  /\ MayWrite("FAILED") /\ Turn(e, "fail")

FailRun(e) ==
  /\ right[e] = "fail"
  /\ MayWrite("FAILED") /\ Turn(e, "over")

\* Refused, ended without a word, or stopped.
End ==
  /\ UNCHANGED status
  /\ \E ended \in SUBSET Procs :
       right' = [p \in Procs |-> IF p \in ended THEN "over" ELSE right[p]]

LifecycleNext ==
  \/ End
  \/ Create
  \/ \E r \in Cancels : AcceptCancel(r) \/ Cancel(r)
  \/ \E r \in Resumes : AcceptResume(r) \/ Resume(r)
  \/ \E r \in Requests : Dispatch(r) \/ DispatchFails(r) \/ FailDispatch(r)
  \/ \E e \in Execs : Redeliver(e) \/ Begin(e) \/ Complete(e)
  \/ \E e \in Execs : Raise(e) \/ FailStage(e) \/ FailRun(e)

LifecycleSpec == LifecycleInit /\ [][LifecycleNext]_<<status, right>>
=============================================================================
