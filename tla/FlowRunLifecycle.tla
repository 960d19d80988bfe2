--------------------------- MODULE FlowRunLifecycle ---------------------------
(***************************************************************************)
(* FlowRun implements RunLifecycle: the program points of a process are    *)
(* mapped to what it may still do to the status.                           *)
(***************************************************************************)
EXTENDS FlowRun

\* The last stage of a batch has failed the run already, the flow will follow.
FailedAlone(e) == pc[e] = "taskFailEvent" /\ Alone(e)

ExecRight(e) ==
  CASE pc[e] = "idle" -> "none"
    [] pc[e] \in {"queued", "start"} -> "begin"
    [] pc[e] \in {"handler", "markFailed"} \/ FailedAlone(e) -> "fail"
    [] pc[e] \in InFlow \ {"start", "handler"} /\ ~FailedAlone(e) -> "verdict"
    [] OTHER -> "over"

RequestRight(r) ==
  CASE pc[r] = "idle" -> "none"
    [] pc[r] = "cancel" -> "cancel"
    [] pc[r] \in {"clear", "reset"} -> "resume"
    [] pc[r] = "dispatch" -> "dispatch"
    [] pc[r] = "markFailed" -> "fail"
    [] OTHER -> "over"

Right == [p \in Procs |-> IF p \in Execs THEN ExecRight(p) ELSE RequestRight(p)]

Lifecycle == INSTANCE RunLifecycle WITH status <- run.status, right <- Right

\* The status of a run changes only when a process uses a right that it
\* acquired from an allowed status or by being dispatched, once per right: no
\* execution that failed the run completes it, no refused, finished or lost
\* process writes it, and what cancel_run, resume_run and a failed dispatch
\* write is never left out by the ORM.
StatusLifecycle == Lifecycle!LifecycleSpec
=============================================================================
