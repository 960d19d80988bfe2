------------------------------ MODULE MCFlowRun ------------------------------
(***************************************************************************)
(* Instances of FlowRun for TLC: workflows of one to four steps.           *)
(***************************************************************************)
EXTENDS FlowRunLifecycle, TLC

CONSTANTS a, b, c, d

\* One step; two steps in a row; a parallel pair; and the shape of
\* technical_design_v1, a pair between two steps.
OneBatch == <<{a}>>
Chain == <<{a}, {b}>>
Fork == <<{b, c}>>
Split == <<{a}, {b, c}>>
ForkJoin == <<{a}, {b, c}, {d}>>

\* Executions are interchangeable, and so are requests of one kind.
Interchangeable == Permutations(Execs) \union Permutations(Cancels) \union Permutations(Resumes)
=============================================================================
