SPECIFICATION FairSpec
CONSTANTS
  Execs = {e1, e2}
  Creator = w
  Cancels = {k1}
  Resumes = {}
  a = a
  b = b
  c = c
  d = d
  Stages = {a, b, c, d}
  Batches <- ForkJoin
  None = None
  Celery = TRUE
  Engines = {"sqlite"}
  MaxRows = 8
  MaxCrashes = 1
  MaxKills = 0
INVARIANTS LiveRunIsOwned BatchBarrier OutputsMatchArtifacts CompletedHasOutputs FailedLeavesNoOpenTask StatusIsExplained
PROPERTIES LiveRunSettles CancelBeforeLastBatchSticks
CHECK_DEADLOCK FALSE
