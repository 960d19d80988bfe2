SPECIFICATION Spec
CONSTANTS
  Execs = {e1, e2}
  Creator = w
  Cancels = {k1}
  Resumes = {m1}
  a = a
  b = b
  c = c
  d = d
  Stages = {a, b}
  Batches <- Chain
  None = None
  Celery = FALSE
  Engines = {"sqlite"}
  MaxRows = 4
  MaxCrashes = 0
  MaxKills = 0
INVARIANTS OneTaskPerStage
CHECK_DEADLOCK FALSE
