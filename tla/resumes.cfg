SPECIFICATION Spec
CONSTANTS
  Execs = {e1, e2, e3}
  Creator = w
  Cancels = {}
  Resumes = {m1, m2}
  a = a
  b = b
  c = c
  d = d
  Stages = {a}
  Batches <- OneBatch
  None = None
  Celery = FALSE
  Engines = {"sqlite"}
  MaxRows = 3
  MaxCrashes = 0
  MaxKills = 1
SYMMETRY Interchangeable
INVARIANTS LiveRunIsOwned StatusIsExplained
CHECK_DEADLOCK FALSE
