SPECIFICATION FairSpec
CONSTANTS
  Execs = {e1, e2}
  Creator = w
  Cancels = {k1}
  Resumes = {m1}
  a = a
  b = b
  c = c
  d = d
  Stages = {a}
  Batches <- OneBatch
  None = None
  Celery = TRUE
  Engines = {"sqlite"}
  MaxRows = 2
  MaxCrashes = 0
  MaxKills = 1
PROPERTIES LiveRunSettles ResumedRunSettles
CHECK_DEADLOCK FALSE
