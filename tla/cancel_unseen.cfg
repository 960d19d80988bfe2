SPECIFICATION FairSpec
CONSTANTS
  Execs = {e1}
  Creator = w
  Cancels = {k1}
  Resumes = {}
  a = a
  b = b
  c = c
  d = d
  Stages = {a, b}
  Batches <- Chain
  None = None
  Celery = TRUE
  Engines = {"mysql"}
  MaxRows = 2
  MaxCrashes = 0
  MaxKills = 0
PROPERTIES CancelBeforeLastBatchSticks
CHECK_DEADLOCK FALSE
