SPECIFICATION Spec
CONSTANTS
  Execs = {e1}
  Creator = w
  Cancels = {k1}
  Resumes = {}
  a = a
  b = b
  c = c
  d = d
  Stages = {a, b}
  Batches <- Chain
  None = None
  Celery = FALSE
  Engines = {"sqlite"}
  MaxRows = 2
  MaxCrashes = 0
  MaxKills = 0
PROPERTIES CancelIsFinal
CHECK_DEADLOCK FALSE
