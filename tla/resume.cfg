SPECIFICATION Spec
CONSTANTS
  Execs = {e1, e2}
  Creator = w
  Cancels = {k1}
  Resumes = {m1}
  a = a
  b = b
  c = c
  d = d
  Stages = {a, b}
  Batches <- Chain
  None = None
  Celery = TRUE
  Engines = {"sqlite", "mysql"}
  MaxRows = 4
  MaxCrashes = 0
  MaxKills = 1
SYMMETRY Interchangeable
INVARIANTS TypeOK TerminalHasFinishedAt LiveRunIsOwned StatusIsExplained
PROPERTY StatusLifecycle
CHECK_DEADLOCK FALSE
