SPECIFICATION StreamSpec
CONSTANTS
  Live = {"QUEUED", "RUNNING"}
  Terminal = {"CANCELLED", "COMPLETED"}
  Engines = {"sqlite", "mysql"}
  MaxWrites = 4
  MaxWire = 2
  MaxDrops = 1
INVARIANTS StreamTypeOK StreamEndsComplete MissedHasCause
CHECK_DEADLOCK FALSE
