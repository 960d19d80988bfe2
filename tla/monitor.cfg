SPECIFICATION FairSpec
CONSTANTS
  Live = {"RUNNING"}
  Terminal = {"CANCELLED"}
  Resumable = {"CANCELLED"}
  Engines = {"sqlite"}
  MaxWrites = 2
  MaxWire = 1
  MaxDrops = 0
  MaxInFlight = 2
  MaxClicks = 1
INVARIANTS TypeOK NoEventTwice
PROPERTIES ScreenCatchesUp
CHECK_DEADLOCK FALSE
