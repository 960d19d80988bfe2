SPECIFICATION FairSpec
CONSTANTS
  e1 = e1
  e2 = e2
  Execs = {e1, e2}
  First = e1
  Modes = {"template", "crewai"}
  Faulty = {"template"}
  MaxRepairAttempts = 2
  MaxResumes = 1
  MaxCrashes = 1
INVARIANTS TypeOK DeliveredAsRecorded RepairsFollowFailures FailuresDeliveredLast FallbackIsAnnounced PackageIsWhole
PROPERTY Settles
CHECK_DEADLOCK FALSE
