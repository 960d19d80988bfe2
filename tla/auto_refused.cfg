SPECIFICATION Spec
CONSTANTS
  r1 = r1
  r2 = r2
  r3 = r3
  Edits = {}
  Patches <- WorkflowPatches
  Shipped <- ShippedSteps
  OtherLast = 1
  Engines = {"sqlite"}
  Agents = {"p", "q"}
  Updates = {r1}
  Payloads <- Bodies
  Stored <- StoredRows
  Kinds = {"technical", "delivery"}
  Settings = {"auto", "crewai", "template"}
  Supported = {"a", "b", "c"}
INVARIANT AutoFallsBack
CHECK_DEADLOCK FALSE
