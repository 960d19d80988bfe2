SPECIFICATION Spec
CONSTANTS
  r1 = r1
  r2 = r2
  r3 = r3
  Edits = {r1, r2, r3}
  Patches <- WorkflowPatches
  Shipped <- ShippedSteps
  OtherLast = 1
  Engines = {"sqlite", "mysql"}
  Agents = {"p", "q"}
  Updates = {r1, r2, r3}
  Payloads <- Bodies
  Stored <- StoredRows
  Kinds = {"technical", "delivery"}
  Settings = {"auto", "crewai", "template"}
  Supported = {"a", "b", "c"}
SYMMETRY Interchangeable
INVARIANTS TypeOK StepsOfOneRequest ReadyIffRuntime RoleSettingsAreUsed KeyAsAsked BatchesPartition
CHECK_DEADLOCK FALSE
