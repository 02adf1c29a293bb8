CONSTANTS
  Instance = {zoneA, zoneB}
  MaxWidgets = 2
  MaxCalls = 7
  MaxLoads = 3
  MaxEvents = 2
SYMMETRY Symmetric
SPECIFICATION Spec
\* The bounds are used up.
CHECK_DEADLOCK FALSE
INVARIANTS
  TypeOK
  PromisedIsRelayed
PROPERTIES
  OnlyWantedIsRelayed
