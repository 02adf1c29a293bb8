CONSTANTS
  app = app
  core = core
  Package <- MCPackage
  CoreModule = {core}
  Dependents <- MCDependents
  MaxRequests = 3
  MaxCrashes = 1
  MaxLaunches = 1
  PatientClients = TRUE
SPECIFICATION Spec
\* The bounds are used up.
CHECK_DEADLOCK FALSE
INVARIANTS
  TypeOK
  SlotHasAnOwner
  AskedIsLive
  PendingIsAnswerable
PROPERTIES
  PendingNotOverwritten
  RemovedWasTornDown
