CONSTANTS
  app = app
  core = core
  Package <- MCPackage
  CoreModule = {core}
  Dependents <- MCDependents
  MaxRequests = 2
  MaxCrashes = 1
  MaxLaunches = 0
  PatientClients = TRUE
SPECIFICATION Spec
\* The bounds are used up.
CHECK_DEADLOCK FALSE
PROPERTIES
  RequestIsAnswered
  ImplementsConsent
