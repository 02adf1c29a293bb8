CONSTANTS
  app = app
  tool = tool
  lib = lib
  Package <- MCPackage
  Ui = {app, tool}
  Embedded = {app}
  App = {app, tool}
  Rows <- MCRows
  Versions <- MCVersions
  MaxSessions = 2
  MaxScans = 1
SPECIFICATION MCSpec
\* The bounds are used up.
CHECK_DEADLOCK FALSE
INVARIANTS
  TypeOK
  SessionsAreRegistered
PROPERTIES
  ReportedIsOnDisk
  EntriesDrain
  CachesConverge
