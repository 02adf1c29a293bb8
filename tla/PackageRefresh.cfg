CONSTANTS
  app = app
  lib = lib
  base = base
  main = main
  extra = extra
  Package = {app, lib, base}
  User = {app, lib}
  Ui = {app, lib}
  Renamed = {lib}
  Repo = {main, extra}
  Maintained = main
  Builds <- MCBuilds
  Needs <- MCNeeds
  Offers <- MCOffers
  Retries = 1
  MaxAnswers = 1
  MaxLag = 1
  MaxMoves = 2
SPECIFICATION MCSpec
\* The bounds are used up.
CHECK_DEADLOCK FALSE
INVARIANTS
  TypeOK
  StatusIsFresh
  RowsCatchUp
  RepositoriesCatchUp
PROPERTIES
  LoadingEnds
  SetupCompletes
