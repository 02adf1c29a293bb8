CONSTANTS
  app = app
  other = other
  lib = lib
  home = home
  away = away
  Package <- MCPackage
  App <- MCApp
  Repo <- MCRepo
  Catalogs <- MCCatalogs
  MaxClicks = 4
  MaxRefreshes = 1
SPECIFICATION Spec
\* The bounds are used up.
CHECK_DEADLOCK FALSE
INVARIANTS
  TypeOK
  ShowsWhatWasAsked
PROPERTIES
  EndIsShown
  SuccessIsComplete
  ResolutionEnds
