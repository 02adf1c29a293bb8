CONSTANTS
  Package = {a, b, e, m}
  Bundled = {e}
  MainUi = m
  Ui = {a, m}
  Releases <- MCReleases
  Selections <- MCSelections
  MaxMoves = 1
SPECIFICATION MCSpec
CHECK_DEADLOCK FALSE
INVARIANT OrphanWantedByNobodyElse
