CONSTANTS
  Package = {a, b, e, m}
  Bundled = {e}
  MainUi = m
  Ui = {a, m}
  Releases <- MCReleases
  Selections <- MCSelections
  MaxMoves = 1
SPECIFICATION MCSpec
\* The request ends when the plan is shown.
CHECK_DEADLOCK FALSE
INVARIANTS
  TypeOK
  BreaksOnlyListed
  NothingUselessStays
  BreakageIsShown
