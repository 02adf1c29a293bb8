CONSTANTS
  base = base
  mid = mid
  view = view
  page = page
  Core = {base, mid}
  Ui = {view, page}
  Legacy = {page}
  Hosted = {view}
  Needs <- MCNeeds
  Scans <- MCScans
  MaxJobs = 2
  MaxClicks = 6
  PatientUser = FALSE
SPECIFICATION Spec
\* The bounds are used up.
CHECK_DEADLOCK FALSE
INVARIANT
  NothingStrandedSilently
