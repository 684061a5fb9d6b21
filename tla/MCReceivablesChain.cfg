SPECIFICATION Spec
CONSTANTS
  a = a
  b = b
  full = full
  long = long
  weak = weak
  accept = accept
  reject = reject
  None = None
  Sessions = {s1, s2}
  Snapshots <- MCSnapshots
  Overdue <- MCOverdue
  Horizons = {30, 60}
  Reviews <- MCReviews
  HorizonOf <- MCHorizonOf
  Capture <- MCCapture
  Requests = {"q1"}
  Verdicts <- MCVerdicts
  MaxVersions = 3
  MaxRevision = 3
CONSTRAINT Explored
SYMMETRY SessionSymmetry
INVARIANTS
  RevisionsAdvance
  RequestsDecideOnce
  TotalsAreOwed
PROPERTIES
  StaleStaysStale
