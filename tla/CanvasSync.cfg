CONSTANTS
  Clients  = {c1, c2}
  Nodes    = {n1}
  Values   = {v1, v2}
  Absent   = Absent
  Saved    <- MCSaved
  MaxCasts = 2
SPECIFICATION FairSpec
INVARIANTS TypeOK Convergence SettledShowsOrder PendingMatchesInFlight
PROPERTIES NoRubberBand EventuallyAgree KeepsPromise
CHECK_DEADLOCK FALSE
