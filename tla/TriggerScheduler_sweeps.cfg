CONSTANTS
  Triggers  = {k1, k2}
  Changed   = {k1}
  Intervals = {i1}
  OneShots  = {o1}
  Period    <- MCPeriod
  Instant   <- MCInstant
  Sweeps    = {s1, s2}
  MaxWrites = 2
  Never     = Never
  None      = None
  Unknown   = Unknown
SPECIFICATION FairSpec
INVARIANTS TypeOK OneDeliveryUnlessOvertaken OneShotsOnTime ConsentSurvives
PROPERTY KeepsFiring
CHECK_DEADLOCK FALSE
