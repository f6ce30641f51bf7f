CONSTANTS
  Triggers  = {k1, k2}
  Changed   = {}
  Intervals = {i1}
  OneShots  = {}
  Period    <- MCPeriod
  Instant   <- MCInstant
  Sweeps    = {s1, s2}
  MaxWrites = 0
  Never     = Never
  None      = None
  Unknown   = Unknown
SPECIFICATION Spec
INVARIANT OneDeliveryAtATime
CHECK_DEADLOCK FALSE
