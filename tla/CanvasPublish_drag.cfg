CONSTANTS
  v1 = v1
  v2 = v2
  big = big
  c1 = c1
  c2 = c2
  Clients   = {c1, c2}
  Nodes     = {n1}
  Values    = {v1, v2, big}
  Absent    = Absent
  Saved     <- MCSaved
  MaxCasts  = 2
  Oversized = {big}
  Draggers  = {c1, c2}
SPECIFICATION PubSpec
SYMMETRY Symmetric
INVARIANTS Agreement EditsReachTheOrder
PROPERTY NoEcho
CHECK_DEADLOCK FALSE
