CONSTANTS
  v1 = v1
  v2 = v2
  big = big
  c1 = c1
  c2 = c2
  Clients   = {c1, c2}
  Nodes     = {n1, n2}
  Values    = {v1, v2}
  Absent    = Absent
  Saved     <- MCSaved
  MaxCasts  = 2
  Oversized = {}
  Draggers  = {c1}
SPECIFICATION PubSpec

INVARIANT Agreement

CHECK_DEADLOCK FALSE
