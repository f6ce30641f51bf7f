CONSTANTS
  m1 = m1
  m2 = m2
  m3 = m3
  Messages = {m1, m2}
  Capacity = 2
  Ttl      = 1
SPECIFICATION Spec
INVARIANT NothingLost
CHECK_DEADLOCK FALSE
