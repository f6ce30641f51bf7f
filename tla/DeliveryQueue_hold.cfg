CONSTANTS
  m1 = m1
  m2 = m2
  m3 = m3
  Messages = {m1, m2, m3}
  Capacity = 2
  Ttl      = 1
SPECIFICATION FairSpec
INVARIANT HeldOnce
PROPERTY AcceptedEnds
CHECK_DEADLOCK FALSE
