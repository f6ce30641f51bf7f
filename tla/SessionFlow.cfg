CONSTANTS
  Sockets   = {s1, s2}
  Sizes     = {1, 2}
  Spawned   = 2
  High      = 1
  Low       = 0
  MaxChunks = 3
  MaxAsks   = 1
  MaxJobs   = 3
SPECIFICATION Spec
SYMMETRY Symmetric
INVARIANTS  PausedWhileHeld TicketAwaitsDrain  GoneHoldsNothing SizeFitsViewers
CHECK_DEADLOCK FALSE
