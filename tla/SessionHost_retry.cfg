CONSTANTS
  o1 = o1
  o2 = o2
  r1 = r1
  r2 = r2
  r3 = r3
  Ops      = {o1}
  KillReqs = {r1, r2}
  OpOf     <- MCOpOf
  Attaches = {a1, a2}
  None     = None
  MaxGens  = 2
  Window   = 1
SPECIFICATION FairSpec
INVARIANTS AttachedAsAsked ExitIsTold LeasedNameIsFree EmptyHostLeaves
PROPERTIES LeaseKeepsHost KillsAreAnswered AttachesAreAnswered
CHECK_DEADLOCK FALSE
