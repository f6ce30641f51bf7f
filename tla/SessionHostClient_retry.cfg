CONSTANTS
  s1 = s1
  s2 = s2
  Subs = {s1}
  Modes = {"plain"}
  Attempts = 2
  MaxAttaches = 1
  MaxKills = 2
  MaxLosses = 2
  MaxGens = 1
SPECIFICATION Spec
PROPERTY RetryKeepsTarget
CHECK_DEADLOCK FALSE
