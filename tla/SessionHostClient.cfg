CONSTANTS
  s1 = s1
  s2 = s2
  Subs = {s1, s2}
  Modes = {"plain", "reserve"}
  Attempts = 2
  MaxAttaches = 2
  MaxKills = 1
  MaxLosses = 1
  MaxGens = 2
SPECIFICATION Spec
SYMMETRY Symmetric
INVARIANTS TypeOK  NoGhost OneAnswerEach DeadStaysDead
PROPERTY KillsOnlyTheMeant
CHECK_DEADLOCK FALSE
