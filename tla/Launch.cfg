SPECIFICATION Spec
CONSTANTS
  d1 = d1
  d2 = d2
  Deploy <- TwoDeploys
  Start = {o}
  LaunchId <- IdsOfTheirOwn
  TailLines = 2
  None = None
SYMMETRY Alike
CHECK_DEADLOCK FALSE
INVARIANTS OneAgent
PROPERTIES ReadinessIsFresh
