SPECIFICATION FairSpec
CONSTANTS
  d1 = d1
  d2 = d2
  None = None
  Box = {b1, b2}
  Run <- TwoDeploys
  Undo = {u}
  Again = {}
  Mode <- Switch
  NamesKept = TRUE
  StatusFails = TRUE
  Overlap = FALSE
CHECK_DEADLOCK FALSE
INVARIANTS OneSandbox PATSurvives
PROPERTIES InvocationEnds
