SPECIFICATION Spec
CONSTANTS
  d1 = d1
  d2 = d2
  None = None
  Box = {b1, b2}
  Run <- TwoDeploys
  Undo = {}
  Again = {o}
  Mode <- KeepOne
  NamesKept = FALSE
  StatusFails = FALSE
  Overlap = TRUE
CHECK_DEADLOCK FALSE
SYMMETRY Alike
INVARIANTS FailedRunLeavesNothing
