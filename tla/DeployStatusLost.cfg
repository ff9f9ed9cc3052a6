SPECIFICATION Spec
CONSTANTS
  d1 = d1
  d2 = d2
  None = None
  Box = {b1, b2}
  Run <- TwoDeploys
  Undo = {}
  Again = {}
  Mode <- EnvMode
  NamesKept = FALSE
  StatusFails = TRUE
  Overlap = FALSE
CHECK_DEADLOCK FALSE
INVARIANTS NoForeverOrphan
