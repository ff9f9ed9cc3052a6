SPECIFICATION Spec
CONSTANTS
  d1 = d1
  d2 = d2
  None = None
  Box = {b1, b2}
  Run <- TwoDeploys
  Undo = {u}
  Again = {o}
  Mode <- Switch
  NamesKept = FALSE
  StatusFails = FALSE
  Overlap = FALSE
CHECK_DEADLOCK FALSE
INVARIANTS TypeOK NoForeverOrphan PATOutOfReach
