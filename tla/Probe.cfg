SPECIFICATION FairSpec
CONSTANTS
  Request = {"note", "list"}
  Note = {"note"}
  Session = {s1, s2}
  None = None
CHECK_DEADLOCK FALSE
INVARIANTS NoBlockedReader NothingAfterDelete SuccessIsWhole
PROPERTIES SessionCarried ProbeEnds ProbeKeepsPromise
