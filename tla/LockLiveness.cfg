CONSTANTS
  p1 = p1
  p2 = p2
  p3 = p3
  None = None
  InvalidToken = InvalidToken
  Procs = {p1, p2, p3}
  MaxCalls = 1
  MaxInodes = 3
  Faults = {"crash", "crash_in_claim", "write_error"}
SPECIFICATION FairSpec
CHECK_DEADLOCK FALSE
INVARIANT LeavesNothingBehind
PROPERTY CallsReturn
