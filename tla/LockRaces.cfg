CONSTANTS
  p1 = p1
  p2 = p2
  p3 = p3
  None = None
  InvalidToken = InvalidToken
  Procs = {p1, p2, p3}
  MaxCalls = 2
  MaxInodes = 3
  Faults = {"crash", "write_error", "claim_error"}
SPECIFICATION Spec
SYMMETRY Symmetry
CHECK_DEADLOCK FALSE
INVARIANTS TypeOK HeldLockStands
