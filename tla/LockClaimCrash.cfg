CONSTANTS
  p1 = p1
  p2 = p2
  p3 = p3
  None = None
  InvalidToken = InvalidToken
  Procs = {p1, p2, p3}
  MaxCalls = 1
  MaxInodes = 3
  Faults = {"crash_in_claim"}
SPECIFICATION Spec
SYMMETRY Symmetry
CHECK_DEADLOCK FALSE
INVARIANT HeldLockStands
