CONSTANTS
  p1 = p1
  p2 = p2
  o1 = o1
  o2 = o2
  b1 = b1
  b2 = b2
  None = None
  Procs = {p1, p2}
  ExistingOnly = {}
  Operations = {o1, o2}
  Bodies = {b1, b2}
  Commits <- Transactions
  Pages <- OnePage
  MaxIdentities = 2
  Faults = {"crash", "io_error", "power_loss"}
SPECIFICATION Spec
CHECK_DEADLOCK FALSE
INVARIANTS TypeOK StableLineage DurableReadback DurableIdentity
PROPERTY ImplementsStore
