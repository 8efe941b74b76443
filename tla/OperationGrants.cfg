CONSTANTS
  c1 = c1
  c2 = c2
  m1 = m1
  m2 = m2
  None = None
  Recovery = recovery
  Callbacks = {c1, c2}
  Messages = {m1, m2}
  Kinds = {"managed_turn"}
  Expires = 1
  MaxClock = 1
  Skew = 1
  MaxEvents = 2
  MaxAborts = 1
SPECIFICATION Spec
CHECK_DEADLOCK FALSE
SYMMETRY Symmetry
INVARIANTS TypeOK OneGrant OneLaunch CertifiedCardShown
PROPERTY FactsStay
