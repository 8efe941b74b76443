CONSTANTS
  c1 = c1
  c2 = c2
  m1 = m1
  m2 = m2
  None = None
  Recovery = recovery
  Callbacks = {c1}
  Messages = {m1, m2}
  Kinds = {"simulation", "managed_turn"}
  Expires = 1
  MaxClock = 2
  Skew = 1
  MaxEvents = 1
  MaxAborts = 1
SPECIFICATION FairSpec
CHECK_DEADLOCK FALSE
INVARIANTS ConfirmedOnItsCard ExecutedAgainOnlyIfLost
PROPERTIES ClaimsResolve ResultsReturn
