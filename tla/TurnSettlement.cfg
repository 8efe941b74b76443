SPECIFICATION FairSpec
CONSTANTS
  Processes = {p1, p2}
  Turns = {t1}
  PostHook = TRUE
  Incomplete = {"contract_error", "host_action_required"}
  Edits = TRUE
  RetryLimit = 2
  MaxFaults = 3
  None = None
INVARIANTS NoBlindRelaunch SettledOnce CommittedIsTrue ProgressAdmitted
PROPERTY TurnsEnd
CHECK_DEADLOCK FALSE
