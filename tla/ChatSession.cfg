CONSTANTS
  None = None
  Queue = Queue
  t1 = t1
  t2 = t2
  Turns = {t1, t2}
  Submits = {t1}
  Stops = {t1}
  MaxPending = 2
  MaxRetries = 1
  MaxResumes = 1
  MaxFaults = 1
  MaxUpsets = 2
SPECIFICATION Spec
INVARIANTS RunsUnderItsClaim StopIsFinal OneOutcome NoTurnIsForgotten
PROPERTIES RunsAreProved OutcomeStays ClosedIsQuiet
CHECK_DEADLOCK FALSE
