CONSTANTS
  a = a
  b = b
  k1 = k1
  k2 = k2
  t1 = t1
  t2 = t2
  s1 = s1
  p1 = p1
  p2 = p2
  None = None
  Todos = {t1, t2}
  Agents = {a, b}
  Keys = {k1, k2}
  Scopes = {s1}
  MaxGeneration = 3
  Procs = {p1, p2}
  Requests <- ScopeRequests
  InitialHeads <- AnyHead
  TodoFacts <- ScopeFacts
  MaxCommands = 4
  MaxTodoWrites = 0
  MaxClock = 2
SPECIFICATION Spec
SYMMETRY Symmetry
CHECK_DEADLOCK FALSE
INVARIANT ModeQuiescence
PROPERTY ScopesExclusive
