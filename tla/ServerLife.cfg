CONSTANTS
  Client = {c1, c2}
  Worker = {w1, w2}
  NoWorker = NoWorker
  Conns = 3
  MaxStatements = 2
  MaxCalls = 3
SPECIFICATION Spec
INVARIANTS CallsAreSafe EndIsClean
PROPERTIES ImplementsStatementLog DatabaseStops
CHECK_DEADLOCK FALSE
