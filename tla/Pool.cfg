CONSTANTS
  Handle = {h1, h2, h3}
  Task = {t1, t2}
  NoTask = NoTask
  Cap = 1
SPECIFICATION Spec
INVARIANTS Ownership ShutdownComplete HangsAreKnown
PROPERTIES ImplementsTaskRunner
CHECK_DEADLOCK FALSE
