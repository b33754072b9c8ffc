SPECIFICATION TimeoutSpec
CONSTANTS
  Base = base
  Io = io
  Functors = {f1, f2}
PROPERTIES
  DtorReturns
CHECK_DEADLOCK FALSE
