SPECIFICATION Spec
CONSTANTS
  Base = base
  Io = io
  Functors = {f1, f2}
INVARIANTS
  QuitFindsLoop
CHECK_DEADLOCK FALSE
