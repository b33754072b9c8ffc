SPECIFICATION Spec
CONSTANTS
  Threads = {o, a, b}
  Owner = o
  Functors = {f1, f2, f3}
INVARIANT
  FatalMeansAnotherLoop
CHECK_DEADLOCK FALSE
