SPECIFICATION FairSpec
CONSTANTS
  Threads = {o, a, b}
  Owner = o
  Functors = {f1, f2, f3}
INVARIANTS
  TypeOK
  NoLostWakeup
  WakeupProtocol
  ExactlyOnceInOrder
PROPERTIES
  ImplementsExecutor
  PushedIsRun
  EarlyIsRun
  QuitStopsLoop
CHECK_DEADLOCK FALSE
