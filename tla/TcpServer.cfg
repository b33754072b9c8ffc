SPECIFICATION FairSpec
CONSTANTS
  MaxThreads = 2
  MaxConns = 2
  MaxFds = 2
INVARIANTS
  TypeOK
  NoUseAfterFree
  ReportedOnce
  Balanced
PROPERTIES
  ClosedIsErased
  WaitingIsAccepted
  ServerDtorReturns
CHECK_DEADLOCK FALSE
