SPECIFICATION FairSpec
CONSTANTS
  MaxBytes = 2
  MaxCalls = 2
  MaxNotified = 3
  high_water_mark_ = 2
INVARIANTS
  TypeOK
  BytesInOrder
  WriteInterest
  NotifiedOnce
  WatchedIsAlive
PROPERTIES
  ImplementsStream
  BufferedIsWritten
  ClosedIsFreed
CHECK_DEADLOCK FALSE
