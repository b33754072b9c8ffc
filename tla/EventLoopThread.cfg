SPECIFICATION FairSpec
CONSTANTS
  Base = base
  Io = io
  Functors = {f1, f2}
INVARIANTS
  TypeOK
  StartedLoopIsLive
  NoThreadOutlivesObject
  DroppedOnlyByDtor
  PublishedIsLive
PROPERTIES
  StartReturns
  DtorReturnsOnceLooping
CHECK_DEADLOCK FALSE
