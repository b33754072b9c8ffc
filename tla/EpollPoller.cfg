SPECIFICATION Spec
CONSTANTS
  NULL = NULL
  Channels = {w, c1, c2}
  Fds = {d1, d2}
  ReadOnly = {w}
  kDefaultChannelListSize = 1
SYMMETRY Symmetry
INVARIANTS
  TypeOK
  InterestMirrorsChannels
  
  CtlNeverFatal
  RoundIsLive
  ArrayBounded
CHECK_DEADLOCK FALSE
