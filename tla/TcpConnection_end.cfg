SPECIFICATION Spec
CONSTANTS
  MaxBytes = 2
  MaxCalls = 2
  MaxNotified = 3
  high_water_mark_ = 2
INVARIANTS
  EndIsReported
CHECK_DEADLOCK FALSE
