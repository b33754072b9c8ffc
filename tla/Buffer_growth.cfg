SPECIFICATION Spec
CONSTANTS
  kInitialSize = 2
  ExtraSize = 3
  MaxBytes = 10
INVARIANTS
  PutKeepsContent
CHECK_DEADLOCK FALSE
