SPECIFICATION Spec
CONSTANTS
  kInitialSize = 2
  ExtraSize = 3
  MaxBytes = 10
INVARIANTS
  TypeOK
  IndicesInOrder
  LengthExact
  IntactUntilRegrown
CHECK_DEADLOCK FALSE
