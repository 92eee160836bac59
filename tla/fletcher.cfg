SPECIFICATION Spec
CONSTANTS
  ByteBase = 2
  WordBytes = 3
  MaxLength = 10
INVARIANTS
  ClosedForm
  EveryByteCounts
  Notices
CHECK_DEADLOCK FALSE
