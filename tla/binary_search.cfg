SPECIFICATION Spec
CONSTANT MAX_NUM_FILES = 6
INVARIANTS
  InBounds
  InsertsInPlace
  FindsTheKey
  NeverMisses
  OperatorAgrees
PROPERTY Terminates
CHECK_DEADLOCK FALSE
