SPECIFICATION Spec
CONSTANTS
  FileDataLen = 5
  MAX_FILE_DATA_LEN = 16
  N = 3
  Original <- AllDifferent
  Ink = 99
  NewLengths = {1, 2, 3, 4}
INVARIANTS
  OthersSurvive
  RoomBehind
  RehashCovers
  GrownComplete
  RepackAgrees
CHECK_DEADLOCK FALSE
