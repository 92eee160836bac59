SPECIFICATION Spec
CONSTANTS
  FileDataLen = 3
  MAX_FILE_DATA_LEN = 16
  IndexLen = 3
  BLOCK_LEN = 3
  FileName = {"a", "a2", "b", "c"}
  Kept <- KeptAlias
  CreateLengths = {0, 1}
  ResizeLengths = {0, 2}
  WriteOffsets = {0, 1}
  Buffers <- TwoNulls
  Renames <- AdjacentRenames
  BlockHash <- FletcherHash
INVARIANTS
  TypeOK
  BackPointers
  EntriesAgree
  RoomForEntry
  SpaceAccounted
  CodesAgree
PROPERTIES
  ImplementsSizes
CHECK_DEADLOCK FALSE
