SPECIFICATION Spec
CONSTANTS
  FileDataLen = 4
  MAX_FILE_DATA_LEN = 16
  IndexLen = 3
  BLOCK_LEN = 4
  FileName = {"a", "b", "c"}
  Kept <- Kept3
  CreateLengths = {1, 2}
  ResizeLengths = {1, 3}
  WriteOffsets = {0, 1}
  Buffers <- Bytes
  Renames <- AllRenames
  BlockHash <- FletcherHash
INVARIANTS
  CodesAgree
CHECK_DEADLOCK FALSE
