SPECIFICATION Spec
CONSTANTS
  FileDataLen = 4
  MAX_FILE_DATA_LEN = 16
  IndexLen = 3
  BLOCK_LEN = 4
  FileName = {"a", "b", "c"}
  Kept <- Kept3
  CreateLengths = {0, 1}
  ResizeLengths = {1, 3}
  WriteOffsets = {0, 1}
  Buffers <- Bytes
  Renames <- AdjacentRenames
  BlockHash <- FletcherHash
INVARIANTS
  Disjoint
CHECK_DEADLOCK FALSE
