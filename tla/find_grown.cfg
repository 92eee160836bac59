SPECIFICATION Spec
CONSTANTS
  FileDataLen = 4
  MAX_FILE_DATA_LEN = 16
  IndexLen = 2
  BLOCK_LEN = 2
  FileName = {"a", "b"}
  Kept <- Kept2
  CreateLengths = {1, 2}
  ResizeLengths = {3}
  WriteOffsets = {0, 1}
  Buffers <- Bytes
  Renames <- NoRenames
  BlockHash <- FletcherHash
PROPERTIES
  GrownFileReadable
