SPECIFICATION Spec
CONSTANTS
  Thread = {t1}
  Names = {1}
  IndexLen = 1
  FileDataLen = 4
  Word = 16
  Offsets = {0, 1}
  Lengths = {1, 2}
  TruncateLengths = {2}
  Renames <- NoRenames
INVARIANTS
  WriteInRequest
