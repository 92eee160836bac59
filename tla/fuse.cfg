SPECIFICATION Spec
CONSTANTS
  Thread = {t1, t2}
  Names = {1, 2, 3}
  IndexLen = 2
  FileDataLen = 2
  Word = 16
  Offsets = {0, 1}
  Lengths = {1, 2}
  TruncateLengths = {0, 2}
  Renames <- AdjacentRenames
SYMMETRY Threads
INVARIANTS
  RefusedOnlyByInterference
  AppendInRequest
  UnfilledOnlyByInterference
  ListingRight
PROPERTIES
  CallbacksImplementSizes
