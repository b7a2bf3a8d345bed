SPECIFICATION Spec
CONSTANTS
  Blocks = 4
  Entries = 4
  DataPageSize = 2
  HdrIxLen = 1
  IxLen = 2
  FdCount = 2
  CacheCount = 3
  LogPageSize = 3
  CheckRounds = 20
  Names = {1, 2, 3}
  Modes <- PowerModes
  Lengths = {1, 3}
  Volumes <- Volumes1
  Calls <- AllCalls
  Careful = TRUE
  MaxCalls = 2
  MaxLosses = 2
INVARIANTS Mended
PROPERTIES LostNotCorrupted LosesOneAtMost
CHECK_DEADLOCK FALSE
