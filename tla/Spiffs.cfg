SPECIFICATION Spec
CONSTANTS
  Blocks = 4
  Entries = 4
  DataPageSize = 2
  HdrIxLen = 1
  IxLen = 2
  FdCount = 2
  CacheCount = 3
  LogPageSize = 3
  CheckRounds = 20
  Names = {1, 2}
  Modes <- MCModes
  Lengths = {1, 3}
  Volumes <- Volumes0
  Calls <- AllCalls
  Careful = TRUE
  MaxCalls = 4
  MaxLosses = 0
INVARIANTS Sound FilesKept DescriptorsRead CountersAgree
CHECK_DEADLOCK FALSE
