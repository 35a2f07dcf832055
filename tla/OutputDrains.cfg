SPECIFICATION FairSpec
CONSTANTS
  Capacity = 2
  MaxChunks = 4
  Process = {"child", "grandchild"}
INVARIANTS
  TypeOK
  OutputComplete
  TrailingOutputCounts
PROPERTIES
  OutputIsSeen
  RunEnds
CHECK_DEADLOCK FALSE
