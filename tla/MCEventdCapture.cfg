\* A client that keeps to the protocol; the capture thread may fail, and run
\* out of memory.
CONSTANTS
  Rid = {"r1", "r2"}
  MaxSeq = 3
  CacheMax = 2
  ReadSetSize = 3
  MaxPublishers = 3
  AnyOrder = FALSE
  SlowThread = FALSE
  Faults = TRUE
  AllocFails = TRUE

SPECIFICATION Spec

INVARIANTS
  CacheContiguous
  LatestKept
PROPERTIES
  UntouchedWhileCapturing
  Answered
