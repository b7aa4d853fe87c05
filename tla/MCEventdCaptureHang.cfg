\* Requests in any order.
CONSTANTS
  Rid = {"r1"}
  MaxSeq = 1
  CacheMax = 1
  ReadSetSize = 3
  MaxPublishers = 3
  AnyOrder = TRUE
  SlowThread = FALSE
  Faults = FALSE
  AllocFails = FALSE

SPECIFICATION Spec

PROPERTIES
  Answered
CHECK_DEADLOCK FALSE
