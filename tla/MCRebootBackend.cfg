\* Three reboots, asked for, failing, stopped.
CONSTANTS
  Delays = {0, 5}
  MaxCount = 3

SPECIFICATION Spec

INVARIANTS
  NeverAborted
  FailureReported
  IdleMeansInactive
PROPERTIES
  NoWarmAfterFailure
  RebootEnds
  StopEnds
