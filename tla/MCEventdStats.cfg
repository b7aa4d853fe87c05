\* The counters, the writer and the heartbeat interval.
CONSTANTS
  Published = published
  Missed = missed
  MaxCount = 2
  MaxQuiet = 1
  Options <- SomeOptions
  IntRange = 8192

SPECIFICATION Spec

INVARIANTS
  NoLostUpdate
  WrittenBeforeExit
PROPERTIES
  CountersReachDb
  HeartbeatGoesOn
