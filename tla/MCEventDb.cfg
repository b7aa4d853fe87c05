\* Restarts of eventd after any write, alarms raised twice, profiles that change
\* the severity, disable the type or do not have it.
CONSTANTS
  Type = {"t1"}
  Source = {"x"}
  Severity = {"major", "minor"}
  Profiles <- EveryProfile
  Disabled = disabled
  Absent = absent
  Records = {1, 2}
  MaxSeq = 3
  MaxRestarts = 1

SPECIFICATION Spec

INVARIANTS
  AlarmStatsMatch
  EventStatsMatch
  HistoryBound
  LookupSound
  IdsPast
