\* Safety and liveness of the synchronisation and of the exchange; no removals.
CONSTANTS
  Active = a
  Standby = s
  MaxLinkChanges = 3
  MaxVlanChanges = 1
  MaxUnbinds = 0
  MaxLeaves = 2

SPECIFICATION FairSpec

INVARIANTS
  NothingDropped
  StagesInStep
  PeerViewConverges
  IsolationConverges
  CleanWithoutSession
PROPERTIES
  SyncCompletes
  TrafficRestored
