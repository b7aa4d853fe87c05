\* What holds when the port-channel leaves and joins the domain.
CONSTANTS
  Active = a
  Standby = s
  MaxLinkChanges = 2
  MaxVlanChanges = 0
  MaxUnbinds = 2
  MaxLeaves = 1
SPECIFICATION Spec
INVARIANTS
  DownPortIsBlocked
  UnboundNotIsolated
