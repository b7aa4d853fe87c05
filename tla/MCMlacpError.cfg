\* The error state is reached after a removal.
CONSTANTS
  Active = a
  Standby = s
  MaxLinkChanges = 0
  MaxVlanChanges = 0
  MaxUnbinds = 1
  MaxLeaves = 0
SPECIFICATION Spec
INVARIANT
  NoError
