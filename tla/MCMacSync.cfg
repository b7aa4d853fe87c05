SPECIFICATION Spec
CONSTANTS
  Active = a
  Standby = b
  PeerItfs = {"link", ""}
  Budgets <- MCBudgets
INVARIANTS
  Forwarding
  RemoteIsHeld
CHECK_DEADLOCK FALSE
