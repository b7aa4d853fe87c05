\* The peers are configured with different MLAG domain ids.
CONSTANTS
  Active = a
  Standby = s
  Conn = {c1, c2, c3}
  None = none
  RgId <- OtherRg
  MaxFaults = 4
  MaxWire = 3
SPECIFICATION Spec
SYMMETRY ConnSymmetry
INVARIANTS
  MismatchNeverOperational
