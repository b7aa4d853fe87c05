\* Both peers in one MLAG domain: safety, and the session that comes up and
\* stays up once the faults cease.
CONSTANTS
  Active = a
  Standby = s
  Conn = {c1, c2, c3}
  None = none
  RgId <- SameRg
  MaxFaults = 6
  MaxWire = 3

SPECIFICATION FairSpec

INVARIANTS
  SocketBacksState
  NoMessageDropped
  HandshakeAgreement
PROPERTIES
  ImplementsSession
  EventuallyUp
