SPECIFICATION FairSpec
CONSTANTS
  c1 = c1
  c2 = c2
  k1 = k1
  N = 1
  Conn = {c1, c2}
  MaxConns = 1
  MaxGuests = 1
  Checking = {k1}
  Attempts = 2
  Fallback = TRUE
INVARIANTS
  TypeOK
  SlotsAccounted
  LiveMeansServed
  FailureExplained
PROPERTIES
  CheckEnds
  SlotReturns
  ChecksLeaveNoConnection
  EngineStops
