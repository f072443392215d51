SPECIFICATION Spec
CONSTANTS
  p1 = p1
  p2 = p2
  Proxy = {p1, p2}
  Outside = {}
  FaultKinds = {"cancel"}
  MaxFaults = 1
  MaxOps = 1
INVARIANTS
  RestoredMeansServed
