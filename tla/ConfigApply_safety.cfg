SPECIFICATION Spec
CONSTANTS
  p1 = p1
  p2 = p2
  p3 = p3
  Proxy = {p1, p2, p3}
  Outside = {p3}
  FaultKinds = {"read", "write", "command", "cancel", "rollback", "engine", "crash"}
  MaxFaults = 3
  MaxOps = 2
SYMMETRY ProxySymmetry
INVARIANTS
  TypeOK
  SuccessServed
  RolledBack
  BoundWhileRunning
