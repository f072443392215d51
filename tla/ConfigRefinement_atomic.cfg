SPECIFICATION FairSpec
CONSTANTS
  p1 = p1
  p2 = p2
  NoConfig = NoConfig
  Proxy = {p1, p2}
  Outside = {}
  FaultKinds = {"read", "write", "command", "cancel", "engine", "crash", "reboot"}
  MaxFaults = 2
  MaxOps = 2
PROPERTIES
  ImplementsAtomicApply
  RequestEnds
  EngineReturns
