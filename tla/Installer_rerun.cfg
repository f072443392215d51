SPECIFICATION Spec
CONSTANTS
  Radix = 2
  Width = 4
  MinPort = 2
  FirstPort = 3
  LastPort = 5
  ProbeLimit = 2
  MaxRuns = 3
  MaxOps = 2
  MaxEvents = 3
  MaxBatch = 2
  MaxScans = 1
  Setups <- MCSetups
INVARIANTS
  TypeOK
  AddOffsetAdds
  NothingLost
  NotShared
  PortsGivenOnce
  StaysRenderable
  ServedWhileUp
  TokenOpens
PROPERTIES
  ProbeHarmless
