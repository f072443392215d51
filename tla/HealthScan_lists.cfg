SPECIFICATION Spec
CONSTANTS
  r1 = r1
  r2 = r2
  NoReq = NoReq
  Req = {r1, r2}
  MaxPort = 3
  InitPorts = 2
  MaxBatch = 1
  RetryLimit = 1
  MaxOps = 2
  MaxScans = 3
  MaxFaults = 0
INVARIANTS
  ListsFollowState
