SPECIFICATION FairSpec
CONSTANTS
  r1 = r1
  r2 = r2
  NoReq = NoReq
  Req = {r1, r2}
  MaxPort = 1
  InitPorts = 1
  MaxBatch = 1
  RetryLimit = 1
  MaxOps = 2
  MaxScans = 3
  MaxFaults = 0
PROPERTIES
  ScanEnds
  RequestEnds
