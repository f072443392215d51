SPECIFICATION Spec
CONSTANTS
  w1 = w1
  w2 = w2
  w3 = w3
  p = p
  Writer = {w1, w2, w3}
  Process = {p}
  MaxCrashes = 1
  MaxFailures = 0
  MaxCorruptions = 1
INVARIANTS
  BackupRecovers
