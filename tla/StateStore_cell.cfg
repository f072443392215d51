SPECIFICATION Spec
CONSTANTS
  w1 = w1
  w2 = w2
  w3 = w3
  w4 = w4
  p = p
  q = q
  Writer = {w1, w2, w3, w4}
  Process = {p, q}
  MaxCrashes = 2
  MaxFailures = 2
  MaxCorruptions = 2
SYMMETRY Symmetry
INVARIANTS
  TypeOK
  NoLostUpdate
  BackupIsPrevious
  RecoversOnce
PROPERTIES
  ImplementsDurableCell
