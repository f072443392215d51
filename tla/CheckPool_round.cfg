SPECIFICATION FairSpec
CONSTANTS
  N = 3
  k1 = k1
  k2 = k2
  main = main
  Worker = {k1, k2}
  Main = main
  RetryLimit = 2
INVARIANTS
  TypeOK
PROPERTIES
  ImplementsProbe
