CONSTANTS
  e1 = e1
  e2 = e2
  e3 = e3
  w1 = w1
  w2 = w2
  Event <- ThreeEvents
  Worker <- TwoWorkers
  BatchSize = 2
  MaxFaults = 2
SPECIFICATION FairSpec
INVARIANTS
  NoDuplicates
  CausalOrder
PROPERTY ImplementsRelay
CHECK_DEADLOCK FALSE
