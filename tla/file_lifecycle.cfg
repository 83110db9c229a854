SPECIFICATION Spec
CONSTANTS
  f1 = f1
  f2 = f2
  f3 = f3
  File <- OneFile
  NoFile = NoFile
  Request = {q1, q2}
  Run = {r1, r2}
  Config <- ScanToggled
  Infected <- OneFile
  Mismatched <- OneFile
  MaxInFlight = 0
  Unreliable = FALSE
  MaxRequests = 4
  MaxFaults = 1
SYMMETRY Slots
INVARIANTS
  NoLostWork
  VersionNumbersGapFree
PROPERTIES
  StatusAnnounced
  NoResurrection
CHECK_DEADLOCK FALSE
