SPECIFICATION Spec
CONSTANTS
  f1 = f1
  f2 = f2
  f3 = f3
  File <- ThreeFiles
  NoFile = NoFile
  Request = {q1, q2}
  Run = {r1}
  Config <- ScanVersioned
  Infected <- ThreeFiles
  Mismatched <- NoFiles
  MaxInFlight = 1
  Unreliable = TRUE
  MaxRequests = 4
  MaxFaults = 1
CHECK_DEADLOCK FALSE
SYMMETRY FilesAndSlots
INVARIANTS
  InFlightOvershoot
PROPERTIES
  InfectedReadyOnlyByRestore
