SPECIFICATION ConsumersSpec
CONSTANTS
  f1 = f1
  m1 = m1
  h1 = h1
  Slot = {s1, s2}
  File <- OneFile
  NoFile = NoFile
  Request = {q1}
  Run = {r1, r2}
  Config <- ScanOnly
  Infected <- NoFiles
  Mismatched <- NoFiles
  MaxInFlight = 0
  Unreliable = FALSE
  MaxRequests = 3
  MaxFaults = 2
PROPERTIES
  ProcessingEnds
  EveryMessageAcked
CHECK_DEADLOCK FALSE
