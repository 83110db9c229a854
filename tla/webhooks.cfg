CONSTANTS
  m1 = m1
  h1 = h1
  h2 = h2
  r1 = r1
  r2 = r2
  Type <- OneType
  TypeOf <- Ready
  Message <- OneMessage
  Hook <- TwoHooks
  Handler <- TwoHandlers
  Unreliable = TRUE
  MaxAdmin = 2
  MaxFaults = 1
SPECIFICATION Spec
INVARIANTS
  AckedSettled
  PostsBounded
  AttemptsGapFree
SYMMETRY HooksAndSlots
CHECK_DEADLOCK FALSE
