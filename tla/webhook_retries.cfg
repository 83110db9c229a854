CONSTANTS
  m1 = m1
  h1 = h1
  h2 = h2
  r1 = r1
  r2 = r2
  Type <- Types
  TypeOf <- Ready
  Message <- OneMessage
  Hook <- OneHook
  Handler <- TwoHandlers
  Unreliable = FALSE
  MaxAdmin = 1
  MaxFaults = 1
SPECIFICATION Spec
INVARIANT AtMostThreePosts
CHECK_DEADLOCK FALSE
