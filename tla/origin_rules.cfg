SPECIFICATION RulesSpec
CONSTANTS
  Origin = {o1}
  TestOrigin = test
  Request = {h1, h2, h3}
  TTL = 2
  CORS_TTL = 2
  Latency = 1
  MaxPending = 2
  Handler = {h1, h2, h3}
  Bucket = {b1, b2}
  NoBucket = NoBucket
  Origins = {All, site}
  All = All
  MaxRequests = 3
  Replica = {r1, r2}
  ProjectRequest = {q1, q2}
  PROJECT_TTL = 2
  MaxWait = 3
SYMMETRY Symmetry
INVARIANTS
  DecisionsWithinLag
  QuietCacheAgrees
  ActiveWasProbed
  CorsFollowsConfig
  ChangesPropagate
CHECK_DEADLOCK FALSE
