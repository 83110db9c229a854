SPECIFICATION Spec
CONSTANTS
  Call = {c1, c2}
  Get = get
  Refresh = {r1}
  Lifetime = 5
  Buffer = 1
  Latency = 2
  Retry = 2
  InitialToken = TRUE
SYMMETRY Calls
INVARIANTS
  RefreshNeverStops
  RefusedTwiceOnlyIfRevoked
  IdleProviderStops
