SPECIFICATION Spec
CONSTANTS
  User = {u1}
  Org = {o1}
  Role = {owner, staff}
  Perm = {read, write}
  Defaults = {read}
  Owner = owner
  write = write
  Grant <- Grants
  Call = {c1, c2}
  MaxRequests = 4
  MaxFaults = 1
SYMMETRY Requests
INVARIANTS TokensAreExplained OwnersAreCovered ChoicesAreKept RedirectsFollowRoles
CHECK_DEADLOCK FALSE
