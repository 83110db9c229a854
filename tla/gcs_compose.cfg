SPECIFICATION ComposeSpec
CONSTANTS
  Slot = {s1}
  NoSlot = NoSlot
  Parts = 2
  MaxRetries = 1
  MaxResumes = 1
  Handler = {h1, h2, h3}
  MaxParts = 9
  Limit = 4
  Batch = 3
  MaxCalls = 3
  MaxPuts = 1
SYMMETRY Symmetry
INVARIANTS
  ComposeTypeOK
  ObjectIsWhole
  NothingIsLeft
CHECK_DEADLOCK FALSE
