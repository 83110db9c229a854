SPECIFICATION CatalogueSpec
CONSTANTS
  k1 = k1
  k2 = k2
  needs1 = needs1
  forbids2 = forbids2
  Handler = {h1, h2}
  Meta <- Metas
  NoMeta = NoMeta
  Merge <- Union
  Schema = {needs1, forbids2}
  Allowed <- Accepts
  Enforce = TRUE
  MaxRequests = 4
  MaxFaults = 1
  Name = {a, b}
  File = {f1}
  MaxDepth = 2
  MaxFiles = 4
  Limit = 2
  Modes = {"cursor", "offset", "infinite"}
SYMMETRY Symmetry
INVARIANTS
  CatalogueOK
  LaterReplaces
  VersionsGapFree
  EnsureIsIdempotent
  DeletedWereEmpty
  PagesListAll
PROPERTIES
  StoredIsExplained
CHECK_DEADLOCK FALSE
