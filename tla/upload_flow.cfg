SPECIFICATION Spec
CONSTANTS
  Slot = {s1, s2, s3}
  NoSlot = NoSlot
  Parts = 2
  MaxRetries = 1
  MaxResumes = 2
INVARIANTS
  DoneIsStored
  ConfirmedHasObject
  AbortIsFinal
PROPERTIES
  UploadEnds
CHECK_DEADLOCK FALSE
