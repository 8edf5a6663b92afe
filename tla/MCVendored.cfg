SPECIFICATION PartSpec
CONSTANTS
  None = None
  Garbage = Garbage
  nil = nil
  Crew <- LockCrew
INVARIANTS
  FiducialsAreRead
  PtypesHoldValues
  LockIsSound
