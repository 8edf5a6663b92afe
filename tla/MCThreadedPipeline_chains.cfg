SPECIFICATION Spec
CONSTANTS
  None = None
  Pipelines <- Chains
  Slots = 2
INVARIANTS
  NoOrphanThread
  ThreadIsSet
  StopStopsEverything
  NothingIsLost
  StartsAreInOrder
