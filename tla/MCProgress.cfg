SPECIFICATION PartSpec
CONSTANTS
  None = None
  Pipelines <- ThreadPipelines
  Preset <- SavedSlots
PROPERTIES
  StopTerminates
  PushesAreRead
  DaemonGoesOn
  MergeSettles
