SPECIFICATION PartSpec
CONSTANTS
  None = None
  Pipelines <- ThreadPipelines
  Preset <- UnsavedSlot
PROPERTY ErrorLoopEnds
