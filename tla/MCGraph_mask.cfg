SPECIFICATION PartSpec
CONSTANTS
  NULL = NULL
  Dangling = Dangling
  Orphan = Orphan
  None = None
  Web <- WebA
  Index <- IndexA
  Module <- CombineModule
  Inputs <- CombineInputs
  Outputs <- CombineOutputs
  Format <- CombineFormat
  Accepts <- CombineAccepts
  Polled = {"camera"}
  Rearmed = {"camera"}
  Eager = {"image"}
  Checked = {}
  Frees = {}
  Id = {1, 2}
  MaxFlight = 2
  Pipelines <- MaskedPipeline
INVARIANT MaskHasBuffer
