SPECIFICATION Spec
CONSTANTS
  None = None
  Pipelines <- EagerChain
  Slots = 2
INVARIANT ThreadIsSet
