SPECIFICATION PartSpec
CONSTANTS
  None = None
  NULL = NULL
  CR = CR
  LF = LF
  Garbage = Garbage
INVARIANTS
  BackendsWatchTheEvents
  ContainersHoldTheirItems
  ReadersFindWhatWasWritten
  CallsAreAnsweredOnce
PROPERTY
  BufferedInputIsServed
