SPECIFICATION PartSpec
CONSTANTS
  None = None
  Freed = Freed
  ns1 = ns1
  ns2 = ns2
  Names <- JsonNames
  Texts <- JsonStrings
  Values <- PropertyValues
  TagParts <- WildParts
  ReceivedPackets <- NestedPackets
SYMMETRY Servers
INVARIANTS
  SlotsComeBack
  QuietPageIsComplete
  AnswersAreUnderstood
  PropertiesKeepTheirValue
  OscMessagesArrive
  ResolverGoesOn
