SPECIFICATION PartSpec
CONSTANTS
  None = None
  ev_signal = ev_signal
INVARIANTS
  HandlersAreSound
  ChannelsAreSound
PROPERTIES
  EventsAreServed
  ChannelsDrain
