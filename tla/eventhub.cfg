SPECIFICATION FairSpec
CONSTANTS
  Window = 3
  MaxSec = 6
  Subscribers = {c1, c2}
  BroadcastCap = 1
  ChannelCap = 1
  MaxEvents = 2
INVARIANTS
  TypeOK
  RingShowsWindow
  HubSendsToOpen
  StreamIntact
PROPERTIES
  HandedOn
CHECK_DEADLOCK FALSE
