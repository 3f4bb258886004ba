SPECIFICATION FairSpec
CONSTANTS
  Clients = {c1, c2}
  BroadcastCap = 1
  SendCap = 1
  MaxEvents = 2
  Pingers = {c1}
INVARIANTS
  TypeOK
  HubSendsToOpen
  QueueIntact
  EventsInOrder
PROPERTIES
  BrokenClientsGo
  BroadcastsDrain
CHECK_DEADLOCK FALSE
