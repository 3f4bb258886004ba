SPECIFICATION FairSpec
CONSTANTS
  NumChargers = 1
  NumConnectors = 1
  Handlers = {h1, h2, h3}
  Txs = {t1}
  Heartbeats = {30}
  MeterStarts = {1}
  SimMeterStart = 1
  Increment = 1
  MaxWh = 1
  Ops = {"create", "delete", "patch", "status", "connect", "disconnect", "bulkConnect", "bulkDisconnect"}
  NoCharger = NoCharger
  NoTx = NoTx
INVARIANTS
  TransitionalOwned
PROPERTIES
  Settles
