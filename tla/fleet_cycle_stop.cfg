SPECIFICATION FairSpec
CONSTANTS
  NumChargers = 1
  NumConnectors = 1
  Handlers = {h1}
  Txs = {t1}
  Heartbeats = {30}
  MeterStarts = {1}
  SimMeterStart = 1
  Increment = 1
  MaxWh = 3
  Ops = {"create", "connect", "tick"}
  NoCharger = NoCharger
  NoTx = NoTx
PROPERTIES
  SimulatedTxEnds
