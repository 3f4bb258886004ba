SPECIFICATION Spec
CONSTANTS
  NumChargers = 1
  NumConnectors = 1
  Handlers = {h1, h2}
  Txs = {t1}
  Heartbeats = {30}
  MeterStarts = {1}
  SimMeterStart = 1
  Increment = 1
  MaxWh = 1
  Ops = {"create", "delete", "start"}
  NoCharger = NoCharger
  NoTx = NoTx
SYMMETRY Symmetry
PROPERTIES
  DeleteKeepsTransactions
