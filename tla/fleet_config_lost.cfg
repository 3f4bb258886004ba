SPECIFICATION Spec
CONSTANTS
  NumChargers = 1
  NumConnectors = 1
  Handlers = {h1}
  Txs = {t1}
  Heartbeats = {30, 300}
  MeterStarts = {1}
  SimMeterStart = 1
  Increment = 1
  MaxWh = 1
  Ops = {"create", "patch", "connect"}
  NoCharger = NoCharger
  NoTx = NoTx
SYMMETRY Symmetry
PROPERTIES
  ConfigOnlyPatched
