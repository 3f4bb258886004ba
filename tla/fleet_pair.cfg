SPECIFICATION Spec
CONSTANTS
  NumChargers = 2
  NumConnectors = 1
  Handlers = {h1, h2}
  Txs = {t1, t2}
  Heartbeats = {30}
  MeterStarts = {0}
  SimMeterStart = 0
  Increment = 1
  MaxWh = 2
  Ops = {"create", "start", "stop", "bulkConnect", "tick"}
  NoCharger = NoCharger
  NoTx = NoTx
SYMMETRY Symmetry
INVARIANTS
  TypeOK
  LateTelemetryBounded
  CopiedInPlace
PROPERTIES
  PublishedMeterGrows
