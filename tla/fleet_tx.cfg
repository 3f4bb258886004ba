SPECIFICATION Spec
CONSTANTS
  NumChargers = 1
  NumConnectors = 1
  Handlers = {h1, h2}
  Txs = {t1, t2}
  Heartbeats = {30}
  MeterStarts = {1}
  SimMeterStart = 1
  Increment = 1
  MaxWh = 1
  Ops = {"create", "delete", "start", "stop", "connect", "disconnect", "tick"}
  NoCharger = NoCharger
  NoTx = NoTx
SYMMETRY Symmetry
INVARIANTS
  StopOnce
  ActiveOnce
  OnePlace
  OneSimulatedTx
  CycleIdleWhileSimulating
  CopyShowsSimulated
PROPERTIES
  LedgerSpec
