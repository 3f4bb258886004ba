SPECIFICATION Spec
CONSTANTS
  Handlers = {h1, h2, h3}
  Ids = {s1}
  Ops = {"start", "create", "stop", "stopAny", "meter", "patch", "tick"}
  Readings = {2}
  MaxKwh = 4
  NoSession = NoSession
SYMMETRY Symmetry
INVARIANTS
  TypeOK
  EnergyNeverInvented
  CompletedHasEnd
PROPERTIES
  OverIsFinal
