SPECIFICATION Spec
CONSTANTS
  Handlers = {h1}
  Ids = {s1}
  Ops = {"start", "stop", "tick"}
  Readings = {2}
  MaxKwh = 4
  NoSession = NoSession
PROPERTIES
  StoppedStaysStopped
