SPECIFICATION FairSpec
CONSTANTS
  Conns = {k1}
  FleetIds = {f1, f2}
  LegacyIds = {l1}
  Identities = {p, q}
  Lengths <- MCLengths
  MaxFrames = 3
  Nobody = Nobody
INVARIANTS
  TypeOK
  AnswersInOrder
  BootNamesBearer
  FramesReadBack
PROPERTIES
  BrokenEnds
