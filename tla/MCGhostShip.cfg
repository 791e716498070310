SPECIFICATION Spec
CONSTANTS
  c1 = c1
  c2 = c2
  Client = {c1, c2}
  Server = Server
  Port <- OwnPort
  Shooter = {}
  Mortal = {}
  Frames = TRUE
  PointsToWin = 2
  MaxId = 2
  MaxSeq = 2
  MaxKill = 0
SYMMETRY Symmetry
INVARIANTS
  RemovedEverywhere
CHECK_DEADLOCK FALSE
