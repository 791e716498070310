SPECIFICATION Spec
CONSTANTS
  c1 = c1
  Client = {c1}
  Server = Server
  Port <- OwnPort
  Shooter = {}
  Mortal = {}
  Frames = TRUE
  PointsToWin = 1
  MaxId = 1
  MaxSeq = 1
  MaxKill = 0
PROPERTIES
  ReackIsHarmless
CHECK_DEADLOCK FALSE
