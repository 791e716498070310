SPECIFICATION Spec
CONSTANTS
  c1 = c1
  c2 = c2
  Client = {c1, c2}
  Server = Server
  Port <- OwnPort
  Shooter = {Server, c1, c2}
  Mortal = {Server, c1, c2}
  Frames = TRUE
  PointsToWin = 2
  MaxId = 2
  MaxSeq = 2
  MaxKill = 2
SYMMETRY Symmetry
ACTION_CONSTRAINT OneKind
INVARIANTS
  TypeOK
  ServerShipsConnected
  PlayersReplicated
  OneSessionPerAddress
  UniqueIds
  ScoresEarned
  WinnerEarned
PROPERTIES
  RemovedForGood
CHECK_DEADLOCK FALSE
