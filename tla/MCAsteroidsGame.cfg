SPECIFICATION FairSpec
CONSTANTS
  Slots = 4
  NumPlayers = 3
  InitialLives = 1
  ScoreWin = 1
  AsteroidTime = TRUE
  MaxSpawns = 1
  MaxShots = 2
  Coordinate <- MCCoordinate
  HalfSize <- MCHalfSize
  Speed <- MCSpeed
  Dt = 2
  Forward = 2
  Backward = 1
  WinMax = 100
  RAND_MAX = 5
  ASTEROID_SIZE = 7
  ASTEROID_SPEED = 10
  HALF_WIDTH = 40
  HALF_HEIGHT = 30
INVARIANTS TypeOK ShipKept ScoreTrue CollisionIsExact EverythingInPlace
PROPERTY BulletsLeave
CHECK_DEADLOCK FALSE
