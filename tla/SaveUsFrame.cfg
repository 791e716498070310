SPECIFICATION FairSpec
CONSTANTS
  GAME_OBJ_INST_NUM_MAX = 5
  WinMax = 1
  ShipMargin = 0
  AstMargin = 1
  Accel = 1
  SpeedLimit = 0
  posOffset = 1
  velOffset = 1
  BULLET_SPEED = 3
  BombRadius = 1
  ShotLife = 2
  Inmortal = 2
  SHIP_INITIAL_NUM = 1
  sAstNum = 1
  Exhaust = {1}
  Explosion = {0, 1}
  MaxFrame = 2
  Players = {{"UP","DOWN","LEFT"},{"SPACE","LEFT"},{"X","Z"}}
INVARIANTS
  TypeOK
  InWindow
  MissileAims
PROPERTIES
  ShotsLeave
CHECK_DEADLOCK FALSE
