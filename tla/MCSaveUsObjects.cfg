SPECIFICATION Spec
CONSTANTS
  Player = {0, 1}
  GAME_OBJ_INST_NUM_MAX = 8
  AST_NUM_MIN = 1
  AST_NUM_MAX = 2
  AST_SHIP_RATIO = 3
  LevelRatio = 2
  SHIP_INITIAL_NUM = 0
  points_to_win = 2
  SizeMax = 1
  Colours = {8}
  Particles <- OnServer
  MaxParticle = 1
  MaxShot = 1
  MaxAsteroid = 4
  MaxShown = 1
  Limits <- AllLimits
INVARIANTS TypeOK PoolListed AsteroidsAccounted AsteroidBudget ReplicaLags
CHECK_DEADLOCK FALSE
