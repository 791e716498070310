SPECIFICATION FairSpec
CONSTANTS
  c1 = c1
  c2 = c2
  Client = {c1, c2}
  Server = Server
  Alive = 2
  Disconnect = 3
  Inmortal = 2
  MaxFrame = 1
  EndsAlone = TRUE
INVARIANT TypeOK
PROPERTIES DroppedForSilence EndIsTimely LeavingIsNoticed
CHECK_DEADLOCK FALSE
