SPECIFICATION FairSpec
CONSTANTS
  Client = {c1, c2}
  MaxPlayers = 2
  Offline = {c1}
  Leaver = {c2}
  Failing = {c1}
  MaxHello = 2
INVARIANTS TypeOK NumbersAgree SocketsInOrder
PROPERTY RelayContinues
CHECK_DEADLOCK FALSE
