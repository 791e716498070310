SPECIFICATION Spec
CONSTANTS
  Client = {c1, c2}
  MaxPlayers = 3
  Offline = {}
  Leaver = {}
  Failing = {}
  MaxHello = 2
INVARIANT StartsWhenAllConnected
CHECK_DEADLOCK FALSE
