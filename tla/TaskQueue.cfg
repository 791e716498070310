SPECIFICATION FairSpec
CONSTANTS
  Producer = {p1, p2}
  Worker = {w1, w2}
  Slots = 2
  MaxItem = 3
INVARIANTS TypeOK WakeupsSuffice
PROPERTIES IsBoundedBuffer Progress WorkersTerminate
CHECK_DEADLOCK FALSE
