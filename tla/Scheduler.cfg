SPECIFICATION FairSpec
CONSTANTS
  Clients = {c1, c2}
  Owners = {o1}
  Delays = {0, 1}
  Capacity = 1
  MaxInt = 1000
  MaxId = 2
  MaxTime = 1
  MaxRestarts = 1
INVARIANTS
  EveryRowHeldOnce
  WakesInTime
PROPERTIES
  KeepsPromise
  DueMessagesLeave
CHECK_DEADLOCK FALSE
