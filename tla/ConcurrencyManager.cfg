SPECIFICATION FairSpec
CONSTANTS
  MaxId = 2
  MaxFinished = 1
INVARIANTS
  WaitersSeeTheEnd
  PruningKeepsTheNewest
PROPERTIES
  OutcomeIsFinal
  ShutdownEnds
CHECK_DEADLOCK FALSE
