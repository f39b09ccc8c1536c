SPECIFICATION FairSpec
CONSTANTS
  NThreads = 1
  NSteers = 2
  Halters = {h1, h2}
  MaxReplies = 1
  MaxTurns = 2
  MaxContinuations = 1
  MaxFaults = 1
INVARIANTS
  AcceptedSteersAreServed
  NoKeyOutlivesItsRun
  
PROPERTIES
  ClosedStaysClosed
  
CHECK_DEADLOCK FALSE
