SPECIFICATION Spec
CONSTANTS
  NCalls = 3
  Names = {n1, n2}
  Handles = {h1}
  NoHandle = NoHandle
  NoName = NoName
  Persistent = {1, 3}
  TTL = 1
  MaxTime = 1
  Faulty = {"create", "save", "life", "cleanup", "delete", "rename"}
  MaxFaults = 1
  MaxRestarts = 1
INVARIANTS
  NoUseOfTheDestroyed
  
  ShutdownLeavesNothing
  
SYMMETRY Interchangeable
CHECK_DEADLOCK FALSE
