SPECIFICATION Spec
CONSTANTS
  Chars = {"w", "z"}
  Limit = 3
  Budget = 5
  MaxPrints = 3
  MaxBatches = 2
CHECK_DEADLOCK FALSE
INVARIANTS
  
  BatchesAreServedInOrder
PROPERTY WorkerEnds
