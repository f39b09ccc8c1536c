SPECIFICATION FairSpec
CONSTANTS
  Inputs = 3
  Items = 2
  Capacity = 2
INVARIANTS
  ItemsStayInOrder
  NoPumpOutlivesTheReader
PROPERTIES
  Delivers
CHECK_DEADLOCK FALSE
