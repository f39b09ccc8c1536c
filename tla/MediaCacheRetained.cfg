SPECIFICATION Spec
CONSTANTS
  Jobs = {j1, j2}
  Contents = {x}
  Refs = {r}
  MaxIds = 2
  MaxAge = 1
  Kinds = {"store", "send", "gc"}
  None = none
PROPERTIES
  ReferencedIsRetained
CHECK_DEADLOCK FALSE
