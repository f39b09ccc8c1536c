SPECIFICATION Spec
CONSTANTS
  Threads = {t1, t2}
  Pool = {p1, p2}
  Keys = {1}
  Scopes = {group}
  Contents = {a}
  AuditLimit = 2
  VersionLimit = 2
  ErrorLimit = 3
  MaxRequests = 3
CHECK_DEADLOCK FALSE
INVARIANTS
  OnlyOldCopiesLoseChanges
  
  
SYMMETRY InterchangeableThreads
VIEW Relevant
