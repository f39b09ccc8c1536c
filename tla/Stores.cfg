SPECIFICATION StoresSpec
CONSTANTS
  N = 4
  MaxCachedThreads = 2
  MaxFaults = 1
  MaxReopens = 1
  MaxSessions = 3
  MaxCreated = 4
  MaxMessages = 3
  Forks = {f1, f2}
  Jobs = {j1, j2}
  Contents = {x}
  Refs = {r}
  MaxIds = 2
  MaxAge = 1
  Kinds = {"store", "send", "gc", "delete"}
  None = none
INVARIANTS
  StoredThreadsReadBack
  HistoriesAreSound
  MediaStay
CHECK_DEADLOCK FALSE
