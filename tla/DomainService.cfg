SPECIFICATION ServiceSpec
CONSTANTS
  Calls = {r1, r2, r3}
  NoMessage = NoMessage
  Operations = {"start", "continue", "same", "previous", "score", "single", "contest", "stop"}
  Parts = 2
  Threads = {t1, t2}
  Groups = {"g", "h"}
  Senders = {s1, s2}
  Dates = {d1, d2}
  Titles = {i1, i2}
  Lengths = {1, 2}
  Window = 1
  Wait = 2
  Cooldown = 4
  Forget = 6
  Mixes = {{"capability", "repeat"}, {"guard", "refuse"}, {"policy", "publish"}, {"check"}}
  Messages = {m1}
  Scores = {m1}
  Snapshot = {}
  Results = {"scores", "heat"}
  Nobody = Nobody
  Ids = {"1", "2"}
  Names = {"1"}
  Segments = {"s"}
  Speeds = {1, 2, 3}
  MaxSpeed = 2
  MaxRecords = 3
  PageSize = 1
  MaxPlaces = 2
  MaxBoard = 3
  TTL = 2
  Slow = 1
  MaxTime = 4
  MaxRequests = 4
  MaxEvents = 3
  MaxQueries = 2
INVARIANTS
  SessionsGoOn
  
  
  
  BoardsAgree
  
SYMMETRY Interchangeable
CHECK_DEADLOCK FALSE
