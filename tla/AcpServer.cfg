SPECIFICATION FairSpec
CONSTANTS
  Clients = {c1}
  NoClient = NoClient
  Prompts = {p1, p2}
  Cancelled = Cancelled
  NoPrompt = NoPrompt
  Tools = {t1}
  Capacity = 2
  MaxSent = 1
  MaxFrames = 2
INVARIANTS
  RepliesArriveWhole
  WaitersCanBeWoken
PROPERTIES
  CompletedIsAnswered
CHECK_DEADLOCK FALSE
