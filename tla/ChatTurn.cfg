SPECIFICATION FairSpec
CONSTANTS
  p1 = p1
  p2 = p2
  ta = ta
  Posts <- Retried
  Turn <- RetriedTurn
  Streaming = {p1}
  Limit = 1
  MaxText = 1
  MaxFaults = 1
INVARIANTS TurnStoredOnce NothingSkipped SeenIsStored SettledBeforeDone
PROPERTIES FollowersEnd
CHECK_DEADLOCK FALSE
