SPECIFICATION Spec
CONSTANTS
  p1 = p1
  p2 = p2
  ta = ta
  Posts <- Retried
  Turn <- RetriedTurn
  Streaming = {p1}
  Limit = 1
  MaxText = 1
  MaxFaults = 0
INVARIANTS AtLeastOnceDelivery
CHECK_DEADLOCK FALSE
