SPECIFICATION FairSpec
CONSTANTS
  c1 = c1
  c2 = c2
  c3 = c3
  Calls = {c1, c2, c3}
  Settings <- TwoOrNone
  FailureThreshold = 1
  CooldownSeconds = 1
  MaxConcurrent = 2
  MaxText = 1
  MaxNow = 2
PROPERTIES OneProbe
CHECK_DEADLOCK FALSE
