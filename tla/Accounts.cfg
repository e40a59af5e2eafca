SPECIFICATION FairSpec
CONSTANTS
  r1 = r1
  r2 = r2
  d1 = d1
  d2 = d2
  Requests = {r1, r2}
  Devices = {d1, d2}
  GraceSeconds = 0
  RefreshTtl = 1
  ResetTtl = 1
  MaxAttempts = 2
  MaxRequests = 5
  MaxCrashes = 1
  MaxNow = 1
INVARIANTS RevocationSticks ResetEndsSessions
PROPERTIES EveryMailSettles
CHECK_DEADLOCK FALSE
