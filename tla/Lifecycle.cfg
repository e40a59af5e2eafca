SPECIFICATION FairSpec
CONSTANTS
  d1 = d1
  j1 = j1
  e1 = e1
  w1 = w1
  w2 = w2
  Docs = {d1}
  Deletions = {j1}
  Exports = {e1}
  Workers = {w1, w2}
  MaxAttempts = 2
  MaxFaults = 2
INVARIANTS NothingLeftBehind VerifiedMeansPurged ArchiveWhole
PROPERTIES EveryDeletionEnds
CHECK_DEADLOCK FALSE
