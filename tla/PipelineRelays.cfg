SPECIFICATION FairSpec
CONSTANTS
  d1 = d1
  d2 = d2
  d3 = d3
  r1 = r1
  r2 = r2
  w1 = w1
  w2 = w2
  alpha = alpha
  beta = beta
  NoMessage = NoMessage
  NoDoc = NoDoc
  Docs <- OneDoc
  Text <- SharedText
  Infected = {}
  Unparseable = {}
  Relays <- TwoRelays
  Workers <- OneWorker
  BatchSize = 1
  MaxAttempts = 2
  MaxDeliveries = 2
  MaxCopies = 2
  MaxCrashes = 1
INVARIANT QuietMeansResolved
PROPERTY EveryUploadEnds
