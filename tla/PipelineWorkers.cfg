SPECIFICATION Spec
CONSTANTS
  d1 = d1
  d2 = d2
  d3 = d3
  r1 = r1
  r2 = r2
  w1 = w1
  w2 = w2
  alpha = alpha
  beta = beta
  NoMessage = NoMessage
  NoDoc = NoDoc
  Docs <- TwoDocs
  Text <- SharedText
  Infected = {d3}
  Unparseable = {}
  Relays <- OneRelay
  Workers <- TwoWorkers
  BatchSize = 1
  MaxAttempts = 1
  MaxDeliveries = 2
  MaxCopies = 1
  MaxCrashes = 0
SYMMETRY Symmetry
INVARIANTS NoUploadLost ReadyIsComplete RefusedNeverServed QuietMeansAnswered
PROPERTY FailedIsFinal
