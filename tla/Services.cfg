SPECIFICATION PartSpec
CONSTANTS
  c1 = c1
  c2 = c2
  c3 = c3
  Calls = {c1, c2, c3}
  Settings <- TwoOrNone
  FailureThreshold = 2
  CooldownSeconds = 1
  MaxConcurrent = 1
  MaxText = 2
  MaxNow = 2
  d1 = d1
  w1 = w1
  w2 = w2
  g1 = g1
  g2 = g2
  a1 = a1
  d2 = d2
  d3 = d3
  Turns = {1, 2}
  Sizes = {1, 3}
  WindowBudget = 3
  FetchLimit = 4
  MaxMessages = 6
  Threads <- SmallThreads
  PageLimit = 2
  MaxListed = 5
  MaxTime = 2
  Contents <- SmallContents
  TargetTokens = 5
  HardMaxTokens = 8
  Docs = {d1, d2, d3}
  Twins <- TwinPairs
  RrfConstant = 60
  LegLimit = 2
  Pool = 3
  TopK = 2
  Threshold <- LowThreshold
  Tenants = {w1, w2}
  Generations = {g1, g2}
  Ceiling = 2
  Costs = {0, 1, 3}
  Limits = {3, 5}
  DefaultLimit = 3
  GlobalLimit = 6
  Admins = {a1}
  MaxRuns = 3
  MaxChanges = 1
INVARIANTS OneVoice BreakerCoherent PermitsConserved
PROPERTIES EveryCallEnds
INVARIANTS BudgetHeld MemoryWhole PagesWhole ChunksWhole RetrievalSound
CHECK_DEADLOCK FALSE
