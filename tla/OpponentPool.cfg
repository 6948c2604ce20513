SPECIFICATION Spec
CONSTANTS
  NumWorkers = 1
  PoolSize = 2
  NTensors = 2
  NumUpdates = 7
  SaveInterval = 2
  MaxRetries = 2
  MaxCrashes = 2
INVARIANTS
  TypeOK
  OpponentExists
  CopiesAreExact
  RingIsNewest
  LatestIsComplete
