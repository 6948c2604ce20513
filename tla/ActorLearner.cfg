SPECIFICATION FairSpec
CONSTANTS
  NumEnvs = 2
  NTensors = 2
  NumUpdates = 3
  MaxLag = 0
  MaxRetries = 2
  Modes = {"sync", "async"}
  MaxQueue = 1
  MaxFaults = 2
INVARIANTS
  TypeOK
  TearIsAdjacent
  BatchIsFresh
  SyncBatchIsExact
  SyncReadersExcluded
  HiddenStateMatchesWeights
  ErrorsAreHonest
PROPERTY
  TrainingEnds
