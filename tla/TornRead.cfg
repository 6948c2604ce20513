SPECIFICATION Spec
CONSTANTS
  NumEnvs = 2
  NTensors = 2
  NumUpdates = 3
  MaxLag = 0
  MaxRetries = 2
  Modes = {"async"}
  MaxQueue = 1
  MaxFaults = 0
INVARIANT
  RefreshIsConsistent
