SPECIFICATION ServeSpec
CONSTANTS
  None = None
  k1 = k1
  k2 = k2
  Keys <- MCKeys
  Questions <- MCQuestions
  Boards = {b1, b2}
  MaxPick = 2
  MaxSteps = 2
  MaxFailed = 1
  Collapses = {TRUE}
  SamplingStart = 2
  FpHistoryMax = 1
PROPERTY
  NonTerminatingDuelIsStopped
