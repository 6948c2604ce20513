CONSTANTS
  None = None
  c1 = c1
  c2 = c2
  Cards = {c1, c2}
  FieldSeqs = {0, 1}
  Layouts <- MCLayouts
  Owner <- MCOwner
  Repertoires <- MCRepertoires
  Misread <- MCMisread
  StartLP = 2
  MaxHistory = 2
  MaxSkews = 1
  MaxAgain = 1
  MaxDuels = 2
SPECIFICATION Spec
INVARIANT TypeOK
INVARIANT MirrorIsExact
INVARIANT TrackerNamesTheCard
INVARIANT HistoryTellsTheDuel
CHECK_DEADLOCK FALSE
