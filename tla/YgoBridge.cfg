SPECIFICATION Spec
CONSTANTS
  None = None
  MaxActions = 7
  Questions <- MCQuestions
  Boards <- MCBoards
  MaxDuels = 2
  MaxCreated = 2
  MaxIndex = 2
INVARIANTS
  TypeOK
  NoDeadEnd
  PlaysWhatWasChosen
  InStep
