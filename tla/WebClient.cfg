SPECIFICATION Spec
CONSTANTS
  None = None
  Recommend = TRUE
  ReplayTicks <- MCTicks
  MaxMounts = 2
  MaxResets <- MCResets
  MaxPrompts = 3
INVARIANTS
  TypeOK
  StepsMeetTheirPrompt
PROPERTY
  NeverStalls
CHECK_DEADLOCK FALSE
