SPECIFICATION FairSpec
CONSTANTS
  Specs <- MCSpecs
  NumEpisodes = 3
  NumWorkers = 2
  MaxFaults = 2
INVARIANTS
  TypeOK
  TasksAreAccountedFor
  ErrorsAreHonest
PROPERTY
  ImplementsEvaluation
