SPECIFICATION FairSpec
CONSTANTS
  InfoCmds <- MCInfoCmds
  Specs = {"h1", "m1"}
  Multi = {"h1"}
  Prompt <- MCPrompt
  Questions = {"h"}
  MaxAsks = 2
  MaxTies = 1
INVARIANTS
  TypeOK
  NothingIsRefused
  OffersTheMenu
PROPERTY
  InStep
  SeenThrough
