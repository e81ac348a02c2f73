SPECIFICATION FairSpec
CONSTANTS
  Path = {"src", "bin"}
  Dir = {"src"}
  Bin = "bin"
  Remote = "ref"
  Cap = 2
  MaxWrites = 2
  MaxFails = 1
  Staged = TRUE
  MaySkip = FALSE
PROPERTY RefIsBuilt
CHECK_DEADLOCK FALSE
