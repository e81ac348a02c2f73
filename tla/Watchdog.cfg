SPECIFICATION PartSpec
CONSTANTS
  Path = {"src", "bin"}
  Dir = {"src"}
  Bin = "bin"
  Remote = "ref"
  Cap = 2
  MaxWrites = 2
  MaxFails = 1
  Staged = TRUE
  MaySkip = TRUE
  Dog = {"p1", "p2", "p3"}
  Build = {1, 2}
  NoDog = "none"
  Uri = {"u1", "u2"}
  NoUri = "none"
  Retain = 1
  MaxStamp = 5
  RateLimit = 1
  SummaryEvery = 2
  RingMax = 2
  MaxPodLines = 6
  MaxSeconds = 5
  MaxBuild = 2
  MaxOutages = 2
  MaxBody = 4
  BodyCap = 3
INVARIANTS
  SerialStartsExclude
  LastGoodKept
  
  
  
PROPERTIES
  ChangeIsBuilt
  
  EntersBackend
CHECK_DEADLOCK FALSE
