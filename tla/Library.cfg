SPECIFICATION PartSpec
CONSTANTS
  Caller = {c1, c2}
  DrainWaiter = {d1}
  SignalWaiter = {s1}
  Kinds = {"immediate", "reload"}
  MayClear = TRUE
  MaxCalls = 2
  Call = {"a", "b", "c"}
  Conn <- MCConn
  Solo = "solo"
  Cap = 2
  NoCall = "none"
  Hooks = 2
  HasExit = TRUE
  Stream = {"out", "err"}
  Piece = {1, 3}
  LineMax = 4
  RingCap = 2
  Ellipsis = 1
  Reserve = 5
  LinesMax = 2
  MinBytes = 7
  MaxBytes = 14
  Budgets = {0, 8, 10, 20}
  MaxLogged = 3
  RunId = {"a", "b", "c", "d"}
  MaxRuns = 2
  Remembered = 3
  MaxInserts = 6
  Locker = {1, 2, 3}
  Session <- MCSession
  MaxInode = 2
  MaxDepth = 3
CHECK_DEADLOCK FALSE
INVARIANTS
  NoLostWakeup
  
  AnswersMatch
  
  PageIsNewest
  IdNamesItsRun
  OneLockHolder
PROPERTIES
  DrainIsSeen
  
  
