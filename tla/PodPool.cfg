SPECIFICATION FairSpec
CONSTANTS
  p1 = p1
  p2 = p2
  k1 = k1
  Pod = {p1, p2}
  Conn = {c1}
  WsConn = {c1}
  Key = {k1}
  NoPod = NoPod
  Size = 8
  Points <- MCPoints
  KeyHash <- MCKeyHash
INVARIANTS
  RoutedHasAnswered
  TurnedAwayForCause
PROPERTIES
  RestartEndsChild
  AnsweringIsRouted
