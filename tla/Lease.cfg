SPECIFICATION FairSpec
CONSTANTS
  Node = {n1, n2}
  Label = {1, 2}
  Ttl = 2
  Step = 1
  None = None
INVARIANT LeaderOwnsLease
PROPERTY Takeover
