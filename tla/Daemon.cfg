SPECIFICATION FairSpec
CONSTANTS
  Proc = {d1, d2}
  NoPid = NoPid
  MaxOrphans = 1
INVARIANT OneDaemon
PROPERTIES
  ExitIsServed
  
