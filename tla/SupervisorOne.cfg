SPECIFICATION FairSpec
CONSTANTS
  w1 = w1
  w2 = w2
  Worker = {w1}
  Policy <- OneTransient
  MaxRestarts = 1
  Window = 2
  Cooldown = 3
  GracefulGrace = 2
  ImmediateGrace = 1
  Kinds = {"graceful", "immediate", "reload"}
  MaxAttempts = 3
INVARIANTS
  OneLiveChild
  PublishedPidIsHeld
  RespawnRateBounded
PROPERTIES
  RestartIsServed
  ImplementsSupervisedRun
