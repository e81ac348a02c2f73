SPECIFICATION FairSpec
CONSTANTS
  w1 = w1
  w2 = w2
  Worker = {w1, w2}
  Policy <- PermanentAndTemporary
  MaxRestarts = 0
  Window = 1
  Cooldown = 2
  GracefulGrace = 1
  ImmediateGrace = 1
  Kinds = {"graceful"}
  MaxAttempts = 1
INVARIANT DrainDeadline
PROPERTY DrainCompletes
