SPECIFICATION ForwardSpec
CONSTANTS
  RateLimit = 1
  SummaryEvery = 2
  RingMax = 2
  MaxPodLines = 6
  MaxSeconds = 5
INVARIANT NeverStopsDraining
CHECK_DEADLOCK FALSE
