SPECIFICATION DoorSpec
CONSTANTS
  MaxBuild = 2
  MaxOutages = 2
INVARIANT ShownBeforeEntered
