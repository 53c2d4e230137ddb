SPECIFICATION Spec
CONSTANTS
  InitialState = "EMPTY"
  MaxStarts = 2
  MaxResets = 1
  MaxCrashes = 0
INVARIANTS
  LatchedMeansLocked
CHECK_DEADLOCK FALSE
