SPECIFICATION Spec
CONSTANTS
  InitialState = "EMPTY"
  MaxStarts = 2
  MaxResets = 2
  MaxCrashes = 1
INVARIANTS
  TypeOK
  EmptyIsEmpty
  ReportIsHonest
PROPERTIES
  LatchFallsEmpty
  StopsWhenTold
CHECK_DEADLOCK FALSE
