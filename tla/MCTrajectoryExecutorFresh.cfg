SPECIFICATION Spec
CONSTANTS
  Settle = 2
  MaxTasks = 2
  MaxGoals = 2
INVARIANTS
  SettledSamplesAreFresh
CHECK_DEADLOCK FALSE
