SPECIFICATION Spec
CONSTANTS
  Settle = 2
  MaxTasks = 2
  MaxGoals = 2
INVARIANTS
  TypeOK
  PlansAtRest
  SuccessIsSettled
PROPERTIES
  StopEndsMotion
  ShutdownEndsMotion
CHECK_DEADLOCK FALSE
