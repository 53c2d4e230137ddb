SPECIFICATION Spec
CONSTANTS
  Attempts = 2
  Phases = 2
  Physical <- MCPhysical
  MaxTasks = 2
  MaxPauses = 2
PROPERTIES
  ContinueReachesAcquisition
CHECK_DEADLOCK FALSE
