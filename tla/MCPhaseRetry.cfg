SPECIFICATION Spec
CONSTANTS
  Attempts = 2
  Phases = 2
  Physical <- MCPhysical
  MaxTasks = 2
  MaxPauses = 2
INVARIANTS
  TypeOK
  NeverRedispatched
  CyclesNeedContinue
  CancelStopsRetries
  ResumesOnFreshScene
PROPERTIES
  OneContinuePerPause
  AnsweredPauseEnds
  CancelEndsTask
CHECK_DEADLOCK FALSE
