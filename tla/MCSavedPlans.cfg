SPECIFICATION Spec
CONSTANTS
  MaxSerial = 2
  MaxMove = 1
  MaxRevision = 2
  HasPrepare = TRUE
INVARIANTS
  TypeOK
  WorkDoneOnce
PROPERTIES
  OneShot
  StepsFitWorld
