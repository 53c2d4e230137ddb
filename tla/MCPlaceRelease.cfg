SPECIFICATION Spec
CONSTANTS
  MaxRevision = 2
INVARIANTS
  TypeOK
  StagesAreEarned
PROPERTIES
  ReleaseIsChecked
  AcceptedPoseIsKept
  SegmentsFitScene
CHECK_DEADLOCK FALSE
