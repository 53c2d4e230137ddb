SPECIFICATION Spec
CONSTANTS
  MaxNow = 5
  Durations <- MCDurations
  PhaseTime = 5
  PregraspTime = 4
  GraspTime = 1
  CarryTime = 1
  ReturnTime = 4
  CandidateTime = 1
  AttemptTime = 1
  Slack = 1
  SweepTime = 1
  Grasps = 2
  TierSize = 1
  MaxPlanning = 2
  MaxRetry = 1
  CarryEnds = 1
  PlaceEnds = 2
  Routes = 1
  Segments = 1
  ReturnStages = 2
  Retreats = 2
INVARIANTS
  TypeOK
  AcceptedPathHolds
PROPERTIES
  OthersKeepTime
  SearchEnds
