SPECIFICATION ValidatorSpec
CONSTANTS
  NumDrones = 3
  BoundsMax = 768
  CollisionRadius = 256
  NearMissRadius = 320
  CellSize = 320
  MaxSpeed = 384
  MaxAccel = 256
  MaxAvoidAccel = 192
  AvoidanceStrength = 2
  GoalTolerance = 64
  Horizon = 2
  Places = {0, 256, 576, 768}
  Speeds <- MCSpeeds
  Modes = {"reflect", "clamp"}
  Comparison <- MCComparison
  MaxTick = 3
  Viewports <- MCViewports
  Bins = {1, 5}
  Limits = {1}
INVARIANTS
  TypeOK
  DetectsExactly
  SeparatesLonePairs
  SwervesFromThreats
  ReportsRepeatable
  ReportMatchesRun
  QueriesAgree
  MarkersWhereDetected
PROPERTIES
  EnergyBalance
  PredictsContacts
CHECK_DEADLOCK FALSE
