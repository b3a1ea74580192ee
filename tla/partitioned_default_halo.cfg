SPECIFICATION PartitionedSpec
CONSTANTS
  NumDrones = 2
  BoundsMax = 1536
  CollisionRadius = 128
  NearMissRadius = 192
  CellSize = 192
  MaxSpeed = 128
  MaxAccel = 64
  MaxAvoidAccel = 64
  AvoidanceStrength = 1
  GoalTolerance = 64
  Horizon = 1
  Places = {384, 448, 512, 640, 1536}
  Speeds <- MCSpeeds
  Modes = {"reflect"}
  MaxTick = 1
  NumPartitions = 3
  Halo = 192
INVARIANT DetectsExactly
CHECK_DEADLOCK FALSE
