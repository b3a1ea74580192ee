SPECIFICATION PartitionedSpec
CONSTANTS
  NumDrones = 3
  BoundsMax = 1536
  CollisionRadius = 128
  NearMissRadius = 192
  CellSize = 192
  MaxSpeed = 128
  MaxAccel = 64
  MaxAvoidAccel = 64
  AvoidanceStrength = 1
  GoalTolerance = 64
  Horizon = 1
  Places = {384, 448, 512, 640, 1536}
  Speeds <- MCSpeeds
  Modes = {"reflect"}
  MaxTick = 2
  NumPartitions = 3
  Halo = 320
INVARIANT DetectsExactly
PROPERTY AgreesWithSimulation
CHECK_DEADLOCK FALSE
