SPECIFICATION FairSpec
CONSTANTS
  NumWorkers = 3
  NumPartitions = 3
  Modes = {"sequential", "threads", "processes"}
  RetryLimit = 2
  Interval = 1
  ThresholdNum = 3
  ThresholdDen = 2
  Loads = {0, 2}
  MaxTick = 2
INVARIANTS
  AssignedToHealthy
  RetriesCostWorkers
PROPERTIES
  KeepsAtomicTick
  RebalanceNarrowsGap
  StepEnds
CHECK_DEADLOCK FALSE
