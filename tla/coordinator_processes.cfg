SPECIFICATION Spec
CONSTANTS
  NumWorkers = 3
  NumPartitions = 3
  Modes = {"processes"}
  RetryLimit = 2
  Interval = 1
  ThresholdNum = 3
  ThresholdDen = 2
  Loads = {0, 2}
  MaxTick = 1
INVARIANT CrashIsWorkerFailure
CHECK_DEADLOCK FALSE
