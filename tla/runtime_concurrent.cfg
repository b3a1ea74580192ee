SPECIFICATION FairRuntimeSpec
CONSTANTS
  None = None
  Callers = {c1, c2}
  Threads = {t1, t2}
  Ops = {"start", "pause", "resume", "step", "reset", "load", "shutdown"}
  MaxTick = 2
  Kinds = {"single_process", "processes"}
INVARIANTS
  NoOrphanLoop
  MetricsWithinTick
  NoAbandonedPool
  ReleasedWhenStopped
  RunningHasLoop
PROPERTIES
  KeepsContract
  ShutdownReturns
  StopEndsLoop
  RunningLoopTicks
  ShutdownReleases
CHECK_DEADLOCK FALSE
