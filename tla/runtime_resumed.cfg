SPECIFICATION FairSpec
CONSTANTS
  None = None
  Callers = {c1}
  Threads = {t1, t2}
  Ops = {"start", "pause", "resume", "step", "reset", "load"}
  MaxTick = 2
PROPERTY RunningTicks
CHECK_DEADLOCK FALSE
