SPECIFICATION Spec
CONSTANTS
  Names = {n1}
  TempIds = {t1, t2}
  Sims = {s1, s2}
  Worlds = {w1, w2}
  WithGoals = {w2}
  MaxCrashes = 0
  None = None
INVARIANT LoadsOneCheckpoint
CHECK_DEADLOCK FALSE
