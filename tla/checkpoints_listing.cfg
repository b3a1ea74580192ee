SPECIFICATION Spec
CONSTANTS
  Names = {n1}
  TempIds = {t1}
  Sims = {s1}
  Worlds = {w1}
  WithGoals = {w1}
  MaxCrashes = 0
  None = None
INVARIANT ListingNeverFails
CHECK_DEADLOCK FALSE
