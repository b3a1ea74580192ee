SPECIFICATION Spec
CONSTANTS
  Names = {n1}
  TempIds = {t1, t2, t3}
  Sims = {s1, s2}
  Worlds = {w1, w2}
  WithGoals = {w2}
  MaxCrashes = 1
  None = None
INVARIANTS
  TempsAccounted
  ListingComplete
PROPERTY KeepsAtomicStore
CHECK_DEADLOCK FALSE
