SPECIFICATION Spec
CONSTANTS
  None = None
  Sims = {s1, s2}
  Room <- MCRoom
  Past = {0, 3, 4}
  Handlers = {h1, h2}
SYMMETRY Symmetry
INVARIANTS
  DeletedOnce
  LeakedOnlyByRace
PROPERTY ListsTheRegistry
CHECK_DEADLOCK FALSE
