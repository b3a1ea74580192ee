SPECIFICATION FairSpec
CONSTANTS
  Connections = {c1, c2}
  NoConn = NoConn
  MaxSims = 2
  MaxErrors = 2
  SeqBound = 3
  WireBound = 1
INVARIANTS
  FramesGapless
  ShownIsCurrent
  OrphansAccounted
PROPERTY DeletedStreamEnds
